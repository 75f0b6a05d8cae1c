------------------------ MODULE NetworkIngress_proofs ------------------------
(***************************************************************************)
(* From a client's bytes to the matching engine, for any messages cut and  *)
(* delayed in any way: the parser computes the numbers that the fields     *)
(* mean, every plain message is handled once, in order, with its own       *)
(* terms, and clients who wait for it are handled under their own ids.     *)
(* Messages with a text 10= before their last field are cut there; they    *)
(* are shown to harm no message behind them.                               *)
(***************************************************************************)
EXTENDS NetworkIngress, Queues_proofs

-----------------------------------------------------------------------------
(* Functions defined by recursion, and what holds at each of their steps.  *)

\* What holds at 0, and with k - 1 of k, holds throughout.
LEMMA Climb ==
  ASSUME NEW n \in Nat, NEW P, 0 \in P, \A k \in 1 .. n : k - 1 \in P => k \in P
  PROVE  \A k \in 0 .. n : k \in P
<1> DEFINE Bad == {k \in 0 .. n : k \notin P}
<1> SUFFICES ASSUME Bad # {} PROVE FALSE
  OBVIOUS
<1>1. PICK k \in Bad : \A j \in Bad : k <= j
  <2>1. Bad \in SUBSET Nat
    OBVIOUS
  <2> HIDE DEF Bad
  <2> QED BY <2>1, LeastNat
<1>2. k \in 1 .. n /\ k - 1 \in 0 .. n
  BY <1>1
<1>3. k - 1 \in P
  BY <1>1, <1>2
<1> QED BY <1>1, <1>2, <1>3

\* f records the values that n steps of F take from base on.
Steps(f, n, S, base, F) ==
  /\ f \in [0 .. n -> S] /\ f[0] = base
  /\ \A k \in 1 .. n : f[k] = F[<<k, f[k - 1]>>]

\* A value can be taken through any number of steps.
LEMMA Iterates ==
  ASSUME NEW n \in Nat, NEW S, NEW base \in S, NEW F \in [(1 .. n) \X S -> S]
  PROVE  \E f : Steps(f, n, S, base, F)
<1> DEFINE Is(f, m) == /\ f \in [0 .. m -> S] /\ f[0] = base
                       /\ \A k \in 1 .. m : f[k] = F[<<k, f[k - 1]>>]
           P == {m \in 0 .. n : \E f : Is(f, m)}
<1>1. 0 \in P
  <2>1. Is([k \in 0 .. 0 |-> base], 0)
    OBVIOUS
  <2> HIDE DEF Is
  <2>2. \E f : Is(f, 0)
    BY <2>1
  <2> QED BY <2>2
<1>2. ASSUME NEW m \in 1 .. n, m - 1 \in P PROVE m \in P
  <2>1. PICK f : Is(f, m - 1)
    BY <1>2
  <2>2. m - 1 \in 0 .. m - 1 /\ f[m - 1] \in S
    BY <2>1
  <2>3. <<m, f[m - 1]>> \in (1 .. n) \X S
    BY <2>2
  <2>4. PICK last \in S : last = F[<<m, f[m - 1]>>]
    BY <2>3
  <2> DEFINE g == [k \in 0 .. m |-> IF k < m THEN f[k] ELSE last]
  <2>5. g \in [0 .. m -> S]
    BY <2>1
  <2>6. g[0] = base
    BY <2>1
  <2>7. ASSUME NEW k \in 1 .. m PROVE g[k] = F[<<k, g[k - 1]>>]
    <3>1. k - 1 \in 0 .. m /\ k - 1 < m /\ g[k - 1] = f[k - 1]
      OBVIOUS
    <3>2. CASE k = m
      BY <2>4, <3>1, <3>2
    <3>3. CASE k # m
      <4>1. k \in 1 .. m - 1 /\ g[k] = f[k]
        BY <3>3
      <4> QED BY <2>1, <3>1, <4>1
    <3> QED BY <3>2, <3>3
  <2> HIDE DEF g
  <2>8. Is(g, m)
    BY <2>5, <2>6, <2>7
  <2> QED BY <2>8
<1>3. n \in P
  <2> HIDE DEF P
  <2>1. \A k \in 0 .. n : k \in P
    BY <1>1, <1>2, Climb
  <2> QED BY <2>1
<1>4. PICK f : Is(f, n)
  BY <1>3
<1>5. Steps(f, n, S, base, F)
  BY <1>4 DEF Steps
<1> QED BY <1>5

\* The powers of ten are what they should be.
LEMMA PowersOfTen ==
  /\ PowerOfTen[0] = 1
  /\ \A n \in Nat : PowerOfTen[n] \in Int /\ PowerOfTen[n + 1] = 10 * PowerOfTen[n]
<1> DEFINE Upto(f, m) == /\ f \in [0 .. m -> Nat] /\ f[0] = 1
                         /\ \A k \in 1 .. m : f[k] = 10 * f[k - 1]
           at(n) == (CHOOSE f : Upto(f, n))[n]
           h == [n \in Nat |-> at(n)]
<1>1. ASSUME NEW m \in Nat PROVE \E f : Upto(f, m)
  <2> DEFINE F == [x \in (1 .. m) \X Nat |-> 10 * x[2]]
  <2>1. F \in [(1 .. m) \X Nat -> Nat]
    OBVIOUS
  <2>2. \A k \in 1 .. m, x \in Nat : F[<<k, x>>] = 10 * x
    OBVIOUS
  <2> HIDE DEF F
  <2>3. PICK f : Steps(f, m, Nat, 1, F)
    <3>1. 1 \in Nat
      OBVIOUS
    <3> QED BY <2>1, <3>1, Iterates
  <2>4. \A k \in 1 .. m : f[k] = 10 * f[k - 1]
    <3> TAKE k \in 1 .. m
    <3>1. k - 1 \in 0 .. m
      OBVIOUS
    <3>2. f[k - 1] \in Nat
      BY <2>3, <3>1 DEF Steps
    <3> QED BY <2>2, <2>3, <3>2 DEF Steps
  <2>5. Upto(f, m)
    BY <2>3, <2>4 DEF Steps
  <2> HIDE DEF Upto
  <2> QED BY <2>5
<1>2. ASSUME NEW l \in Nat, NEW m \in Nat, l <= m, NEW f, Upto(f, l), NEW g, Upto(g, m)
      PROVE  f[l] = g[l]
  <2> DEFINE P == {k \in 0 .. l : f[k] = g[k]}
  <2>1. 0 \in P
    BY <1>2
  <2>2. ASSUME NEW k \in 1 .. l, k - 1 \in P PROVE k \in P
    BY <1>2, <2>2
  <2>3. \A k \in 0 .. l : k \in P
    <3> HIDE DEF P
    <3> QED BY <2>1, <2>2, Climb
  <2> QED BY <2>3
<1>3. ASSUME NEW n \in Nat
      PROVE  \A f : Upto(f, n) => h[n] = f[n]
  <2>1. PICK g : g = CHOOSE f : Upto(f, n)
    OBVIOUS
  <2>3. h[n] = g[n]
    BY <2>1
  <2> HIDE DEF h, Upto
  <2>2. Upto(g, n)
    BY <1>1, <2>1
  <2> QED BY <1>2, <2>2, <2>3
<1>4. h[0] = 1
  BY <1>1, <1>3
<1>5. ASSUME NEW n \in Nat PROVE h[n] \in Nat /\ h[n + 1] = 10 * h[n]
  <2>1. PICK f : Upto(f, n + 1)
    <3>1. n + 1 \in Nat
      OBVIOUS
    <3> HIDE DEF Upto
    <3> QED BY <1>1, <3>1
  <2> DEFINE g == [k \in 0 .. n |-> f[k]]
  <2>2. Upto(g, n) /\ g[n] = f[n]
    <3>1. g \in [0 .. n -> Nat] /\ g[0] = 1 /\ g[n] = f[n]
      BY <2>1
    <3>2. ASSUME NEW k \in 1 .. n PROVE g[k] = 10 * g[k - 1]
      <4>1. k - 1 \in 0 .. n /\ k \in 0 .. n
        OBVIOUS
      <4> QED BY <2>1, <4>1
    <3> QED BY <3>1, <3>2
  <2> HIDE DEF g
  <2>3. h[n + 1] = f[n + 1] /\ h[n] = g[n]
    <3>1. n + 1 \in Nat
      OBVIOUS
    <3> HIDE DEF h, Upto
    <3> QED BY <1>3, <2>1, <2>2, <3>1
  <2> QED BY <2>1, <2>2, <2>3
<1> DEFINE Is(f) == f = [n \in Nat |-> IF n = 0 THEN 1 ELSE 10 * f[n - 1]]
<1>6. h = [n \in Nat |-> h[n]]
  <2> HIDE DEF Is, at
  <2> QED OBVIOUS
<1> HIDE DEF h
<1>7. [n \in Nat |-> h[n]] = [n \in Nat |-> IF n = 0 THEN 1 ELSE 10 * h[n - 1]]
  <2>1. ASSUME NEW n \in Nat PROVE h[n] = IF n = 0 THEN 1 ELSE 10 * h[n - 1]
    <3>1. CASE n # 0
      <4>1. n - 1 \in Nat /\ (n - 1) + 1 = n
        BY <3>1
      <4> QED BY <1>5, <3>1, <4>1
    <3> QED BY <1>4, <3>1
  <2> QED BY <2>1
<1>8. Is(PowerOfTen)
  <2>1. Is(h)
    BY <1>6, <1>7
  <2>2. PowerOfTen = CHOOSE f : Is(f)
    BY DEF PowerOfTen
  <2> QED BY <2>1, <2>2
<1>9. PowerOfTen[0] = 1 /\ \A n \in Nat : PowerOfTen[n + 1] = 10 * PowerOfTen[n]
  BY <1>8
<1>10. ASSUME NEW n \in Nat PROVE PowerOfTen[n] \in Int
  <2> DEFINE P == {k \in 0 .. n : PowerOfTen[k] \in Int}
  <2>1. 0 \in P
    BY <1>9
  <2>2. ASSUME NEW k \in 1 .. n, k - 1 \in P PROVE k \in P
    <3>1. k - 1 \in Nat /\ (k - 1) + 1 = k
      OBVIOUS
    <3> QED BY <1>9, <2>2, <3>1
  <2>3. \A k \in 0 .. n : k \in P
    <3> HIDE DEF P
    <3> QED BY <2>1, <2>2, Climb
  <2> QED BY <2>3
<1> QED BY <1>9, <1>10

-----------------------------------------------------------------------------
(* int64_t arithmetic.                                                     *)

Width == 2 * HalfWord

\* Numbers that differ by a multiple of the width are the same number, and only
\* they are.
LEMMA Wraps ==
  ASSUME NEW x \in Int
  PROVE  /\ Int64(x) \in Int
         /\ \E k \in Int : Int64(x) = x + Width * k
         /\ \A y \in Int : Int64(x) = Int64(y) <=> \E k \in Int : x = y + Width * k
<1>1. Width \in Nat \ {0} /\ HalfWord \in Nat \ {0}
  BY ParserAssumption DEF Width
<1>2. ASSUME NEW a \in Int
      PROVE  Int64(a) \in Int /\ \E k \in Int : Int64(a) = a + Width * k
  <2> DEFINE d == (a + HalfWord) \div Width
             r == (a + HalfWord) % Width
  <2>1. d \in Int /\ r \in Int /\ a + HalfWord = Width * d + r
    BY <1>1
  <2>2. Int64(a) = r - HalfWord
    BY DEF Int64, Width
  <2> HIDE DEF d, r
  <2>3. Width * d \in Int /\ Width * (-d) = -(Width * d) /\ -d \in Int
    BY <1>1, <2>1
  <2>4. Int64(a) = a + Width * (-d)
    BY <1>1, <2>1, <2>2, <2>3
  <2>5. Int64(a) \in Int
    BY <1>1, <2>1, <2>2
  <2>6. \E k \in Int : Int64(a) = a + Width * k
    BY <2>3, <2>4
  <2> QED BY <2>5, <2>6
<1>3. ASSUME NEW a \in Int, NEW b \in Int, NEW k \in Int, a = b + Width * k
      PROVE  Int64(a) = Int64(b)
  <2> DEFINE d == (b + HalfWord) \div Width
             r == (b + HalfWord) % Width
  <2>1. d \in Int /\ r \in 0 .. Width - 1 /\ b + HalfWord = Width * d + r
    BY <1>1
  <2>2. Int64(b) = r - HalfWord /\ Int64(a) = ((a + HalfWord) % Width) - HalfWord
    BY DEF Int64, Width
  <2> HIDE DEF d, r
  <2>3. Width * (d + k) = Width * d + Width * k /\ d + k \in Int /\ Width * k \in Int
        /\ Width * d \in Int
    BY <1>1, <2>1
  <2>4. a + HalfWord = Width * (d + k) + r
    BY <1>1, <1>3, <2>1, <2>3
  <2>5. (Width * (d + k) + r) % Width = r
    BY <1>1, <2>1, <2>3, Remainder
  <2> QED BY <2>2, <2>4, <2>5
<1>4. ASSUME NEW y \in Int, Int64(x) = Int64(y)
      PROVE  \E k \in Int : x = y + Width * k
  <2>1. PICK i \in Int, j \in Int : x + Width * i = y + Width * j
    BY <1>2, <1>4
  <2>2. Width * (j - i) = Width * j - Width * i /\ j - i \in Int /\ Width * i \in Int
        /\ Width * j \in Int
    BY <1>1
  <2>3. x = y + Width * (j - i)
    BY <2>1, <2>2
  <2> QED BY <2>2, <2>3
<1> QED BY <1>2, <1>3, <1>4

\* A digit more: what is worth ten times p and p.
DigitMore(val, c, p, sum) ==
  Int64(val * (10 * p)) = Int64(sum) => Int64(Int64(10 * val + c) * p) = Int64(c * p + sum)

LEMMA DigitAppended ==
  ASSUME NEW val \in Int, NEW c \in Int, NEW p \in Int, NEW sum \in Int
  PROVE  DigitMore(val, c, p, sum)
<1> SUFFICES ASSUME Int64(val * (10 * p)) = Int64(sum)
             PROVE  Int64(Int64(10 * val + c) * p) = Int64(c * p + sum)
  BY DEF DigitMore
<1>1. Width \in Int
  BY ParserAssumption DEF Width
<1>2. val * (10 * p) \in Int /\ 10 * val + c \in Int /\ c * p \in Int /\ c * p + sum \in Int
  OBVIOUS
<1>3. PICK k \in Int : val * (10 * p) = sum + Width * k
  BY <1>2, Wraps
<1>4. PICK j \in Int : Int64(10 * val + c) = (10 * val + c) + Width * j
  BY <1>2, Wraps
<1> DEFINE w == Width
           v == Int64(10 * val + c)
<1>5. v * p = val * (10 * p) + c * p + w * (j * p)
  <2>1. w \in Int /\ v = (10 * val + c) + w * j
    BY <1>1, <1>4
  <2> HIDE DEF w, v
  <2>2. w * j \in Int /\ j * p \in Int /\ (w * j) * p = w * (j * p)
    BY <2>1
  <2>3. ((10 * val + c) + w * j) * p = (10 * val + c) * p + (w * j) * p
    BY <1>2, <2>2
  <2>4. (10 * val + c) * p = val * (10 * p) + c * p
    OBVIOUS
  <2> QED BY <2>1, <2>2, <2>3, <2>4
<1>6. v * p = (c * p + sum) + w * (k + j * p)
  <2>1. w * (k + j * p) = w * k + w * (j * p) /\ w * k \in Int /\ w * (j * p) \in Int
    BY <1>1
  <2> QED BY <1>2, <1>3, <1>5, <2>1
<1>7. v \in Int /\ v * p \in Int /\ k + j * p \in Int
  <2>1. v \in Int
    BY <1>2, Wraps
  <2> HIDE DEF v
  <2> QED BY <2>1
<1> QED BY <1>2, <1>6, <1>7, Wraps

LEMMA Fixed ==
  /\ Int64(0) = 0
  /\ \A x \in Int : Int64(Int64(x)) = Int64(x)
<1>1. Int64(0) = 0
  <2>1. HalfWord \in Nat \ {0}
    BY ParserAssumption
  <2>2. (2 * HalfWord) * 0 + HalfWord = HalfWord /\ HalfWord \in 0 .. 2 * HalfWord - 1
        /\ 2 * HalfWord \in Nat \ {0}
    BY <2>1
  <2>3. HalfWord % (2 * HalfWord) = HalfWord
    <3>1. ((2 * HalfWord) * 0 + HalfWord) % (2 * HalfWord) = HalfWord
      BY <2>2, Remainder
    <3> QED BY <2>2, <3>1
  <2> QED BY <2>1, <2>3 DEF Int64
<1>2. ASSUME NEW x \in Int PROVE Int64(Int64(x)) = Int64(x)
  <2>1. PICK k \in Int : Int64(x) = x + Width * k
    BY Wraps
  <2>2. Int64(x) \in Int
    BY Wraps
  <2> QED BY <2>1, <2>2, Wraps
<1> QED BY <1>1, <1>2

-----------------------------------------------------------------------------
(* What a sequence of digits means.                                        *)

\* What each digit is worth.
Worth(text, ks, rank) == [k \in ks |-> text[k] * PowerOfTen[rank[k]]]

LEMMA Sum10IsTotal ==
  ASSUME NEW text, NEW ks, IsFiniteSet(ks), NEW rank
  PROVE  Sum10(text, ks, rank) = Int64(Total(Worth(text, ks, rank), ks))
<1> DEFINE Matches(it) ==
             it = [s \in SUBSET ks |->
                     IF s = {} THEN 0
                     ELSE text[Some(s)] * PowerOfTen[rank[Some(s)]] + it[s \ {Some(s)}]]
           sum == CHOOSE it : Matches(it)
           w == Worth(text, ks, rank)
<1>1. Sum10(text, ks, rank) = Int64(sum[ks])
  BY DEF Sum10, MapThenSumSet, MapThenFoldSet, Some
<1>2. ASSUME NEW s \in SUBSET ks, s # {}
      PROVE  w[Some(s)] = text[Some(s)] * PowerOfTen[rank[Some(s)]]
  <2>1. Some(s) \in s
    BY <1>2 DEF Some
  <2> QED BY <2>1 DEF Worth
<1>3. ASSUME NEW it PROVE Sums(it, w, ks) <=> Matches(it)
  <2> HIDE DEF w
  <2>1. [s \in SUBSET ks |-> IF s = {} THEN 0 ELSE w[Some(s)] + it[s \ {Some(s)}]]
        = [s \in SUBSET ks |->
             IF s = {} THEN 0
             ELSE text[Some(s)] * PowerOfTen[rank[Some(s)]] + it[s \ {Some(s)}]]
    BY <1>2
  <2> QED BY <2>1 DEF Sums
<1>4. \E it : Sums(it, w, ks)
  BY SumsExist
<1>5. \E it : Matches(it)
  BY <1>3, <1>4
<1> HIDE DEF Matches
<1>6. Matches(sum)
  BY <1>5
<1> HIDE DEF sum, w
<1>7. Sums(sum, w, ks)
  BY <1>3, <1>6
<1>8. Total(w, ks) = sum[ks]
  BY <1>7, TotalIs
<1> QED BY <1>1, <1>8 DEF w

\* The values that parseFastInt goes through.
LEMMA ParseFastIntReads ==
  ASSUME NEW text \in Seq(Int)
  PROVE  \E val : /\ val \in [0 .. Len(text) -> Int] /\ val[0] = 0
                  /\ \A k \in 1 .. Len(text) : val[k] = Int64(10 * val[k - 1] + text[k])
                  /\ ParseFastInt(text) = val[Len(text)]
<1> DEFINE n == Len(text)
           F == [x \in (1 .. n) \X Int |-> Int64(10 * x[2] + text[x[1]])]
           Is(val) == val = [k \in 0 .. n |-> IF k = 0 THEN 0 ELSE Int64(10 * val[k - 1] + text[k])]
           res == CHOOSE val : Is(val)
<1>1. n \in Nat /\ \A k \in 1 .. n : text[k] \in Int
  BY LenProperties
<1>2. ParseFastInt(text) = res[n]
  BY DEF ParseFastInt
<1>3. \A k \in 1 .. n, x \in Int : F[<<k, x>>] = Int64(10 * x + text[k]) /\ F[<<k, x>>] \in Int
  <2> TAKE k \in 1 .. n, x \in Int
  <2>1. F[<<k, x>>] = Int64(10 * x + text[k])
    OBVIOUS
  <2>2. 10 * x + text[k] \in Int
    BY <1>1
  <2> HIDE DEF F
  <2> QED BY <2>1, <2>2, Wraps
<1>4. F \in [(1 .. n) \X Int -> Int]
  <2>1. \A x \in (1 .. n) \X Int : Int64(10 * x[2] + text[x[1]]) \in Int
    <3> TAKE x \in (1 .. n) \X Int
    <3>1. 10 * x[2] + text[x[1]] \in Int
      BY <1>1
    <3> QED BY <3>1, Wraps
  <2> QED BY <2>1
<1> HIDE DEF F, n
<1>5. PICK f : Steps(f, n, Int, 0, F)
  <2>1. 0 \in Int
    OBVIOUS
  <2> QED BY <1>1, <1>4, <2>1, Iterates
<1>6. /\ f \in [0 .. n -> Int] /\ f[0] = 0
      /\ \A k \in 1 .. n : f[k] = Int64(10 * f[k - 1] + text[k])
  <2>1. f \in [0 .. n -> Int] /\ f[0] = 0 /\ \A k \in 1 .. n : f[k] = F[<<k, f[k - 1]>>]
    BY <1>5 DEF Steps
  <2>2. \A k \in 1 .. n : f[k - 1] \in Int
    BY <2>1, <1>1, SMTT(30)
  <2> QED BY <2>1, <2>2, <1>3
<1>7. Is(f)
  <2>1. f = [k \in 0 .. n |-> f[k]]
    BY <1>6
  <2>2. \A k \in 0 .. n : f[k] = IF k = 0 THEN 0 ELSE Int64(10 * f[k - 1] + text[k])
    BY <1>6, <1>1
  <2> QED BY <2>1, <2>2
<1>8. Is(res)
  <2> HIDE DEF Is
  <2> QED BY <1>7
<1> HIDE DEF res
<1>9. \A k \in 0 .. n : res[k] = f[k]
  <2> DEFINE P == {k \in 0 .. n : res[k] = f[k]}
  <2>1. \A k \in 0 .. n : res[k] = IF k = 0 THEN 0 ELSE Int64(10 * res[k - 1] + text[k])
    BY <1>8
  <2> HIDE DEF Is
  <2>2. 0 \in P
    BY <2>1, <1>1, <1>6
  <2>3. ASSUME NEW k \in 1 .. n, k - 1 \in P PROVE k \in P
    BY <2>1, <2>3, <1>1, <1>6
  <2> HIDE DEF P
  <2>4. \A k \in 0 .. n : k \in P
    BY <1>1, <2>2, <2>3, Climb
  <2> QED BY <2>4 DEF P
<1> QED BY <1>1, <1>2, <1>6, <1>9, SMTT(60) DEF n

\* parseFastInt computes the number its digits mean, in 64 bits.
THEOREM ParseFastIntIsIntValue ==
  ASSUME NEW text \in Seq(Int)
  PROVE  ParseFastInt(text) = IntValue(text) /\ ParseFastInt(text) \in Int
<1> DEFINE n == Len(text)
           rank == [k \in 1 .. n |-> n - k]
           w == Worth(text, 1 .. n, rank)
<1>1. n \in Nat /\ DOMAIN text = 1 .. n /\ \A k \in 1 .. n : text[k] \in Int
  BY LenProperties
<1>2. \A k \in 1 .. n : w[k] = text[k] * PowerOfTen[n - k]
  BY DEF Worth
<1>3. w \in [1 .. n -> Int]
  <2>1. \A k \in 1 .. n : text[k] * PowerOfTen[n - k] \in Int
    <3> TAKE k \in 1 .. n
    <3> DEFINE e == n - k
    <3>1. e \in Nat
      BY <1>1
    <3> HIDE DEF e
    <3>2. PowerOfTen[e] \in Int
      BY <3>1, PowersOfTen
    <3> QED BY <1>1, <3>2 DEF e
  <2> QED BY <2>1, <1>2 DEF Worth
<1>4. IntValue(text) = Int64(Total(w, 1 .. n))
  <2>1. IsFiniteSet(1 .. n)
    BY <1>1, FS_Interval
  <2>2. IntValue(text) = Sum10(text, 1 .. n, rank)
    BY <1>1 DEF IntValue
  <2> QED BY <2>1, <2>2, Sum10IsTotal
<1>5. PICK val : /\ val \in [0 .. n -> Int] /\ val[0] = 0
                 /\ \A k \in 1 .. n : val[k] = Int64(10 * val[k - 1] + text[k])
                 /\ ParseFastInt(text) = val[n]
  BY ParseFastIntReads
<1> HIDE DEF w, n
<1> DEFINE P == {k \in 0 .. n : Int64(val[k] * PowerOfTen[n - k]) = Int64(Total(w, 1 .. k))}
<1>6. 0 \in P
  <2>1. 1 .. 0 = {} /\ Total(w, {}) = 0
    BY TotalEmpty
  <2>2. val[0] * PowerOfTen[n - 0] = 0
    <3>1. PICK e \in Nat : e = n - 0
      BY <1>1
    <3>2. PowerOfTen[e] \in Int
      BY PowersOfTen
    <3> QED BY <1>5, <3>1, <3>2
  <2> QED BY <1>1, <2>1, <2>2
<1>7. ASSUME NEW k \in 1 .. n, k - 1 \in P PROVE k \in P
  <2> DEFINE p == PowerOfTen[n - k]
             sum == Total(w, 1 .. k - 1)
  <2>1. n - k \in Nat /\ n - (k - 1) = (n - k) + 1 /\ k - 1 \in 0 .. n
    BY <1>1
  <2>2. PowerOfTen[n - (k - 1)] = 10 * p /\ p \in Int
    <3>1. PICK e \in Nat : e = n - k
      BY <1>1
    <3>2. n - (k - 1) = e + 1
      BY <1>1, <3>1
    <3>3. PowerOfTen[e] \in Int /\ PowerOfTen[e + 1] = 10 * PowerOfTen[e]
      BY PowersOfTen
    <3> QED BY <3>1, <3>2, <3>3
  <2>3. 1 .. k \in SUBSET (1 .. n) /\ k \in 1 .. k /\ (1 .. k) \ {k} = 1 .. k - 1
        /\ 1 .. k - 1 \in SUBSET (1 .. n)
    BY <1>1
  <2>4. Total(w, 1 .. k) = w[k] + sum /\ sum \in Int
    <3> DEFINE ks == 1 .. k
    <3>1. IsFiniteSet(ks) /\ k \in ks
      BY FS_Interval
    <3>2. \A x \in ks : w[x] \in Int
      BY <1>1, <1>3
    <3> HIDE DEF ks, P
    <3>3. /\ Total(w, ks \ {k}) \in Int
          /\ Total(w, ks) = w[k] + Total(w, ks \ {k})
      BY <3>1, <3>2, TotalTake, Zenon
    <3> QED BY <2>3, <3>3 DEF ks
  <2>5. w[k] = text[k] * p
    BY <1>2
  <2>6. Int64(val[k - 1] * (10 * p)) = Int64(sum)
    BY <1>7, <2>2
  <2>7. val[k - 1] \in Int /\ text[k] \in Int
    BY <1>1, <1>5, <2>1
  <2>8. val[k] = Int64(10 * val[k - 1] + text[k])
    BY <1>5
  <2> HIDE DEF p, sum, P
  <2>9. Int64(Int64(10 * val[k - 1] + text[k]) * p) = Int64(text[k] * p + sum)
    <3>1. DigitMore(val[k - 1], text[k], p, sum)
      BY <2>2, <2>4, <2>7, DigitAppended
    <3> QED BY <2>6, <3>1 DEF DigitMore
  <2>10. Int64(val[k] * p) = Int64(Total(w, 1 .. k))
    BY <2>4, <2>5, <2>8, <2>9
  <2> QED BY <1>1, <2>10 DEF P, p
<1>8. n \in P
  <2> HIDE DEF P
  <2>1. \A k \in 0 .. n : k \in P
    BY <1>1, <1>6, <1>7, Climb
  <2> QED BY <1>1, <2>1
<1>9. Int64(val[n]) = Int64(Total(w, 1 .. n)) /\ val[n] \in Int
  <2>1. n - n = 0 /\ val[n] \in Int
    BY <1>1, <1>5
  <2>2. val[n] * PowerOfTen[n - n] = val[n]
    <3>1. PowerOfTen[n - n] = 1
      BY <2>1, PowersOfTen
    <3> QED BY <2>1, <3>1
  <2> QED BY <1>8, <2>1, <2>2
<1>10. Int64(val[n]) = val[n]
  <2>1. CASE n = 0
    BY <1>5, <2>1, Fixed
  <2>2. CASE n # 0
    <3>1. n \in 1 .. n /\ n - 1 \in 0 .. n
      BY <1>1, <2>2
    <3>2. 10 * val[n - 1] + text[n] \in Int
      BY <1>1, <1>5, <3>1
    <3> QED BY <1>5, <3>1, <3>2, Fixed
  <2> QED BY <2>1, <2>2
<1> QED BY <1>4, <1>5, <1>9, <1>10 DEF n

\* The states that parseFastDecimal goes through.
DecimalState == [val : Int, decimalCount : 0 .. impliedDecimals, seenDot : BOOLEAN]

LEMMA DecimalReadType ==
  ASSUME NEW s \in DecimalState, NEW c \in Int
  PROVE  DecimalRead(s, c) \in DecimalState
<1>1. Int64(10 * s.val + c) \in Int
  <2>1. 10 * s.val + c \in Int
    BY DEF DecimalState
  <2> QED BY <2>1, Wraps
<1>2. impliedDecimals \in Nat \ {0}
  BY ParserAssumption
<1>3. CASE s.decimalCount = impliedDecimals
  BY <1>3 DEF DecimalRead
<1>4. CASE s.decimalCount # impliedDecimals /\ c = Dot
  <2>1. DecimalRead(s, c) = [s EXCEPT !.seenDot = TRUE]
    BY <1>4 DEF DecimalRead
  <2> QED BY <2>1 DEF DecimalState
<1>5. CASE s.decimalCount # impliedDecimals /\ c # Dot
  <2> DEFINE v == Int64(10 * s.val + c)
             d == s.decimalCount + (IF s.seenDot THEN 1 ELSE 0)
  <2>1. DecimalRead(s, c) = [s EXCEPT !.val = v, !.decimalCount = d]
    BY <1>5 DEF DecimalRead
  <2>2. v \in Int /\ d \in 0 .. impliedDecimals
    <3>1. s.decimalCount \in 0 .. impliedDecimals /\ s.seenDot \in BOOLEAN
      BY DEF DecimalState
    <3>2. s.decimalCount + 1 \in 0 .. impliedDecimals
      BY <1>2, <1>5, <3>1
    <3> QED BY <1>1, <3>1, <3>2
  <2> HIDE DEF v, d
  <2> QED BY <2>1, <2>2 DEF DecimalState
<1> QED BY <1>3, <1>4, <1>5

LEMMA ParseFastDecimalReads ==
  ASSUME NEW text \in Seq(Int)
  PROVE  \E f : /\ f \in [0 .. Len(text) -> DecimalState]
                /\ f[0] = [val |-> 0, decimalCount |-> 0, seenDot |-> FALSE]
                /\ \A k \in 1 .. Len(text) : f[k] = DecimalRead(f[k - 1], text[k])
                /\ ParseFastDecimal(text)
                     = Int64(f[Len(text)].val
                               * PowerOfTen[impliedDecimals - f[Len(text)].decimalCount])
<1> DEFINE n == Len(text)
           start == [val |-> 0, decimalCount |-> 0, seenDot |-> FALSE]
           F == [x \in (1 .. n) \X DecimalState |-> DecimalRead(x[2], text[x[1]])]
           Is(read) == read = [k \in 0 .. n |-> IF k = 0 THEN start
                                                ELSE DecimalRead(read[k - 1], text[k])]
           res == CHOOSE read : Is(read)
<1>1. n \in Nat /\ \A k \in 1 .. n : text[k] \in Int
  BY LenProperties
<1>2. ParseFastDecimal(text)
        = Int64(res[n].val * PowerOfTen[impliedDecimals - res[n].decimalCount])
  BY DEF ParseFastDecimal
<1>3. start \in DecimalState
  BY ParserAssumption DEF DecimalState
<1>4. \A k \in 1 .. n, x \in DecimalState : F[<<k, x>>] = DecimalRead(x, text[k])
  OBVIOUS
<1>5. F \in [(1 .. n) \X DecimalState -> DecimalState]
  <2>1. \A x \in (1 .. n) \X DecimalState : DecimalRead(x[2], text[x[1]]) \in DecimalState
    <3> TAKE x \in (1 .. n) \X DecimalState
    <3>1. x[2] \in DecimalState /\ text[x[1]] \in Int
      BY <1>1
    <3> QED BY <3>1, DecimalReadType
  <2> QED BY <2>1
<1> HIDE DEF F, n, start
<1>6. PICK f : Steps(f, n, DecimalState, start, F)
  BY <1>1, <1>3, <1>5, Iterates
<1>7. /\ f \in [0 .. n -> DecimalState] /\ f[0] = start
      /\ \A k \in 1 .. n : f[k] = DecimalRead(f[k - 1], text[k])
  <2>1. f \in [0 .. n -> DecimalState] /\ f[0] = start
        /\ \A k \in 1 .. n : f[k] = F[<<k, f[k - 1]>>]
    BY <1>6 DEF Steps
  <2>2. \A k \in 1 .. n : f[k - 1] \in DecimalState
    BY <2>1, <1>1
  <2> QED BY <2>1, <2>2, <1>4
<1>8. Is(f)
  <2>1. f = [k \in 0 .. n |-> f[k]]
    BY <1>7
  <2>2. \A k \in 0 .. n : f[k] = IF k = 0 THEN start ELSE DecimalRead(f[k - 1], text[k])
    BY <1>7, <1>1
  <2> QED BY <2>1, <2>2
<1>9. Is(res)
  <2> HIDE DEF Is
  <2> QED BY <1>8
<1> HIDE DEF res
<1>10. \A k \in 0 .. n : res[k] = f[k]
  <2> DEFINE P == {k \in 0 .. n : res[k] = f[k]}
  <2>1. \A k \in 0 .. n : res[k] = IF k = 0 THEN start ELSE DecimalRead(res[k - 1], text[k])
    BY <1>9
  <2> HIDE DEF Is
  <2>2. 0 \in P
    BY <2>1, <1>1, <1>7
  <2>3. ASSUME NEW k \in 1 .. n, k - 1 \in P PROVE k \in P
    BY <2>1, <2>3, <1>1, <1>7
  <2> HIDE DEF P
  <2>4. \A k \in 0 .. n : k \in P
    BY <1>1, <2>2, <2>3, Climb
  <2> QED BY <2>4 DEF P
<1>11. res[n] = f[n]
  BY <1>1, <1>10
<1> QED BY <1>2, <1>7, <1>11 DEF n, start

LEMMA FirstDotIs ==
  ASSUME NEW text \in Seq(Int)
  PROVE  /\ FirstDot(text) \in 1 .. Len(text) + 1
         /\ \A k \in DOMAIN text : text[k] = Dot => FirstDot(text) <= k
         /\ FirstDot(text) <= Len(text) => text[FirstDot(text)] = Dot
<1> DEFINE dots == {k \in DOMAIN text : text[k] = Dot}
<1>1. Len(text) \in Nat /\ DOMAIN text = 1 .. Len(text)
  BY LenProperties
<1>2. FirstDot(text) = IF dots = {} THEN Len(text) + 1 ELSE Min(dots)
  BY DEF FirstDot
<1>3. CASE dots = {}
  BY <1>1, <1>2, <1>3
<1>4. CASE dots # {}
  <2>1. dots \in SUBSET Nat
    BY <1>1
  <2> HIDE DEF dots
  <2>2. \E n \in dots : \A k \in dots : n <= k
    BY <1>4, <2>1, LeastNat
  <2>3. Min(dots) \in dots /\ \A k \in dots : Min(dots) <= k
    BY <2>2 DEF Min
  <2> QED BY <1>1, <1>2, <1>4, <2>3 DEF dots
<1> QED BY <1>3, <1>4

\* The decimals up to each place are counted one by one.
LEMMA CountDecimals ==
  ASSUME NEW text \in Seq(Int)
  PROVE  /\ \A k \in 0 .. Len(text) :
              /\ Cardinality(Decimals(text, k)) \in Nat
              /\ k <= FirstDot(text) => Cardinality(Decimals(text, k)) = 0
         /\ \A k \in 1 .. Len(text) :
              Cardinality(Decimals(text, k))
                = Cardinality(Decimals(text, k - 1))
                    + (IF text[k] # Dot /\ FirstDot(text) < k THEN 1 ELSE 0)
<1>1. Len(text) \in Nat /\ DOMAIN text = 1 .. Len(text) /\ FirstDot(text) \in Int
  BY LenProperties, FirstDotIs
<1>2. ASSUME NEW k \in 0 .. Len(text)
      PROVE  IsFiniteSet(Decimals(text, k)) /\ Cardinality(Decimals(text, k)) \in Nat
  <2>1. IsFiniteSet(1 .. Len(text))
    BY <1>1, FS_Interval
  <2>2. Decimals(text, k) \in SUBSET (1 .. Len(text))
    BY <1>1 DEF Decimals
  <2>3. IsFiniteSet(Decimals(text, k))
    BY <2>1, <2>2, FS_Subset
  <2> QED BY <2>3, FS_CardinalityType
<1>3. ASSUME NEW k \in 0 .. Len(text), k <= FirstDot(text)
      PROVE  Cardinality(Decimals(text, k)) = 0
  <2>1. Decimals(text, k) = {}
    BY <1>1, <1>3 DEF Decimals
  <2> QED BY <2>1, FS_EmptySet
<1>4. ASSUME NEW k \in 1 .. Len(text)
      PROVE  Cardinality(Decimals(text, k))
               = Cardinality(Decimals(text, k - 1))
                   + (IF text[k] # Dot /\ FirstDot(text) < k THEN 1 ELSE 0)
  <2>1. k - 1 \in 0 .. Len(text)
    BY <1>1
  <2>2. CASE text[k] # Dot /\ FirstDot(text) < k
    <3>1. Decimals(text, k) = Decimals(text, k - 1) \cup {k} /\ k \notin Decimals(text, k - 1)
      BY <1>1, <2>2 DEF Decimals
    <3>2. IsFiniteSet(Decimals(text, k - 1))
      BY <1>2, <2>1
    <3> QED BY <2>2, <3>1, <3>2, FS_AddElement
  <2>3. CASE ~(text[k] # Dot /\ FirstDot(text) < k)
    <3>1. Decimals(text, k) = Decimals(text, k - 1)
      BY <1>1, <2>3 DEF Decimals
    <3>2. Cardinality(Decimals(text, k - 1)) \in Nat
      BY <1>2, <2>1
    <3> QED BY <2>3, <3>1, <3>2
  <2> QED BY <2>2, <2>3
<1> QED BY <1>2, <1>3, <1>4

\* parseFastDecimal computes the number its digits mean, cut to the implied
\* decimals, in 64 bits.
THEOREM ParseFastDecimalIsDecimalValue ==
  ASSUME NEW text \in Seq(Int)
  PROVE  ParseFastDecimal(text) = DecimalValue(text)
<1> DEFINE n == Len(text)
           D == impliedDecimals
           first == FirstDot(text)
           C(k) == Cardinality(Decimals(text, k))
           rank == Rank(text)
           K(k) == {j \in 1 .. k : text[j] # Dot /\ rank[j] >= 0}
           w == Worth(text, K(n), rank)
<1>1. /\ n \in Nat /\ DOMAIN text = 1 .. n /\ (\A k \in 1 .. n : text[k] \in Int)
      /\ D \in Nat \ {0}
      /\ first \in 1 .. n + 1 /\ \A k \in 1 .. n : text[k] = Dot => first <= k
      /\ first <= n => text[first] = Dot
  BY LenProperties, FirstDotIs, ParserAssumption
<1>2. /\ \A k \in 0 .. n : C(k) \in Nat /\ (k <= first => C(k) = 0)
      /\ \A k \in 1 .. n : C(k) = C(k - 1) + (IF text[k] # Dot /\ first < k THEN 1 ELSE 0)
  BY CountDecimals
<1>3. \A k \in 1 .. n : rank[k] = IF k < first THEN D + first - 1 - k ELSE D - C(k)
  BY <1>1 DEF Rank
<1>4. DecimalValue(text) = Int64(Total(w, K(n)))
  <2>1. K(n) = {k \in DOMAIN text : text[k] # Dot /\ Rank(text)[k] >= 0}
    BY <1>1
  <2>2. DecimalValue(text) = Sum10(text, K(n), rank)
    BY <2>1 DEF DecimalValue
  <2>3. IsFiniteSet(K(n))
    <3>1. IsFiniteSet(1 .. n) /\ K(n) \in SUBSET (1 .. n)
      BY <1>1, FS_Interval
    <3> QED BY <3>1, FS_Subset
  <2> QED BY <2>2, <2>3, Sum10IsTotal
<1>5. PICK f : /\ f \in [0 .. n -> DecimalState]
               /\ f[0] = [val |-> 0, decimalCount |-> 0, seenDot |-> FALSE]
               /\ \A k \in 1 .. n : f[k] = DecimalRead(f[k - 1], text[k])
               /\ ParseFastDecimal(text) = Int64(f[n].val * PowerOfTen[D - f[n].decimalCount])
  BY ParseFastDecimalReads
<1> HIDE DEF n, D, first, C, rank
<1>6. \A k \in 1 .. n : rank[k] \in Int
  BY <1>1, <1>2, <1>3
<1>7. \A k \in K(n) : w[k] = text[k] * PowerOfTen[rank[k]] /\ w[k] \in Int
  <2> TAKE k \in K(n)
  <2> DEFINE e == rank[k]
  <2>1. e \in Nat
    BY <1>1, <1>6
  <2> HIDE DEF e
  <2>2. PowerOfTen[e] \in Int
    BY <2>1, PowersOfTen
  <2>3. text[k] \in Int
    BY <1>1
  <2>4. w[k] = text[k] * PowerOfTen[rank[k]]
    BY DEF Worth
  <2> QED BY <2>2, <2>3, <2>4 DEF e
<1> HIDE DEF w
<1> DEFINE e(k) == IF k < first THEN D + first - 1 - k ELSE D - f[k].decimalCount
           Right(k) == /\ f[k].seenDot = (IF first <= k THEN TRUE ELSE FALSE)
                       /\ f[k].decimalCount = IF C(k) <= D THEN C(k) ELSE D
                       /\ Int64(f[k].val * PowerOfTen[e(k)]) = Int64(Total(w, K(k)))
           P == {k \in 0 .. n : Right(k)}
<1>8. 0 \in P
  <2>1. K(0) = {} /\ Total(w, {}) = 0
    BY TotalEmpty
  <2>2. C(0) = 0 /\ 0 \in 0 .. n /\ e(0) \in Nat
    BY <1>1, <1>2
  <2>3. f[0].val * PowerOfTen[e(0)] = 0
    <3> DEFINE x == e(0)
    <3>1. x \in Nat
      BY <2>2
    <3> HIDE DEF x, e
    <3>2. PowerOfTen[x] \in Int
      BY <3>1, PowersOfTen
    <3>3. f[0].val = 0
      BY <1>5
    <3> QED BY <3>2, <3>3 DEF x
  <2>4. Int64(f[0].val * PowerOfTen[e(0)]) = Int64(Total(w, K(0)))
    <3> HIDE DEF e, K
    <3> QED BY <2>1, <2>3
  <2>5. f[0].seenDot = (IF first <= 0 THEN TRUE ELSE FALSE)
    <3>1. ~(first <= 0)
      BY <1>1
    <3> QED BY <1>5, <3>1
  <2>6. f[0].decimalCount = IF C(0) <= D THEN C(0) ELSE D
    BY <1>1, <1>5, <2>2
  <2>7. Right(0)
    BY <2>4, <2>5, <2>6
  <2> HIDE DEF Right
  <2> QED BY <2>2, <2>7
<1>9. ASSUME NEW k \in 1 .. n, Right(k - 1) PROVE Right(k)
  <2> DEFINE s == f[k - 1]
             c == text[k]
  <2>1. k - 1 \in 0 .. n /\ k \in 0 .. n /\ s \in DecimalState /\ c \in Int
    BY <1>1, <1>5
  <2>2. f[k] = DecimalRead(s, c)
    BY <1>5
  <2>3. /\ s.val \in Int /\ s.decimalCount \in 0 .. D /\ s.seenDot = (IF first <= k - 1 THEN TRUE ELSE FALSE)
        /\ s.decimalCount = IF C(k - 1) <= D THEN C(k - 1) ELSE D
        /\ Int64(s.val * PowerOfTen[e(k - 1)]) = Int64(Total(w, K(k - 1)))
    BY <1>9, <2>1 DEF DecimalState, D
  <2>4. /\ C(k - 1) \in Nat /\ C(k) \in Nat /\ (k <= first => C(k) = 0)
        /\ (k - 1 <= first => C(k - 1) = 0)
        /\ C(k) = C(k - 1) + (IF c # Dot /\ first < k THEN 1 ELSE 0)
    BY <1>2, <2>1
  <2>5. c = Dot => first <= k
    BY <1>1
  <2>6. rank[k] = IF k < first THEN D + first - 1 - k ELSE D - C(k)
    BY <1>3
  <2>7. first \in Int /\ D \in Nat \ {0} /\ k \in Int /\ (k = first => c = Dot)
    BY <1>1
  <2>8. K(k) = IF c # Dot /\ rank[k] >= 0 THEN K(k - 1) \cup {k} ELSE K(k - 1)
    BY <2>7
  <2>9. CASE s.decimalCount = D
    <3>1. f[k] = s
      BY <2>2, <2>9 DEF DecimalRead, D
    <3>2. first < k
      <4> HIDE DEF s
      <4>1. C(k - 1) >= D
        BY <2>3, <2>4, <2>7, <2>9
      <4>2. ~(k - 1 <= first)
        BY <2>4, <2>7, <4>1
      <4> QED BY <2>7, <4>2
    <3>3. f[k].seenDot = (IF first <= k THEN TRUE ELSE FALSE)
          /\ f[k].decimalCount = IF C(k) <= D THEN C(k) ELSE D
      <4> HIDE DEF s
      <4>1. first <= k - 1 /\ first <= k /\ C(k) >= D
        BY <2>3, <2>4, <2>7, <2>9, <3>2
      <4>2. f[k].seenDot = TRUE /\ f[k].decimalCount = D
        BY <2>3, <2>9, <3>1, <4>1
      <4>3. (IF C(k) <= D THEN C(k) ELSE D) = D
        BY <2>4, <2>7, <4>1
      <4> QED BY <4>1, <4>2, <4>3
    <3>4. ~(c # Dot /\ rank[k] >= 0)
      BY <2>3, <2>4, <2>6, <2>7, <2>9, <3>2
    <3>5. K(k) = K(k - 1)
      BY <2>8, <3>4
    <3>6. e(k) = e(k - 1)
      BY <2>1, <2>7, <2>9, <3>1, <3>2, <2>3
    <3> HIDE DEF e, K
    <3>7. Int64(f[k].val * PowerOfTen[e(k)]) = Int64(Total(w, K(k)))
      BY <2>3, <3>1, <3>5, <3>6
    <3> QED BY <3>3, <3>7
  <2>10. CASE s.decimalCount # D /\ c = Dot
    <3>1. f[k] = [s EXCEPT !.seenDot = TRUE]
      BY <2>2, <2>10 DEF DecimalRead, D
    <3>2. f[k].seenDot = TRUE /\ f[k].val = s.val /\ f[k].decimalCount = s.decimalCount
      BY <2>1, <3>1 DEF DecimalState
    <3>3. f[k].seenDot = (IF first <= k THEN TRUE ELSE FALSE) /\ f[k].decimalCount = IF C(k) <= D THEN C(k) ELSE D
      <4>1. first <= k /\ C(k) = C(k - 1)
        BY <2>4, <2>5, <2>7, <2>10
      <4> HIDE DEF s
      <4> QED BY <2>3, <3>2, <4>1
    <3>4. K(k) = K(k - 1)
      BY <2>8, <2>10
    <3>5. e(k) = e(k - 1)
      <4>1. CASE first = k
        <5>1. e(k) = D - C(k - 1)
          BY <2>3, <2>4, <2>7, <2>10, <3>2, <4>1
        <5>2. C(k - 1) = 0
          BY <2>4, <2>7, <4>1
        <5>3. e(k - 1) = D
          BY <2>7, <4>1
        <5> QED BY <2>7, <5>1, <5>2, <5>3
      <4>2. CASE first # k
        BY <2>5, <2>7, <2>10, <3>2, <4>2
      <4> QED BY <4>1, <4>2
    <3> HIDE DEF e, K
    <3>6. Int64(f[k].val * PowerOfTen[e(k)]) = Int64(Total(w, K(k)))
      BY <2>3, <3>2, <3>4, <3>5
    <3> QED BY <3>3, <3>6
  <2>11. CASE s.decimalCount # D /\ c # Dot
    <3> DEFINE v == Int64(10 * s.val + c)
               d == s.decimalCount + (IF s.seenDot THEN 1 ELSE 0)
    <3>1. f[k] = [s EXCEPT !.val = v, !.decimalCount = d]
      BY <2>2, <2>11 DEF DecimalRead, D
    <3>2. f[k].seenDot = s.seenDot /\ f[k].val = v /\ f[k].decimalCount = d
      <4> HIDE DEF v, d
      <4> QED BY <2>1, <3>1 DEF DecimalState
    <3>3. k # first
      BY <2>7, <2>11
    <3>4. f[k].seenDot = (IF first <= k THEN TRUE ELSE FALSE) /\ f[k].decimalCount = IF C(k) <= D THEN C(k) ELSE D
      <4> HIDE DEF v, s
      <4>1. (first <= k - 1) <=> (first <= k)
        BY <2>7, <3>3
      <4>2. f[k].seenDot = (IF first <= k THEN TRUE ELSE FALSE)
        BY <2>3, <3>2, <4>1
      <4>3. CASE first <= k
        <5>1. C(k) = C(k - 1) + 1 /\ s.seenDot = TRUE
          BY <2>3, <2>4, <2>7, <2>11, <3>3, <4>1, <4>3
        <5>2. C(k - 1) < D /\ s.decimalCount = C(k - 1)
          BY <2>3, <2>4, <2>7, <2>11
        <5>3. f[k].decimalCount = C(k) /\ C(k) <= D
          BY <2>4, <2>7, <3>2, <5>1, <5>2
        <5> QED BY <4>2, <5>3
      <4>4. CASE ~(first <= k)
        <5>1. C(k) = 0 /\ C(k - 1) = 0 /\ s.seenDot = FALSE
          BY <2>3, <2>4, <2>7, <4>1, <4>4
        <5>2. s.decimalCount = 0
          BY <2>3, <2>7, <5>1
        <5>3. f[k].decimalCount = 0
          BY <3>2, <5>1, <5>2
        <5> QED BY <2>7, <4>2, <5>1, <5>3
      <4> QED BY <4>3, <4>4
    <3>5. e(k) = rank[k] /\ rank[k] >= 0 /\ e(k - 1) = e(k) + 1 /\ e(k) \in Nat
      <4>1. CASE k < first
        BY <2>6, <2>7, <4>1
      <4>2. CASE first < k
        <5>1. C(k - 1) < D /\ s.decimalCount = C(k - 1) /\ C(k) = C(k - 1) + 1
          BY <2>3, <2>4, <2>7, <2>11, <4>2
        <5>2. f[k].decimalCount = C(k)
          BY <2>4, <2>7, <3>4, <5>1
        <5> QED BY <2>4, <2>6, <2>7, <4>2, <5>1, <5>2
      <4> QED BY <2>7, <3>3, <4>1, <4>2
    <3>6. K(k) = K(k - 1) \cup {k}
      BY <2>8, <2>11, <3>5
    <3>7. K(k) \ {k} = K(k - 1) /\ k \in K(k) /\ k \in K(n)
      BY <1>1, <2>7, <3>6
    <3> DEFINE S == K(k)
               x == e(k)
               p == PowerOfTen[x]
               sum == Total(w, K(k - 1))
    <3>8. IsFiniteSet(S) /\ k \in S
      <4>1. IsFiniteSet(1 .. k) /\ K(k) \in SUBSET (1 .. k)
        BY <2>7, FS_Interval
      <4>2. IsFiniteSet(K(k))
        BY <4>1, FS_Subset
      <4> QED BY <4>2, <3>7
    <3>9. \A j \in S : w[j] \in Int
      <4>1. K(k) \subseteq K(n)
        BY <1>1
      <4> QED BY <1>7, <4>1
    <3>10. sum \in Int /\ Total(w, S) = w[k] + sum
      <4> HIDE DEF S
      <4>1. Total(w, S \ {k}) \in Int /\ Total(w, S) = w[k] + Total(w, S \ {k})
        BY <3>8, <3>9, TotalTake, Zenon
      <4>2. S \ {k} = K(k - 1)
        BY <3>7 DEF S
      <4> QED BY <4>1, <4>2
    <3>11. p \in Int /\ PowerOfTen[e(k - 1)] = 10 * p
      <4>1. x \in Nat /\ e(k - 1) = x + 1
        BY <3>5
      <4> HIDE DEF x, e
      <4>2. PowerOfTen[x] \in Int /\ PowerOfTen[x + 1] = 10 * PowerOfTen[x]
        BY <4>1, PowersOfTen
      <4> QED BY <4>1, <4>2
    <3>12. w[k] = c * p
      BY <1>7, <3>5, <3>7
    <3> HIDE DEF p, x, S, K, sum, e
    <3>13. Int64(s.val * (10 * p)) = Int64(sum)
      BY <2>3, <3>11 DEF sum
    <3>14. Int64(Int64(10 * s.val + c) * p) = Int64(c * p + sum)
      <4> DEFINE y == s.val
      <4>1. y \in Int /\ c \in Int /\ p \in Int /\ sum \in Int
        BY <2>1, <2>3, <3>10, <3>11
      <4>2. Int64(y * (10 * p)) = Int64(sum)
        BY <3>13
      <4> HIDE DEF s, c, v, d, y, P, Right
      <4>3. DigitMore(y, c, p, sum)
        BY <4>1, DigitAppended
      <4> QED BY <4>2, <4>3 DEF y, DigitMore
    <3>15. Int64(f[k].val * p) = Int64(Total(w, S))
      BY <3>2, <3>10, <3>12, <3>14
    <3>16. Int64(f[k].val * PowerOfTen[e(k)]) = Int64(Total(w, K(k)))
      BY <3>15 DEF p, x, S
    <3> QED BY <3>4, <3>16
  <2> QED BY <2>9, <2>10, <2>11
<1>10. n \in P
  <2>1. ASSUME NEW k \in 1 .. n, k - 1 \in P PROVE k \in P
    <3> HIDE DEF Right
    <3>1. Right(k)
      BY <1>9, <2>1
    <3> QED BY <1>1, <3>1
  <2> HIDE DEF P
  <2>2. \A k \in 0 .. n : k \in P
    BY <1>1, <1>8, <2>1, Climb
  <2> QED BY <1>1, <2>2
<1>11. e(n) = D - f[n].decimalCount
  <2>1. CASE n < first
    <3>1. first = n + 1 /\ C(n) = 0
      BY <1>1, <1>2, <2>1
    <3>2. f[n].decimalCount = 0
      BY <1>1, <1>10, <3>1
    <3> QED BY <1>1, <3>1, <3>2
  <2>2. CASE ~(n < first)
    BY <2>2
  <2> QED BY <2>1, <2>2
<1>12. Int64(f[n].val * PowerOfTen[e(n)]) = Int64(Total(w, K(n)))
  BY <1>10
<1> QED BY <1>4, <1>5, <1>11, <1>12

\* What it computes is a number.
LEMMA ParseFastDecimalType ==
  ASSUME NEW text \in Seq(Int)
  PROVE  ParseFastDecimal(text) \in Int
<1>1. PICK f : /\ f \in [0 .. Len(text) -> DecimalState]
               /\ ParseFastDecimal(text)
                    = Int64(f[Len(text)].val
                              * PowerOfTen[impliedDecimals - f[Len(text)].decimalCount])
  BY ParseFastDecimalReads
<1>2. Len(text) \in Nat
  BY LenProperties
<1> DEFINE s == f[Len(text)]
           e == impliedDecimals - s.decimalCount
<1>3. s.val \in Int /\ e \in Nat
  BY <1>1, <1>2, ParserAssumption DEF DecimalState
<1> HIDE DEF e, s
<1>4. PowerOfTen[e] \in Int
  BY <1>3, PowersOfTen
<1>5. Int64(s.val * PowerOfTen[e]) \in Int
  <2>1. s.val * PowerOfTen[e] \in Int
    BY <1>3, <1>4
  <2> QED BY <2>1, Wraps
<1> QED BY <1>1, <1>5 DEF e, s

\* No digits mean zero.
LEMMA NoDigits ==
  /\ ParseFastInt(<<>>) = 0 /\ IntValue(<<>>) = 0 /\ DecimalValue(<<>>) = 0
<1>1. <<>> \in Seq(Int) /\ Len(<<>>) = 0
  OBVIOUS
<1>2. ParseFastInt(<<>>) = 0
  BY <1>1, ParseFastIntReads
<1>3. ParseFastDecimal(<<>>) = 0
  <2>1. PICK f : /\ f[0] = [val |-> 0, decimalCount |-> 0, seenDot |-> FALSE]
                 /\ ParseFastDecimal(<<>>)
                      = Int64(f[0].val * PowerOfTen[impliedDecimals - f[0].decimalCount])
    BY <1>1, ParseFastDecimalReads
  <2> DEFINE e == impliedDecimals - f[0].decimalCount
  <2>2. f[0].val = 0 /\ e \in Nat
    BY <2>1, ParserAssumption
  <2> HIDE DEF e
  <2>3. PowerOfTen[e] \in Int
    BY <2>2, PowersOfTen
  <2>4. f[0].val * PowerOfTen[e] = 0
    BY <2>2, <2>3
  <2> QED BY <2>1, <2>4, Fixed DEF e
<1>4. IntValue(<<>>) = ParseFastInt(<<>>)
  BY <1>1, ParseFastIntIsIntValue
<1>5. DecimalValue(<<>>) = ParseFastDecimal(<<>>)
  BY <1>1, ParseFastDecimalIsDecimalValue
<1> QED BY <1>2, <1>3, <1>4, <1>5

-----------------------------------------------------------------------------
(* What the fields of a message are read as.  The tags are those which the  *)
(* parser takes the texts for.                                             *)

ReadValue(frame, t) ==
  LET at == {k \in DOMAIN frame : /\ k % 2 = 0 /\ TagOf(frame[k - 1].text) = t
                                  /\ t \in CharTags => frame[k].text # <<>>}
  IN IF at = {} THEN <<>> ELSE frame[Max(at)].text

ReadTerms(frame) ==
  [char |-> [t \in CharTags |-> LET v == ReadValue(frame, t)
                                IN IF v = <<>> THEN NoChar ELSE Head(v)],
   qty |-> IntValue(ReadValue(frame, 38)),
   price |-> DecimalValue(ReadValue(frame, 44))]

ReadIds(frame) == [t \in IdTags |-> IntValue(ReadValue(frame, t))]

\* Every cell holds characters.
LEMMA Texts == \A c \in Cell : c.text \in Seq(Int)
<1>1. \A T : Seq(Int \ {T}) \subseteq Seq(Int)
  BY SeqMonotonic
<1>2. ASSUME NEW c \in TagCell PROVE c.text \in Seq(Int)
  <2>1. c.text \in Seq(Int \ {Equals})
    BY DEF TagCell
  <2> QED BY <1>1, <2>1
<1>3. ASSUME NEW c \in TextCell PROVE c.text \in Seq(Int)
  <2>1. c.text \in Seq(Int \ {Soh})
    BY DEF TextCell
  <2> QED BY <1>1, <2>1
<1> QED BY <1>2, <1>3 DEF Cell

\* A message as sent: the text of a value after each tag.
Alternates(f) == \A k \in DOMAIN f : f[k] \in (IF k % 2 = 1 THEN TagCell ELSE TextCell)

ParsedMsg == [char : [CharTags -> Int], qty : Int, price : Int, view : [IdTags -> Nat]]

\* The j-th field has tag t, and a value that counts.
Counts(frame, t, j) ==
  TagOf(frame[2 * j - 1].text) = t /\ (t \in CharTags => frame[2 * j].text # <<>>)

\* The last of the first k fields that does, or 0.
Places(frame, t, k) == {j \in 1 .. k : Counts(frame, t, j)}
Latest(frame, t, k) ==
  IF Places(frame, t, k) = {} THEN 0 ELSE Max(Places(frame, t, k))

\* The greatest of a set of numbers.
LEMMA Greatest ==
  ASSUME NEW T, NEW m \in T, T \in SUBSET Int, \A k \in T : k <= m
  PROVE  Max(T) = m
<1>1. Max(T) = CHOOSE x \in T : \A y \in T : x >= y
  BY DEF Max
<1>2. \A y \in T : m >= y
  OBVIOUS
<1> DEFINE x == Max(T)
<1>3. x \in T /\ \A y \in T : x >= y
  BY <1>1, <1>2
<1> HIDE DEF x
<1>4. x >= m /\ x <= m /\ x \in Int /\ m \in Int
  BY <1>3
<1> QED BY <1>4 DEF x

LEMMA LatestSteps ==
  ASSUME NEW frame, NEW t
  PROVE  /\ Latest(frame, t, 0) = 0
         /\ \A k \in Nat :
              /\ Latest(frame, t, k) \in 0 .. k
              /\ Latest(frame, t, k) = 0 => Places(frame, t, k) = {}
              /\ Latest(frame, t, k) # 0 =>
                   /\ Counts(frame, t, Latest(frame, t, k))
                   /\ \A j \in Places(frame, t, k) : j <= Latest(frame, t, k)
<1> DEFINE A(k) == Places(frame, t, k)
<1>1. Latest(frame, t, 0) = 0
  <2>1. A(0) = {}
    BY DEF Places
  <2> QED BY <2>1 DEF Latest
<1>2. ASSUME NEW k \in Nat
      PROVE  /\ Latest(frame, t, k) \in 0 .. k
             /\ Latest(frame, t, k) = 0 => A(k) = {}
             /\ Latest(frame, t, k) # 0 =>
                  /\ Counts(frame, t, Latest(frame, t, k))
                  /\ \A j \in A(k) : j <= Latest(frame, t, k)
  <2>1. CASE A(k) = {}
    BY <2>1 DEF Latest
  <2>2. CASE A(k) # {}
    <3> DEFINE above == {k - j : j \in A(k)}
    <3>1. above \in SUBSET Nat /\ above # {}
      BY <2>2 DEF Places
    <3> HIDE DEF above
    <3>2. PICK n \in above : \A i \in above : n <= i
      BY <3>1, LeastNat
    <3>3. PICK m \in A(k) : n = k - m
      BY <3>2 DEF above
    <3>4. m \in A(k) /\ A(k) \in SUBSET Int
      BY <3>3 DEF Places
    <3>5. \A j \in A(k) : j <= m
      <4> TAKE j \in A(k)
      <4>1. k - j \in above
        BY DEF above
      <4>2. n <= k - j /\ m \in Int /\ j \in Int
        BY <3>2, <3>4, <4>1
      <4> QED BY <3>3, <4>2
    <3> HIDE DEF A
    <3>6. Max(A(k)) = m
      BY <3>4, <3>5, Greatest
    <3>7. Latest(frame, t, k) = m
      BY <2>2, <3>6 DEF Latest, A
    <3>8. m \in 1 .. k /\ Counts(frame, t, m)
      BY <3>3 DEF A, Places
    <3> QED BY <3>5, <3>7, <3>8
  <2> QED BY <2>1, <2>2
<1> QED BY <1>1, <1>2

LEMMA LatestNext ==
  ASSUME NEW frame, NEW t, NEW k, NEW j \in Nat, k = j + 1
  PROVE  Latest(frame, t, k) = IF Counts(frame, t, k) THEN k ELSE Latest(frame, t, j)
<1> DEFINE A(i) == Places(frame, t, i)
<1>1. CASE Counts(frame, t, k)
  <2>1. k \in A(k) /\ A(k) \in SUBSET Int /\ \A i \in A(k) : i <= k
    BY <1>1 DEF Places
  <2> HIDE DEF A
  <2>2. Max(A(k)) = k
    BY <2>1, Greatest
  <2> QED BY <1>1, <2>1, <2>2 DEF Latest, A
<1>2. CASE ~Counts(frame, t, k)
  <2>1. A(k) = A(j)
    BY <1>2 DEF Places
  <2> QED BY <1>2, <2>1 DEF Latest
<1> QED BY <1>1, <1>2

\* The last field of all with tag t that counts.
LEMMA ReadValueLatest ==
  ASSUME NEW frame \in Seq(Cell), NEW t
  PROVE  LET l == Latest(frame, t, Len(frame) \div 2)
         IN  ReadValue(frame, t) = IF l = 0 THEN <<>> ELSE frame[2 * l].text
<1> DEFINE h == Len(frame) \div 2
           l == Latest(frame, t, h)
           at == {k \in DOMAIN frame : /\ k % 2 = 0 /\ TagOf(frame[k - 1].text) = t
                                       /\ t \in CharTags => frame[k].text # <<>>}
<1>1. Len(frame) \in Nat /\ DOMAIN frame = 1 .. Len(frame) /\ h \in Nat
      /\ 2 * h <= Len(frame) /\ Len(frame) <= 2 * h + 1
  BY LenProperties
<1>2. ReadValue(frame, t) = IF at = {} THEN <<>> ELSE frame[Max(at)].text
  BY DEF ReadValue
<1>3. at = {2 * j : j \in Places(frame, t, h)}
  <2>1. ASSUME NEW k \in at PROVE \E j \in Places(frame, t, h) : k = 2 * j
    <3>1. k \in 1 .. Len(frame) /\ k % 2 = 0
      BY <1>1
    <3> DEFINE j == k \div 2
    <3>2. k = 2 * j /\ j \in 1 .. h
      BY <1>1, <3>1
    <3> HIDE DEF j, h
    <3>3. Counts(frame, t, j)
      BY <3>2 DEF Counts
    <3> QED BY <3>2, <3>3 DEF Places
  <2>2. ASSUME NEW j \in Places(frame, t, h) PROVE 2 * j \in at
    <3>1. j \in 1 .. h /\ Counts(frame, t, j)
      BY DEF Places
    <3>2. 2 * j \in DOMAIN frame /\ (2 * j) % 2 = 0
      BY <1>1, <3>1
    <3> QED BY <3>1, <3>2 DEF Counts
  <2> HIDE DEF at
  <2> QED BY <2>1, <2>2
<1> HIDE DEF at, h
<1>4. l \in 0 .. h /\ (l # 0 => \A j \in Places(frame, t, h) : j <= l)
      /\ (l # 0 => Counts(frame, t, l))
  BY <1>1, LatestSteps
<1>5. CASE l = 0
  <2>1. Places(frame, t, h) = {}
    BY <1>1, <1>5, LatestSteps
  <2>2. at = {}
    BY <1>3, <2>1
  <2> QED BY <1>2, <1>5, <2>2 DEF h
<1>6. CASE l # 0
  <2>1. l \in Places(frame, t, h)
    BY <1>1, <1>4, <1>6 DEF Places
  <2>2. 2 * l \in at
    BY <1>3, <2>1
  <2>3. at \in SUBSET Int /\ \A k \in at : k <= 2 * l
    <3>1. ASSUME NEW k \in at PROVE k \in Int /\ k <= 2 * l
      <4>1. PICK j \in Places(frame, t, h) : k = 2 * j
        BY <1>3
      <4>2. j \in 1 .. h /\ j <= l
        BY <1>4, <1>6 DEF Places
      <4> QED BY <1>4, <4>1, <4>2
    <3> QED BY <3>1
  <2>4. Max(at) = 2 * l
    BY <2>2, <2>3, Greatest
  <2> QED BY <1>2, <1>6, <2>2, <2>4 DEF h
<1> QED BY <1>5, <1>6

\* The messages that parseFixMessage goes through, field by field.
LEMMA ParsedFromReads ==
  ASSUME NEW frame \in Seq(Cell), Alternates(frame)
  PROVE  \E g : /\ g \in [0 .. Len(frame) \div 2 -> ParsedMsg]
                /\ g[0] = Reset
                /\ \A k \in 1 .. Len(frame) \div 2 :
                     g[k] = Parsed(g[k - 1], TagOf(frame[2 * k - 1].text), frame[2 * k].text, 2 * k)
                /\ ParsedFrom(Reset, frame) = g[Len(frame) \div 2]
<1> DEFINE h == Len(frame) \div 2
           F == [x \in (1 .. h) \X ParsedMsg |->
                   Parsed(x[2], TagOf(frame[2 * x[1] - 1].text), frame[2 * x[1]].text, 2 * x[1])]
           Is(after) == after = [k \in 0 .. h |->
                          IF k = 0 THEN Reset
                          ELSE Parsed(after[k - 1], TagOf(frame[2*k - 1].text), frame[2*k].text, 2*k)]
           res == CHOOSE after : Is(after)
<1>1. Len(frame) \in Nat /\ DOMAIN frame = 1 .. Len(frame) /\ h \in Nat /\ 2 * h <= Len(frame)
  BY LenProperties
<1>2. ParsedFrom(Reset, frame) = res[h]
  BY DEF ParsedFrom
<1> HIDE DEF h
<1>3. \A k \in 1 .. h : frame[2 * k].text \in Seq(Int)
  <2> TAKE k \in 1 .. h
  <2>1. 2 * k \in DOMAIN frame
    BY <1>1
  <2>2. frame[2 * k] \in Cell
    BY <2>1, ElementOfSeq, LenProperties
  <2> QED BY <2>2, Texts
<1>4. Reset \in ParsedMsg
  BY DEF Reset, ParsedMsg, NoChar
<1>5. \A m \in ParsedMsg, value \in Seq(Int), address \in Nat : \A tag :
         Parsed(m, tag, value, address) \in ParsedMsg
  <2> TAKE m \in ParsedMsg, value \in Seq(Int), address \in Nat
  <2> TAKE tag
  <2>1. CASE tag \in CharTags
    <3>1. value # <<>> => Head(value) \in Int
      OBVIOUS
    <3> QED BY <2>1, <3>1 DEF Parsed, ParsedMsg
  <2>2. CASE tag \notin CharTags /\ tag \in IdTags
    BY <2>2 DEF Parsed, ParsedMsg
  <2>3. CASE tag \notin CharTags /\ tag \notin IdTags /\ tag = 38
    <3>1. ParseFastInt(value) \in Int
      BY ParseFastIntIsIntValue
    <3> QED BY <2>3, <3>1 DEF Parsed, ParsedMsg
  <2>4. CASE tag \notin CharTags /\ tag \notin IdTags /\ tag = 44
    <3>1. ParseFastDecimal(value) \in Int
      BY ParseFastDecimalType
    <3>2. Parsed(m, tag, value, address) = [m EXCEPT !.price = ParseFastDecimal(value)]
      BY <2>4 DEF Parsed
    <3> QED BY <3>1, <3>2 DEF ParsedMsg
  <2>5. CASE tag \notin CharTags /\ tag \notin IdTags /\ tag # 38 /\ tag # 44
    BY <2>5 DEF Parsed
  <2> QED BY <2>1, <2>2, <2>3, <2>4, <2>5
<1>6. \A k \in 1 .. h, m \in ParsedMsg :
        F[<<k, m>>] = Parsed(m, TagOf(frame[2 * k - 1].text), frame[2 * k].text, 2 * k)
  OBVIOUS
<1>7. F \in [(1 .. h) \X ParsedMsg -> ParsedMsg]
  <2>1. \A x \in (1 .. h) \X ParsedMsg :
          Parsed(x[2], TagOf(frame[2 * x[1] - 1].text), frame[2 * x[1]].text, 2 * x[1]) \in ParsedMsg
    <3> TAKE x \in (1 .. h) \X ParsedMsg
    <3>1. x[1] \in 1 .. h /\ x[2] \in ParsedMsg /\ 2 * x[1] \in Nat
      BY <1>1
    <3> QED BY <1>3, <1>5, <3>1
  <2> QED BY <2>1
<1> HIDE DEF F
<1>8. PICK g : Steps(g, h, ParsedMsg, Reset, F)
  BY <1>1, <1>4, <1>7, Iterates
<1>9. /\ g \in [0 .. h -> ParsedMsg] /\ g[0] = Reset
      /\ \A k \in 1 .. h :
           g[k] = Parsed(g[k - 1], TagOf(frame[2 * k - 1].text), frame[2 * k].text, 2 * k)
  <2>1. g \in [0 .. h -> ParsedMsg] /\ g[0] = Reset
        /\ \A k \in 1 .. h : g[k] = F[<<k, g[k - 1]>>]
    BY <1>8 DEF Steps
  <2>2. \A k \in 1 .. h : g[k - 1] \in ParsedMsg
    BY <1>1, <2>1
  <2> QED BY <2>1, <2>2, <1>6
<1>10. Is(g)
  <2>1. g = [k \in 0 .. h |-> g[k]]
    BY <1>9
  <2>2. \A k \in 0 .. h :
          g[k] = IF k = 0 THEN Reset
                 ELSE Parsed(g[k - 1], TagOf(frame[2*k - 1].text), frame[2*k].text, 2*k)
    BY <1>1, <1>9
  <2> QED BY <2>1, <2>2
<1>11. Is(res)
  <2> HIDE DEF Is
  <2> QED BY <1>10
<1> HIDE DEF res
<1>12. \A k \in 0 .. h : res[k] = g[k]
  <2> DEFINE P == {k \in 0 .. h : res[k] = g[k]}
  <2>1. \A k \in 0 .. h :
          res[k] = IF k = 0 THEN Reset
                   ELSE Parsed(res[k - 1], TagOf(frame[2*k - 1].text), frame[2*k].text, 2*k)
    BY <1>11
  <2> HIDE DEF Is
  <2>2. 0 \in P
    BY <2>1, <1>1, <1>9
  <2>3. ASSUME NEW k \in 1 .. h, k - 1 \in P PROVE k \in P
    BY <2>1, <2>3, <1>1, <1>9
  <2> HIDE DEF P
  <2>4. \A k \in 0 .. h : k \in P
    BY <1>1, <2>2, <2>3, Climb
  <2> QED BY <2>4 DEF P
<1>13. res[h] = g[h]
  BY <1>1, <1>12
<1> QED BY <1>2, <1>9, <1>13 DEF h

\* The terms of a parsed message.
TermsOf(m) == [char |-> m.char, qty |-> m.qty, price |-> m.price]
Fresh(frame) == ParsedFrom(Reset, frame)

\* Each field of a parsed message is the last one of the text that counts.
LEMMA ParsedIsLatest ==
  ASSUME NEW frame \in Seq(Cell), Alternates(frame)
  PROVE  LET m == Fresh(frame)
             l(t) == Latest(frame, t, Len(frame) \div 2)
         IN  /\ m \in ParsedMsg
             /\ \A t \in CharTags :
                  m.char[t] = IF l(t) = 0 THEN NoChar ELSE Head(frame[2 * l(t)].text)
             /\ m.qty = IF l(38) = 0 THEN 0 ELSE ParseFastInt(frame[2 * l(38)].text)
             /\ m.price = IF l(44) = 0 THEN 0 ELSE ParseFastDecimal(frame[2 * l(44)].text)
             /\ \A t \in IdTags : m.view[t] = 2 * l(t)
<1> DEFINE h == Len(frame) \div 2
           L(t, k) == Latest(frame, t, k)
<1>1. h \in Nat
  BY LenProperties
<1>2. PICK g : /\ g \in [0 .. h -> ParsedMsg] /\ g[0] = Reset
               /\ \A k \in 1 .. h :
                    g[k] = Parsed(g[k - 1], TagOf(frame[2 * k - 1].text), frame[2 * k].text, 2 * k)
               /\ Fresh(frame) = g[h]
  BY ParsedFromReads DEF Fresh
<1> HIDE DEF h
<1> DEFINE Chars(k) == \A t \in CharTags :
             g[k].char[t] = IF L(t, k) = 0 THEN NoChar ELSE Head(frame[2 * L(t, k)].text)
           Qty(k) == g[k].qty = IF L(38, k) = 0 THEN 0 ELSE ParseFastInt(frame[2 * L(38, k)].text)
           Price(k) == g[k].price = IF L(44, k) = 0 THEN 0
                                    ELSE ParseFastDecimal(frame[2 * L(44, k)].text)
           Views(k) == \A t \in IdTags : g[k].view[t] = 2 * L(t, k)
           Right(k) == Chars(k) /\ Qty(k) /\ Price(k) /\ Views(k)
           P == {k \in 0 .. h : Right(k)}
<1>3. 0 \in P
  <2>1. \A t : L(t, 0) = 0
    BY LatestSteps
  <2>2. Right(0)
    <3> HIDE DEF L
    <3> QED BY <1>2, <2>1 DEF Reset
  <2> QED BY <1>1, <2>2
<1>4. ASSUME NEW k \in 1 .. h, Right(k - 1) PROVE Right(k)
  <2> DEFINE m == g[k - 1]
             tag == TagOf(frame[2 * k - 1].text)
             value == frame[2 * k].text
             last(t) == L(t, k)
             old(t) == L(t, k - 1)
  <2>1. m \in ParsedMsg /\ g[k] = Parsed(m, tag, value, 2 * k)
    BY <1>1, <1>2
  <2>2. \A t : /\ last(t) = IF tag = t /\ (t \in CharTags => value # <<>>) THEN k ELSE old(t)
               /\ k # 0
    <3> TAKE t
    <3>1. k \in Nat \ {0}
      BY <1>1
    <3>2. Latest(frame, t, k) = IF Counts(frame, t, k) THEN k ELSE Latest(frame, t, k - 1)
      <4> DEFINE j == k - 1
      <4>1. j \in Nat /\ j + 1 = k
        BY <3>1
      <4> HIDE DEF j
      <4>2. Latest(frame, t, k) = IF Counts(frame, t, k) THEN k ELSE Latest(frame, t, j)
        <5>1. k = j + 1
          BY <4>1
        <5> QED BY <4>1, <5>1, LatestNext
      <4> QED BY <4>2 DEF j
    <3>3. Counts(frame, t, k) <=> tag = t /\ (t \in CharTags => value # <<>>)
      BY DEF Counts
    <3> HIDE DEF tag, value
    <3> QED BY <3>1, <3>2, <3>3
  <2>3. /\ \A t \in CharTags :
             m.char[t] = IF old(t) = 0 THEN NoChar ELSE Head(frame[2 * old(t)].text)
        /\ m.qty = IF old(38) = 0 THEN 0 ELSE ParseFastInt(frame[2 * old(38)].text)
        /\ m.price = IF old(44) = 0 THEN 0 ELSE ParseFastDecimal(frame[2 * old(44)].text)
        /\ \A t \in IdTags : m.view[t] = 2 * old(t)
    BY <1>4
  <2> SUFFICES /\ \A t \in CharTags :
                    g[k].char[t] = IF last(t) = 0 THEN NoChar ELSE Head(frame[2 * last(t)].text)
               /\ g[k].qty = IF last(38) = 0 THEN 0 ELSE ParseFastInt(frame[2 * last(38)].text)
               /\ g[k].price = IF last(44) = 0 THEN 0 ELSE ParseFastDecimal(frame[2 * last(44)].text)
               /\ \A t \in IdTags : g[k].view[t] = 2 * last(t)
    OBVIOUS
  <2>4. value = frame[2 * k].text
    OBVIOUS
  <2> HIDE DEF m, tag, value, last, old
  <2>5. 38 \notin CharTags /\ 44 \notin CharTags /\ CharTags \cap IdTags = {}
        /\ 38 \notin IdTags /\ 44 \notin IdTags
    BY DEF CharTags, IdTags
  <2>6. CASE tag \in CharTags /\ value = <<>>
    <3>1. g[k] = m
      BY <2>1, <2>6 DEF Parsed
    <3>2. \A t : last(t) = old(t)
      BY <2>2, <2>6
    <3> QED BY <2>3, <3>1, <3>2
  <2>7. CASE tag \in CharTags /\ value # <<>>
    <3>1. g[k] = [m EXCEPT !.char[tag] = Head(value)]
      BY <2>1, <2>7 DEF Parsed
    <3>2. /\ g[k].qty = m.qty /\ g[k].price = m.price /\ g[k].view = m.view
          /\ \A t \in CharTags : g[k].char[t] = IF t = tag THEN Head(value) ELSE m.char[t]
      BY <2>1, <2>7, <3>1 DEF ParsedMsg
    <3>3. last(tag) = k /\ \A t : t # tag => last(t) = old(t)
      BY <2>2, <2>7
    <3> QED BY <2>2, <2>3, <2>4, <2>5, <2>7, <3>2, <3>3
  <2>8. CASE tag \in IdTags
    <3>1. g[k] = [m EXCEPT !.view[tag] = 2 * k]
      BY <2>1, <2>5, <2>8 DEF Parsed
    <3>2. /\ g[k].qty = m.qty /\ g[k].price = m.price /\ g[k].char = m.char
          /\ \A t \in IdTags : g[k].view[t] = IF t = tag THEN 2 * k ELSE m.view[t]
      BY <2>1, <2>8, <3>1 DEF ParsedMsg
    <3>3. last(tag) = k /\ \A t : t # tag => last(t) = old(t)
      BY <2>2, <2>5, <2>8
    <3> QED BY <2>3, <2>5, <2>8, <3>2, <3>3
  <2>9. CASE tag = 38
    <3>1. g[k] = [m EXCEPT !.qty = ParseFastInt(value)]
      BY <2>1, <2>5, <2>9 DEF Parsed
    <3>2. /\ g[k].view = m.view /\ g[k].price = m.price /\ g[k].char = m.char
          /\ g[k].qty = ParseFastInt(value)
      BY <2>1, <3>1 DEF ParsedMsg
    <3>3. last(38) = k /\ \A t : t # 38 => last(t) = old(t)
      BY <2>2, <2>5, <2>9
    <3> QED BY <2>2, <2>3, <2>4, <2>5, <3>2, <3>3
  <2>10. CASE tag = 44
    <3>1. g[k] = [m EXCEPT !.price = ParseFastDecimal(value)]
      BY <2>1, <2>5, <2>10 DEF Parsed
    <3>2. /\ g[k].view = m.view /\ g[k].qty = m.qty /\ g[k].char = m.char
          /\ g[k].price = ParseFastDecimal(value)
      BY <2>1, <3>1 DEF ParsedMsg
    <3>3. last(44) = k /\ \A t : t # 44 => last(t) = old(t)
      BY <2>2, <2>5, <2>10
    <3> QED BY <2>2, <2>3, <2>4, <2>5, <3>2, <3>3
  <2>11. CASE tag \notin CharTags /\ tag \notin IdTags /\ tag # 38 /\ tag # 44
    <3>1. g[k] = m
      BY <2>1, <2>11 DEF Parsed
    <3>2. /\ \A t \in CharTags \cup IdTags : last(t) = old(t)
          /\ last(38) = old(38) /\ last(44) = old(44)
      BY <2>2, <2>11
    <3> QED BY <2>3, <3>1, <3>2
  <2> QED BY <2>6, <2>7, <2>8, <2>9, <2>10, <2>11
<1>5. h \in P
  <2>1. ASSUME NEW k \in 1 .. h, k - 1 \in P PROVE k \in P
    <3> HIDE DEF Right
    <3>1. Right(k)
      BY <1>4, <2>1
    <3> QED BY <1>1, <3>1
  <2> HIDE DEF P
  <2>2. \A k \in 0 .. h : k \in P
    BY <1>1, <1>3, <2>1, Climb
  <2> QED BY <1>1, <2>2
<1>6. g[h] \in ParsedMsg
  BY <1>1, <1>2
<1> QED BY <1>2, <1>5, <1>6 DEF h

\* parseFixMessage computes what the texts under the tags it reads mean, and its
\* views point at the texts of the ids.
LEMMA ParsedIsRead ==
  ASSUME NEW frame \in Seq(Cell), Alternates(frame)
  PROVE  LET m == Fresh(frame)
         IN  /\ m \in ParsedMsg
             /\ TermsOf(m) = ReadTerms(frame)
             /\ \A t \in IdTags :
                  \/ m.view[t] = 0 /\ ReadIds(frame)[t] = 0
                  \/ /\ m.view[t] \in 2 .. Len(frame)
                     /\ frame[m.view[t]] \in TextCell
                     /\ ReadIds(frame)[t] = ParseFastInt(frame[m.view[t]].text)
<1> DEFINE h == Len(frame) \div 2
           m == Fresh(frame)
           l(t) == Latest(frame, t, h)
<1>1. Len(frame) \in Nat /\ DOMAIN frame = 1 .. Len(frame) /\ h \in Nat /\ 2 * h <= Len(frame)
  BY LenProperties
<1>2. /\ m \in ParsedMsg
      /\ \A t \in CharTags : m.char[t] = IF l(t) = 0 THEN NoChar ELSE Head(frame[2 * l(t)].text)
      /\ m.qty = IF l(38) = 0 THEN 0 ELSE ParseFastInt(frame[2 * l(38)].text)
      /\ m.price = IF l(44) = 0 THEN 0 ELSE ParseFastDecimal(frame[2 * l(44)].text)
      /\ \A t \in IdTags : m.view[t] = 2 * l(t)
  BY ParsedIsLatest
<1>3. ASSUME NEW t
      PROVE  /\ ReadValue(frame, t) = IF l(t) = 0 THEN <<>> ELSE frame[2 * l(t)].text
             /\ l(t) \in 0 .. h
             /\ l(t) # 0 =>
                  /\ 2 * l(t) \in 2 .. Len(frame)
                  /\ frame[2 * l(t)] \in TextCell /\ frame[2 * l(t)].text \in Seq(Int)
                  /\ t \in CharTags => frame[2 * l(t)].text # <<>>
  <2>1. ReadValue(frame, t) = IF l(t) = 0 THEN <<>> ELSE frame[2 * l(t)].text
    BY ReadValueLatest
  <2>2. l(t) \in 0 .. h /\ (l(t) # 0 => Counts(frame, t, l(t)))
    BY <1>1, LatestSteps
  <2> HIDE DEF h, l
  <2>3. ASSUME l(t) # 0
        PROVE  /\ 2 * l(t) \in 2 .. Len(frame)
               /\ frame[2 * l(t)] \in TextCell /\ frame[2 * l(t)].text \in Seq(Int)
               /\ t \in CharTags => frame[2 * l(t)].text # <<>>
    <3>1. 2 * l(t) \in 2 .. Len(frame) /\ 2 * l(t) \in DOMAIN frame /\ (2 * l(t)) % 2 = 0
      BY <1>1, <2>2, <2>3
    <3>2. frame[2 * l(t)] \in TextCell
      BY <3>1 DEF Alternates
    <3>3. t \in CharTags => frame[2 * l(t)].text # <<>>
      BY <2>2, <2>3 DEF Counts
    <3> QED BY <3>1, <3>2, <3>3, Texts DEF Cell
  <2> QED BY <2>1, <2>2, <2>3
<1> HIDE DEF h, l, m
<1>4. m.char = [t \in CharTags |-> LET v == ReadValue(frame, t)
                                   IN IF v = <<>> THEN NoChar ELSE Head(v)]
  <2>1. \A t \in CharTags : m.char[t] = LET v == ReadValue(frame, t)
                                        IN IF v = <<>> THEN NoChar ELSE Head(v)
    BY <1>2, <1>3
  <2>2. m.char = [t \in CharTags |-> m.char[t]]
    BY <1>2 DEF ParsedMsg
  <2> QED BY <2>1, <2>2
<1>5. m.qty = IntValue(ReadValue(frame, 38))
  <2>1. l(38) # 0 => ParseFastInt(frame[2 * l(38)].text) = IntValue(frame[2 * l(38)].text)
    BY <1>3, ParseFastIntIsIntValue
  <2> QED BY <1>2, <1>3, <2>1, NoDigits
<1>6. m.price = DecimalValue(ReadValue(frame, 44))
  <2>1. l(44) # 0 => ParseFastDecimal(frame[2 * l(44)].text) = DecimalValue(frame[2 * l(44)].text)
    BY <1>3, ParseFastDecimalIsDecimalValue
  <2> QED BY <1>2, <1>3, <2>1, NoDigits
<1>7. TermsOf(m) = ReadTerms(frame)
  BY <1>4, <1>5, <1>6 DEF TermsOf, ReadTerms
<1>8. ASSUME NEW t \in IdTags
      PROVE  \/ m.view[t] = 0 /\ ReadIds(frame)[t] = 0
             \/ /\ m.view[t] \in 2 .. Len(frame)
                /\ frame[m.view[t]] \in TextCell
                /\ ReadIds(frame)[t] = ParseFastInt(frame[m.view[t]].text)
  <2>1. ReadIds(frame)[t] = IntValue(ReadValue(frame, t)) /\ m.view[t] = 2 * l(t)
    BY <1>2 DEF ReadIds
  <2>2. CASE l(t) = 0
    BY <1>3, <2>1, <2>2, NoDigits
  <2>3. CASE l(t) # 0
    <3>1. ParseFastInt(frame[2 * l(t)].text) = IntValue(frame[2 * l(t)].text)
      BY <1>3, <2>3, ParseFastIntIsIntValue
    <3>2. ReadValue(frame, t) = frame[2 * l(t)].text
      BY <1>3, <2>3
    <3> QED BY <1>3, <2>1, <2>3, <3>1, <3>2
  <2> QED BY <2>2, <2>3
<1> QED BY <1>2, <1>7, <1>8 DEF m

\* The numeral of a tag is read as the tag.
LEMMA NumeralRead ==
  ASSUME NEW t \in 10 .. 99
  PROVE  TagOf(Numeral(t)) = t
<1> DEFINE text == Numeral(t)
           d == t \div 10
           u == t % 10
<1>1. d \in 1 .. 9 /\ u \in 0 .. 9 /\ t = 10 * d + u
  OBVIOUS
<1>2. text = <<d, u>>
  BY DEF Numeral
<1> HIDE DEF text, d, u
<1>3. text \in Seq(Int) /\ Len(text) = 2 /\ text[1] = d /\ text[2] = u
  BY <1>1, <1>2
<1>4. PICK val : /\ val[0] = 0
                 /\ \A k \in 1 .. 2 : val[k] = Int64(10 * val[k - 1] + text[k])
                 /\ ParseFastInt(text) = val[2]
  BY <1>3, ParseFastIntReads
<1>5. \A n \in 0 .. 99 : Int64(n) = n /\ Int32(n) = n
  <2> TAKE n \in 0 .. 99
  <2>1. \A half \in Nat : half > 99 => ((n + half) % (2 * half)) - half = n
    <3> TAKE half \in Nat
    <3> HAVE half > 99
    <3> DEFINE w == 2 * half
    <3>1. w \in Nat \ {0} /\ n + half \in 0 .. w - 1
      OBVIOUS
    <3>2. (w * 0 + (n + half)) % w = n + half
      <4> HIDE DEF w
      <4> QED BY <3>1, Remainder
    <3>3. w * 0 + (n + half) = n + half
      OBVIOUS
    <3>4. (n + half) % w = n + half
      BY <3>2, <3>3
    <3> QED BY <3>4
  <2> QED BY <2>1, ParserAssumption DEF Int64, Int32
<1>6. val[1] = d
  <2>1. 10 * val[0] + text[1] = d /\ d \in 0 .. 99
    BY <1>1, <1>3, <1>4
  <2>2. val[1] = Int64(10 * val[0] + text[1])
    <3>1. 1 \in 1 .. 2 /\ 1 - 1 = 0
      OBVIOUS
    <3> QED BY <1>4, <3>1
  <2> QED BY <1>5, <2>1, <2>2
<1>7. val[2] = t
  <2>1. 10 * d + text[2] = t /\ t \in 0 .. 99
    BY <1>1, <1>3
  <2>2. val[2] = Int64(10 * val[1] + text[2])
    <3>1. 2 \in 1 .. 2 /\ 2 - 1 = 1
      OBVIOUS
    <3> QED BY <1>4, <3>1
  <2> QED BY <1>5, <1>6, <2>1, <2>2
<1>8. t \in 0 .. 99
  OBVIOUS
<1> QED BY <1>4, <1>5, <1>7, <1>8 DEF TagOf, text

\* No tag of a message is mistaken: it is read as it is meant.
LEMMA ReadIsMeant ==
  ASSUME NEW frame \in Seq(Cell), Unmistaken(frame)
  PROVE  ReadTerms(frame) = MeantTerms(frame) /\ ReadIds(frame) = MeantIds(frame)
<1>1. KnownTags \subseteq 10 .. 99
  BY DEF KnownTags, CharTags, IdTags
<1>2. ASSUME NEW t \in KnownTags PROVE ReadValue(frame, t) = ValueOf(frame, t)
  <2>1. ASSUME NEW k \in DOMAIN frame, k % 2 = 0
        PROVE  TagOf(frame[k - 1].text) = t <=> frame[k - 1].text = Numeral(t)
    <3>1. k - 1 \in DOMAIN frame /\ (k - 1) % 2 = 1
      <4>1. k \in 1 .. Len(frame) /\ Len(frame) \in Nat
        BY LenProperties
      <4>2. k - 1 \in 1 .. Len(frame) /\ (k - 1) % 2 = 1
        BY <2>1, <4>1
      <4> QED BY <4>2, LenProperties
    <3>2. TagOf(frame[k - 1].text) = t => frame[k - 1].text = Numeral(t)
      BY <3>1 DEF Unmistaken
    <3>3. TagOf(Numeral(t)) = t
      BY <1>1, NumeralRead
    <3> QED BY <3>2, <3>3
  <2>2. {k \in DOMAIN frame : /\ k % 2 = 0 /\ TagOf(frame[k - 1].text) = t
                              /\ t \in CharTags => frame[k].text # <<>>}
        = {k \in DOMAIN frame : /\ k % 2 = 0 /\ frame[k - 1].text = Numeral(t)
                                /\ t \in CharTags => frame[k].text # <<>>}
    BY <2>1
  <2> QED BY <2>2 DEF ReadValue, ValueOf
<1>3. \A t \in CharTags : ReadValue(frame, t) = ValueOf(frame, t)
  BY <1>2 DEF KnownTags
<1>4. \A t \in IdTags : ReadValue(frame, t) = ValueOf(frame, t)
  BY <1>2 DEF KnownTags
<1>5. ReadValue(frame, 38) = ValueOf(frame, 38) /\ ReadValue(frame, 44) = ValueOf(frame, 44)
  BY <1>2 DEF KnownTags
<1>6. ReadIds(frame) = MeantIds(frame)
  BY <1>4 DEF ReadIds, MeantIds
<1>7. ReadTerms(frame) = MeantTerms(frame)
  <2>1. [t \in CharTags |-> LET v == ReadValue(frame, t) IN IF v = <<>> THEN NoChar ELSE Head(v)]
        = [t \in CharTags |-> LET v == ValueOf(frame, t) IN IF v = <<>> THEN NoChar ELSE Head(v)]
    BY <1>3
  <2> QED BY <1>5, <2>1 DEF ReadTerms, MeantTerms
<1> QED BY <1>6, <1>7

\* parseFixMessage computes the terms that the fields of a message mean, and its
\* views point at the texts of the ids: if the message has no tag that is narrowed
\* to, or read from letters as, one of those the parser looks for.
THEOREM ParsedIsMeant ==
  ASSUME NEW frame \in Seq(Cell), Alternates(frame), Unmistaken(frame)
  PROVE  LET m == Fresh(frame)
         IN  /\ TermsOf(m) = MeantTerms(frame)
             /\ \A t \in IdTags :
                  \/ m.view[t] = 0 /\ MeantIds(frame)[t] = 0
                  \/ /\ m.view[t] \in 2 .. Len(frame)
                     /\ frame[m.view[t]] \in TextCell
                     /\ MeantIds(frame)[t] = ParseFastInt(frame[m.view[t]].text)
<1>1. ReadTerms(frame) = MeantTerms(frame) /\ ReadIds(frame) = MeantIds(frame)
  BY ReadIsMeant
<1>2. LET m == Fresh(frame)
      IN  /\ TermsOf(m) = ReadTerms(frame)
          /\ \A t \in IdTags :
               \/ m.view[t] = 0 /\ ReadIds(frame)[t] = 0
               \/ /\ m.view[t] \in 2 .. Len(frame)
                  /\ frame[m.view[t]] \in TextCell
                  /\ ReadIds(frame)[t] = ParseFastInt(frame[m.view[t]].text)
  BY ParsedIsRead
<1> QED BY <1>1, <1>2

-----------------------------------------------------------------------------
(* The stream and the pieces that the server cuts it into: each ends with  *)
(* the field in which the text 10= occurs, wherever it does.               *)

Sendable == Cell \cup {End}
StreamState == [done : Seq(Seq(Cell)), rest : Seq(Cell)]
Nothing == [done |-> <<>>, rest |-> <<>>]

Cut(s, cell) ==
  LET rest == Append(s.rest, cell)
  IN IF cell = End THEN [done |-> s.done, rest |-> <<>>]
     ELSE IF cell.kind = "text" /\ \E k \in DOMAIN rest : HasTen(rest[k])
     THEN [done |-> Append(s.done, rest), rest |-> <<>>]
     ELSE [s EXCEPT !.rest = rest]
Pieces(stream) ==
  LET after[k \in 0 .. Len(stream)] ==
        IF k = 0 THEN Nothing ELSE Cut(after[k - 1], stream[k])
  IN after[Len(stream)]

LEMMA Kinds ==
  /\ End \notin Cell /\ Lost \notin Cell
  /\ \A c \in Cell : c.kind \in {"tag", "text"} /\ (c.kind = "text" <=> c \in TextCell)
BY DEF End, Lost, Cell, TagCell, TextCell

LEMMA CutType ==
  ASSUME NEW s \in StreamState, NEW c \in Sendable
  PROVE  Cut(s, c) \in StreamState
<1>1. s.done \in Seq(Seq(Cell)) /\ s.rest \in Seq(Cell) /\ <<>> \in Seq(Cell)
  BY DEF StreamState
<1>2. CASE c = End
  BY <1>1, <1>2 DEF Cut, StreamState
<1>3. CASE c # End
  <2> DEFINE rest == Append(s.rest, c)
             done == Append(s.done, rest)
  <2>1. rest \in Seq(Cell)
    BY <1>1, <1>3, AppendProperties DEF Sendable
  <2>2. done \in Seq(Seq(Cell))
    <3> HIDE DEF rest
    <3> QED BY <1>1, <2>1, AppendProperties
  <2>3. Cut(s, c) \in {[done |-> done, rest |-> <<>>], [s EXCEPT !.rest = rest]}
    BY <1>3 DEF Cut
  <2> HIDE DEF rest, done
  <2>4. [done |-> done, rest |-> <<>>] \in StreamState
    BY <1>1, <2>2 DEF StreamState
  <2>5. [s EXCEPT !.rest = rest] \in StreamState
    BY <2>1 DEF StreamState
  <2> QED BY <2>3, <2>4, <2>5
<1> QED BY <1>2, <1>3

\* The states that reading a stream goes through.
LEMMA PiecesRead ==
  ASSUME NEW stream \in Seq(Sendable)
  PROVE  \E g : /\ g \in [0 .. Len(stream) -> StreamState] /\ g[0] = Nothing
                /\ \A k \in 1 .. Len(stream) : g[k] = Cut(g[k - 1], stream[k])
                /\ Pieces(stream) = g[Len(stream)]
<1> DEFINE n == Len(stream)
           F == [x \in (1 .. n) \X StreamState |-> Cut(x[2], stream[x[1]])]
           Is(after) == after = [k \in 0 .. n |-> IF k = 0 THEN Nothing
                                                  ELSE Cut(after[k - 1], stream[k])]
           res == CHOOSE after : Is(after)
<1>1. n \in Nat /\ \A k \in 1 .. n : stream[k] \in Sendable
  BY LenProperties
<1>2. Pieces(stream) = res[n]
  BY DEF Pieces, Nothing
<1>3. Nothing \in StreamState
  BY DEF Nothing, StreamState
<1>4. \A k \in 1 .. n, s \in StreamState : F[<<k, s>>] = Cut(s, stream[k])
  OBVIOUS
<1>5. F \in [(1 .. n) \X StreamState -> StreamState]
  <2>1. \A x \in (1 .. n) \X StreamState : Cut(x[2], stream[x[1]]) \in StreamState
    <3> TAKE x \in (1 .. n) \X StreamState
    <3>1. x[2] \in StreamState /\ stream[x[1]] \in Sendable
      BY <1>1
    <3> QED BY <3>1, CutType
  <2> QED BY <2>1
<1> HIDE DEF F, n
<1>6. PICK g : Steps(g, n, StreamState, Nothing, F)
  BY <1>1, <1>3, <1>5, Iterates
<1>7. /\ g \in [0 .. n -> StreamState] /\ g[0] = Nothing
      /\ \A k \in 1 .. n : g[k] = Cut(g[k - 1], stream[k])
  <2>1. g \in [0 .. n -> StreamState] /\ g[0] = Nothing
        /\ \A k \in 1 .. n : g[k] = F[<<k, g[k - 1]>>]
    BY <1>6 DEF Steps
  <2>2. \A k \in 1 .. n : g[k - 1] \in StreamState
    BY <1>1, <2>1
  <2> QED BY <2>1, <2>2, <1>4
<1>8. Is(g)
  <2>1. g = [k \in 0 .. n |-> g[k]]
    BY <1>7
  <2>2. \A k \in 0 .. n : g[k] = IF k = 0 THEN Nothing ELSE Cut(g[k - 1], stream[k])
    BY <1>1, <1>7
  <2> QED BY <2>1, <2>2
<1>9. Is(res)
  <2> HIDE DEF Is
  <2> QED BY <1>8
<1> HIDE DEF res
<1>10. \A k \in 0 .. n : res[k] = g[k]
  <2> DEFINE P == {k \in 0 .. n : res[k] = g[k]}
  <2>1. \A k \in 0 .. n : res[k] = IF k = 0 THEN Nothing ELSE Cut(res[k - 1], stream[k])
    BY <1>9
  <2> HIDE DEF Is
  <2>2. 0 \in P
    BY <2>1, <1>1, <1>7
  <2>3. ASSUME NEW k \in 1 .. n, k - 1 \in P PROVE k \in P
    BY <2>1, <2>3, <1>1, <1>7
  <2> HIDE DEF P
  <2>4. \A k \in 0 .. n : k \in P
    BY <1>1, <2>2, <2>3, Climb
  <2> QED BY <2>4 DEF P
<1>11. res[n] = g[n]
  BY <1>1, <1>10
<1> QED BY <1>2, <1>7, <1>11 DEF n

LEMMA PiecesType ==
  ASSUME NEW stream \in Seq(Sendable)
  PROVE  /\ Pieces(stream) \in StreamState
         /\ Pieces(stream).done \in Seq(Seq(Cell)) /\ Pieces(stream).rest \in Seq(Cell)
         /\ Len(Pieces(stream).done) \in Nat
<1>1. Len(stream) \in Nat
  BY LenProperties
<1>2. Pieces(stream) \in StreamState
  BY <1>1, PiecesRead
<1> QED BY <1>2, LenProperties DEF StreamState

LEMMA PiecesEmpty == Pieces(<<>>) = Nothing
<1>1. <<>> \in Seq(Sendable) /\ Len(<<>>) = 0
  OBVIOUS
<1> QED BY <1>1, PiecesRead

\* A cell more is a step more.
LEMMA PiecesAppend ==
  ASSUME NEW stream \in Seq(Sendable), NEW c \in Sendable
  PROVE  Pieces(Append(stream, c)) = Cut(Pieces(stream), c)
<1> DEFINE n == Len(stream)
           longer == Append(stream, c)
<1>1. /\ n \in Nat /\ longer \in Seq(Sendable) /\ Len(longer) = n + 1
      /\ longer[n + 1] = c /\ \A k \in 1 .. n : longer[k] = stream[k]
  BY LenProperties, AppendProperties
<1>2. PICK g : /\ g \in [0 .. n -> StreamState] /\ g[0] = Nothing
               /\ \A k \in 1 .. n : g[k] = Cut(g[k - 1], stream[k])
               /\ Pieces(stream) = g[n]
  BY PiecesRead
<1>3. PICK f : /\ f \in [0 .. Len(longer) -> StreamState] /\ f[0] = Nothing
               /\ \A k \in 1 .. Len(longer) : f[k] = Cut(f[k - 1], longer[k])
               /\ Pieces(longer) = f[Len(longer)]
  BY <1>1, PiecesRead
<1> HIDE DEF n, longer
<1> DEFINE P == {k \in 0 .. n : f[k] = g[k]}
<1>4. 0 \in P
  BY <1>1, <1>2, <1>3
<1>5. ASSUME NEW k \in 1 .. n, k - 1 \in P PROVE k \in P
  <2>1. k \in 1 .. Len(longer) /\ longer[k] = stream[k] /\ f[k - 1] = g[k - 1]
    BY <1>1, <1>5
  <2> QED BY <1>2, <1>3, <2>1
<1>6. f[n] = g[n]
  <2> HIDE DEF P
  <2>1. \A k \in 0 .. n : k \in P
    BY <1>1, <1>4, <1>5, Climb
  <2> QED BY <1>1, <2>1 DEF P
<1>7. f[n + 1] = Cut(f[n], c)
  <2>1. n + 1 \in 1 .. Len(longer) /\ (n + 1) - 1 = n
    BY <1>1
  <2> QED BY <1>1, <1>3, <2>1
<1> QED BY <1>1, <1>2, <1>3, <1>6, <1>7 DEF longer

\* A stream continued cell by cell.
Cellwise(S, a, b) ==
  /\ SubSeq(b, 1, 0) = <<>>
  /\ a \o SubSeq(b, 1, 0) = a /\ a \o SubSeq(b, 1, Len(b)) = a \o b
  /\ \A k \in 0 .. Len(b) : a \o SubSeq(b, 1, k) \in Seq(S)
  /\ \A k \in 1 .. Len(b) : a \o SubSeq(b, 1, k) = Append(a \o SubSeq(b, 1, k - 1), b[k])

LEMMA Continued ==
  ASSUME NEW S, NEW a \in Seq(S), NEW b \in Seq(S)
  PROVE  Cellwise(S, a, b)
<1>1. Len(b) \in Nat /\ \A k \in 1 .. Len(b) : b[k] \in S
  BY LenProperties
<1>2. SubSeq(b, 1, 0) = <<>> /\ SubSeq(b, 1, Len(b)) = b
  BY SubSeqFull
<1>3. ASSUME NEW k \in 0 .. Len(b) PROVE SubSeq(b, 1, k) \in Seq(S) /\ a \o SubSeq(b, 1, k) \in Seq(S)
  <2>1. SubSeq(b, 1, k) \in Seq(S)
    BY <1>1, SubSeqProperties
  <2> QED BY <2>1, ConcatProperties
<1>4. ASSUME NEW k \in 1 .. Len(b)
      PROVE  a \o SubSeq(b, 1, k) = Append(a \o SubSeq(b, 1, k - 1), b[k])
  <2> DEFINE p == SubSeq(b, 1, k - 1)
  <2>1. p \in Seq(S) /\ a \o p \in Seq(S) /\ b[k] \in S /\ <<b[k]>> \in Seq(S)
    <3>1. k - 1 \in 0 .. Len(b)
      BY <1>1
    <3> QED BY <1>1, <1>3, <3>1
  <2>2. SubSeq(b, 1, k) = p \o <<b[k]>>
    BY <1>1, SubSeqRecursiveSecond
  <2> HIDE DEF p
  <2>3. a \o (p \o <<b[k]>>) = (a \o p) \o <<b[k]>>
    BY <2>1, ConcatAssociative
  <2>4. Append(a \o p, b[k]) = (a \o p) \o <<b[k]>>
    BY <2>1, AppendIsConcat
  <2> QED BY <2>2, <2>3, <2>4 DEF p
<1>5. a \o SubSeq(b, 1, 0) = a
  BY <1>2, ConcatEmptySeq
<1> QED BY <1>2, <1>3, <1>4, <1>5 DEF Cellwise

\* A message at the end of b, in its first k cells.
Complete(b, k) == b[k].kind = "text" /\ \E j \in 1 .. k : HasTen(b[j])

LEMMA CutCell ==
  ASSUME NEW b \in Seq(Cell), NEW k \in 1 .. Len(b),
         NEW s \in StreamState, s.rest = SubSeq(b, 1, k - 1)
  PROVE  Cut(s, b[k])
           = IF Complete(b, k) THEN [done |-> Append(s.done, SubSeq(b, 1, k)), rest |-> <<>>]
             ELSE [done |-> s.done, rest |-> SubSeq(b, 1, k)]
<1>1. Len(b) \in Nat /\ b[k] \in Cell /\ \A j \in 1 .. k : b[j] \in Cell
  BY LenProperties
<1>2. b[k] # End
  BY <1>1, Kinds
<1> DEFINE rest == Append(s.rest, b[k])
<1>3. rest = SubSeq(b, 1, k)
  <2>1. SubSeq(b, 1, k - 1) \in Seq(Cell)
    BY <1>1, SubSeqProperties
  <2>2. rest = s.rest \o <<b[k]>>
    BY <1>1, <2>1, AppendIsConcat
  <2>3. SubSeq(b, 1, k) = SubSeq(b, 1, k - 1) \o <<b[k]>>
    BY <1>1, SubSeqRecursiveSecond
  <2> QED BY <2>2, <2>3
<1>4. DOMAIN rest = 1 .. k /\ \A j \in 1 .. k : rest[j] = b[j]
  BY <1>1, <1>3
<1>5. Cut(s, b[k])
        = IF b[k].kind = "text" /\ \E j \in DOMAIN rest : HasTen(rest[j])
          THEN [done |-> Append(s.done, rest), rest |-> <<>>]
          ELSE [s EXCEPT !.rest = rest]
  BY <1>2 DEF Cut
<1>6. (\E j \in DOMAIN rest : HasTen(rest[j])) <=> \E j \in 1 .. k : HasTen(b[j])
  BY <1>4
<1> HIDE DEF rest
<1>7. [s EXCEPT !.rest = rest] = [done |-> s.done, rest |-> rest]
  BY DEF StreamState
<1> QED BY <1>3, <1>5, <1>6, <1>7 DEF Complete

\* While no message is complete, the cells gather.
LEMMA Reading ==
  ASSUME NEW c \in Seq(Sendable), Pieces(c).rest = <<>>, NEW b \in Seq(Cell),
         NEW m \in 0 .. Len(b), \A k \in 1 .. m : ~Complete(b, k)
  PROVE  Pieces(c \o SubSeq(b, 1, m)) = [done |-> Pieces(c).done, rest |-> SubSeq(b, 1, m)]
<1> DEFINE M(k) == Pieces(c \o SubSeq(b, 1, k))
           Right(k) == M(k) = [done |-> Pieces(c).done, rest |-> SubSeq(b, 1, k)]
           P == {k \in 0 .. m : Right(k)}
<1>1. Len(b) \in Nat /\ b \in Seq(Sendable) /\ m \in Nat
      /\ \A k \in 1 .. Len(b) : b[k] \in Sendable
  BY LenProperties, SeqMonotonic DEF Sendable
<1>2. /\ c \o SubSeq(b, 1, 0) = c
      /\ \A k \in 0 .. Len(b) : c \o SubSeq(b, 1, k) \in Seq(Sendable)
      /\ \A k \in 1 .. Len(b) :
           c \o SubSeq(b, 1, k) = Append(c \o SubSeq(b, 1, k - 1), b[k])
      /\ SubSeq(b, 1, 0) = <<>>
  <2>1. Cellwise(Sendable, c, b)
    BY <1>1, Continued
  <2> QED BY <2>1 DEF Cellwise
<1>3. 0 \in P
  <2>1. SubSeq(b, 1, 0) = <<>> /\ M(0) = Pieces(c)
    BY <1>2
  <2>2. Pieces(c) = [done |-> Pieces(c).done, rest |-> Pieces(c).rest]
    BY PiecesType DEF StreamState
  <2> HIDE DEF M
  <2>3. Right(0)
    BY <2>1, <2>2
  <2> HIDE DEF Right
  <2> QED BY <1>1, <2>3
<1>4. ASSUME NEW k \in 1 .. m, k - 1 \in P PROVE k \in P
  <2>1. k \in 1 .. Len(b) /\ k - 1 \in 0 .. Len(b)
    BY <1>1
  <2>2. M(k) = Cut(M(k - 1), b[k])
    BY <1>1, <1>2, <2>1, PiecesAppend
  <2>3. M(k - 1) \in StreamState
    BY <1>2, <2>1, PiecesType
  <2>4. M(k - 1) = [done |-> Pieces(c).done, rest |-> SubSeq(b, 1, k - 1)]
    BY <1>4
  <2> HIDE DEF M
  <2>5. M(k - 1).rest = SubSeq(b, 1, k - 1) /\ M(k - 1).done = Pieces(c).done
    BY <2>4
  <2>6. ~Complete(b, k)
    OBVIOUS
  <2>7. M(k) = [done |-> M(k - 1).done, rest |-> SubSeq(b, 1, k)]
    BY <2>1, <2>2, <2>3, <2>5, <2>6, CutCell
  <2> QED BY <2>5, <2>7
<1> HIDE DEF P
<1>5. \A k \in 0 .. m : k \in P
  BY <1>1, <1>3, <1>4, Climb
<1>6. m \in P
  BY <1>1, <1>5
<1> QED BY <1>6 DEF P

\* When one is, it is a message, and nothing is left over.
LEMMA FrameComplete ==
  ASSUME NEW c \in Seq(Sendable), Pieces(c).rest = <<>>, NEW b \in Seq(Cell), b # <<>>,
         \A k \in 1 .. Len(b) - 1 : ~Complete(b, k), Complete(b, Len(b))
  PROVE  Pieces(c \o b) = [done |-> Append(Pieces(c).done, b), rest |-> <<>>]
<1> DEFINE n == Len(b)
           x == c \o SubSeq(b, 1, n - 1)
<1>1. n \in Nat \ {0} /\ b \in Seq(Sendable) /\ n \in 1 .. n /\ n - 1 \in 0 .. n /\ b[n] \in Sendable
  <2>1. n \in Nat \ {0} /\ b \in Seq(Sendable)
    BY EmptySeq, SeqMonotonic DEF Sendable
  <2> QED BY <2>1, LenProperties
<1>2. Pieces(x) = [done |-> Pieces(c).done, rest |-> SubSeq(b, 1, n - 1)]
  BY <1>1, Reading
<1>3. x \in Seq(Sendable) /\ c \o b = Append(x, b[n])
  <2>1. Cellwise(Sendable, c, b)
    BY <1>1, Continued
  <2> QED BY <1>1, <2>1 DEF Cellwise
<1>4. Pieces(c \o b) = Cut(Pieces(x), b[n]) /\ Pieces(x) \in StreamState
  BY <1>1, <1>3, PiecesAppend, PiecesType
<1>5. SubSeq(b, 1, n) = b
  BY SubSeqFull
<1>6. Pieces(x).rest = SubSeq(b, 1, n - 1) /\ Pieces(x).done = Pieces(c).done
  BY <1>2
<1>7. Cut(Pieces(x), b[n]) = [done |-> Append(Pieces(x).done, SubSeq(b, 1, n)), rest |-> <<>>]
  BY <1>1, <1>4, <1>6, CutCell
<1> QED BY <1>4, <1>5, <1>6, <1>7

\* A client that hangs up leaves nothing behind.
LEMMA HangsUp ==
  ASSUME NEW c \in Seq(Sendable)
  PROVE  Pieces(Append(c, End)) = [done |-> Pieces(c).done, rest |-> <<>>]
<1>1. End \in Sendable
  BY DEF Sendable
<1>2. Pieces(Append(c, End)) = Cut(Pieces(c), End)
  BY <1>1, PiecesAppend
<1> QED BY <1>2 DEF Cut

\* Messages are only ever added.
Extends(d, e) == Len(d) <= Len(e) /\ \A i \in 1 .. Len(d) : e[i] = d[i]

LEMMA CutExtends ==
  ASSUME NEW s \in StreamState, NEW x \in Sendable
  PROVE  /\ Extends(s.done, Cut(s, x).done)
         /\ x # End /\ Cut(s, x).rest = <<>> =>
              Len(Cut(s, x).done) = Len(s.done) + 1
<1>1. s.done \in Seq(Seq(Cell)) /\ s.rest \in Seq(Cell) /\ Len(s.done) \in Nat
  BY LenProperties DEF StreamState
<1> DEFINE rest == Append(s.rest, x)
<1>2. CASE x = End
  <2>1. Cut(s, x).done = s.done
    BY <1>2 DEF Cut
  <2> QED BY <1>1, <1>2, <2>1 DEF Extends
<1>3. CASE x # End
  <2>1. rest \in Seq(Cell) /\ rest # <<>>
    BY <1>1, <1>3, AppendProperties DEF Sendable
  <2>2. \/ Cut(s, x) = [done |-> Append(s.done, rest), rest |-> <<>>]
        \/ Cut(s, x) = [s EXCEPT !.rest = rest]
    BY <1>3 DEF Cut
  <2> HIDE DEF rest
  <2>3. CASE Cut(s, x) = [done |-> Append(s.done, rest), rest |-> <<>>]
    <3>1. Len(Append(s.done, rest)) = Len(s.done) + 1
          /\ \A i \in 1 .. Len(s.done) : Append(s.done, rest)[i] = s.done[i]
      BY <1>1, <2>1, AppendProperties
    <3>2. Cut(s, x).done = Append(s.done, rest)
      BY <2>3
    <3> QED BY <1>1, <3>1, <3>2 DEF Extends
  <2>4. CASE Cut(s, x) = [s EXCEPT !.rest = rest]
    <3>1. Cut(s, x).done = s.done /\ Cut(s, x).rest = rest
      BY <2>4 DEF StreamState
    <3> QED BY <1>1, <2>1, <3>1 DEF Extends
  <2> QED BY <2>2, <2>3, <2>4
<1> QED BY <1>2, <1>3

LEMMA DoneGrows ==
  ASSUME NEW a \in Seq(Sendable), NEW b \in Seq(Sendable)
  PROVE  Extends(Pieces(a).done, Pieces(a \o b).done)
<1> DEFINE M(k) == Pieces(a \o SubSeq(b, 1, k))
           n == Len(b)
           d == Pieces(a).done
           P == {k \in 0 .. n : Extends(d, M(k).done)}
<1>1. n \in Nat /\ d \in Seq(Seq(Cell)) /\ Len(d) \in Nat /\ \A k \in 1 .. n : b[k] \in Sendable
  BY LenProperties, PiecesType
<1>2. /\ M(0) = Pieces(a) /\ M(n) = Pieces(a \o b)
      /\ \A k \in 0 .. n : a \o SubSeq(b, 1, k) \in Seq(Sendable)
      /\ \A k \in 1 .. n : a \o SubSeq(b, 1, k) = Append(a \o SubSeq(b, 1, k - 1), b[k])
  <2>1. Cellwise(Sendable, a, b)
    BY Continued
  <2> QED BY <2>1 DEF Cellwise
<1>3. 0 \in P
  BY <1>1, <1>2 DEF Extends
<1>4. ASSUME NEW k \in 1 .. n, k - 1 \in P PROVE k \in P
  <2>1. k - 1 \in 0 .. n /\ k \in 0 .. n
    BY <1>1
  <2>2. M(k) = Cut(M(k - 1), b[k]) /\ M(k - 1) \in StreamState /\ M(k) \in StreamState
    BY <1>1, <1>2, <2>1, PiecesAppend, PiecesType
  <2>3. Extends(d, M(k - 1).done)
    BY <1>4
  <2> HIDE DEF M, d
  <2>4. Extends(M(k - 1).done, M(k).done)
    BY <1>1, <2>2, CutExtends
  <2>5. Len(M(k - 1).done) \in Nat /\ Len(M(k).done) \in Nat
    BY <2>2, LenProperties DEF StreamState
  <2>6. Extends(d, M(k).done)
    BY <1>1, <2>3, <2>4, <2>5 DEF Extends
  <2> QED BY <2>1, <2>6
<1> HIDE DEF P
<1>5. \A k \in 0 .. n : k \in P
  BY <1>1, <1>3, <1>4, Climb
<1>6. n \in P
  BY <1>1, <1>5
<1> QED BY <1>2, <1>6 DEF P

\* What ends with a whole message, and not with nothing, has one message more.
LEMMA EndsWithMessage ==
  ASSUME NEW a \in Seq(Sendable), NEW b \in Seq(Sendable), b # <<>>,
         b[Len(b)] # End, Pieces(a \o b).rest = <<>>
  PROVE  Len(Pieces(a).done) < Len(Pieces(a \o b).done)
<1> DEFINE n == Len(b)
           p == SubSeq(b, 1, n - 1)
           x == a \o p
<1>1. n \in Nat \ {0} /\ n \in 1 .. n /\ b[n] \in Sendable
  <2>1. n \in Nat \ {0}
    BY EmptySeq
  <2> QED BY <2>1, LenProperties
<1>2. p \in Seq(Sendable)
  <2>1. \A i \in 1 .. n - 1 : b[i] \in Sendable
    BY <1>1, LenProperties
  <2> QED BY <1>1, <2>1, SubSeqProperties
<1>3. x \in Seq(Sendable) /\ a \o b = Append(x, b[n])
  <2>1. Cellwise(Sendable, a, b)
    BY Continued
  <2>2. a \o SubSeq(b, 1, n) = Append(a \o SubSeq(b, 1, n - 1), b[n])
        /\ a \o SubSeq(b, 1, n) = a \o b
    BY <1>1, <2>1 DEF Cellwise
  <2> QED BY <1>2, <2>2, ConcatProperties
<1>4. Pieces(a \o b) = Cut(Pieces(x), b[n]) /\ Pieces(x) \in StreamState
  BY <1>1, <1>3, PiecesAppend, PiecesType
<1>5. Len(Pieces(a \o b).done) = Len(Pieces(x).done) + 1
  BY <1>1, <1>4, CutExtends
<1>6. Len(Pieces(a).done) <= Len(Pieces(x).done)
  BY <1>2, DoneGrows DEF Extends
<1>7. Len(Pieces(a).done) \in Nat /\ Len(Pieces(x).done) \in Nat
  BY <1>3, PiecesType
<1> QED BY <1>5, <1>6, <1>7

\* Tags and texts take turns in all pieces and in what has come of the next.
Aligned(s) == (\A k \in DOMAIN s.done : Alternates(s.done[k])) /\ Alternates(s.rest)

LEMMA CutAligned ==
  ASSUME NEW s \in StreamState, Aligned(s), NEW c \in Sendable, NEW k \in Nat \ {0},
         Len(s.rest) % 2 = (k - 1) % 2,
         c = End \/ c \in (IF k % 2 = 1 THEN TagCell ELSE TextCell)
  PROVE  /\ Aligned(Cut(s, c))
         /\ c = End => Cut(s, c).rest = <<>>
         /\ c # End => Len(Cut(s, c).rest) % 2 = k % 2
<1>1. /\ s.done \in Seq(Seq(Cell)) /\ s.rest \in Seq(Cell)
      /\ Len(s.done) \in Nat /\ DOMAIN s.done = 1 .. Len(s.done)
      /\ Len(s.rest) \in Nat /\ DOMAIN s.rest = 1 .. Len(s.rest)
  BY LenProperties DEF StreamState
<1>2. Alternates(<<>>)
  BY DEF Alternates
<1>3. CASE c = End
  <2>1. Cut(s, c) = [done |-> s.done, rest |-> <<>>]
    BY <1>3 DEF Cut
  <2> QED BY <1>2, <1>3, <2>1 DEF Aligned
<1>4. CASE c # End
  <2> DEFINE rest == Append(s.rest, c)
             n == Len(s.rest) + 1
  <2>1. /\ rest \in Seq(Cell) /\ Len(rest) = n /\ DOMAIN rest = 1 .. n /\ rest[n] = c
        /\ \A j \in 1 .. Len(s.rest) : rest[j] = s.rest[j]
    BY <1>1, <1>4, AppendProperties, LenProperties DEF Sendable
  <2>2. n % 2 = k % 2
    <3> DEFINE l == Len(s.rest)
    <3>1. l \in Nat /\ l % 2 = (k - 1) % 2
      BY <1>1
    <3> HIDE DEF l
    <3>2. (l + 1) % 2 = k % 2
      BY <3>1
    <3> QED BY <3>2 DEF l
  <2>3. Alternates(rest)
    <3> SUFFICES ASSUME NEW j \in 1 .. n
                 PROVE  rest[j] \in (IF j % 2 = 1 THEN TagCell ELSE TextCell)
      BY <2>1 DEF Alternates
    <3>1. CASE j = n
      <4>1. rest[j] = c /\ j % 2 = k % 2
        BY <2>1, <2>2, <3>1
      <4> HIDE DEF rest, n
      <4> QED BY <1>4, <4>1
    <3>2. CASE j # n
      <4>1. j \in DOMAIN s.rest /\ rest[j] = s.rest[j]
        BY <1>1, <2>1, <3>2
      <4> QED BY <4>1 DEF Aligned, Alternates
    <3> QED BY <3>1, <3>2
  <2>4. \/ /\ Cut(s, c) = [done |-> Append(s.done, rest), rest |-> <<>>]
           /\ c.kind = "text"
        \/ Cut(s, c) = [s EXCEPT !.rest = rest]
    BY <1>4 DEF Cut
  <2> HIDE DEF rest
  <2>5. CASE Cut(s, c) = [done |-> Append(s.done, rest), rest |-> <<>>] /\ c.kind = "text"
    <3>1. /\ DOMAIN Append(s.done, rest) = 1 .. Len(s.done) + 1
          /\ Append(s.done, rest)[Len(s.done) + 1] = rest
          /\ \A j \in 1 .. Len(s.done) : Append(s.done, rest)[j] = s.done[j]
      BY <1>1, <2>1, AppendProperties, LenProperties
    <3>2. \A j \in 1 .. Len(s.done) + 1 : Alternates(Append(s.done, rest)[j])
      <4> TAKE j \in 1 .. Len(s.done) + 1
      <4>1. CASE j = Len(s.done) + 1
        BY <2>3, <3>1, <4>1
      <4>2. CASE j # Len(s.done) + 1
        <5>1. j \in 1 .. Len(s.done)
          BY <1>1, <4>2
        <5> QED BY <1>1, <3>1, <5>1 DEF Aligned
      <4> QED BY <4>1, <4>2
    <3>3. Aligned(Cut(s, c))
      BY <1>2, <2>5, <3>1, <3>2 DEF Aligned
    <3>4. k % 2 = 0
      BY <1>4, <2>5 DEF TagCell
    <3>5. Cut(s, c).rest = <<>> /\ Len(<<>>) = 0
      BY <2>5
    <3> QED BY <1>4, <3>3, <3>4, <3>5
  <2>6. CASE Cut(s, c) = [s EXCEPT !.rest = rest]
    <3>1. Cut(s, c).done = s.done /\ Cut(s, c).rest = rest
      BY <2>6 DEF StreamState
    <3>2. Aligned(Cut(s, c))
      BY <2>3, <3>1 DEF Aligned
    <3> QED BY <1>4, <2>1, <2>2, <3>1, <3>2
  <2> QED BY <2>4, <2>5, <2>6
<1> QED BY <1>3, <1>4

-----------------------------------------------------------------------------
(* The messages that clients mean, and the pieces that they are cut into.  *)

ReceivedState == [done : Seq([cells : Seq(Cell), call : Nat]), rest : Seq(Cell), calls : Nat]
NoneYet == [done |-> <<>>, rest |-> <<>>, calls |-> 0]

LEMMA ReceivedType ==
  ASSUME NEW s \in ReceivedState, NEW c \in Sendable
  PROVE  Received(s, c) \in ReceivedState
<1>1. /\ s.done \in Seq([cells : Seq(Cell), call : Nat]) /\ s.rest \in Seq(Cell)
      /\ s.calls \in Nat /\ <<>> \in Seq(Cell)
  BY DEF ReceivedState
<1>2. CASE c = End
  <2>1. Received(s, c) = [s EXCEPT !.rest = <<>>]
    BY <1>2 DEF Received
  <2> QED BY <1>1, <2>1 DEF ReceivedState
<1>3. CASE c # End
  <2> DEFINE rest == Append(s.rest, c)
             field == {k \in DOMAIN rest : k >= Len(rest) - 1}
             calls == s.calls + (IF \E k \in field : HasTen(rest[k]) THEN 1 ELSE 0)
             done == Append(s.done, [cells |-> rest, call |-> calls])
  <2>1. rest \in Seq(Cell)
    BY <1>1, <1>3, AppendProperties DEF Sendable
  <2>2. calls \in Nat
    <3>1. (IF \E k \in field : HasTen(rest[k]) THEN 1 ELSE 0) \in Nat
      OBVIOUS
    <3> QED BY <1>1, <3>1
  <2>3. done \in Seq([cells : Seq(Cell), call : Nat])
    <3> HIDE DEF rest, calls
    <3>1. [cells |-> rest, call |-> calls] \in [cells : Seq(Cell), call : Nat]
      BY <2>1, <2>2
    <3> QED BY <1>1, <3>1, AppendProperties
  <2>4. Received(s, c) \in {[s EXCEPT !.rest = rest], [s EXCEPT !.rest = rest, !.calls = calls],
                            [done |-> done, rest |-> <<>>, calls |-> calls]}
    BY <1>3, Zenon DEF Received
  <2> HIDE DEF rest, calls, done
  <2>5. [s EXCEPT !.rest = rest] \in ReceivedState
    BY <2>1 DEF ReceivedState
  <2>6. [s EXCEPT !.rest = rest, !.calls = calls] \in ReceivedState
    BY <2>1, <2>2 DEF ReceivedState
  <2>7. [done |-> done, rest |-> <<>>, calls |-> calls] \in ReceivedState
    BY <1>1, <2>2, <2>3 DEF ReceivedState
  <2> QED BY <2>4, <2>5, <2>6, <2>7
<1> QED BY <1>2, <1>3

\* The states that reading a stream goes through.
LEMMA MessagesRead ==
  ASSUME NEW stream \in Seq(Sendable)
  PROVE  \E g : /\ g \in [0 .. Len(stream) -> ReceivedState] /\ g[0] = NoneYet
                /\ \A k \in 1 .. Len(stream) : g[k] = Received(g[k - 1], stream[k])
                /\ Messages(stream) = g[Len(stream)]
<1> DEFINE n == Len(stream)
           F == [x \in (1 .. n) \X ReceivedState |-> Received(x[2], stream[x[1]])]
           Is(after) == after = [k \in 0 .. n |-> IF k = 0 THEN NoneYet
                                                  ELSE Received(after[k - 1], stream[k])]
           res == CHOOSE after : Is(after)
<1>1. n \in Nat /\ \A k \in 1 .. n : stream[k] \in Sendable
  BY LenProperties
<1>2. Messages(stream) = res[n]
  BY DEF Messages, NoneYet
<1>3. NoneYet \in ReceivedState
  BY DEF NoneYet, ReceivedState
<1>4. \A k \in 1 .. n, s \in ReceivedState : F[<<k, s>>] = Received(s, stream[k])
  OBVIOUS
<1>5. F \in [(1 .. n) \X ReceivedState -> ReceivedState]
  <2>1. \A x \in (1 .. n) \X ReceivedState : Received(x[2], stream[x[1]]) \in ReceivedState
    <3> TAKE x \in (1 .. n) \X ReceivedState
    <3>1. x[2] \in ReceivedState /\ stream[x[1]] \in Sendable
      BY <1>1
    <3> QED BY <3>1, ReceivedType
  <2> QED BY <2>1
<1> HIDE DEF F, n
<1>6. PICK g : Steps(g, n, ReceivedState, NoneYet, F)
  BY <1>1, <1>3, <1>5, Iterates
<1>7. /\ g \in [0 .. n -> ReceivedState] /\ g[0] = NoneYet
      /\ \A k \in 1 .. n : g[k] = Received(g[k - 1], stream[k])
  <2>1. g \in [0 .. n -> ReceivedState] /\ g[0] = NoneYet
        /\ \A k \in 1 .. n : g[k] = F[<<k, g[k - 1]>>]
    BY <1>6 DEF Steps
  <2>2. \A k \in 1 .. n : g[k - 1] \in ReceivedState
    BY <1>1, <2>1
  <2> QED BY <2>1, <2>2, <1>4
<1>8. Is(g)
  <2>1. g = [k \in 0 .. n |-> g[k]]
    BY <1>7
  <2>2. \A k \in 0 .. n : g[k] = IF k = 0 THEN NoneYet ELSE Received(g[k - 1], stream[k])
    BY <1>1, <1>7
  <2> QED BY <2>1, <2>2
<1>9. Is(res)
  <2> HIDE DEF Is
  <2> QED BY <1>8
<1> HIDE DEF res
<1>10. \A k \in 0 .. n : res[k] = g[k]
  <2> DEFINE P == {k \in 0 .. n : res[k] = g[k]}
  <2>1. \A k \in 0 .. n : res[k] = IF k = 0 THEN NoneYet ELSE Received(res[k - 1], stream[k])
    BY <1>9
  <2> HIDE DEF Is
  <2>2. 0 \in P
    BY <2>1, <1>1, <1>7
  <2>3. ASSUME NEW k \in 1 .. n, k - 1 \in P PROVE k \in P
    BY <2>1, <2>3, <1>1, <1>7
  <2> HIDE DEF P
  <2>4. \A k \in 0 .. n : k \in P
    BY <1>1, <2>2, <2>3, Climb
  <2> QED BY <2>4 DEF P
<1>11. res[n] = g[n]
  BY <1>1, <1>10
<1> QED BY <1>2, <1>7, <1>11 DEF n

LEMMA MessagesEmpty == Messages(<<>>) = NoneYet
<1>1. <<>> \in Seq(Sendable) /\ Len(<<>>) = 0
  OBVIOUS
<1> QED BY <1>1, MessagesRead

LEMMA MessagesType ==
  ASSUME NEW stream \in Seq(Sendable)
  PROVE  Messages(stream) \in ReceivedState
<1>1. Len(stream) \in Nat
  BY LenProperties
<1> QED BY <1>1, MessagesRead

\* A cell more is a step more.
LEMMA MessagesAppend ==
  ASSUME NEW stream \in Seq(Sendable), NEW c \in Sendable
  PROVE  Messages(Append(stream, c)) = Received(Messages(stream), c)
<1> DEFINE n == Len(stream)
           longer == Append(stream, c)
<1>1. /\ n \in Nat /\ longer \in Seq(Sendable) /\ Len(longer) = n + 1
      /\ longer[n + 1] = c /\ \A k \in 1 .. n : longer[k] = stream[k]
  BY LenProperties, AppendProperties
<1>2. PICK g : /\ g \in [0 .. n -> ReceivedState] /\ g[0] = NoneYet
               /\ \A k \in 1 .. n : g[k] = Received(g[k - 1], stream[k])
               /\ Messages(stream) = g[n]
  BY MessagesRead
<1>3. PICK f : /\ f \in [0 .. Len(longer) -> ReceivedState] /\ f[0] = NoneYet
               /\ \A k \in 1 .. Len(longer) : f[k] = Received(f[k - 1], longer[k])
               /\ Messages(longer) = f[Len(longer)]
  BY <1>1, MessagesRead
<1> HIDE DEF n, longer
<1> DEFINE P == {k \in 0 .. n : f[k] = g[k]}
<1>4. 0 \in P
  BY <1>1, <1>2, <1>3
<1>5. ASSUME NEW k \in 1 .. n, k - 1 \in P PROVE k \in P
  <2>1. k \in 1 .. Len(longer) /\ longer[k] = stream[k] /\ f[k - 1] = g[k - 1]
    BY <1>1, <1>5
  <2> QED BY <1>2, <1>3, <2>1
<1>6. f[n] = g[n]
  <2> HIDE DEF P
  <2>1. \A k \in 0 .. n : k \in P
    BY <1>1, <1>4, <1>5, Climb
  <2> QED BY <1>1, <2>1 DEF P
<1>7. f[n + 1] = Received(f[n], c)
  <2>1. n + 1 \in 1 .. Len(longer) /\ (n + 1) - 1 = n
    BY <1>1
  <2> QED BY <1>1, <1>3, <2>1
<1> QED BY <1>1, <1>2, <1>3, <1>6, <1>7 DEF longer

\* r: the stream as messages; c: the same stream as pieces.  What is left of the
\* pieces ends what is left of the messages; it has no 10= but in a tag whose value
\* is to come, and what goes before it has one.  A message in whose fields there is
\* no other 10= is the piece of its call.
Joint(r, c) ==
  /\ r.calls = Len(c.done)
  /\ Len(c.rest) <= Len(r.rest) /\ Len(c.rest) % 2 = Len(r.rest) % 2
  /\ \A k \in 1 .. Len(c.rest) : c.rest[k] = r.rest[k + (Len(r.rest) - Len(c.rest))]
  /\ \A k \in 1 .. Len(c.rest) : HasTen(c.rest[k]) => k = Len(c.rest) /\ k % 2 = 1
  /\ Len(c.rest) < Len(r.rest) =>
       \E k \in 1 .. Len(r.rest) - Len(c.rest) : HasTen(r.rest[k])
  /\ \A j \in 1 .. Len(r.done) :
       /\ r.done[j].call \in 1 .. Len(c.done)
       /\ OneEnd(r.done[j].cells) => c.done[r.done[j].call] = r.done[j].cells

LEMMA TenHasTen == HasTen(Tag(Numeral(10)))
<1>1. Numeral(10) = <<1, 0>>
  BY DEF Numeral
<1>2. Tag(Numeral(10)).kind = "tag" /\ Tag(Numeral(10)).text = <<1, 0>>
  BY <1>1 DEF Tag
<1> DEFINE bytes == <<1, 0, Equals>>
<1>3. Append(<<1, 0>>, Equals) = bytes
  <2>1. <<1, 0>> \in Seq(Int) /\ Equals \in Int /\ Len(<<1, 0>>) = 2
    BY DEF Equals
  <2> DEFINE a == Append(<<1, 0>>, Equals)
  <2>2. /\ a \in Seq(Int) /\ Len(a) = 2 + 1 /\ a[2 + 1] = Equals
        /\ \A i \in 1 .. 2 : a[i] = <<1, 0>>[i]
    BY <2>1, AppendProperties
  <2> HIDE DEF a
  <2>3. bytes \in Seq(Int) /\ Len(bytes) = 3
    BY <2>1
  <2>4. a[1] = 1 /\ a[2] = 0 /\ a[3] = Equals
    BY <2>2
  <2>5. \A i \in 1 .. 3 : a[i] = bytes[i]
    BY <2>4
  <2>6. Len(a) = 3
    BY <2>2
  <2> HIDE DEF bytes
  <2>7. a = bytes
    BY <2>2, <2>3, <2>5, <2>6, SeqEqual
  <2> QED BY <2>7 DEF a
<1>4. Len(bytes) = 3 /\ bytes \in Seq(Int)
  BY DEF Equals
<1>5. SubSeq(bytes, 1, 3) = bytes
  BY <1>4, SubSeqFull
<1>6. 1 \in 1 .. Len(bytes) - 2 /\ 1 + 2 = 3
  BY <1>4
<1>7. \E k \in 1 .. Len(bytes) - 2 : SubSeq(bytes, k, k + 2) = <<1, 0, Equals>>
  BY <1>5, <1>6
<1> HIDE DEF bytes
<1> QED BY <1>2, <1>3, <1>7 DEF HasTen

LEMMA Parity ==
  ASSUME NEW m \in Nat, NEW n \in Nat, m <= n, m % 2 = n % 2
  PROVE  /\ m + 1 <= n + 1 /\ (m + 1) % 2 = (n + 1) % 2
         /\ (m + 1 < n + 1 <=> m < n) /\ (n + 1) - (m + 1) = n - m
         /\ m % 2 = 0 => (m + 1) % 2 = 1
         /\ m % 2 # 0 => m % 2 = 1 /\ m >= 1 /\ n >= 1 /\ (n + 1) % 2 = 0
OBVIOUS

\* A cell more, of the kind that is due, or the end.
LEMMA JointStep ==
  ASSUME NEW r \in ReceivedState, NEW c \in StreamState, Joint(r, c), NEW x \in Sendable,
         \/ x = End
         \/ x \in (IF Len(c.rest) % 2 = 0 THEN TagCell ELSE TextCell)
  PROVE  Joint(Received(r, x), Cut(c, x))
<1> DEFINE n == Len(r.rest)
           m == Len(c.rest)
           R == Append(r.rest, x)
           C == Append(c.rest, x)
           d == Len(c.done)
<1>1. /\ n \in Nat /\ m \in Nat /\ d \in Nat /\ r.calls = d /\ m <= n /\ m % 2 = n % 2
      /\ c.done \in Seq(Seq(Cell)) /\ c.rest \in Seq(Cell) /\ r.rest \in Seq(Cell)
      /\ r.done \in Seq([cells : Seq(Cell), call : Nat]) /\ Len(r.done) \in Nat
  <2>1. /\ c.done \in Seq(Seq(Cell)) /\ c.rest \in Seq(Cell) /\ r.rest \in Seq(Cell)
        /\ r.done \in Seq([cells : Seq(Cell), call : Nat])
    BY DEF ReceivedState, StreamState
  <2> QED BY <2>1, LenProperties DEF Joint
<1>7. /\ m + 1 <= n + 1 /\ (m + 1) % 2 = (n + 1) % 2
      /\ (m + 1 < n + 1 <=> m < n) /\ (n + 1) - (m + 1) = n - m
      /\ m % 2 = 0 => (m + 1) % 2 = 1
      /\ m % 2 # 0 => m % 2 = 1 /\ m >= 1 /\ n >= 1 /\ (n + 1) % 2 = 0
  <2> HIDE DEF n, m
  <2> QED BY <1>1, Parity
<1>2. /\ \A k \in 1 .. m : c.rest[k] = r.rest[k + (n - m)]
      /\ \A k \in 1 .. m : HasTen(c.rest[k]) => k = m /\ k % 2 = 1
      /\ m < n => \E k \in 1 .. n - m : HasTen(r.rest[k])
      /\ \A j \in 1 .. Len(r.done) :
           /\ r.done[j].call \in 1 .. d
           /\ OneEnd(r.done[j].cells) => c.done[r.done[j].call] = r.done[j].cells
  BY DEF Joint
<1>3. CASE x = End
  <2>1. /\ Received(r, x).calls = r.calls /\ Received(r, x).rest = <<>>
        /\ Received(r, x).done = r.done
    BY <1>3 DEF Received, ReceivedState
  <2>2. Cut(c, x).done = c.done /\ Cut(c, x).rest = <<>>
    BY <1>3 DEF Cut
  <2>3. Len(<<>>) = 0
    OBVIOUS
  <2> HIDE DEF n, m, d
  <2> QED BY <1>1, <1>2, <2>1, <2>2, <2>3 DEF Joint, d
<1>4. ASSUME x # End
      PROVE  /\ x \in Cell /\ R \in Seq(Cell) /\ C \in Seq(Cell)
             /\ Len(R) = n + 1 /\ Len(C) = m + 1 /\ DOMAIN R = 1 .. n + 1 /\ DOMAIN C = 1 .. m + 1
             /\ R[n + 1] = x /\ C[m + 1] = x
             /\ \A k \in 1 .. n : R[k] = r.rest[k]
             /\ \A k \in 1 .. m : C[k] = c.rest[k]
             /\ \A k \in 1 .. m + 1 : C[k] = R[k + ((n + 1) - (m + 1))]
  <2>1. x \in Cell
    BY <1>4 DEF Sendable
  <2>2. /\ R \in Seq(Cell) /\ Len(R) = n + 1 /\ R[n + 1] = x /\ \A k \in 1 .. n : R[k] = r.rest[k]
    BY <1>1, <2>1, AppendProperties
  <2>3. /\ C \in Seq(Cell) /\ Len(C) = m + 1 /\ C[m + 1] = x /\ \A k \in 1 .. m : C[k] = c.rest[k]
    BY <1>1, <2>1, AppendProperties
  <2>4. DOMAIN R = 1 .. n + 1 /\ DOMAIN C = 1 .. m + 1
    BY <2>2, <2>3, LenProperties
  <2> HIDE DEF R, C, n, m
  <2>5. ASSUME NEW k \in 1 .. m + 1 PROVE C[k] = R[k + ((n + 1) - (m + 1))]
    <3>1. CASE k = m + 1
      <4>1. k + ((n + 1) - (m + 1)) = n + 1
        BY <1>1, <3>1
      <4> QED BY <2>2, <2>3, <3>1, <4>1
    <3>2. CASE k # m + 1
      <4>1. k \in 1 .. m /\ k + ((n + 1) - (m + 1)) = k + (n - m) /\ k + (n - m) \in 1 .. n
        BY <1>1, <3>2
      <4> QED BY <1>2, <2>2, <2>3, <4>1
    <3> QED BY <3>1, <3>2
  <2> QED BY <2>1, <2>2, <2>3, <2>4, <2>5
<1>5. CASE x # End /\ m % 2 = 0
  <2>1. x.kind = "tag"
    BY <1>5 DEF TagCell
  <2>2. /\ Received(r, x).calls = r.calls /\ Received(r, x).rest = R
        /\ Received(r, x).done = r.done
    BY <1>5, <2>1 DEF Received, ReceivedState
  <2>3. Cut(c, x).done = c.done /\ Cut(c, x).rest = C
    BY <1>5, <2>1 DEF Cut, StreamState
  <2>4. \A k \in 1 .. m + 1 : HasTen(C[k]) => k = m + 1 /\ k % 2 = 1
    <3> SUFFICES ASSUME NEW k \in 1 .. m + 1, HasTen(C[k]) PROVE k = m + 1 /\ k % 2 = 1
      OBVIOUS
    <3>1. CASE k = m + 1
      BY <1>7, <1>5, <3>1
    <3>2. CASE k # m + 1
      <4>1. k \in 1 .. m
        BY <1>1, <3>2
      <4>2. HasTen(c.rest[k])
        BY <1>4, <1>5, <4>1
      <4>3. k = m /\ k % 2 = 1
        BY <1>2, <4>1, <4>2
      <4> HIDE DEF m, R, C
      <4>4. m % 2 = 1
        BY <4>3
      <4> QED BY <1>5, <4>4
    <3> QED BY <3>1, <3>2
  <2>5. m + 1 < n + 1 => \E k \in 1 .. (n + 1) - (m + 1) : HasTen(R[k])
    <3> SUFFICES ASSUME m < n PROVE \E k \in 1 .. n - m : HasTen(R[k])
      <4> HIDE DEF m, n, R
      <4> QED BY <1>7
    <3>1. PICK k \in 1 .. n - m : HasTen(r.rest[k])
      BY <1>2
    <3>2. k \in 1 .. n
      BY <1>1
    <3> QED BY <1>4, <1>5, <3>1, <3>2
  <2>6. m + 1 <= n + 1 /\ (m + 1) % 2 = (n + 1) % 2
    BY <1>7
  <2> HIDE DEF R, C, n, m, d
  <2>7. \A j \in 1 .. Len(Received(r, x).done) :
          /\ Received(r, x).done[j].call \in 1 .. Len(Cut(c, x).done)
          /\ OneEnd(Received(r, x).done[j].cells) =>
               Cut(c, x).done[Received(r, x).done[j].call] = Received(r, x).done[j].cells
    BY <1>2, <2>2, <2>3 DEF d
  <2>8. /\ Len(Cut(c, x).rest) = m + 1 /\ Len(Received(r, x).rest) = n + 1
        /\ Received(r, x).calls = Len(Cut(c, x).done)
    BY <1>1, <1>4, <1>5, <2>2, <2>3 DEF d
  <2>9. /\ \A k \in 1 .. m + 1 : Cut(c, x).rest[k] = Received(r, x).rest[k + ((n + 1) - (m + 1))]
        /\ \A k \in 1 .. m + 1 : HasTen(Cut(c, x).rest[k]) => k = m + 1 /\ k % 2 = 1
        /\ m + 1 < n + 1 => \E k \in 1 .. (n + 1) - (m + 1) : HasTen(Received(r, x).rest[k])
    BY <1>4, <1>5, <2>2, <2>3, <2>4, <2>5
  <2> QED BY <2>6, <2>7, <2>8, <2>9, SMTT(30) DEF Joint
<1>6. CASE x # End /\ m % 2 # 0
  <2> DEFINE field == {k \in DOMAIN R : k >= Len(R) - 1}
             ten == \E k \in field : HasTen(R[k])
             calls == r.calls + (IF ten THEN 1 ELSE 0)
  <2>1. x.kind = "text"
    BY <1>6 DEF TextCell
  <2>2. m % 2 = 1 /\ m >= 1 /\ n >= 1 /\ (n + 1) % 2 = 0
    BY <1>7, <1>6
  <2>3. C[m] = R[n] /\ field = {n, n + 1}
    <3>1. m \in 1 .. m + 1 /\ m + ((n + 1) - (m + 1)) = n
      BY <1>1, <2>2
    <3>2. C[m] = R[n]
      <4> HIDE DEF R, C, n, m
      <4> QED BY <1>4, <1>6, <3>1
    <3>3. DOMAIN R = 1 .. n + 1 /\ Len(R) = n + 1
      BY <1>4, <1>6
    <3>4. n \in Nat /\ n >= 1
      BY <1>1, <2>2
    <3> HIDE DEF R, C, n, m
    <3>5. field = {k \in 1 .. n + 1 : k >= (n + 1) - 1}
      BY <3>3
    <3>6. {k \in 1 .. n + 1 : k >= (n + 1) - 1} = {n, n + 1}
      BY <3>4
    <3> QED BY <3>2, <3>5, <3>6
  <2>4. ten <=> \E k \in 1 .. m + 1 : HasTen(C[k])
    <3>1. ASSUME ten PROVE \E k \in 1 .. m + 1 : HasTen(C[k])
      <4>1. HasTen(R[n]) \/ HasTen(R[n + 1])
        BY <2>3, <3>1
      <4>2. HasTen(C[m]) \/ HasTen(C[m + 1])
        BY <1>4, <1>6, <2>3, <4>1
      <4>3. m \in 1 .. m + 1 /\ m + 1 \in 1 .. m + 1
        BY <1>1, <2>2
      <4> QED BY <4>2, <4>3
    <3>2. ASSUME NEW k \in 1 .. m + 1, HasTen(C[k]) PROVE ten
      <4>1. CASE k = m + 1
        BY <1>4, <1>6, <2>3, <3>2, <4>1
      <4>2. CASE k # m + 1
        <5>1. k \in 1 .. m /\ HasTen(c.rest[k])
          BY <1>1, <1>4, <1>6, <3>2, <4>2
        <5>2. k = m
          BY <1>2, <5>1
        <5> QED BY <2>3, <3>2, <5>2
      <4> QED BY <4>1, <4>2
    <3> QED BY <3>1, <3>2
  <2>5. Received(r, x) = IF R[n] = Tag(Numeral(10))
                         THEN [done |-> Append(r.done, [cells |-> R, call |-> calls]),
                               rest |-> <<>>, calls |-> calls]
                         ELSE [r EXCEPT !.rest = R, !.calls = calls]
    <3>1. Len(R) - 1 = n
      BY <1>1, <1>4, <1>6
    <3>2. x.kind # "tag"
      BY <2>1
    <3>3. Received(r, x) = IF R[Len(R) - 1] = Tag(Numeral(10))
                           THEN [done |-> Append(r.done, [cells |-> R, call |-> calls]),
                                 rest |-> <<>>, calls |-> calls]
                           ELSE [r EXCEPT !.rest = R, !.calls = calls]
      BY <1>6, <3>2, Zenon DEF Received
    <3> HIDE DEF R, n
    <3> QED BY <3>1, <3>3
  <2>6. Cut(c, x) = IF \E k \in 1 .. m + 1 : HasTen(C[k])
                    THEN [done |-> Append(c.done, C), rest |-> <<>>]
                    ELSE [c EXCEPT !.rest = C]
    <3>1. DOMAIN C = 1 .. m + 1
      BY <1>4, <1>6
    <3>2. Cut(c, x) = IF \E k \in DOMAIN C : HasTen(C[k])
                      THEN [done |-> Append(c.done, C), rest |-> <<>>]
                      ELSE [c EXCEPT !.rest = C]
      BY <1>6, <2>1, Zenon DEF Cut
    <3> QED BY <3>1, <3>2
  <2>7. /\ Len(R) = n + 1 /\ Len(C) = m + 1 /\ R \in Seq(Cell) /\ C \in Seq(Cell)
        /\ \A k \in 1 .. n : R[k] = r.rest[k]
        /\ \A k \in 1 .. m + 1 : C[k] = R[k + ((n + 1) - (m + 1))]
    BY <1>4, <1>6
  <2>8. \A k \in field : k \in 1 .. n + 1
    BY <2>3, <1>1, <2>2
  <2>9. m + 1 <= n + 1 /\ (m + 1) % 2 = (n + 1) % 2
    BY <1>7
  <2>10. m < n => \E k \in 1 .. n - m : HasTen(R[k])
    <3> SUFFICES ASSUME m < n PROVE \E k \in 1 .. n - m : HasTen(R[k])
      OBVIOUS
    <3>1. PICK k \in 1 .. n - m : HasTen(r.rest[k])
      BY <1>2
    <3>2. k \in 1 .. n
      BY <1>1
    <3> QED BY <2>7, <3>1, <3>2
  <2>11. CASE ~ten
    <3>1. R[n] # Tag(Numeral(10))
      BY <2>3, <2>11, TenHasTen
    <3> HIDE DEF ten, d
    <3>2. calls = d
      <4>1. calls = d + 0
        BY <1>1, <2>11
      <4> QED BY <1>1, <4>1
    <3>3. Received(r, x) = [r EXCEPT !.rest = R, !.calls = calls] /\ Cut(c, x) = [c EXCEPT !.rest = C]
      BY <2>4, <2>5, <2>6, <2>11, <3>1
    <3> HIDE DEF R, C, calls
    <3>4. /\ Received(r, x).calls = d /\ Received(r, x).rest = R /\ Received(r, x).done = r.done
          /\ Cut(c, x).done = c.done /\ Cut(c, x).rest = C
      BY <3>2, <3>3 DEF ReceivedState, StreamState
    <3>5. \A k \in 1 .. m + 1 : ~HasTen(C[k])
      BY <2>4, <2>11
    <3>6. (n + 1) - (m + 1) = n - m /\ (m + 1 < n + 1 <=> m < n)
      BY <1>7
    <3> HIDE DEF n, m, d
    <3>7. \A j \in 1 .. Len(Received(r, x).done) :
            /\ Received(r, x).done[j].call \in 1 .. Len(Cut(c, x).done)
            /\ OneEnd(Received(r, x).done[j].cells) =>
                 Cut(c, x).done[Received(r, x).done[j].call] = Received(r, x).done[j].cells
      BY <1>2, <3>4 DEF d
    <3>8. /\ Len(Cut(c, x).rest) = m + 1 /\ Len(Received(r, x).rest) = n + 1
          /\ Received(r, x).calls = Len(Cut(c, x).done)
      BY <2>7, <3>4 DEF d
    <3>9. /\ \A k \in 1 .. m + 1 : Cut(c, x).rest[k] = Received(r, x).rest[k + ((n + 1) - (m + 1))]
          /\ \A k \in 1 .. m + 1 : ~HasTen(Cut(c, x).rest[k])
          /\ m + 1 < n + 1 => \E k \in 1 .. (n + 1) - (m + 1) : HasTen(Received(r, x).rest[k])
      BY <2>7, <2>10, <3>4, <3>5, <3>6
    <3> QED BY <2>9, <3>7, <3>8, <3>9, SMTT(30) DEF Joint
  <2>12. CASE ten
    <3>1. calls = d + 1
      BY <1>1, <2>12
    <3>2. \E k \in 1 .. n + 1 : HasTen(R[k])
      BY <2>8, <2>12
    <3> HIDE DEF ten, calls
    <3>3. Cut(c, x) = [done |-> Append(c.done, C), rest |-> <<>>]
      BY <2>4, <2>6, <2>12
    <3> DEFINE done == Append(c.done, C)
    <3>4. /\ Len(done) = d + 1 /\ done[d + 1] = C
          /\ \A k \in 1 .. d : done[k] = c.done[k]
      BY <1>1, <2>7, AppendProperties
    <3>5. /\ Cut(c, x).done = done /\ Cut(c, x).rest = <<>> /\ Len(<<>>) = 0
      BY <3>3
    <3>6. \A j \in 1 .. Len(r.done) :
            /\ r.done[j].call \in 1 .. d + 1
            /\ OneEnd(r.done[j].cells) => done[r.done[j].call] = r.done[j].cells
      <4> TAKE j \in 1 .. Len(r.done)
      <4>1. /\ r.done[j].call \in 1 .. d
            /\ OneEnd(r.done[j].cells) => c.done[r.done[j].call] = r.done[j].cells
        BY <1>2
      <4> HIDE DEF done, d
      <4>2. d \in Nat
        BY <1>1
      <4>3. r.done[j].call \in 1 .. d + 1
        BY <4>1, <4>2
      <4>4. done[r.done[j].call] = c.done[r.done[j].call]
        BY <3>4, <4>1
      <4> QED BY <4>1, <4>3, <4>4
    <3>7. CASE R[n] # Tag(Numeral(10))
      <4>1. Received(r, x) = [r EXCEPT !.rest = R, !.calls = calls]
        BY <2>5, <3>7
      <4> HIDE DEF R, C, done
      <4>2. /\ Received(r, x).calls = d + 1 /\ Received(r, x).rest = R
            /\ Received(r, x).done = r.done
        BY <3>1, <4>1 DEF ReceivedState
      <4>3. 0 % 2 = (n + 1) % 2 /\ 0 <= n + 1 /\ (n + 1) - 0 = n + 1
        <5>1. (n + 1) % 2 = 0 /\ n \in Nat
          BY <1>1, <2>2
        <5> HIDE DEF n
        <5> QED BY <5>1
      <4> HIDE DEF n, m, d
      <4> QED BY <2>7, <3>2, <3>4, <3>5, <3>6, <4>2, <4>3 DEF Joint
    <3>8. CASE R[n] = Tag(Numeral(10))
      <4> DEFINE last == [cells |-> R, call |-> calls]
                 all == Append(r.done, last)
      <4>1. Received(r, x) = [done |-> all, rest |-> <<>>, calls |-> calls]
        BY <2>5, <3>8
      <4>2. calls \in Nat /\ last.cells = R /\ last.call = calls
        BY <1>1, <3>1
      <4>3. last \in [cells : Seq(Cell), call : Nat]
        <5> HIDE DEF R
        <5> QED BY <2>7, <4>2
      <4> HIDE DEF last
      <4>4. /\ Len(all) = Len(r.done) + 1 /\ all[Len(r.done) + 1] = last
            /\ \A j \in 1 .. Len(r.done) : all[j] = r.done[j]
        BY <1>1, <4>3, AppendProperties
      <4>5. ASSUME OneEnd(R) PROVE C = R
        <5>1. n = m
          <6> SUFFICES ASSUME m < n PROVE FALSE
            BY <1>1
          <6>1. PICK k \in 1 .. n - m : HasTen(R[k])
            BY <2>10
          <6>2. k \in DOMAIN R
            BY <1>1, <1>4, <1>6
          <6>3. k = Len(R) - 1
            <7> HIDE DEF R, n, m
            <7> QED BY <4>5, <6>1, <6>2 DEF OneEnd
          <6> HIDE DEF R, n, m
          <6> QED BY <1>1, <2>2, <2>7, <6>3
        <5>2. \A k \in 1 .. n + 1 : C[k] = R[k]
          <6> TAKE k \in 1 .. n + 1
          <6>1. k + ((n + 1) - (m + 1)) = k
            BY <1>1, <5>1
          <6> HIDE DEF R, C, n, m
          <6> QED BY <2>7, <5>1, <6>1
        <5> HIDE DEF R, C, n, m
        <5> QED BY <2>7, <5>1, <5>2, SeqEqual
      <4>6. \A j \in 1 .. Len(all) :
              /\ all[j].call \in 1 .. d + 1
              /\ OneEnd(all[j].cells) => done[all[j].call] = all[j].cells
        <5> TAKE j \in 1 .. Len(all)
        <5>1. CASE j = Len(r.done) + 1
          <6>1. all[j].cells = R /\ all[j].call = d + 1
            BY <3>1, <4>2, <4>4, <5>1
          <6> HIDE DEF all, done, R, C, d
          <6> QED BY <1>1, <3>4, <4>5, <6>1
        <5>2. CASE j # Len(r.done) + 1
          <6>1. j \in 1 .. Len(r.done)
            BY <1>1, <4>4, <5>2
          <6>2. all[j] = r.done[j]
            BY <4>4, <6>1
          <6> HIDE DEF all, done, R, C, d
          <6> QED BY <3>6, <6>1, <6>2
        <5> QED BY <5>1, <5>2
      <4> HIDE DEF all, done
      <4>7. Received(r, x).calls = d + 1 /\ Received(r, x).rest = <<>> /\ Received(r, x).done = all
        BY <3>1, <4>1
      <4> HIDE DEF R, C, n, m, d
      <4> QED BY <3>4, <3>5, <4>6, <4>7 DEF Joint
    <3> QED BY <3>7, <3>8
  <2> QED BY <2>11, <2>12
<1> QED BY <1>3, <1>5, <1>6

\* Whole fields, or hanging up, keep them so.
LEMMA SentAligned ==
  ASSUME NEW a \in Seq(Sendable), Aligned(Pieces(a)), Len(Pieces(a).rest) % 2 = 0,
         Joint(Messages(a), Pieces(a)), NEW b \in Message \cup {<<End>>}
  PROVE  /\ Aligned(Pieces(a \o b)) /\ Len(Pieces(a \o b).rest) % 2 = 0
         /\ Joint(Messages(a \o b), Pieces(a \o b))
<1> DEFINE n == Len(b)
           M(k) == Pieces(a \o SubSeq(b, 1, k))
           R(k) == Messages(a \o SubSeq(b, 1, k))
           Right(k) == /\ Aligned(M(k)) /\ Joint(R(k), M(k))
                       /\ k < n => Len(M(k).rest) % 2 = k % 2
                       /\ k = n => Len(M(k).rest) % 2 = 0
           P == {k \in 0 .. n : Right(k)}
<1>1. /\ b \in Seq(Sendable) /\ b # <<>>
      /\ \A k \in 1 .. Len(b) : \/ b[k] = End /\ k = Len(b)
                                \/ b[k] \in (IF k % 2 = 1 THEN TagCell ELSE TextCell)
      /\ b[Len(b)] \notin TagCell
  <2>1. CASE b \in Message
    <3>1. /\ b \in Seq(Sendable) /\ b # <<>> /\ Last(b) \notin TagCell
          /\ \A k \in DOMAIN b : \/ b[k] = End /\ k = Len(b)
                                 \/ b[k] \in (IF k % 2 = 1 THEN TagCell ELSE TextCell)
      BY <2>1, MessageAssumption DEF Sendable
    <3>2. DOMAIN b = 1 .. Len(b)
      BY <3>1, LenProperties
    <3> QED BY <3>1, <3>2 DEF Last
  <2>2. CASE b = <<End>>
    BY <2>2 DEF Sendable, End, TagCell
  <2> QED BY <2>1, <2>2
<1>2. n \in Nat \ {0} /\ \A k \in 1 .. n : b[k] \in Sendable
  BY <1>1, EmptySeq, LenProperties
<1>3. /\ M(0) = Pieces(a) /\ M(n) = Pieces(a \o b)
      /\ R(0) = Messages(a) /\ R(n) = Messages(a \o b)
      /\ \A k \in 0 .. n : a \o SubSeq(b, 1, k) \in Seq(Sendable)
      /\ \A k \in 1 .. n : a \o SubSeq(b, 1, k) = Append(a \o SubSeq(b, 1, k - 1), b[k])
  <2>1. Cellwise(Sendable, a, b)
    BY <1>1, Continued
  <2> QED BY <2>1 DEF Cellwise
<1>4. 0 \in P
  <2> HIDE DEF M, R
  <2>1. M(0) = Pieces(a) /\ R(0) = Messages(a) /\ 0 % 2 = 0 /\ n # 0
    BY <1>2, <1>3
  <2>2. Aligned(M(0)) /\ Len(M(0).rest) % 2 = 0 /\ Joint(R(0), M(0))
    BY <2>1
  <2>3. Right(0)
    BY <2>1, <2>2
  <2> HIDE DEF Right
  <2> QED BY <1>2, <2>3
<1>5. ASSUME NEW k \in 1 .. n, k - 1 \in P PROVE k \in P
  <2>1. k - 1 \in 0 .. n /\ k \in 0 .. n /\ k \in Nat \ {0}
    BY <1>2
  <2>2. /\ M(k) = Cut(M(k - 1), b[k]) /\ M(k - 1) \in StreamState
        /\ R(k) = Received(R(k - 1), b[k]) /\ R(k - 1) \in ReceivedState
    BY <1>2, <1>3, <2>1, PiecesAppend, PiecesType, MessagesAppend, MessagesType
  <2>3. Aligned(M(k - 1)) /\ Len(M(k - 1).rest) % 2 = (k - 1) % 2 /\ Joint(R(k - 1), M(k - 1))
    <3>1. k - 1 < n
      BY <1>2
    <3>2. Right(k - 1)
      <4> HIDE DEF Right
      <4> QED BY <1>5
    <3> HIDE DEF M, R
    <3> QED BY <3>1, <3>2
  <2>4. /\ b[k] \in Sendable
        /\ b[k] = End \/ b[k] \in (IF k % 2 = 1 THEN TagCell ELSE TextCell)
    BY <1>1, <1>2
  <2> HIDE DEF M, R
  <2> DEFINE s == M(k - 1)
             m == R(k - 1)
             c == b[k]
  <2> HIDE DEF s, m, c
  <2>5. /\ Aligned(Cut(s, c))
        /\ c = End => Cut(s, c).rest = <<>>
        /\ c # End => Len(Cut(s, c).rest) % 2 = k % 2
    <3>1. /\ s \in StreamState /\ Aligned(s) /\ Len(s.rest) % 2 = (k - 1) % 2
          /\ c \in Sendable /\ (c = End \/ c \in (IF k % 2 = 1 THEN TagCell ELSE TextCell))
      BY <2>2, <2>3, <2>4 DEF s, c
    <3> QED BY <2>1, <3>1, CutAligned
  <2>6. M(k) = Cut(s, c) /\ Joint(R(k), M(k))
    <3>1. /\ s \in StreamState /\ m \in ReceivedState /\ Joint(m, s) /\ c \in Sendable
          /\ Len(s.rest) % 2 = (k - 1) % 2
          /\ (c = End \/ c \in (IF k % 2 = 1 THEN TagCell ELSE TextCell))
      BY <2>2, <2>3, <2>4 DEF s, m, c
    <3>2. k % 2 = 1 <=> (k - 1) % 2 = 0
      BY <2>1
    <3>3. c = End \/ c \in (IF Len(s.rest) % 2 = 0 THEN TagCell ELSE TextCell)
      BY <3>1, <3>2
    <3>4. Joint(Received(m, c), Cut(s, c))
      BY <3>1, <3>3, JointStep
    <3> QED BY <2>2, <3>4 DEF s, m, c
  <2>7. CASE c = End
    <3>1. k = n
      BY <1>1, <2>7 DEF c, TagCell, TextCell, End
    <3>2. Len(M(k).rest) = 0
      BY <2>5, <2>6, <2>7
    <3>3. Right(k)
      <4>1. Aligned(M(k)) /\ 0 % 2 = 0 /\ ~(k < n)
        BY <1>2, <2>5, <2>6, <3>1
      <4>2. Len(M(k).rest) % 2 = 0
        BY <3>2, <4>1
      <4> QED BY <2>6, <4>1, <4>2
    <3> HIDE DEF Right
    <3> QED BY <2>1, <3>3
  <2>8. CASE c # End
    <3>1. k = n => k % 2 = 0
      <4>1. k = n => c \notin TagCell
        BY <1>1 DEF c
      <4>2. k % 2 \in {0, 1}
        BY <2>1
      <4> QED BY <2>4, <2>8, <4>1, <4>2 DEF c
    <3>2. Right(k)
      BY <1>2, <2>1, <2>5, <2>6, <2>8, <3>1
    <3> HIDE DEF Right
    <3> QED BY <2>1, <3>2
  <2> QED BY <2>7, <2>8
<1> HIDE DEF P
<1>6. \A k \in 0 .. n : k \in P
  BY <1>2, <1>4, <1>5, Climb
<1>7. n \in P
  BY <1>2, <1>6
<1> QED BY <1>3, <1>7 DEF P

\* MsgLen is where the first message ends.
LEMMA MsgLenIs ==
  ASSUME size \in Nat
  PROVE  /\ MsgLen \in 0 .. size
         /\ MsgLen = 0 => \A k \in 1 .. size :
                            ~ (memory[k].kind = "text" /\ \E j \in 1 .. k : HasTen(memory[j]))
         /\ MsgLen # 0 =>
              /\ memory[MsgLen].kind = "text" /\ \E j \in 1 .. MsgLen : HasTen(memory[j])
              /\ \A k \in 1 .. MsgLen - 1 :
                   ~ (memory[k].kind = "text" /\ \E j \in 1 .. k : HasTen(memory[j]))
<1> DEFINE tens == {k \in 1 .. size : HasTen(memory[k])}
           ends == {k \in Min(tens) .. size : memory[k].kind = "text"}
<1>1. MsgLen = IF tens = {} THEN 0 ELSE IF ends = {} THEN 0 ELSE Min(ends)
  BY DEF MsgLen
<1>2. \A k \in 1 .. size : \A j \in 1 .. k : HasTen(memory[j]) => j \in tens
  OBVIOUS
<1>3. CASE tens = {}
  <2> HIDE DEF ends
  <2>1. MsgLen = 0
    BY <1>1, <1>3
  <2> QED BY <1>2, <1>3, <2>1
<1>4. CASE tens # {}
  <2> DEFINE t == Min(tens)
  <2>1. t \in tens /\ \A k \in tens : t <= k
    <3>1. tens \in SUBSET Nat
      OBVIOUS
    <3> HIDE DEF tens, t
    <3>2. \E k \in tens : \A j \in tens : k <= j
      BY <1>4, <3>1, LeastNat
    <3> QED BY <3>2 DEF Min, t
  <2>2. t \in 1 .. size /\ HasTen(memory[t])
    BY <2>1
  <2>3. \A k \in 1 .. size : \A j \in 1 .. k : HasTen(memory[j]) => t <= k
    <3> TAKE k \in 1 .. size
    <3> TAKE j \in 1 .. k
    <3> HAVE HasTen(memory[j])
    <3>1. t <= j
      BY <1>2, <2>1
    <3> HIDE DEF t
    <3> QED BY <2>2, <3>1
  <2>4. ends = {k \in t .. size : memory[k].kind = "text"}
    OBVIOUS
  <2> HIDE DEF tens, ends, t
  <2>5. CASE ends = {}
    <3>1. MsgLen = 0
      BY <1>1, <2>5
    <3> QED BY <2>2, <2>3, <2>4, <2>5, <3>1
  <2>6. CASE ends # {}
    <3> DEFINE e == Min(ends)
    <3>1. e \in ends /\ \A k \in ends : e <= k
      <4>1. ends \in SUBSET Nat
        BY <2>2, <2>4
      <4> HIDE DEF e
      <4>2. \E k \in ends : \A j \in ends : k <= j
        BY <2>6, <4>1, LeastNat
      <4> QED BY <4>2 DEF Min, e
    <3> HIDE DEF e
    <3>2. e \in t .. size /\ e \in 1 .. size /\ memory[e].kind = "text" /\ t \in 1 .. e
      BY <2>2, <2>4, <3>1
    <3>3. \E j \in 1 .. e : HasTen(memory[j])
      BY <2>2, <3>2
    <3>4. ASSUME NEW k \in 1 .. e - 1, memory[k].kind = "text",
                 NEW j \in 1 .. k, HasTen(memory[j])
          PROVE  FALSE
      <4>1. k \in 1 .. size
        BY <3>2
      <4>2. t <= k
        BY <2>3, <3>4, <4>1
      <4>3. k \in ends
        BY <2>2, <2>4, <3>4, <4>1, <4>2
      <4> QED BY <3>1, <3>2, <4>3
    <3>5. MsgLen = e /\ e # 0
      BY <1>1, <1>4, <2>6, <3>2 DEF e
    <3> QED BY <3>2, <3>3, <3>4, <3>5
  <2> QED BY <2>5, <2>6
<1> QED BY <1>3, <1>4

-----------------------------------------------------------------------------
(* The invariant.  What was sent is the pieces taken out of the stream      *)
(* followed by what is left in it: in the accumulator and on the wire.      *)

Frame1 == SubSeq(memory, 1, MsgLen)
Behind == SubSeq(memory, MsgLen + 1, size)
Kept == IF pc = "erase" THEN Behind ELSE Content
Left == Kept \o wire
Queued == msg \o orderQueue
Handled == [terms : [char : [CharTags -> Int], qty : Int, price : Int],
            ids : [IdTags -> Int \cup Garbage]]

\* The accumulator: nothing is read while a message is complete in it, and what is
\* parsed is parsed from it alone.
MemoryInv ==
  /\ wire \in Seq(Sendable) /\ sent \in Seq(Sendable)
  /\ memory \in Seq(Cell \cup {Lost}) /\ size \in 0 .. Len(memory)
  /\ \A k \in 1 .. size : memory[k] \in Cell
  /\ pc \in {"read", "frame", "push", "erase"}
  /\ pc = "read" => MsgLen = 0
  /\ pc \in {"push", "erase"} => MsgLen # 0
  /\ pc = "push" => parsedMsg = Fresh(Frame1)

\* The queue: no view points beyond the accumulator.
QueueInv ==
  /\ orderQueue \in Seq(ParsedMsg) /\ msg \in Seq(ParsedMsg) /\ Len(msg) <= 1
  /\ \A k \in 1 .. Len(Queued) : \A t \in IdTags : Queued[k].view[t] <= Len(memory)
  /\ handled \in Seq(Handled)

\* What came of the stream in pieces.
Come == Pieces(sent).done

\* Tags and values take turns in the stream, and the pieces are its messages.
StreamInv ==
  /\ Aligned(Pieces(sent)) /\ Len(Pieces(sent).rest) % 2 = 0
  /\ Joint(Messages(sent), Pieces(sent))

\* c was taken out of the stream: pieces that were handled, and pieces that are
\* queued, each with its terms.
Taken(c) ==
  /\ c \in Seq(Sendable) /\ sent = c \o Left
  /\ Pieces(c).rest = <<>>
  /\ Len(Pieces(c).done) = Len(handled) + Len(Queued)
  /\ \A k \in 1 .. Len(handled) : handled[k].terms = TermsOf(Fresh(Pieces(c).done[k]))
  /\ \A k \in 1 .. Len(Queued) : Queued[k] = Fresh(Pieces(c).done[Len(handled) + k])

\* Clients that wait: there is one piece at most, and once it is queued nothing
\* is left in the stream, so that its ids stay in memory.
Waits ==
  /\ \A k \in 1 .. Len(handled) : handled[k].ids = ReadIds(Come[k])
  /\ Len(Come) <= Len(handled) + 1
  /\ Len(Come) = Len(handled) + 1 =>
       /\ Pieces(sent).rest = <<>> /\ sent # <<>> /\ sent[Len(sent)] # End
       /\ Queued # <<>> =>
            /\ Left = <<>>
            /\ Len(Come[Len(Come)]) <= Len(memory)
            /\ \A k \in 2 .. Len(Come[Len(Come)]) :
                 memory[k] = Come[Len(Come)][k]

IngressInv ==
  /\ MemoryInv /\ QueueInv /\ StreamInv
  /\ \E c : Taken(c)
  /\ hasty \/ Waits

\* The accumulator's memory after a change of its contents.
LEMMA HoldingIs ==
  ASSUME memory \in Seq(Cell \cup {Lost}), NEW bytes \in Seq(Cell)
  PROVE  LET m == Holding(bytes)
         IN  /\ m \in Seq(Cell \cup {Lost})
             /\ Len(bytes) \in 0 .. Len(m) /\ Len(memory) <= Len(m)
             /\ \A a \in 1 .. Len(bytes) : m[a] = bytes[a] /\ m[a] \in Cell
             /\ \A a \in Len(bytes) + 2 .. Len(memory) : m[a] = memory[a]
             /\ SubSeq(m, 1, Len(bytes)) = bytes
<1> DEFINE n == Len(bytes)
           l == Len(memory)
           z == Max({n, l})
           e(a) == IF a <= n THEN bytes[a] ELSE IF a = n + 1 THEN Lost ELSE memory[a]
           m == Holding(bytes)
<1>1. /\ n \in Nat /\ l \in Nat
      /\ (\A a \in 1 .. n : bytes[a] \in Cell)
      /\ \A a \in 1 .. l : memory[a] \in Cell \cup {Lost}
  BY LenProperties
<1>2. z \in {n, l} /\ n <= z /\ l <= z
  <2> HIDE DEF n, l
  <2> DEFINE T == {n, l}
  <2>0. T \in SUBSET Int /\ n \in T /\ l \in T
    BY <1>1
  <2>1. CASE n <= l
    <3>1. \A k \in T : k <= l
      BY <1>1, <2>1
    <3> HIDE DEF T
    <3>2. Max(T) = l
      BY <2>0, <3>1, Greatest
    <3> QED BY <1>1, <2>1, <3>2 DEF T
  <2>2. CASE ~(n <= l)
    <3>1. \A k \in T : k <= n
      BY <1>1, <2>2
    <3> HIDE DEF T
    <3>2. Max(T) = n
      BY <2>0, <3>1, Greatest
    <3> QED BY <1>1, <2>2, <3>2 DEF T
  <2> QED BY <2>1, <2>2
<1>3. m = [a \in 1 .. z |-> e(a)]
  BY DEF Holding
<1> HIDE DEF n, l, z, m
<1>4. \A a \in 1 .. z : e(a) \in Cell \cup {Lost}
  BY <1>1, <1>2
<1>5. m \in Seq(Cell \cup {Lost}) /\ Len(m) = z
  <2>1. z \in Nat
    BY <1>1, <1>2
  <2> QED BY <1>3, <1>4, <2>1
<1>6. \A a \in 1 .. n : m[a] = bytes[a] /\ m[a] \in Cell
  BY <1>1, <1>2, <1>3
<1>7. \A a \in n + 2 .. l : m[a] = memory[a]
  BY <1>1, <1>2, <1>3
<1>8. SubSeq(m, 1, n) = bytes
  <2>1. SubSeq(m, 1, n) \in Seq(Cell) /\ Len(SubSeq(m, 1, n)) = n
        /\ \A a \in 1 .. n : SubSeq(m, 1, n)[a] = m[a]
    BY <1>1, <1>6, SubSeqProperties
  <2> QED BY <1>6, <2>1, SeqEqual DEF n
<1> QED BY <1>1, <1>2, <1>5, <1>6, <1>7, <1>8 DEF n, l, m

\* The bytes in the accumulator, and the first message among them.
LEMMA ContentIs ==
  ASSUME MemoryInv
  PROVE  /\ size \in Nat /\ Content \in Seq(Cell) /\ Len(Content) = size
         /\ \A k \in 1 .. size : Content[k] = memory[k]
         /\ MsgLen = 0 => \A k \in 1 .. size : ~Complete(Content, k)
         /\ MsgLen # 0 =>
              /\ MsgLen \in 1 .. size /\ Frame1 \in Seq(Cell) /\ Frame1 # <<>>
              /\ Len(Frame1) = MsgLen /\ (\A k \in 1 .. MsgLen : Frame1[k] = memory[k])
              /\ Complete(Frame1, Len(Frame1))
              /\ \A k \in 1 .. Len(Frame1) - 1 : ~Complete(Frame1, k)
              /\ Behind \in Seq(Cell) /\ Len(Behind) = size - MsgLen
              /\ Content = Frame1 \o Behind
<1>1. Len(memory) \in Nat /\ size \in Nat /\ \A k \in 1 .. size : memory[k] \in Cell
  BY LenProperties DEF MemoryInv
<1>2. /\ Content \in Seq(Cell) /\ Len(Content) = size
      /\ \A k \in 1 .. size : Content[k] = memory[k]
  BY <1>1, SubSeqProperties DEF Content
<1>3. MsgLen = 0 => \A k \in 1 .. size : ~Complete(Content, k)
  <2> SUFFICES ASSUME MsgLen = 0, NEW k \in 1 .. size, Complete(Content, k) PROVE FALSE
    OBVIOUS
  <2>1. \A j \in 1 .. k : j \in 1 .. size /\ Content[j] = memory[j]
    BY <1>1, <1>2
  <2>2. memory[k].kind = "text" /\ \E j \in 1 .. k : HasTen(memory[j])
    BY <1>2, <2>1 DEF Complete
  <2> QED BY <1>1, <2>2, MsgLenIs
<1>4. ASSUME MsgLen # 0
      PROVE  /\ MsgLen \in 1 .. size /\ Frame1 \in Seq(Cell) /\ Frame1 # <<>>
             /\ Len(Frame1) = MsgLen /\ (\A k \in 1 .. MsgLen : Frame1[k] = memory[k])
             /\ Complete(Frame1, Len(Frame1))
             /\ \A k \in 1 .. Len(Frame1) - 1 : ~Complete(Frame1, k)
             /\ Behind \in Seq(Cell) /\ Len(Behind) = size - MsgLen
             /\ Content = Frame1 \o Behind
  <2> DEFINE n == MsgLen
  <2>1. /\ n \in 1 .. size
        /\ memory[n].kind = "text" /\ (\E j \in 1 .. n : HasTen(memory[j]))
        /\ \A k \in 1 .. n - 1 :
             ~ (memory[k].kind = "text" /\ \E j \in 1 .. k : HasTen(memory[j]))
    <3>1. n \in 0 .. size
      BY <1>1, MsgLenIs
    <3> QED BY <1>1, <1>4, <3>1, MsgLenIs
  <2>2. Frame1 = SubSeq(memory, 1, n) /\ Behind = SubSeq(memory, n + 1, size)
    BY DEF Frame1, Behind
  <2> HIDE DEF n
  <2>3. /\ Frame1 \in Seq(Cell) /\ Len(Frame1) = n
        /\ \A k \in 1 .. n : Frame1[k] = memory[k]
    BY <1>1, <2>1, <2>2, SubSeqProperties
  <2>4. Frame1 # <<>>
    BY <2>1, <2>3
  <2>5. \A k \in 1 .. n : Complete(Frame1, k)
                            <=> memory[k].kind = "text" /\ \E j \in 1 .. k : HasTen(memory[j])
    <3> TAKE k \in 1 .. n
    <3>1. \A j \in 1 .. k : Frame1[j] = memory[j]
      BY <2>1, <2>3
    <3>2. Frame1[k] = memory[k]
      BY <2>3
    <3> QED BY <3>1, <3>2 DEF Complete
  <2>6. Complete(Frame1, n) /\ \A k \in 1 .. n - 1 : ~Complete(Frame1, k)
    BY <1>1, <2>1, <2>5
  <2>7. /\ Behind \in Seq(Cell) /\ Len(Behind) = size - n
        /\ \A k \in 1 .. size - n : Behind[k] = memory[n + k]
    <3>1. \A i \in n + 1 .. size : memory[i] \in Cell
      BY <1>1, <2>1
    <3> QED BY <1>1, <2>1, <2>2, <3>1, SubSeqProperties
  <2>8. Content = Frame1 \o Behind
    <3> DEFINE s == Frame1 \o Behind
    <3>1. /\ s \in Seq(Cell) /\ Len(s) = size
          /\ \A i \in 1 .. size : s[i] = IF i <= n THEN Frame1[i] ELSE Behind[i - n]
      <4>1. /\ s \in Seq(Cell) /\ Len(s) = Len(Frame1) + Len(Behind)
            /\ \A i \in 1 .. Len(Frame1) + Len(Behind) :
                 s[i] = IF i <= Len(Frame1) THEN Frame1[i] ELSE Behind[i - Len(Frame1)]
        <5>1. Frame1 \in Seq(Cell) /\ Behind \in Seq(Cell)
          BY <2>3, <2>7
        <5> QED BY <5>1, ConcatProperties
      <4>2. Len(Frame1) + Len(Behind) = size
        BY <1>1, <2>1, <2>3, <2>7
      <4> HIDE DEF s
      <4> QED BY <2>3, <4>1, <4>2
    <3>2. \A i \in 1 .. size : s[i] = Content[i]
      <4> TAKE i \in 1 .. size
      <4>1. CASE i <= n
        BY <1>1, <1>2, <2>1, <2>3, <3>1, <4>1
      <4>2. CASE ~(i <= n)
        <5>1. i - n \in 1 .. size - n /\ n + (i - n) = i
          BY <1>1, <2>1, <4>2
        <5> QED BY <1>2, <2>7, <3>1, <4>2, <5>1
      <4> QED BY <4>1, <4>2
    <3> HIDE DEF s
    <3> QED BY <1>1, <1>2, <3>1, <3>2, SeqEqual DEF s
  <2> QED BY <2>1, <2>3, <2>4, <2>6, <2>7, <2>8 DEF n
<1> QED BY <1>1, <1>2, <1>3, <1>4

LEMMA KeptType ==
  ASSUME MemoryInv
  PROVE  Kept \in Seq(Cell) /\ Kept \in Seq(Sendable) /\ Left \in Seq(Sendable)
<1>1. Content \in Seq(Cell) /\ (pc = "erase" => Behind \in Seq(Cell))
  BY ContentIs DEF MemoryInv
<1>2. Kept \in Seq(Cell)
  BY <1>1 DEF Kept
<1>3. Kept \in Seq(Sendable) /\ wire \in Seq(Sendable)
  BY <1>2, SeqMonotonic DEF Sendable, MemoryInv
<1> QED BY <1>2, <1>3, ConcatProperties DEF Left

\* The pieces that were taken are the first of those that have come.
LEMMA TakenCome ==
  ASSUME MemoryInv, NEW c, Taken(c)
  PROVE  /\ c \in Seq(Sendable) /\ Left \in Seq(Sendable)
         /\ Extends(Pieces(c).done, Come)
         /\ Pieces(c).done \in Seq(Seq(Cell)) /\ Len(Pieces(c).done) \in Nat
         /\ Come \in Seq(Seq(Cell)) /\ Len(Come) \in Nat
<1>1. c \in Seq(Sendable) /\ sent = c \o Left /\ wire \in Seq(Sendable) /\ sent \in Seq(Sendable)
  BY DEF Taken, MemoryInv
<1>2. Left \in Seq(Sendable)
  BY KeptType
<1>3. Extends(Pieces(c).done, Pieces(sent).done)
  BY <1>1, <1>2, DoneGrows
<1> QED BY <1>1, <1>2, <1>3, PiecesType DEF Come

-----------------------------------------------------------------------------
(* The invariant holds at first, and what most steps leave as it is.       *)

LEMMA IngressInitInv ==
  ASSUME IngressInit
  PROVE  IngressInv
<1>1. /\ wire = <<>> /\ memory = <<>> /\ size = 0 /\ pc = "read"
      /\ orderQueue = <<>> /\ msg = <<>> /\ handled = <<>> /\ sent = <<>>
  BY DEF IngressInit
<1>2. \A S : <<>> \in Seq(S) /\ Len(<<>>) = 0 /\ <<>> \o <<>> = <<>>
  OBVIOUS
<1>3. MemoryInv
  <2>1. MsgLen = 0
    BY <1>1, MsgLenIs
  <2> QED BY <1>1, <1>2, <2>1 DEF MemoryInv
<1>4. Queued = <<>> /\ Len(Queued) = 0
  BY <1>1, <1>2 DEF Queued
<1>5. QueueInv
  BY <1>1, <1>2, <1>4 DEF QueueInv
<1>6. Pieces(sent) = Nothing /\ Come = <<>> /\ Len(Come) = 0
  BY <1>1, <1>2, PiecesEmpty DEF Come, Nothing
<1>7. StreamInv
  <2>1. Messages(sent) = NoneYet
    BY <1>1, MessagesEmpty
  <2>2. Joint(NoneYet, Nothing)
    BY DEF Joint, NoneYet, Nothing
  <2> QED BY <1>6, <2>1, <2>2 DEF StreamInv, Aligned, Alternates, Nothing
<1>8. Taken(<<>>)
  <2>1. Left = <<>>
    BY <1>1 DEF Left, Kept, Content
  <2> QED BY <1>1, <1>2, <1>4, <1>6, <2>1 DEF Taken, Nothing
<1>9. Waits
  BY <1>1, <1>6, <1>2 DEF Waits
<1> QED BY <1>3, <1>5, <1>7, <1>8, <1>9 DEF IngressInv

LEMMA Unmoved ==
  ASSUME memory' = memory, size' = size
  PROVE  MsgLen' = MsgLen /\ Frame1' = Frame1 /\ Behind' = Behind /\ Content' = Content
<1>1. MsgLen' = MsgLen
  BY DEF MsgLen
<1> QED BY <1>1 DEF Frame1, Behind, Content

LEMMA TakenStands ==
  ASSUME NEW c, Taken(c), sent' = sent, Left' = Left, handled' = handled, Queued' = Queued
  PROVE  Taken(c)'
BY DEF Taken

\* Memory that clients wait for stays as it is.
MemoryStands ==
  Left = <<>> /\ Queued # <<>> =>
    /\ Left' = <<>> /\ Len(memory) <= Len(memory')
    /\ \A k \in 2 .. Len(memory) : memory'[k] = memory[k]

LEMMA WaitsStands ==
  ASSUME MemoryInv, memory' \in Seq(Cell \cup {Lost}), Waits, sent' = sent, handled' = handled,
         Queued' = Queued, MemoryStands
  PROVE  Waits'
<1>1. Come' = Come
  BY DEF Come
<1> DEFINE f == Come[Len(Come)]
<1>2. ASSUME Len(Come) = Len(handled) + 1, Queued # <<>>
      PROVE  /\ Left' = <<>> /\ Len(f) <= Len(memory')
             /\ \A k \in 2 .. Len(f) : memory'[k] = f[k]
  <2>1. /\ Left = <<>> /\ Len(f) <= Len(memory)
        /\ \A k \in 2 .. Len(f) : memory[k] = f[k]
    BY <1>2 DEF Waits
  <2>2. Len(memory) \in Nat /\ Len(memory') \in Nat
    BY LenProperties DEF MemoryInv
  <2>3. /\ Left' = <<>> /\ Len(memory) <= Len(memory')
        /\ \A k \in 2 .. Len(memory) : memory'[k] = memory[k]
    BY <1>2, <2>1 DEF MemoryStands
  <2>4. Len(f) \in Nat
    <3>1. sent \in Seq(Sendable)
      BY DEF MemoryInv
    <3>2. Come \in Seq(Seq(Cell)) /\ Len(Come) \in Nat
      BY <3>1, PiecesType DEF Come
    <3>3. Len(handled) + 1 \in 1 .. Len(Come)
      BY <1>2, <3>2
    <3> QED BY <3>2, <3>3, ElementOfSeq, LenProperties
  <2> HIDE DEF f
  <2> QED BY <2>1, <2>2, <2>3, <2>4
<1>3. /\ \A k \in 1 .. Len(handled) : handled[k].ids = ReadIds(Come[k])
      /\ Len(Come) <= Len(handled) + 1
      /\ Len(Come) = Len(handled) + 1 =>
           Pieces(sent).rest = <<>> /\ sent # <<>> /\ sent[Len(sent)] # End
  BY DEF Waits
<1> QED BY <1>1, <1>2, <1>3 DEF Waits

\* Views do not come to point beyond the accumulator.
LEMMA QueueStands ==
  ASSUME MemoryInv, QueueInv, memory' \in Seq(Cell \cup {Lost}), Len(memory) <= Len(memory'),
         Queued' = Queued, handled' = handled,
         orderQueue' \in Seq(ParsedMsg), msg' \in Seq(ParsedMsg), Len(msg') <= 1
  PROVE  QueueInv'
<1>1. Len(memory) \in Nat /\ Len(memory') \in Nat
  BY LenProperties DEF MemoryInv
<1>2. Queued \in Seq(ParsedMsg)
  BY ConcatProperties DEF QueueInv, Queued
<1>3. \A k \in 1 .. Len(Queued) : \A t \in IdTags : Queued[k].view[t] \in Nat
  <2> TAKE k \in 1 .. Len(Queued)
  <2> TAKE t \in IdTags
  <2>1. Queued[k] \in ParsedMsg
    BY <1>2, ElementOfSeq
  <2> QED BY <2>1 DEF ParsedMsg
<1>4. \A k \in 1 .. Len(Queued) : \A t \in IdTags : Queued[k].view[t] <= Len(memory')
  BY <1>1, <1>3 DEF QueueInv
<1> QED BY <1>4 DEF QueueInv

LEMMA IngressStutters ==
  ASSUME IngressInv, UNCHANGED ingressVars
  PROVE  IngressInv'
<1>1. /\ wire' = wire /\ memory' = memory /\ size' = size /\ pc' = pc /\ parsedMsg' = parsedMsg
      /\ orderQueue' = orderQueue /\ msg' = msg /\ handled' = handled /\ sent' = sent
      /\ hasty' = hasty
  BY DEF ingressVars, network, ghosts
<1>2. MsgLen' = MsgLen /\ Frame1' = Frame1 /\ Behind' = Behind /\ Content' = Content
  BY <1>1, Unmoved
<1>3. Left' = Left /\ Queued' = Queued /\ Come' = Come
  BY <1>1, <1>2 DEF Left, Kept, Queued, Come
<1> QED BY <1>1, <1>2, <1>3 DEF IngressInv, MemoryInv, QueueInv, StreamInv, Taken, Waits, Come

-----------------------------------------------------------------------------
(* Every step preserves the invariant.                                     *)

LEMMA SendInv ==
  ASSUME IngressInv, NEW cells \in Message \cup {<<End>>}, Send(cells)
  PROVE  IngressInv'
<1>1. cells \in Seq(Sendable) /\ cells # <<>>
  <2>1. CASE cells \in Message
    BY <2>1, MessageAssumption DEF Sendable
  <2>2. CASE cells = <<End>>
    BY <2>2 DEF Sendable
  <2> QED BY <2>1, <2>2
<1>2. /\ wire' = wire \o cells /\ sent' = sent \o cells
      /\ memory' = memory /\ size' = size /\ pc' = pc /\ parsedMsg' = parsedMsg
      /\ orderQueue' = orderQueue /\ msg' = msg /\ handled' = handled
  BY DEF Send, network
<1>3. MemoryInv /\ QueueInv /\ StreamInv /\ wire \in Seq(Sendable) /\ sent \in Seq(Sendable)
  BY DEF IngressInv, MemoryInv
<1>4. MsgLen' = MsgLen /\ Frame1' = Frame1 /\ Behind' = Behind /\ Content' = Content
  BY <1>2, Unmoved
<1>5. PICK c : Taken(c)
  BY DEF IngressInv
<1>6. /\ c \in Seq(Sendable) /\ Left \in Seq(Sendable)
      /\ Extends(Pieces(c).done, Come)
      /\ Len(Pieces(c).done) \in Nat /\ Len(Come) \in Nat
  BY <1>3, <1>5, TakenCome
<1>7. Left' = Left \o cells /\ Queued' = Queued
  <2>1. Left' = Kept \o (wire \o cells)
    BY <1>2, <1>4 DEF Left, Kept
  <2>2. Kept \in Seq(Sendable)
    BY <1>3, KeptType
  <2>3. (Kept \o wire) \o cells = Kept \o (wire \o cells)
    BY <1>1, <1>3, <2>2, ConcatAssociative
  <2> QED BY <1>2, <2>1, <2>3 DEF Left, Queued
<1>8. sent' \in Seq(Sendable) /\ wire' \in Seq(Sendable)
  BY <1>1, <1>2, <1>3, ConcatProperties
<1>9. MemoryInv'
  BY <1>2, <1>3, <1>4, <1>8 DEF MemoryInv
<1>10. QueueInv'
  BY <1>2, <1>3, <1>7 DEF QueueInv
<1>11. StreamInv'
  <2>1. Pieces(sent)' = Pieces(sent \o cells) /\ Messages(sent)' = Messages(sent \o cells)
    BY <1>2
  <2>2. /\ Aligned(Pieces(sent \o cells)) /\ Len(Pieces(sent \o cells).rest) % 2 = 0
        /\ Joint(Messages(sent \o cells), Pieces(sent \o cells))
    BY <1>3, SentAligned DEF StreamInv
  <2> QED BY <2>1, <2>2 DEF StreamInv
<1>12. Taken(c)'
  <2>1. sent' = c \o (Left \o cells)
    <3>1. (c \o Left) \o cells = c \o (Left \o cells)
      BY <1>1, <1>6, ConcatAssociative
    <3> QED BY <1>2, <1>5, <3>1 DEF Taken
  <2> QED BY <1>2, <1>5, <1>7, <2>1 DEF Taken
<1>13. ASSUME ~hasty' PROVE Waits'
  <2> DEFINE old == Len(Come)
             new == Pieces(sent \o cells)
  <2>1. /\ ~hasty /\ ~(Len(handled) < old) /\ ~(Len(new.done) > old + 1)
        /\ Len(new.done) > old => new.rest = <<>> /\ Last(cells) # End
    <3> DEFINE all == Messages(sent \o cells)
    <3>1. Joint(Messages(sent), Pieces(sent)) /\ Joint(all, new)
      <4>1. Joint(all, new)
        BY <1>2, <1>11 DEF StreamInv
      <4> QED BY <1>3, <4>1 DEF StreamInv
    <3>2. Messages(sent).calls = old /\ all.calls = Len(new.done)
      BY <3>1 DEF Joint, Come
    <3>3. all.rest = <<>> => new.rest = <<>>
      <4>1. Len(new.rest) <= Len(all.rest)
        BY <3>1 DEF Joint
      <4>2. new.rest \in Seq(Cell)
        BY <1>2, <1>8, PiecesType
      <4>3. all.rest = <<>> => Len(new.rest) = 0
        BY <4>1, <4>2, LenProperties
      <4> QED BY <4>2, <4>3, EmptySeq
    <3>4. /\ ~hasty /\ ~(Len(handled) < Messages(sent).calls)
          /\ ~(all.calls > Messages(sent).calls + 1)
          /\ ~(all.calls > Messages(sent).calls /\ (all.rest # <<>> \/ Last(cells) = End))
      BY <1>2, <1>13 DEF Send
    <3> HIDE DEF all, new, old
    <3> QED BY <3>2, <3>3, <3>4
  <2>2. Waits
    BY <2>1 DEF IngressInv
  <2>3. Len(handled) \in Nat /\ Len(Queued) \in Nat
    <3>1. handled \in Seq(Handled) /\ Queued \in Seq(ParsedMsg)
      BY <1>3, ConcatProperties DEF QueueInv, Queued
    <3> QED BY <3>1, LenProperties
  <2>4. Len(handled) + Len(Queued) <= old
    BY <1>5, <1>6 DEF Taken, Extends
  <2>5. Len(handled) = old /\ Len(Queued) = 0
    BY <1>6, <2>1, <2>3, <2>4
  <2>6. Queued = <<>>
    <3>1. Queued \in Seq(ParsedMsg)
      BY <1>3, ConcatProperties DEF QueueInv, Queued
    <3> QED BY <2>5, <3>1, EmptySeq
  <2>7. Come' = new.done /\ Extends(Come, new.done)
    BY <1>1, <1>2, <1>3, DoneGrows DEF Come
  <2>8. new.done \in Seq(Seq(Cell)) /\ Len(new.done) \in Nat
    BY <1>2, <1>8, PiecesType
  <2>9. \A k \in 1 .. Len(handled) : handled[k].ids = ReadIds(new.done[k])
    BY <2>2, <2>5, <2>7 DEF Waits, Extends
  <2>10. /\ sent' # <<>>
         /\ Last(cells) # End => sent'[Len(sent')] # End
    <3> DEFINE s == sent \o cells
    <3>1. Len(sent) \in Nat /\ Len(cells) \in Nat \ {0}
      BY <1>1, <1>3, EmptySeq, LenProperties
    <3>2. /\ Len(s) = Len(sent) + Len(cells)
          /\ s[Len(sent) + Len(cells)] = cells[Len(cells)]
      <4>1. /\ Len(s) = Len(sent) + Len(cells)
            /\ \A i \in 1 .. Len(sent) + Len(cells) :
                 s[i] = IF i <= Len(sent) THEN sent[i] ELSE cells[i - Len(sent)]
        BY <1>1, <1>3, ConcatProperties
      <4> HIDE DEF s
      <4>2. s[Len(sent) + Len(cells)] = cells[(Len(sent) + Len(cells)) - Len(sent)]
        BY <3>1, <4>1
      <4>3. (Len(sent) + Len(cells)) - Len(sent) = Len(cells)
        BY <3>1
      <4> QED BY <4>1, <4>2, <4>3
    <3>3. s # <<>>
      BY <3>1, <3>2
    <3> HIDE DEF s
    <3>4. sent' = s
      BY <1>2 DEF s
    <3> QED BY <3>2, <3>3, <3>4 DEF Last
  <2>11. Pieces(sent)' = new
    BY <1>2
  <2> HIDE DEF new, old
  <2>12. Len(new.done) <= Len(handled) + 1
    BY <2>1, <2>3, <2>5, <2>8
  <2>13. Len(new.done) = Len(handled) + 1 =>
           new.rest = <<>> /\ sent' # <<>> /\ sent'[Len(sent')] # End
    BY <2>1, <2>3, <2>5, <2>10
  <2> QED BY <1>2, <1>7, <2>6, <2>7, <2>9, <2>11, <2>12, <2>13 DEF Waits
<1> QED BY <1>9, <1>10, <1>11, <1>12, <1>13 DEF IngressInv

LEMMA ReadInv ==
  ASSUME IngressInv, NEW n \in 1 .. Len(wire), Read(n)
  PROVE  IngressInv'
<1> DEFINE r == SubSeq(wire, 1, n)
           rest == SubSeq(wire, n + 1, Len(wire))
           bytes == Content \o r
<1>1. /\ pc = "read" /\ pc' = "frame" /\ wire' = rest
      /\ memory' = Holding(bytes) /\ size' = size + n
      /\ parsedMsg' = parsedMsg /\ orderQueue' = orderQueue /\ msg' = msg
      /\ handled' = handled /\ sent' = sent /\ hasty' = hasty
      /\ \A k \in 1 .. n : wire[k] # End
  BY DEF Read, ghosts
<1>2. /\ MemoryInv /\ QueueInv /\ StreamInv /\ wire \in Seq(Sendable)
      /\ memory \in Seq(Cell \cup {Lost}) /\ Len(wire) \in Nat
  BY LenProperties DEF IngressInv, MemoryInv
<1>3. size \in Nat /\ Content \in Seq(Cell) /\ Len(Content) = size
  BY <1>2, ContentIs
<1>4. /\ r \in Seq(Cell) /\ Len(r) = n
      /\ rest \in Seq(Sendable) /\ r \o rest = wire
  <2>1. \A k \in 1 .. n : wire[k] \in Cell
    <3> TAKE k \in 1 .. n
    <3>1. wire[k] \in Sendable
      BY <1>2, ElementOfSeq
    <3> QED BY <1>1, <3>1 DEF Sendable
  <2>2. \A k \in n + 1 .. Len(wire) : wire[k] \in Sendable
    BY <1>2, ElementOfSeq
  <2>3. r \in Seq(Cell) /\ Len(r) = n
    BY <2>1, SubSeqProperties
  <2>4. rest \in Seq(Sendable)
    BY <1>2, <2>2, SubSeqProperties
  <2>5. r \o rest = SubSeq(wire, 1, Len(wire))
    <3>1. 1 \in 1 .. Len(wire) + 1 /\ n \in 1 - 1 .. Len(wire) /\ Len(wire) \in n .. Len(wire)
      BY <1>2
    <3> QED BY <1>2, <3>1, ConcatAdjacentSubSeq
  <2>6. SubSeq(wire, 1, Len(wire)) = wire
    BY <1>2, SubSeqFull
  <2> QED BY <2>3, <2>4, <2>5, <2>6
<1>5. bytes \in Seq(Cell) /\ Len(bytes) = size + n
  BY <1>3, <1>4, ConcatProperties
<1>6. /\ memory' \in Seq(Cell \cup {Lost}) /\ Len(memory) <= Len(memory')
      /\ size' \in 0 .. Len(memory')
      /\ \A k \in 1 .. size' : memory'[k] \in Cell
      /\ SubSeq(memory', 1, size') = bytes
  <2>1. LET m == Holding(bytes)
        IN  /\ m \in Seq(Cell \cup {Lost})
            /\ Len(bytes) \in 0 .. Len(m) /\ Len(memory) <= Len(m)
            /\ \A a \in 1 .. Len(bytes) : m[a] = bytes[a] /\ m[a] \in Cell
            /\ \A a \in Len(bytes) + 2 .. Len(memory) : m[a] = memory[a]
            /\ SubSeq(m, 1, Len(bytes)) = bytes
    BY <1>2, <1>5, HoldingIs
  <2> HIDE DEF bytes
  <2> QED BY <1>1, <1>5, <2>1
<1>7. MemoryInv'
  BY <1>1, <1>2, <1>4, <1>6 DEF MemoryInv
<1>8. Left' = Left /\ Queued' = Queued
  <2>1. Content' = bytes /\ Kept = Content /\ Kept' = bytes
    BY <1>1, <1>6 DEF Content, Kept
  <2>2. Content \in Seq(Sendable) /\ r \in Seq(Sendable)
    BY <1>3, <1>4, SeqMonotonic DEF Sendable
  <2>3. (Content \o r) \o rest = Content \o (r \o rest)
    <3>1. rest \in Seq(Sendable)
      BY <1>4
    <3> HIDE DEF r, rest
    <3> QED BY <2>2, <3>1, ConcatAssociative, SMTT(40)
  <2> QED BY <1>1, <1>4, <2>1, <2>3 DEF Left, Queued
<1>9. QueueInv'
  <2>1. orderQueue \in Seq(ParsedMsg) /\ msg \in Seq(ParsedMsg) /\ Len(msg) <= 1
    BY <1>2 DEF QueueInv
  <2> QED BY <1>1, <1>2, <1>6, <1>8, <2>1, QueueStands
<1>10. StreamInv'
  BY <1>1, <1>2 DEF StreamInv
<1>11. \E c : Taken(c)'
  BY <1>1, <1>8, TakenStands DEF IngressInv
<1>12. ASSUME ~hasty' PROVE Waits'
  <2>1. Left # <<>>
    <3>1. wire # <<>>
      BY <1>2
    <3>2. Kept \in Seq(Sendable)
      BY <1>2, KeptType
    <3> QED BY <1>2, <3>1, <3>2, ConcatEqualIffEmpty DEF Left
  <2>2. MemoryStands /\ Waits
    BY <1>1, <1>12, <2>1 DEF MemoryStands, IngressInv
  <2> QED BY <1>1, <1>2, <1>6, <1>8, <2>2, WaitsStands
<1> QED BY <1>7, <1>9, <1>10, <1>11, <1>12 DEF IngressInv

LEMMA DisconnectInv ==
  ASSUME IngressInv, Disconnect
  PROVE  IngressInv'
<1>1. /\ pc = "read" /\ pc' = pc /\ wire # <<>> /\ Head(wire) = End /\ wire' = Tail(wire)
      /\ memory' = [a \in DOMAIN memory |-> Lost] /\ size' = 0
      /\ orderQueue' = orderQueue /\ msg' = msg /\ handled' = handled /\ sent' = sent
      /\ hasty' = hasty
  BY DEF Disconnect, ghosts
<1>2. /\ MemoryInv /\ QueueInv /\ StreamInv /\ wire \in Seq(Sendable)
      /\ memory \in Seq(Cell \cup {Lost}) /\ Len(memory) \in Nat /\ DOMAIN memory = 1 .. Len(memory)
  BY LenProperties DEF IngressInv, MemoryInv
<1>3. PICK c : Taken(c)
  BY DEF IngressInv
<1>4. /\ MsgLen = 0 /\ size \in Nat /\ Content \in Seq(Cell) /\ Len(Content) = size
      /\ \A k \in 1 .. size : ~Complete(Content, k)
  BY <1>1, <1>2, ContentIs DEF MemoryInv
<1>5. c \in Seq(Sendable) /\ Pieces(c).rest = <<>>
  BY <1>3 DEF Taken
<1>6. /\ memory' \in Seq(Cell \cup {Lost}) /\ Len(memory') = Len(memory)
  BY <1>1, <1>2
<1>7. Tail(wire) \in Seq(Sendable) /\ wire = <<End>> \o Tail(wire)
  <2>1. Tail(wire) = SubSeq(wire, 2, Len(wire)) /\ Tail(wire) \in Seq(Sendable)
    BY <1>1, <1>2, TailIsSubSeq, HeadTailProperties
  <2>2. Len(wire) \in Nat \ {0}
    BY <1>1, <1>2, EmptySeq
  <2>3. SubSeq(wire, 1, Len(wire)) = <<wire[1]>> \o SubSeq(wire, 2, Len(wire))
    <3>1. 1 \in 1 .. Len(wire) /\ Len(wire) \in 1 .. Len(wire) /\ 1 + 1 = 2
      BY <2>2
    <3> QED BY <1>2, <3>1, SubSeqRecursiveFirst
  <2>4. SubSeq(wire, 1, Len(wire)) = wire
    BY <1>2, SubSeqFull
  <2>5. Head(wire) = wire[1]
    BY <1>1, <1>2
  <2> QED BY <1>1, <2>1, <2>3, <2>4, <2>5
<1> DEFINE all == c \o Content
<1> PICK d : d = Append(all, End)
  OBVIOUS
<1>8. /\ all \in Seq(Sendable) /\ d \in Seq(Sendable)
      /\ Pieces(d) = [done |-> Pieces(c).done, rest |-> <<>>]
  <2>1. all \in Seq(Sendable)
    <3>1. Content \in Seq(Sendable)
      BY <1>4, SeqMonotonic DEF Sendable
    <3> QED BY <1>5, <3>1, ConcatProperties
  <2>2. Pieces(all).done = Pieces(c).done
    <3>1. SubSeq(Content, 1, size) = Content
      BY <1>4, SubSeqFull
    <3>2. size \in 0 .. Len(Content)
      BY <1>4
    <3>3. Pieces(c \o SubSeq(Content, 1, size))
            = [done |-> Pieces(c).done, rest |-> SubSeq(Content, 1, size)]
      BY <1>4, <1>5, <3>2, Reading
    <3>4. Pieces(all) = [done |-> Pieces(c).done, rest |-> Content]
      BY <3>1, <3>3
    <3> HIDE DEF all
    <3> QED BY <3>4
  <2> HIDE DEF all
  <2>3. d \in Seq(Sendable)
    BY <2>1, AppendProperties DEF Sendable
  <2> QED BY <2>1, <2>2, <2>3, HangsUp
<1>9. MemoryInv'
  <2>1. MsgLen' = 0
    BY <1>1 DEF MsgLen
  <2>2. size' \in 0 .. Len(memory') /\ \A k \in 1 .. size' : memory'[k] \in Cell
    BY <1>1, <1>2, <1>6
  <2> QED BY <1>1, <1>2, <1>6, <1>7, <2>1, <2>2 DEF MemoryInv
<1>10. Queued' = Queued /\ Left' = Tail(wire)
  <2>1. Kept' = <<>>
    BY <1>1 DEF Kept, Content
  <2> QED BY <1>1, <1>7, <2>1, ConcatEmptySeq DEF Queued, Left
<1>11. QueueInv'
  <2>1. orderQueue \in Seq(ParsedMsg) /\ msg \in Seq(ParsedMsg) /\ Len(msg) <= 1
    BY <1>2 DEF QueueInv
  <2>2. Len(memory) <= Len(memory')
    BY <1>2, <1>6
  <2> QED BY <1>1, <1>2, <1>6, <1>10, <2>1, <2>2, QueueStands
<1>12. StreamInv'
  BY <1>1, <1>2 DEF StreamInv
<1>13. Taken(d)'
  <2>1. sent' = d \o Tail(wire)
    <3>1. sent = c \o (Content \o (<<End>> \o Tail(wire)))
      BY <1>1, <1>3, <1>7 DEF Taken, Left, Kept
    <3>2. Content \in Seq(Sendable) /\ <<End>> \in Seq(Sendable)
      BY <1>4, SeqMonotonic DEF Sendable
    <3>3. <<End>> \o Tail(wire) \in Seq(Sendable)
      BY <1>2, <1>7
    <3>4. c \o (Content \o (<<End>> \o Tail(wire))) = all \o (<<End>> \o Tail(wire))
      <4> DEFINE y == <<End>> \o Tail(wire)
      <4>1. y \in Seq(Sendable)
        BY <3>3
      <4> HIDE DEF y
      <4>2. (c \o Content) \o y = c \o (Content \o y)
        BY <1>5, <3>2, <4>1, ConcatAssociative, SMTT(40)
      <4> QED BY <4>2 DEF y
    <3>5. all \o (<<End>> \o Tail(wire)) = (all \o <<End>>) \o Tail(wire)
      <4> HIDE DEF all
      <4> QED BY <1>7, <1>8, <3>2, ConcatAssociative, SMTT(40)
    <3>6. all \o <<End>> = d
      <4> HIDE DEF all
      <4> QED BY <1>8, AppendIsConcat DEF Sendable
    <3> QED BY <1>1, <3>1, <3>4, <3>5, <3>6
  <2>2. /\ Len(Pieces(d).done) = Len(handled) + Len(Queued)
        /\ \A k \in 1 .. Len(handled) : handled[k].terms = TermsOf(Fresh(Pieces(d).done[k]))
        /\ \A k \in 1 .. Len(Queued) : Queued[k] = Fresh(Pieces(d).done[Len(handled) + k])
    BY <1>3, <1>8 DEF Taken
  <2>3. Pieces(d).rest = <<>>
    BY <1>8
  <2> QED BY <1>1, <1>8, <1>10, <2>1, <2>2, <2>3 DEF Taken
<1>14. ASSUME ~hasty' PROVE Waits'
  <2>1. Left # <<>>
    <3>1. Kept \in Seq(Sendable)
      BY <1>2, KeptType
    <3> QED BY <1>1, <1>2, <3>1, ConcatEqualIffEmpty DEF Left
  <2>2. MemoryStands /\ Waits
    BY <1>1, <1>14, <2>1 DEF MemoryStands, IngressInv
  <2> QED BY <1>1, <1>2, <1>6, <1>10, <2>2, WaitsStands
<1> QED BY <1>9, <1>11, <1>12, <1>13, <1>14 DEF IngressInv

LEMMA FrameInv ==
  ASSUME IngressInv, Frame
  PROVE  IngressInv'
<1>1. /\ pc = "frame" /\ wire' = wire /\ memory' = memory /\ size' = size
      /\ orderQueue' = orderQueue /\ msg' = msg /\ handled' = handled /\ sent' = sent
      /\ hasty' = hasty
      /\ \/ MsgLen = 0 /\ pc' = "read"
         \/ MsgLen # 0 /\ pc' = "push" /\ parsedMsg' = Fresh(Frame1)
  BY DEF Frame, ghosts, ParseFixMessage, Fresh, Frame1
<1>2. /\ MemoryInv /\ QueueInv /\ StreamInv
      /\ memory \in Seq(Cell \cup {Lost}) /\ Len(memory) \in Nat
  BY LenProperties DEF IngressInv, MemoryInv
<1>3. MsgLen' = MsgLen /\ Frame1' = Frame1 /\ Behind' = Behind /\ Content' = Content
  BY <1>1, Unmoved
<1>4. MemoryInv'
  <2>1. Fresh(Frame1)' = Fresh(Frame1)
    BY <1>3 DEF Fresh
  <2> QED BY <1>1, <1>2, <1>3, <2>1 DEF MemoryInv
<1>5. Left' = Left /\ Queued' = Queued
  BY <1>1, <1>3 DEF Left, Kept, Queued
<1>6. QueueInv' /\ StreamInv'
  BY <1>1, <1>2, <1>5 DEF QueueInv, StreamInv
<1>7. \E c : Taken(c)'
  BY <1>1, <1>5, TakenStands DEF IngressInv
<1>8. ASSUME ~hasty' PROVE Waits'
  <2>1. MemoryStands /\ Waits
    BY <1>1, <1>2, <1>5, <1>8 DEF MemoryStands, IngressInv
  <2> QED BY <1>1, <1>2, <1>5, <2>1, WaitsStands
<1> QED BY <1>4, <1>6, <1>7, <1>8 DEF IngressInv

\* The last cell of what is continued.
LEMMA LastOfConcat ==
  ASSUME NEW S, NEW a \in Seq(S), NEW b \in Seq(S), b # <<>>
  PROVE  (a \o b)[Len(a \o b)] = b[Len(b)]
<1> DEFINE s == a \o b
<1>1. Len(a) \in Nat /\ Len(b) \in Nat \ {0}
  BY EmptySeq, LenProperties
<1>2. /\ Len(s) = Len(a) + Len(b)
      /\ \A i \in 1 .. Len(a) + Len(b) : s[i] = IF i <= Len(a) THEN a[i] ELSE b[i - Len(a)]
  BY ConcatProperties
<1> HIDE DEF s
<1>3. s[Len(a) + Len(b)] = b[(Len(a) + Len(b)) - Len(a)]
  BY <1>1, <1>2
<1>4. (Len(a) + Len(b)) - Len(a) = Len(b)
  BY <1>1
<1> QED BY <1>2, <1>3, <1>4 DEF s

\* What the numbers of messages are.
LEMMA QueuedType ==
  ASSUME QueueInv
  PROVE  /\ Queued \in Seq(ParsedMsg) /\ Len(Queued) \in Nat /\ Len(handled) \in Nat
         /\ Len(Queued) = 0 => Queued = <<>>
<1>1. Queued \in Seq(ParsedMsg) /\ handled \in Seq(Handled)
  BY ConcatProperties DEF QueueInv, Queued
<1> QED BY <1>1, EmptySeq, LenProperties

LEMMA PushInv ==
  ASSUME IngressInv, Push
  PROVE  IngressInv'
<1>1. /\ pc = "push" /\ pc' = "erase" /\ orderQueue' = Append(orderQueue, parsedMsg)
      /\ wire' = wire /\ memory' = memory /\ size' = size
      /\ msg' = msg /\ handled' = handled /\ sent' = sent /\ hasty' = hasty
  BY DEF Push, ghosts
<1>2. /\ MemoryInv /\ QueueInv /\ StreamInv /\ wire \in Seq(Sendable) /\ sent \in Seq(Sendable)
      /\ memory \in Seq(Cell \cup {Lost}) /\ Len(memory) \in Nat /\ size \in 0 .. Len(memory)
      /\ MsgLen # 0 /\ parsedMsg = Fresh(Frame1)
  BY <1>1, LenProperties DEF IngressInv, MemoryInv
<1>3. PICK c : Taken(c)
  BY DEF IngressInv
<1>4. c \in Seq(Sendable) /\ Pieces(c).rest = <<>> /\ sent = c \o Left
  BY <1>3 DEF Taken
<1>5. /\ MsgLen \in 1 .. size /\ Frame1 \in Seq(Cell) /\ Frame1 # <<>> /\ Len(Frame1) = MsgLen
      /\ \A k \in 1 .. MsgLen : Frame1[k] = memory[k]
      /\ Complete(Frame1, Len(Frame1)) /\ \A k \in 1 .. Len(Frame1) - 1 : ~Complete(Frame1, k)
      /\ Behind \in Seq(Cell) /\ Content = Frame1 \o Behind
  BY <1>2, ContentIs
<1>6. MsgLen' = MsgLen /\ Frame1' = Frame1 /\ Behind' = Behind /\ Content' = Content
  BY <1>1, Unmoved
<1>7. Frame1 \in Seq(Sendable) /\ Behind \in Seq(Sendable)
  BY <1>5, SeqMonotonic DEF Sendable
<1> PICK d : d = c \o Frame1
  OBVIOUS
<1>8. /\ d \in Seq(Sendable)
      /\ Pieces(d) = [done |-> Append(Pieces(c).done, Frame1), rest |-> <<>>]
  BY <1>4, <1>5, <1>7, ConcatProperties, FrameComplete
<1> DEFINE e == Behind \o wire
<1>9. Left' = e /\ e \in Seq(Sendable) /\ sent = d \o e
  <2>1. Left' = e
    BY <1>1, <1>6 DEF Left, Kept
  <2>2. e \in Seq(Sendable)
    BY <1>2, <1>7, ConcatProperties
  <2>3. Left = (Frame1 \o Behind) \o wire
    BY <1>1, <1>5 DEF Left, Kept
  <2>4. (Frame1 \o Behind) \o wire = Frame1 \o e
    <3>1. Frame1 \in Seq(Sendable) /\ Behind \in Seq(Sendable) /\ wire \in Seq(Sendable)
      BY <1>2, <1>7
    <3>2. e \in Seq(Sendable) /\ e = Behind \o wire
      BY <2>2
    <3> HIDE DEF e
    <3> QED BY <3>1, <3>2, ConcatAssociative
  <2> HIDE DEF e
  <2>5. c \o (Frame1 \o e) = (c \o Frame1) \o e
    <3>1. c \in Seq(Sendable) /\ Frame1 \in Seq(Sendable) /\ e \in Seq(Sendable)
      BY <1>4, <1>7, <2>2
    <3> QED BY <3>1, ConcatAssociative
  <2> QED BY <1>4, <2>1, <2>2, <2>3, <2>4, <2>5
<1> HIDE DEF e
<1> DEFINE done == Pieces(c).done
           l == Len(done)
<1>10. /\ done \in Seq(Seq(Cell)) /\ l \in Nat
       /\ Come \in Seq(Seq(Cell)) /\ Len(Come) \in Nat
       /\ l = Len(handled) + Len(Queued)
  BY <1>2, <1>3, TakenCome DEF Taken
<1>11. /\ Len(Append(done, Frame1)) = l + 1 /\ Append(done, Frame1)[l + 1] = Frame1
       /\ \A k \in 1 .. l : Append(done, Frame1)[k] = done[k]
  <2>1. done \in Seq(Seq(Cell)) /\ Frame1 \in Seq(Cell)
    BY <1>5, <1>10
  <2> HIDE DEF done
  <2> QED BY <2>1, AppendProperties
<1>12. l + 1 <= Len(Come) /\ Come[l + 1] = Frame1
  <2>1. Extends(Pieces(d).done, Come)
    BY <1>8, <1>9, DoneGrows DEF Come
  <2>2. Extends(Append(done, Frame1), Come)
    BY <1>8, <2>1
  <2>3. l + 1 \in 1 .. l + 1
    BY <1>10
  <2> HIDE DEF done, l
  <2> QED BY <1>11, <2>2, <2>3 DEF Extends
<1>13. Alternates(Frame1)
  <2>1. l + 1 \in DOMAIN Come
    BY <1>10, <1>12, LenProperties
  <2>2. Alternates(Come[l + 1])
    BY <1>2, <2>1 DEF StreamInv, Aligned, Come
  <2> QED BY <1>12, <2>2
<1>14. parsedMsg \in ParsedMsg /\ \A t \in IdTags : parsedMsg.view[t] <= Len(memory)
  <2>1. /\ parsedMsg \in ParsedMsg
        /\ \A t \in IdTags : parsedMsg.view[t] = 0 \/ parsedMsg.view[t] \in 2 .. Len(Frame1)
    BY <1>2, <1>5, <1>13, ParsedIsRead
  <2>2. Len(Frame1) \in Nat /\ Len(Frame1) <= Len(memory)
    BY <1>2, <1>5
  <2>3. Len(memory) \in Nat
    BY <1>2
  <2>4. \A t \in IdTags : parsedMsg.view[t] <= Len(memory)
    <3> TAKE t \in IdTags
    <3> DEFINE v == parsedMsg.view[t]
    <3>1. v = 0 \/ v \in 2 .. Len(Frame1)
      BY <2>1
    <3> HIDE DEF v
    <3>2. v <= Len(memory)
      BY <2>2, <2>3, <3>1
    <3> QED BY <3>2 DEF v
  <2> QED BY <2>1, <2>4
<1>15. Queued' = Append(Queued, parsedMsg)
  <2>1. orderQueue \in Seq(ParsedMsg) /\ msg \in Seq(ParsedMsg)
    BY <1>2 DEF QueueInv
  <2>2. Append(orderQueue, parsedMsg) = orderQueue \o <<parsedMsg>>
    BY <1>14, <2>1, AppendIsConcat
  <2>3. msg \o (orderQueue \o <<parsedMsg>>) = (msg \o orderQueue) \o <<parsedMsg>>
    <3>1. <<parsedMsg>> \in Seq(ParsedMsg)
      BY <1>14
    <3> QED BY <2>1, <3>1, ConcatAssociative
  <2>4. msg \o orderQueue \in Seq(ParsedMsg)
    BY <2>1, ConcatProperties
  <2>5. Append(msg \o orderQueue, parsedMsg) = (msg \o orderQueue) \o <<parsedMsg>>
    BY <1>14, <2>4, AppendIsConcat
  <2> QED BY <1>1, <2>2, <2>3, <2>5 DEF Queued
<1> DEFINE q == Len(Queued)
<1>16. /\ Queued \in Seq(ParsedMsg) /\ q \in Nat /\ Len(handled) \in Nat
       /\ Len(Queued') = q + 1 /\ Queued'[q + 1] = parsedMsg
       /\ \A k \in 1 .. q : Queued'[k] = Queued[k]
  <2>1. Queued \in Seq(ParsedMsg) /\ q \in Nat /\ Len(handled) \in Nat
    BY <1>2, QueuedType
  <2> QED BY <1>14, <1>15, <2>1, AppendProperties
<1>17. MemoryInv'
  BY <1>1, <1>2, <1>6 DEF MemoryInv
<1>18. QueueInv'
  <2>1. orderQueue' \in Seq(ParsedMsg)
    BY <1>1, <1>2, <1>14, AppendProperties DEF QueueInv
  <2>2. \A k \in 1 .. q + 1 : \A t \in IdTags : Queued'[k].view[t] <= Len(memory)
    <3> TAKE k \in 1 .. q + 1
    <3> TAKE t \in IdTags
    <3>1. CASE k = q + 1
      BY <1>14, <1>16, <3>1
    <3>2. CASE k # q + 1
      <4>1. k \in 1 .. q
        BY <1>16, <3>2
      <4> QED BY <1>2, <1>16, <4>1 DEF QueueInv
    <3> QED BY <3>1, <3>2
  <2> HIDE DEF q
  <2> QED BY <1>1, <1>2, <1>16, <2>1, <2>2 DEF QueueInv
<1>19. StreamInv'
  BY <1>1, <1>2 DEF StreamInv
<1>20. Taken(d)'
  <2>1. /\ Len(Pieces(d).done) = Len(handled) + (q + 1)
        /\ \A k \in 1 .. Len(handled) : Pieces(d).done[k] = done[k]
        /\ \A k \in 1 .. q : Pieces(d).done[Len(handled) + k] = done[Len(handled) + k]
        /\ Pieces(d).done[Len(handled) + (q + 1)] = Frame1
    <3>1. Pieces(d).done = Append(done, Frame1)
      BY <1>8
    <3>2. /\ l + 1 = Len(handled) + (q + 1)
          /\ \A k \in 1 .. Len(handled) : k \in 1 .. l
          /\ \A k \in 1 .. q : Len(handled) + k \in 1 .. l
      BY <1>10, <1>16, SMTT(30)
    <3> HIDE DEF done, l, q
    <3> QED BY <1>11, <3>1, <3>2
  <2>2. \A k \in 1 .. Len(handled) : handled[k].terms = TermsOf(Fresh(Pieces(d).done[k]))
    BY <1>3, <2>1 DEF Taken
  <2>3. \A k \in 1 .. q + 1 : Queued'[k] = Fresh(Pieces(d).done[Len(handled) + k])
    <3> TAKE k \in 1 .. q + 1
    <3>1. CASE k = q + 1
      BY <1>2, <1>16, <2>1, <3>1
    <3>2. CASE k # q + 1
      <4>1. k \in 1 .. q
        BY <1>16, <3>2
      <4>2. Queued[k] = Fresh(done[Len(handled) + k])
        BY <1>3, <4>1 DEF Taken
      <4> QED BY <1>16, <2>1, <4>1, <4>2
    <3> QED BY <3>1, <3>2
  <2>4. Pieces(d).rest = <<>>
    BY <1>8
  <2> HIDE DEF q, done, l
  <2> QED BY <1>1, <1>8, <1>9, <1>16, <2>1, <2>2, <2>3, <2>4 DEF Taken
<1>21. ASSUME ~hasty' PROVE Waits'
  <2>1. Waits /\ Come' = Come
    BY <1>1, <1>21 DEF IngressInv, Come
  <2>2. ASSUME Len(Come) = Len(handled) + 1
        PROVE  /\ Left' = <<>>
               /\ Len(Come[Len(Come)]) <= Len(memory)
               /\ \A k \in 2 .. Len(Come[Len(Come)]) :
                    memory[k] = Come[Len(Come)][k]
    <3>1. Pieces(sent).rest = <<>> /\ sent[Len(sent)] # End
      BY <2>1, <2>2 DEF Waits
    <3>2. e = <<>>
      <4> SUFFICES ASSUME e # <<>> PROVE FALSE
        OBVIOUS
      <4>1. e[Len(e)] # End
        BY <1>8, <1>9, <3>1, LastOfConcat
      <4>2. Len(Pieces(d).done) < Len(Pieces(d \o e).done)
        BY <1>8, <1>9, <3>1, <4>1, EndsWithMessage
      <4>3. l + 1 < Len(Come)
        BY <1>8, <1>9, <1>11, <4>2 DEF Come
      <4> QED BY <1>10, <1>16, <2>2, <4>3
    <3>3. l + 1 = Len(Come)
      BY <1>10, <1>12, <1>16, <2>2
    <3>4. Come[Len(Come)] = Frame1
      BY <1>12, <3>3
    <3>5. Len(Frame1) <= Len(memory) /\ \A k \in 2 .. Len(Frame1) : memory[k] = Frame1[k]
      BY <1>2, <1>5
    <3> HIDE DEF l
    <3> QED BY <1>9, <3>2, <3>4, <3>5
  <2> QED BY <1>1, <2>1, <2>2 DEF Waits
<1> QED BY <1>17, <1>18, <1>19, <1>20, <1>21 DEF IngressInv

LEMMA EraseInv ==
  ASSUME IngressInv, Erase
  PROVE  IngressInv'
<1>1. /\ pc = "erase" /\ pc' = "frame" /\ wire' = wire
      /\ memory' = Holding(Behind) /\ size' = size - MsgLen
      /\ orderQueue' = orderQueue /\ msg' = msg /\ handled' = handled /\ sent' = sent
      /\ hasty' = hasty
  BY DEF Erase, Erased, Behind, ghosts
<1>2. /\ MemoryInv /\ QueueInv /\ StreamInv /\ wire \in Seq(Sendable)
      /\ memory \in Seq(Cell \cup {Lost}) /\ MsgLen # 0
  BY <1>1 DEF IngressInv, MemoryInv
<1>3. Behind \in Seq(Cell) /\ Len(Behind) = size - MsgLen
  BY <1>2, ContentIs
<1>4. /\ memory' \in Seq(Cell \cup {Lost}) /\ Len(memory) <= Len(memory')
      /\ size' \in 0 .. Len(memory')
      /\ \A k \in 1 .. size' : memory'[k] \in Cell
      /\ SubSeq(memory', 1, size') = Behind
      /\ \A k \in Len(Behind) + 2 .. Len(memory) : memory'[k] = memory[k]
  <2>1. LET m == Holding(Behind)
        IN  /\ m \in Seq(Cell \cup {Lost})
            /\ Len(Behind) \in 0 .. Len(m) /\ Len(memory) <= Len(m)
            /\ \A a \in 1 .. Len(Behind) : m[a] = Behind[a] /\ m[a] \in Cell
            /\ \A a \in Len(Behind) + 2 .. Len(memory) : m[a] = memory[a]
            /\ SubSeq(m, 1, Len(Behind)) = Behind
    BY <1>2, <1>3, HoldingIs
  <2> QED BY <1>1, <1>3, <2>1
<1>5. MemoryInv'
  BY <1>1, <1>2, <1>4 DEF MemoryInv
<1>6. Left' = Left /\ Queued' = Queued
  BY <1>1, <1>4 DEF Left, Kept, Content, Queued
<1>7. QueueInv'
  <2>1. orderQueue \in Seq(ParsedMsg) /\ msg \in Seq(ParsedMsg) /\ Len(msg) <= 1
    BY <1>2 DEF QueueInv
  <2> QED BY <1>1, <1>2, <1>4, <1>6, <2>1, QueueStands
<1>8. StreamInv'
  BY <1>1, <1>2 DEF StreamInv
<1>9. \E c : Taken(c)'
  BY <1>1, <1>6, TakenStands DEF IngressInv
<1>10. ASSUME ~hasty' PROVE Waits'
  <2>1. MemoryStands
    <3> SUFFICES ASSUME Left = <<>>
                 PROVE  /\ Left' = <<>> /\ Len(memory) <= Len(memory')
                        /\ \A k \in 2 .. Len(memory) : memory'[k] = memory[k]
      BY DEF MemoryStands
    <3>1. Behind = <<>>
      <4>1. Behind \in Seq(Sendable) /\ Behind \o wire = <<>>
        BY <1>1, <1>3, SeqMonotonic DEF Sendable, Left, Kept
      <4> QED BY <1>2, <4>1, ConcatEqualIffEmpty
    <3>2. Len(Behind) = 0
      BY <3>1
    <3> QED BY <1>4, <1>6, <3>2
  <2>2. Waits
    BY <1>1, <1>10 DEF IngressInv
  <2> QED BY <1>1, <1>2, <1>4, <1>6, <2>1, <2>2, WaitsStands
<1> QED BY <1>5, <1>7, <1>8, <1>9, <1>10 DEF IngressInv

LEMMA PopInv ==
  ASSUME IngressInv, Pop
  PROVE  IngressInv'
<1>1. /\ msg = <<>> /\ orderQueue # <<>> /\ msg' = <<Head(orderQueue)>>
      /\ orderQueue' = Tail(orderQueue)
      /\ wire' = wire /\ memory' = memory /\ size' = size /\ pc' = pc /\ parsedMsg' = parsedMsg
      /\ handled' = handled /\ sent' = sent /\ hasty' = hasty
  BY DEF Pop, network, ghosts
<1>2. /\ MemoryInv /\ QueueInv /\ StreamInv
      /\ memory \in Seq(Cell \cup {Lost}) /\ Len(memory) \in Nat
      /\ orderQueue \in Seq(ParsedMsg)
  BY LenProperties DEF IngressInv, MemoryInv, QueueInv
<1>3. MsgLen' = MsgLen /\ Frame1' = Frame1 /\ Behind' = Behind /\ Content' = Content
  BY <1>1, Unmoved
<1>4. MemoryInv'
  BY <1>1, <1>2, <1>3 DEF MemoryInv
<1>5. /\ Head(orderQueue) \in ParsedMsg /\ Tail(orderQueue) \in Seq(ParsedMsg)
      /\ orderQueue = <<Head(orderQueue)>> \o Tail(orderQueue)
  <2>1. /\ Head(orderQueue) \in ParsedMsg
        /\ Tail(orderQueue) = SubSeq(orderQueue, 2, Len(orderQueue))
        /\ Tail(orderQueue) \in Seq(ParsedMsg)
    BY <1>1, <1>2, TailIsSubSeq, HeadTailProperties
  <2>2. Len(orderQueue) \in Nat \ {0}
    BY <1>1, <1>2, EmptySeq
  <2>3. SubSeq(orderQueue, 1, Len(orderQueue))
          = <<orderQueue[1]>> \o SubSeq(orderQueue, 2, Len(orderQueue))
    <3>1. 1 \in 1 .. Len(orderQueue) /\ Len(orderQueue) \in 1 .. Len(orderQueue) /\ 1 + 1 = 2
      BY <2>2
    <3> QED BY <1>2, <3>1, SubSeqRecursiveFirst
  <2>4. SubSeq(orderQueue, 1, Len(orderQueue)) = orderQueue
    BY <1>2, SubSeqFull
  <2>5. Head(orderQueue) = orderQueue[1]
    BY <1>1, <1>2
  <2> QED BY <2>1, <2>3, <2>4, <2>5
<1>6. Left' = Left /\ Queued' = Queued
  <2>1. Queued = orderQueue
    BY <1>1, <1>2, ConcatEmptySeq DEF Queued
  <2> QED BY <1>1, <1>3, <1>5, <2>1 DEF Left, Kept, Queued
<1>7. QueueInv'
  <2>1. msg' \in Seq(ParsedMsg) /\ Len(msg') <= 1 /\ orderQueue' \in Seq(ParsedMsg)
    BY <1>1, <1>5
  <2> QED BY <1>1, <1>2, <1>6, <2>1, QueueStands
<1>8. StreamInv'
  BY <1>1, <1>2 DEF StreamInv
<1>9. \E c : Taken(c)'
  BY <1>1, <1>6, TakenStands DEF IngressInv
<1>10. ASSUME ~hasty' PROVE Waits'
  <2>1. MemoryStands /\ Waits
    BY <1>1, <1>2, <1>6, <1>10 DEF MemoryStands, IngressInv
  <2> QED BY <1>1, <1>2, <1>6, <2>1, WaitsStands
<1> QED BY <1>4, <1>7, <1>8, <1>9, <1>10 DEF IngressInv

\* What parseFastInt is called with is a text, so that a number or garbage is read.
LEMMA IdsType ==
  ASSUME MemoryInv, NEW view \in 0 .. Len(memory)
  PROVE  Ids(view) \subseteq Int \cup Garbage
<1>1. CASE view = 0
  BY <1>1 DEF Ids
<1>2. CASE view # 0 /\ memory[view].kind = "text"
  <2>1. view \in 1 .. Len(memory) /\ memory \in Seq(Cell \cup {Lost})
    BY <1>2, LenProperties DEF MemoryInv
  <2>2. memory[view] \in Cell \cup {Lost}
    BY <2>1, ElementOfSeq
  <2>3. memory[view] \in TextCell
    BY <1>2, <2>2, Kinds DEF Lost
  <2>4. memory[view].text \in Seq(Int)
    BY <2>3, Texts DEF Cell
  <2>5. ParseFastInt(memory[view].text) \in Int
    BY <2>4, ParseFastIntIsIntValue
  <2> QED BY <1>2, <2>5 DEF Ids
<1>3. CASE view # 0 /\ memory[view].kind # "text"
  BY <1>3 DEF Ids
<1> QED BY <1>1, <1>2, <1>3

\* Messages whose texts are still in memory are handled under their own ids.
LEMMA IdsInMemory ==
  ASSUME NEW f \in Seq(Cell), Alternates(f),
         \A k \in 2 .. Len(f) : memory[k] = f[k],
         NEW t \in IdTags, NEW id \in Ids(Fresh(f).view[t])
  PROVE  id = ReadIds(f)[t]
<1> DEFINE v == Fresh(f).view[t]
<1>1. \/ v = 0 /\ ReadIds(f)[t] = 0
      \/ /\ v \in 2 .. Len(f) /\ f[v] \in TextCell
         /\ ReadIds(f)[t] = ParseFastInt(f[v].text)
  BY ParsedIsRead
<1>2. id \in Ids(v)
  OBVIOUS
<1> HIDE DEF v
<1>3. CASE v = 0 /\ ReadIds(f)[t] = 0
  BY <1>2, <1>3 DEF Ids
<1>4. CASE /\ v \in 2 .. Len(f) /\ f[v] \in TextCell
           /\ ReadIds(f)[t] = ParseFastInt(f[v].text)
  <2>1. Len(f) \in Nat
    BY LenProperties
  <2>2. v # 0 /\ memory[v] = f[v]
    BY <1>4, <2>1
  <2>3. memory[v].kind = "text"
    BY <1>4, <2>2, Texts DEF Cell, TextCell
  <2>4. Ids(v) = {ParseFastInt(memory[v].text)}
    BY <2>2, <2>3 DEF Ids
  <2> QED BY <1>2, <1>4, <2>2, <2>4
<1> QED BY <1>1, <1>3, <1>4

LEMMA HandleInv ==
  ASSUME IngressInv, Handle
  PROVE  IngressInv'
<1> DEFINE m == msg[1]
<1>1. PICK clOrdID \in Ids(m.view[11]), origClOrdID \in Ids(m.view[41]) :
        handled' = Append(handled,
          [terms |-> [char |-> m.char, qty |-> m.qty, price |-> m.price],
           ids |-> [t \in IdTags |-> IF t = 11 THEN clOrdID ELSE origClOrdID]])
  BY DEF Handle
<1> DEFINE h == [terms |-> TermsOf(m),
                 ids |-> [t \in IdTags |-> IF t = 11 THEN clOrdID ELSE origClOrdID]]
<1>2. /\ msg # <<>> /\ msg' = <<>> /\ handled' = Append(handled, h)
      /\ wire' = wire /\ memory' = memory /\ size' = size /\ pc' = pc /\ parsedMsg' = parsedMsg
      /\ orderQueue' = orderQueue /\ sent' = sent /\ hasty' = hasty
  BY <1>1 DEF Handle, network, ghosts, TermsOf
<1>3. /\ MemoryInv /\ QueueInv /\ StreamInv /\ sent \in Seq(Sendable)
      /\ memory \in Seq(Cell \cup {Lost}) /\ Len(memory) \in Nat
      /\ orderQueue \in Seq(ParsedMsg) /\ msg \in Seq(ParsedMsg) /\ Len(msg) <= 1
      /\ handled \in Seq(Handled) /\ Len(handled) \in Nat
  BY LenProperties DEF IngressInv, MemoryInv, QueueInv
<1>4. MsgLen' = MsgLen /\ Frame1' = Frame1 /\ Behind' = Behind /\ Content' = Content
  BY <1>2, Unmoved
<1>5. MemoryInv' /\ StreamInv' /\ Left' = Left
  BY <1>2, <1>3, <1>4 DEF MemoryInv, StreamInv, Left, Kept
<1> DEFINE q == Len(orderQueue)
           n == Len(handled)
<1>6. /\ q \in Nat /\ Len(Queued) = q + 1 /\ Queued[1] = m /\ m \in ParsedMsg
      /\ \A k \in 1 .. q : Queued[k + 1] = orderQueue[k]
      /\ Queued' = orderQueue
  <2>1. Len(msg) = 1 /\ m \in ParsedMsg /\ q \in Nat
    <3>1. Len(msg) \in Nat \ {0}
      BY <1>2, <1>3, EmptySeq
    <3>2. Len(msg) <= 1
      BY <1>3
    <3>3. Len(msg) = 1
      BY <3>1, <3>2, SMTT(30)
    <3>4. 1 \in 1 .. Len(msg)
      BY <3>3
    <3>5. m \in ParsedMsg
      BY <1>3, <3>4, ElementOfSeq
    <3>6. q \in Nat
      BY <1>3, LenProperties
    <3> QED BY <3>3, <3>5, <3>6
  <2>2. /\ Len(msg \o orderQueue) = Len(msg) + q
        /\ \A i \in 1 .. Len(msg) + q :
             (msg \o orderQueue)[i] = IF i <= Len(msg) THEN msg[i] ELSE orderQueue[i - Len(msg)]
    BY <1>3, ConcatProperties
  <2>3. Queued' = orderQueue
    BY <1>2, <1>3, ConcatEmptySeq DEF Queued
  <2>4. /\ Len(Queued) = 1 + q
        /\ \A i \in 1 .. 1 + q : Queued[i] = IF i <= 1 THEN msg[i] ELSE orderQueue[i - 1]
    BY <2>1, <2>2 DEF Queued
  <2> HIDE DEF q
  <2> QED BY <2>1, <2>3, <2>4
<1>7. h \in Handled
  <2>1. \A t \in IdTags : Ids(m.view[t]) \subseteq Int \cup Garbage
    <3> TAKE t \in IdTags
    <3>1. 1 \in 1 .. Len(Queued)
      BY <1>6
    <3>2. m.view[t] <= Len(memory)
      BY <1>3, <1>6, <3>1 DEF QueueInv
    <3>3. m.view[t] \in Nat
      BY <1>6 DEF ParsedMsg
    <3>4. m.view[t] \in 0 .. Len(memory)
      BY <1>3, <3>2, <3>3
    <3> QED BY <1>3, <3>4, IdsType
  <2>2. clOrdID \in Int \cup Garbage /\ origClOrdID \in Int \cup Garbage
    BY <2>1 DEF IdTags
  <2>3. TermsOf(m) \in [char : [CharTags -> Int], qty : Int, price : Int]
    BY <1>6 DEF ParsedMsg, TermsOf
  <2> HIDE DEF m
  <2> QED BY <2>2, <2>3 DEF Handled
<1> HIDE DEF h
<1>8. /\ handled' \in Seq(Handled) /\ Len(handled') = n + 1 /\ handled'[n + 1] = h
      /\ \A k \in 1 .. n : handled'[k] = handled[k]
  BY <1>2, <1>3, <1>7, AppendProperties
<1>9. QueueInv'
  <2>1. msg' \in Seq(ParsedMsg) /\ Len(msg') <= 1
    BY <1>2
  <2>2. \A k \in 1 .. q : \A t \in IdTags : orderQueue[k].view[t] <= Len(memory)
    <3> TAKE k \in 1 .. q
    <3> TAKE t \in IdTags
    <3>1. k + 1 \in 1 .. Len(Queued) /\ Queued[k + 1] = orderQueue[k]
      BY <1>6
    <3> QED BY <1>3, <3>1 DEF QueueInv
  <2> QED BY <1>2, <1>3, <1>6, <1>8, <2>1, <2>2 DEF QueueInv
<1>10. PICK c : Taken(c)
  BY DEF IngressInv
<1> DEFINE done == Pieces(c).done
<1>11. /\ c \in Seq(Sendable) /\ Len(done) = n + (q + 1) /\ m = Fresh(done[n + 1])
       /\ Extends(done, Come)
       /\ Come \in Seq(Seq(Cell)) /\ Len(Come) \in Nat
  <2>1. 1 \in 1 .. Len(Queued)
    BY <1>6
  <2>2. Queued[1] = Fresh(done[n + 1])
    BY <1>10, <2>1 DEF Taken
  <2> QED BY <1>3, <1>6, <1>10, <2>2, TakenCome DEF Taken
<1>12. Taken(c)'
  <2>1. \A k \in 1 .. n + 1 : handled'[k].terms = TermsOf(Fresh(done[k]))
    <3> TAKE k \in 1 .. n + 1
    <3>1. CASE k = n + 1
      <4>1. h.terms = TermsOf(m)
        BY DEF h
      <4> QED BY <1>8, <1>11, <3>1, <4>1
    <3>2. CASE k # n + 1
      <4>1. k \in 1 .. n
        BY <1>3, <3>2
      <4> QED BY <1>8, <1>10, <4>1 DEF Taken
    <3> QED BY <3>1, <3>2
  <2>2. \A k \in 1 .. q : orderQueue[k] = Fresh(done[(n + 1) + k])
    <3> TAKE k \in 1 .. q
    <3>1. /\ k + 1 \in 1 .. Len(Queued) /\ Queued[k + 1] = orderQueue[k]
          /\ n + (k + 1) = (n + 1) + k
      BY <1>3, <1>6
    <3>2. Queued[k + 1] = Fresh(done[n + (k + 1)])
      BY <1>10, <3>1 DEF Taken
    <3> QED BY <3>1, <3>2
  <2>3. n + (q + 1) = (n + 1) + q
    BY <1>3, <1>6
  <2>4. c \in Seq(Sendable) /\ sent = c \o Left /\ Pieces(c).rest = <<>>
    BY <1>10 DEF Taken
  <2>5. Len(done) = Len(handled') + Len(Queued')
    BY <1>6, <1>8, <1>11, <2>3
  <2> HIDE DEF n, q, m
  <2>6. \A k \in 1 .. Len(Queued') : Queued'[k] = Fresh(done[Len(handled') + k])
    BY <1>6, <1>8, <2>2 DEF q
  <2>7. \A k \in 1 .. Len(handled') : handled'[k].terms = TermsOf(Fresh(done[k]))
    BY <1>8, <2>1
  <2> QED BY <1>2, <1>5, <2>4, <2>5, <2>6, <2>7 DEF Taken
<1>13. ASSUME ~hasty' PROVE Waits'
  <2>1. Waits /\ Come' = Come
    BY <1>2, <1>13 DEF IngressInv, Come
  <2>2. Len(Come) <= n + 1 /\ Len(done) <= Len(Come)
    BY <1>11, <2>1 DEF Waits, Extends
  <2>3. Len(Come) = n + 1 /\ Len(done) = n + 1 /\ q = 0 /\ Queued # <<>>
    BY <1>3, <1>6, <1>11, <2>2
  <2> DEFINE f == Come[n + 1]
  <2>4. f \in Seq(Cell) /\ done[n + 1] = f
    <3>1. n + 1 \in 1 .. Len(done) /\ n + 1 \in 1 .. Len(Come)
      BY <1>3, <2>3
    <3>2. f \in Seq(Cell)
      BY <1>11, <3>1, ElementOfSeq
    <3> QED BY <1>11, <3>1, <3>2 DEF Extends
  <2>5. Alternates(f)
    <3>1. n + 1 \in DOMAIN Come
      BY <1>3, <1>11, <2>3, LenProperties
    <3> QED BY <1>3, <3>1 DEF StreamInv, Aligned, Come
  <2>6. \A k \in 2 .. Len(f) : memory[k] = f[k]
    BY <2>1, <2>3 DEF Waits
  <2>7. h.ids = ReadIds(f)
    <3> DEFINE ids == [t \in IdTags |-> IF t = 11 THEN clOrdID ELSE origClOrdID]
    <3>1. m = Fresh(f)
      BY <1>11, <2>4
    <3> HIDE DEF f, m
    <3>2. 11 \in IdTags /\ 41 \in IdTags /\ \A t \in IdTags : t = 11 \/ t = 41
      BY DEF IdTags
    <3>3. clOrdID = ReadIds(f)[11] /\ origClOrdID = ReadIds(f)[41]
      <4>1. clOrdID \in Ids(Fresh(f).view[11]) /\ origClOrdID \in Ids(Fresh(f).view[41])
        BY <3>1
      <4>2. f \in Seq(Cell)
        BY <2>4
      <4>3. clOrdID = ReadIds(f)[11]
        BY <2>5, <2>6, <3>2, <4>1, <4>2, IdsInMemory, ZenonT(60)
      <4>4. origClOrdID = ReadIds(f)[41]
        BY <2>5, <2>6, <3>2, <4>1, <4>2, IdsInMemory, ZenonT(60)
      <4> QED BY <4>3, <4>4
    <3>4. \A t \in IdTags : ids[t] = ReadIds(f)[t]
      <4> TAKE t \in IdTags
      <4>1. ids[t] = IF t = 11 THEN clOrdID ELSE origClOrdID
        OBVIOUS
      <4> HIDE DEF ids
      <4> QED BY <3>2, <3>3, <4>1
    <3>5. ids = ReadIds(f)
      BY <3>4 DEF ReadIds
    <3> QED BY <3>5 DEF h
  <2>8. \A k \in 1 .. n + 1 : handled'[k].ids = ReadIds(Come[k])
    <3> TAKE k \in 1 .. n + 1
    <3>1. CASE k = n + 1
      BY <1>8, <2>7, <3>1
    <3>2. CASE k # n + 1
      <4>1. k \in 1 .. n
        BY <1>3, <3>2
      <4> QED BY <1>8, <2>1, <4>1 DEF Waits
    <3> QED BY <3>1, <3>2
  <2> HIDE DEF f, q
  <2>9. Len(Come) <= Len(handled') + 1 /\ Len(Come) # Len(handled') + 1
    BY <1>3, <1>8, <2>3
  <2> QED BY <1>8, <2>1, <2>8, <2>9 DEF Waits
<1> QED BY <1>5, <1>9, <1>12, <1>13 DEF IngressInv

LEMMA IngressNextInv == IngressInv /\ [IngressNext]_ingressVars => IngressInv'
<1> SUFFICES ASSUME IngressInv, [IngressNext]_ingressVars PROVE IngressInv'
  OBVIOUS
<1>1. ASSUME NEW cells \in Message \cup {<<End>>}, Send(cells) PROVE IngressInv'
  BY <1>1, SendInv
<1>2. ASSUME NEW n \in 1 .. Len(wire), Read(n) PROVE IngressInv'
  BY <1>2, ReadInv
<1>3. CASE Disconnect
  BY <1>3, DisconnectInv
<1>4. CASE Frame
  BY <1>4, FrameInv
<1>5. CASE Push
  BY <1>5, PushInv
<1>6. CASE Erase
  BY <1>6, EraseInv
<1>7. CASE Pop
  BY <1>7, PopInv
<1>8. CASE Handle
  BY <1>8, HandleInv
<1>9. CASE UNCHANGED ingressVars
  BY <1>9, IngressStutters
<1> QED BY <1>1, <1>2, <1>3, <1>4, <1>5, <1>6, <1>7, <1>8, <1>9 DEF IngressNext

-----------------------------------------------------------------------------
(* The theorems.                                                           *)

\* What was sent is always the pieces taken out of the stream, in their order,
\* followed by what is left in it.
THEOREM IngressInvariance == IngressSpec => []IngressInv
<1>1. IngressInit => IngressInv
  BY IngressInitInv
<1> QED BY <1>1, IngressNextInv, PTL DEF IngressSpec

\* A plain message is the piece that its call gets.
LEMMA PlainCome ==
  ASSUME IngressInv, NEW j \in DOMAIN Arrived, Plain(Arrived[j].cells)
  PROVE  /\ Arrived[j].call \in 1 .. Len(Come)
         /\ Come[Arrived[j].call] = Arrived[j].cells
         /\ Arrived[j].cells \in Seq(Cell) /\ Alternates(Arrived[j].cells)
         /\ Unmistaken(Arrived[j].cells)
<1>1. MemoryInv /\ StreamInv /\ sent \in Seq(Sendable)
  BY DEF IngressInv, MemoryInv
<1>2. Messages(sent) \in ReceivedState /\ Come \in Seq(Seq(Cell)) /\ Len(Come) \in Nat
  BY <1>1, MessagesType, PiecesType DEF Come
<1>3. Arrived \in Seq([cells : Seq(Cell), call : Nat])
  BY <1>2 DEF ReceivedState, Arrived
<1>4. j \in 1 .. Len(Arrived)
  BY <1>3, LenProperties
<1> DEFINE m == Arrived[j]
<1>5. /\ m.call \in 1 .. Len(Come)
      /\ OneEnd(m.cells) => Come[m.call] = m.cells
  BY <1>1, <1>4 DEF StreamInv, Joint, Come, Arrived
<1>6. OneEnd(m.cells) /\ Unmistaken(m.cells)
  BY DEF Plain
<1> HIDE DEF m
<1>7. Come[m.call] \in Seq(Cell) /\ m.call \in DOMAIN Come
  BY <1>2, <1>5, ElementOfSeq, LenProperties
<1>8. Alternates(Come[m.call])
  BY <1>1, <1>7 DEF StreamInv, Aligned, Come
<1> QED BY <1>5, <1>6, <1>7, <1>8 DEF m

\* However TCP cuts the stream and however far the threads run apart, the engine is
\* called with the messages that clients mean, in their order, each with the terms
\* that its fields mean: with every message in which nothing is taken for a 10= or
\* for a tag that it is not, whatever the others do.
THEOREM HandledAsSent == IngressSpec => []TermsAsSent
<1>1. IngressInv => TermsAsSent
  <2> SUFFICES ASSUME IngressInv PROVE TermsAsSent
    OBVIOUS
  <2>1. MemoryInv /\ QueueInv /\ StreamInv
    BY DEF IngressInv
  <2>2. PICK c : Taken(c)
    BY DEF IngressInv
  <2> DEFINE done == Pieces(c).done
             n == Len(handled)
  <2>3. /\ Extends(done, Come) /\ Come \in Seq(Seq(Cell)) /\ Len(Come) \in Nat
        /\ Len(done) = n + Len(Queued) /\ Len(Queued) \in Nat /\ n \in Nat
        /\ DOMAIN handled = 1 .. n
    <3>1. handled \in Seq(Handled)
      BY <2>1 DEF QueueInv
    <3> QED BY <2>1, <2>2, <3>1, TakenCome, QueuedType, LenProperties DEF Taken
  <2>4. n <= Len(Come) /\ Messages(sent).calls = Len(Come)
    BY <2>1, <2>3 DEF Extends, StreamInv, Joint, Come
  <2>5. ASSUME NEW j \in DOMAIN Arrived, Plain(Arrived[j].cells), Arrived[j].call <= n
        PROVE  handled[Arrived[j].call].terms = MeantTerms(Arrived[j].cells)
    <3> DEFINE k == Arrived[j].call
               f == Arrived[j].cells
    <3>1. /\ k \in 1 .. n /\ Come[k] = f
          /\ f \in Seq(Cell) /\ Alternates(f) /\ Unmistaken(f)
      BY <2>3, <2>5, PlainCome
    <3> HIDE DEF k, f
    <3>2. k \in 1 .. Len(done)
      BY <2>3, <3>1
    <3>3. done[k] = f
      BY <3>1, <3>2, <2>3 DEF Extends
    <3>4. TermsOf(Fresh(f)) = MeantTerms(f)
      BY <3>1, ParsedIsMeant
    <3>5. handled[k].terms = TermsOf(Fresh(done[k]))
      BY <2>2, <3>1 DEF Taken
    <3>6. handled[k].terms = MeantTerms(f)
      BY <3>3, <3>4, <3>5
    <3> QED BY <3>6 DEF k, f
  <2> QED BY <2>4, <2>5 DEF TermsAsSent
<1> QED BY <1>1, IngressInvariance, PTL

\* Clients who wait for each message are handled under the ids they sent, though the
\* ids are read from memory that the network thread may be changing.
THEOREM PatientIds == IngressSpec => []IdsAsSent
<1>1. IngressInv => IdsAsSent
  <2> SUFFICES ASSUME IngressInv, ~hasty, NEW j \in DOMAIN Arrived,
                      Plain(Arrived[j].cells), Arrived[j].call <= Len(handled)
               PROVE  handled[Arrived[j].call].ids = MeantIds(Arrived[j].cells)
    BY DEF IdsAsSent
  <2>1. handled \in Seq(Handled) /\ Waits
    BY DEF IngressInv, QueueInv
  <2> DEFINE k == Arrived[j].call
             f == Arrived[j].cells
  <2>2. /\ k \in 1 .. Len(handled) /\ Come[k] = f /\ f \in Seq(Cell) /\ Unmistaken(f)
    BY <2>1, PlainCome, LenProperties
  <2> HIDE DEF k, f
  <2>3. handled[k].ids = ReadIds(f)
    BY <2>1, <2>2 DEF Waits
  <2>4. handled[k].ids = MeantIds(f)
    BY <2>2, <2>3, ReadIsMeant
  <2> QED BY <2>4 DEF k, f
<1> QED BY <1>1, IngressInvariance, PTL

\* When the network thread waits for more, nothing is on the wire and nothing is
\* queued, every message that was sent completely has been handled: none is stuck
\* in the accumulator.
Quiet ==
  pc = "read" /\ wire = <<>> /\ msg = <<>> /\ orderQueue = <<>> =>
    Len(handled) = Messages(sent).calls

THEOREM NothingStuck == IngressSpec => []Quiet
<1>1. IngressInv => Quiet
  <2> SUFFICES ASSUME IngressInv, pc = "read", wire = <<>>, msg = <<>>, orderQueue = <<>>
               PROVE  Len(handled) = Messages(sent).calls
    BY DEF Quiet
  <2>1. MemoryInv /\ QueueInv /\ MsgLen = 0
    BY DEF IngressInv, MemoryInv
  <2>2. PICK c : Taken(c)
    BY DEF IngressInv
  <2>3. /\ size \in Nat /\ Content \in Seq(Cell) /\ Len(Content) = size
        /\ \A k \in 1 .. size : ~Complete(Content, k)
    BY <2>1, ContentIs
  <2>4. sent = c \o Content
    <3>1. Kept = Content /\ Kept \in Seq(Sendable)
      BY <2>1, KeptType DEF Kept
    <3>2. Left = Content
      BY <3>1, ConcatEmptySeq DEF Left
    <3> QED BY <2>2, <3>2 DEF Taken
  <2>5. SubSeq(Content, 1, size) = Content /\ size \in 0 .. Len(Content)
    BY <2>3, SubSeqFull
  <2>6. Pieces(c \o SubSeq(Content, 1, size))
          = [done |-> Pieces(c).done, rest |-> SubSeq(Content, 1, size)]
    BY <2>2, <2>3, <2>5, Reading DEF Taken
  <2>7. Pieces(sent) = [done |-> Pieces(c).done, rest |-> Content]
    BY <2>4, <2>5, <2>6
  <2>8. Come = Pieces(c).done
    BY <2>7 DEF Come
  <2>9. Queued = <<>> /\ Len(Queued) = 0 /\ Len(handled) \in Nat
    BY <2>1, QueuedType DEF Queued
  <2>10. Messages(sent).calls = Len(Come)
    BY DEF IngressInv, StreamInv, Joint, Come
  <2> QED BY <2>2, <2>8, <2>9, <2>10 DEF Taken
<1> QED BY <1>1, IngressInvariance, PTL
==============================================================================
