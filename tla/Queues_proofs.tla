---------------------------- MODULE Queues_proofs ----------------------------
(***************************************************************************)
(* What pushing, popping and unlinking do to the elements of a sequence,   *)
(* what the sum over a finite set is, and arithmetic modulo a number.      *)
(***************************************************************************)
EXTENDS Queues, SequenceTheorems, FiniteSetTheorems,
        WellFoundedInduction, TLAPS

\* push_back adds the new element and keeps a list free of duplicates.
LEMMA AppendRange ==
  ASSUME NEW S, NEW q \in Seq(S), NEW o \in S
  PROVE  /\ Append(q, o) \in Seq(S)
         /\ Append(q, o) # <<>>
         /\ Range(Append(q, o)) = Range(q) \cup {o}
         /\ IsInjective(q) /\ o \notin Range(q) => IsInjective(Append(q, o))
<1>1. /\ Len(q) \in Nat
      /\ DOMAIN q = 1 .. Len(q)
  BY LenProperties
<1>2. /\ Append(q, o) \in Seq(S)
      /\ Append(q, o) # <<>>
      /\ Len(Append(q, o)) = Len(q) + 1
      /\ \A i \in 1 .. Len(q) : Append(q, o)[i] = q[i]
      /\ Append(q, o)[Len(q) + 1] = o
  BY AppendProperties
<1>3. DOMAIN Append(q, o) = 1 .. Len(q) + 1
  BY <1>2, LenProperties
<1>4. Range(Append(q, o)) = Range(q) \cup {o}
  BY <1>1, <1>2, <1>3 DEF Range
<1>5. ASSUME IsInjective(q), o \notin Range(q)
      PROVE  IsInjective(Append(q, o))
  BY <1>1, <1>2, <1>3, <1>5 DEF Range, IsInjective
<1> QED BY <1>2, <1>4, <1>5

\* pop_back removes the last element, and only it.
LEMMA FrontRange ==
  ASSUME NEW S, NEW q \in Seq(S), q # <<>>, IsInjective(q)
  PROVE  /\ Last(q) \in Range(q) /\ Last(q) \in S
         /\ Front(q) \in Seq(S)
         /\ Range(Front(q)) = Range(q) \ {Last(q)}
         /\ IsInjective(Front(q))
<1>1. /\ Len(q) \in Nat \ {0}
      /\ DOMAIN q = 1 .. Len(q)
      /\ \A i \in 1 .. Len(q) : q[i] \in S
  BY LenProperties, EmptySeq, ElementOfSeq
<1>2. /\ Front(q) \in Seq(S)
      /\ Len(Front(q)) = Len(q) - 1
      /\ \A i \in 1 .. Len(q) - 1 : Front(q)[i] = q[i]
  BY <1>1, SubSeqProperties DEF Front
<1>3. DOMAIN Front(q) = 1 .. Len(q) - 1
  BY <1>2, LenProperties
<1>4. Range(Front(q)) = Range(q) \ {Last(q)}
  BY <1>1, <1>2, <1>3 DEF Range, Last, IsInjective
<1>5. IsInjective(Front(q))
  BY <1>1, <1>2, <1>3 DEF IsInjective
<1>6. Last(q) \in Range(q) /\ Last(q) \in S
  BY <1>1 DEF Range, Last
<1> QED BY <1>2, <1>4, <1>5, <1>6

\* Cutting position k out of a list: what follows moves up by one.
LEMMA RemoveAtElements ==
  ASSUME NEW S, NEW q \in Seq(S), NEW k \in 1 .. Len(q)
  PROVE  /\ RemoveAt(q, k) \in Seq(S)
         /\ Len(RemoveAt(q, k)) = Len(q) - 1
         /\ \A i \in 1 .. k - 1 : RemoveAt(q, k)[i] = q[i]
         /\ \A i \in k .. Len(q) - 1 : RemoveAt(q, k)[i] = q[i + 1]
<1> DEFINE a == SubSeq(q, 1, k - 1)
           b == SubSeq(q, k + 1, Len(q))
<1>1. Len(q) \in Nat /\ k \in Int /\ 1 <= k /\ k <= Len(q)
  BY LenProperties
<1>2. \A i \in 1 .. Len(q) : q[i] \in S
  BY ElementOfSeq
<1>3. /\ a \in Seq(S)
      /\ Len(a) = k - 1
      /\ \A i \in 1 .. k - 1 : a[i] = q[i]
  <2>1. \A i \in 1 .. k - 1 : q[i] \in S
    BY <1>1, <1>2
  <2>2. /\ a \in Seq(S)
        /\ Len(a) = IF 1 <= k - 1 THEN (k - 1) - 1 + 1 ELSE 0
        /\ \A i \in 1 .. (k - 1) - 1 + 1 : a[i] = q[1 + i - 1]
    BY <1>1, <2>1, SubSeqProperties
  <2> HIDE DEF a
  <2> QED BY <1>1, <2>2
<1>4. /\ b \in Seq(S)
      /\ Len(b) = Len(q) - k
      /\ \A i \in 1 .. Len(q) - k : b[i] = q[k + i]
  <2>1. \A i \in k + 1 .. Len(q) : q[i] \in S
    BY <1>1, <1>2
  <2>2. /\ b \in Seq(S)
        /\ Len(b) = IF k + 1 <= Len(q) THEN Len(q) - (k + 1) + 1 ELSE 0
        /\ \A i \in 1 .. Len(q) - (k + 1) + 1 : b[i] = q[k + 1 + i - 1]
    BY <1>1, <2>1, SubSeqProperties
  <2> HIDE DEF b
  <2>3. \A i \in 1 .. Len(q) - k : k + 1 + i - 1 = k + i
    BY <1>1
  <2> QED BY <1>1, <2>2, <2>3
<1>5. RemoveAt(q, k) = a \o b
  BY DEF RemoveAt
<1> HIDE DEF a, b
<1>6. /\ a \o b \in Seq(S)
      /\ Len(a \o b) = Len(a) + Len(b)
      /\ \A i \in 1 .. Len(a) + Len(b) :
            (a \o b)[i] = IF i <= Len(a) THEN a[i] ELSE b[i - Len(a)]
  BY <1>3, <1>4, ConcatProperties
<1>7. Len(a) + Len(b) = Len(q) - 1
  BY <1>1, <1>3, <1>4
<1>8. ASSUME NEW i \in 1 .. k - 1 PROVE (a \o b)[i] = q[i]
  BY <1>1, <1>3, <1>6, <1>7
<1>9. ASSUME NEW i \in k .. Len(q) - 1 PROVE (a \o b)[i] = q[i + 1]
  <2>1. i \in 1 .. Len(q) - 1 /\ ~(i <= Len(a))
    BY <1>1, <1>3
  <2>2. i - Len(a) \in 1 .. Len(q) - k /\ k + (i - Len(a)) = i + 1
    BY <1>1, <1>3
  <2>3. (a \o b)[i] = b[i - Len(a)]
    BY <1>6, <1>7, <2>1
  <2> QED BY <1>4, <2>2, <2>3
<1> QED BY <1>5, <1>6, <1>7, <1>8, <1>9

\* Unlinking an order takes it off its level, and no other.
LEMMA UnlinkedRange ==
  ASSUME NEW S, NEW q \in Seq(S), IsInjective(q), NEW o \in Range(q)
  PROVE  /\ Unlinked(q, o) \in Seq(S)
         /\ Range(Unlinked(q, o)) = Range(q) \ {o}
         /\ IsInjective(Unlinked(q, o))
<1>1. Len(q) \in Nat /\ DOMAIN q = 1 .. Len(q)
  BY LenProperties
<1>2. Position(q, o) \in 1 .. Len(q) /\ q[Position(q, o)] = o
  BY <1>1 DEF Position, Range
<1>3. PICK k \in 1 .. Len(q) : k = Position(q, o) /\ q[k] = o
  BY <1>2
<1> DEFINE u == RemoveAt(q, k)
<1>4. Unlinked(q, o) = u
  BY <1>3 DEF Unlinked
<1>5. /\ u \in Seq(S)
      /\ Len(u) = Len(q) - 1
      /\ \A i \in 1 .. k - 1 : u[i] = q[i]
      /\ \A i \in k .. Len(q) - 1 : u[i] = q[i + 1]
  BY RemoveAtElements
<1> HIDE DEF u
<1>6. DOMAIN u = 1 .. Len(q) - 1
  BY <1>5, LenProperties
<1>7. ASSUME NEW x \in Range(u) PROVE x \in Range(q) \ {o}
  <2>1. PICK i \in 1 .. Len(q) - 1 : x = u[i]
    BY <1>6 DEF Range
  <2>2. CASE i < k
    <3>1. i \in 1 .. Len(q) /\ x = q[i] /\ i # k
      BY <1>1, <1>5, <2>1, <2>2
    <3> QED BY <1>1, <1>3, <3>1 DEF Range, IsInjective
  <2>3. CASE ~(i < k)
    <3>1. i + 1 \in 1 .. Len(q) /\ x = q[i + 1] /\ i + 1 # k
      BY <1>1, <1>5, <2>1, <2>3
    <3> QED BY <1>1, <1>3, <3>1 DEF Range, IsInjective
  <2> QED BY <2>2, <2>3
<1>8. ASSUME NEW x \in Range(q) \ {o} PROVE x \in Range(u)
  <2>1. PICK i \in 1 .. Len(q) : x = q[i]
    BY <1>1 DEF Range
  <2>2. i # k
    BY <1>3, <2>1
  <2>3. CASE i < k
    <3>1. i \in 1 .. Len(q) - 1 /\ u[i] = x
      BY <1>1, <1>5, <2>1, <2>3
    <3> QED BY <1>6, <3>1 DEF Range
  <2>4. CASE i > k
    <3>1. i - 1 \in k .. Len(q) - 1 /\ i - 1 \in 1 .. Len(q) - 1 /\ (i - 1) + 1 = i
      BY <1>1, <2>4
    <3>2. u[i - 1] = x
      BY <1>5, <2>1, <3>1
    <3> QED BY <1>6, <3>1, <3>2 DEF Range
  <2> QED BY <1>1, <2>2, <2>3, <2>4
<1>9. ASSUME NEW i \in 1 .. Len(q) - 1, NEW j \in 1 .. Len(q) - 1, u[i] = u[j]
      PROVE  i = j
  <2> DEFINE at(n) == IF n < k THEN n ELSE n + 1
  <2>1. ASSUME NEW n \in 1 .. Len(q) - 1
        PROVE  at(n) \in 1 .. Len(q) /\ u[n] = q[at(n)]
    <3>1. CASE n < k
      <4>1. n \in 1 .. k - 1 /\ n \in 1 .. Len(q)
        BY <1>1, <3>1
      <4> QED BY <1>5, <3>1, <4>1
    <3>2. CASE ~(n < k)
      <4>1. n \in k .. Len(q) - 1 /\ n + 1 \in 1 .. Len(q)
        BY <1>1, <3>2
      <4> QED BY <1>5, <3>2, <4>1
    <3> QED BY <3>1, <3>2
  <2>2. at(i) = at(j)
    <3> HIDE DEF at
    <3> QED BY <1>1, <1>9, <2>1 DEF IsInjective
  <2> QED BY <1>1, <2>2
<1> QED BY <1>4, <1>5, <1>6, <1>7, <1>8, <1>9 DEF IsInjective

\* An order in front of another is one of the list, as the other is; in a list
\* without duplicates they are two.
LEMMA InFrontElements ==
  ASSUME NEW S, NEW q \in Seq(S), NEW x, NEW y, InFront(q, x, y)
  PROVE  x \in Range(q) /\ y \in Range(q) /\ (IsInjective(q) => x # y)
<1>1. Len(q) \in Nat /\ DOMAIN q = 1 .. Len(q)
  BY LenProperties
<1>2. PICK i \in 1 .. Len(q), j \in 1 .. Len(q) : i < j /\ q[i] = x /\ q[j] = y
  BY <1>1 DEF InFront
<1> QED BY <1>1, <1>2 DEF Range, IsInjective

\* Of two orders of a list one is in front.
LEMMA OneInFront ==
  ASSUME NEW S, NEW q \in Seq(S), NEW x \in Range(q), NEW y \in Range(q), x # y
  PROVE  InFront(q, x, y) \/ InFront(q, y, x)
<1>1. Len(q) \in Nat /\ DOMAIN q = 1 .. Len(q)
  BY LenProperties
<1>2. PICK i \in 1 .. Len(q), j \in 1 .. Len(q) : q[i] = x /\ q[j] = y
  BY <1>1 DEF Range
<1>3. i < j \/ j < i
  BY <1>1, <1>2
<1> QED BY <1>1, <1>2, <1>3 DEF InFront

\* Nobody is in front of the head.
LEMMA HeadFirst ==
  ASSUME NEW S, NEW q \in Seq(S), IsInjective(q), q # <<>>, NEW x
  PROVE  Head(q) \in Range(q) /\ ~InFront(q, x, Head(q))
<1>1. Len(q) \in Nat \ {0} /\ DOMAIN q = 1 .. Len(q)
  BY LenProperties, EmptySeq
<1>2. Head(q) = q[1] /\ 1 \in 1 .. Len(q)
  BY <1>1
<1>3. ASSUME NEW i \in 1 .. Len(q), NEW j \in 1 .. Len(q), i < j, q[j] = q[1]
      PROVE  FALSE
  <2>1. j = 1
    BY <1>1, <1>2, <1>3 DEF IsInjective
  <2> QED BY <1>1, <1>3, <2>1
<1> QED BY <1>1, <1>2, <1>3 DEF Range, InFront

\* push_back puts the new order behind all others, and nobody else elsewhere.
LEMMA AppendInFront ==
  ASSUME NEW S, NEW q \in Seq(S), NEW o \in S, NEW x, NEW y
  PROVE  InFront(Append(q, o), x, y) <=> InFront(q, x, y) \/ (x \in Range(q) /\ y = o)
<1>1. /\ Len(q) \in Nat
      /\ DOMAIN q = 1 .. Len(q)
  BY LenProperties
<1> DEFINE a == Append(q, o)
<1>2. /\ a \in Seq(S)
      /\ Len(a) = Len(q) + 1
      /\ \A i \in 1 .. Len(q) : a[i] = q[i]
      /\ a[Len(q) + 1] = o
  BY AppendProperties
<1> HIDE DEF a
<1>3. DOMAIN a = 1 .. Len(q) + 1
  BY <1>2, LenProperties
<1>4. ASSUME InFront(a, x, y) PROVE InFront(q, x, y) \/ (x \in Range(q) /\ y = o)
  <2>1. PICK i \in 1 .. Len(q) + 1, j \in 1 .. Len(q) + 1 : i < j /\ a[i] = x /\ a[j] = y
    BY <1>3, <1>4 DEF InFront
  <2>2. i \in 1 .. Len(q) /\ q[i] = x
    BY <1>1, <1>2, <2>1
  <2>3. CASE j = Len(q) + 1
    BY <1>1, <1>2, <2>1, <2>2, <2>3 DEF Range
  <2>4. CASE j # Len(q) + 1
    <3>1. j \in 1 .. Len(q) /\ q[j] = y
      BY <1>1, <1>2, <2>1, <2>4
    <3> QED BY <1>1, <2>1, <2>2, <3>1 DEF InFront
  <2> QED BY <2>3, <2>4
<1>5. ASSUME InFront(q, x, y) PROVE InFront(a, x, y)
  <2>1. PICK i \in 1 .. Len(q), j \in 1 .. Len(q) : i < j /\ q[i] = x /\ q[j] = y
    BY <1>1, <1>5 DEF InFront
  <2>2. i \in 1 .. Len(q) + 1 /\ j \in 1 .. Len(q) + 1
    BY <1>1
  <2> QED BY <1>2, <1>3, <2>1, <2>2 DEF InFront
<1>6. ASSUME x \in Range(q), y = o PROVE InFront(a, x, y)
  <2>1. PICK i \in 1 .. Len(q) : q[i] = x
    BY <1>1, <1>6 DEF Range
  <2>2. i \in 1 .. Len(q) + 1 /\ Len(q) + 1 \in 1 .. Len(q) + 1 /\ i < Len(q) + 1
    BY <1>1
  <2> QED BY <1>2, <1>3, <1>6, <2>1, <2>2 DEF InFront
<1> QED BY <1>4, <1>5, <1>6 DEF a

\* Unlinking an order leaves the others in the order they were in.
LEMMA UnlinkedInFront ==
  ASSUME NEW S, NEW q \in Seq(S), IsInjective(q), NEW o \in Range(q), NEW x, NEW y
  PROVE  InFront(Unlinked(q, o), x, y) <=> InFront(q, x, y) /\ x # o /\ y # o
<1>1. Len(q) \in Nat /\ DOMAIN q = 1 .. Len(q)
  BY LenProperties
<1>2. Position(q, o) \in 1 .. Len(q) /\ q[Position(q, o)] = o
  BY <1>1 DEF Position, Range
<1>3. PICK k \in 1 .. Len(q) : k = Position(q, o) /\ q[k] = o
  BY <1>2
<1> DEFINE u == RemoveAt(q, k)
           at(n) == IF n < k THEN n ELSE n + 1
<1>4. Unlinked(q, o) = u
  BY <1>3 DEF Unlinked
<1>5. /\ u \in Seq(S)
      /\ Len(u) = Len(q) - 1
      /\ \A i \in 1 .. k - 1 : u[i] = q[i]
      /\ \A i \in k .. Len(q) - 1 : u[i] = q[i + 1]
  BY RemoveAtElements
<1> HIDE DEF u
<1>6. DOMAIN u = 1 .. Len(q) - 1
  BY <1>5, LenProperties
<1>7. ASSUME NEW n \in 1 .. Len(q) - 1
      PROVE  at(n) \in 1 .. Len(q) /\ at(n) # k /\ u[n] = q[at(n)]
  <2>1. CASE n < k
    <3>1. n \in 1 .. k - 1 /\ n \in 1 .. Len(q)
      BY <1>1, <2>1
    <3> QED BY <1>5, <2>1, <3>1
  <2>2. CASE ~(n < k)
    <3>1. n \in k .. Len(q) - 1 /\ n + 1 \in 1 .. Len(q) /\ n + 1 # k
      BY <1>1, <2>2
    <3> QED BY <1>5, <2>2, <3>1
  <2> QED BY <2>1, <2>2
<1>8. ASSUME NEW n \in 1 .. Len(q), n # k
      PROVE  \E m \in 1 .. Len(q) - 1 : n = at(m)
  <2>1. CASE n < k
    <3>1. n \in 1 .. Len(q) - 1
      BY <1>1, <2>1
    <3> QED BY <2>1, <3>1
  <2>2. CASE ~(n < k)
    <3>1. n - 1 \in 1 .. Len(q) - 1 /\ ~(n - 1 < k) /\ n = (n - 1) + 1
      BY <1>1, <1>8, <2>2
    <3> QED BY <3>1
  <2> QED BY <2>1, <2>2
<1>9. \A m, n \in 1 .. Len(q) - 1 : m < n <=> at(m) < at(n)
  BY <1>1
<1> HIDE DEF at
<1>10. ASSUME InFront(u, x, y) PROVE InFront(q, x, y) /\ x # o /\ y # o
  <2>1. PICK i \in 1 .. Len(q) - 1, j \in 1 .. Len(q) - 1 : i < j /\ u[i] = x /\ u[j] = y
    BY <1>6, <1>10 DEF InFront
  <2>2. /\ at(i) \in 1 .. Len(q) /\ at(i) # k /\ q[at(i)] = x
        /\ at(j) \in 1 .. Len(q) /\ at(j) # k /\ q[at(j)] = y
        /\ at(i) < at(j)
    BY <1>7, <1>9, <2>1
  <2>3. x # o /\ y # o
    BY <1>1, <1>3, <2>2 DEF IsInjective
  <2> QED BY <1>1, <2>2, <2>3 DEF InFront
<1>11. ASSUME InFront(q, x, y), x # o, y # o PROVE InFront(u, x, y)
  <2>1. PICK i \in 1 .. Len(q), j \in 1 .. Len(q) : i < j /\ q[i] = x /\ q[j] = y
    BY <1>1, <1>11 DEF InFront
  <2>2. i # k /\ j # k
    BY <1>3, <1>11, <2>1
  <2>3. PICK m \in 1 .. Len(q) - 1, n \in 1 .. Len(q) - 1 : i = at(m) /\ j = at(n)
    BY <1>8, <2>1, <2>2
  <2>4. m < n /\ u[m] = x /\ u[n] = y
    BY <1>7, <1>9, <2>1, <2>3
  <2> QED BY <1>6, <2>4 DEF InFront
<1> QED BY <1>4, <1>10, <1>11

-----------------------------------------------------------------------------
(* Sums over a finite set.  MapThenSumSet takes the elements in an order   *)
(* of its own; that it does not matter is shown here by taking, of all     *)
(* the sets where it would, a smallest one.                                *)

Total(f, S) == MapThenSumSet(LAMBDA x : f[x], S)

Some(s) == CHOOSE x \in s : TRUE

\* The recursive function that MapThenSumSet evaluates.
Sums(it, f, R) ==
  it = [s \in SUBSET R |-> IF s = {} THEN 0 ELSE f[Some(s)] + it[s \ {Some(s)}]]

\* A nonempty set of numbers has a least one.
LEMMA LeastNat ==
  ASSUME NEW T \in SUBSET Nat, T # {}
  PROVE  \E n \in T : \A k \in T : n <= k
<1>1. PICK n \in T : \A k \in T : <<k, n>> \notin OpToRel(<, Nat)
  BY WFMin, NatLessThanWellFounded
<1>2. ASSUME NEW k \in T PROVE n <= k
  <2>1. ~(k < n)
    BY <1>1 DEF OpToRel
  <2> QED BY <2>1
<1> QED BY <1>2

\* Of some subsets of a finite set one is least: taking an element away leads
\* out of them.
LEMMA SmallestSubset ==
  ASSUME NEW R, IsFiniteSet(R), NEW B \in SUBSET (SUBSET R), B # {}
  PROVE  \E s \in B : \A x \in s : s \ {x} \notin B
<1> DEFINE T == {Cardinality(s) : s \in B}
<1>1. ASSUME NEW s \in SUBSET R PROVE IsFiniteSet(s) /\ Cardinality(s) \in Nat
  BY FS_Subset, FS_CardinalityType
<1>2. PICK n \in T : \A k \in T : n <= k
  <2>1. T \in SUBSET Nat /\ T # {}
    BY <1>1
  <2> HIDE DEF T
  <2> QED BY <2>1, LeastNat
<1>3. PICK s \in B : n = Cardinality(s)
  OBVIOUS
<1>4. ASSUME NEW x \in s, s \ {x} \in B PROVE FALSE
  <2>1. Cardinality(s \ {x}) = Cardinality(s) - 1
    BY <1>1, FS_RemoveElement
  <2>2. Cardinality(s) <= Cardinality(s \ {x})
    BY <1>2, <1>3, <1>4
  <2>3. Cardinality(s) \in Nat
    BY <1>1
  <2> QED BY <2>1, <2>2, <2>3
<1> QED BY <1>4

\* There is such a function.
LEMMA SumsExist ==
  ASSUME NEW f, NEW R, IsFiniteSet(R)
  PROVE  \E it : Sums(it, f, R)
<1> DEFINE body(it, s) == IF s = {} THEN 0 ELSE f[Some(s)] + it[s \ {Some(s)}]
           UpTo(it, n) == /\ it = [s \in SUBSET R |-> it[s]]
                          /\ \A s \in SUBSET R : Cardinality(s) <= n => it[s] = body(it, s)
           Bad == {n \in Nat : ~ \E it : UpTo(it, n)}
<1>1. ASSUME NEW s \in SUBSET R
      PROVE  /\ IsFiniteSet(s) /\ Cardinality(s) \in Nat
             /\ Cardinality(s) <= Cardinality(R)
             /\ Cardinality(s) = 0 <=> s = {}
             /\ s # {} => /\ Some(s) \in s /\ s \ {Some(s)} \in SUBSET R
                          /\ Cardinality(s \ {Some(s)}) = Cardinality(s) - 1
  <2>1. IsFiniteSet(s) /\ Cardinality(s) <= Cardinality(R)
    BY FS_Subset
  <2>2. s # {} => Some(s) \in s
    BY DEF Some
  <2> QED BY <2>1, <2>2, FS_CardinalityType, FS_EmptySet, FS_RemoveElement
<1>2. Bad = {}
  <2> SUFFICES ASSUME Bad # {} PROVE FALSE
    OBVIOUS
  <2>1. PICK n \in Bad : \A k \in Bad : n <= k
    <3>1. Bad \in SUBSET Nat
      OBVIOUS
    <3> HIDE DEF Bad
    <3> QED BY <3>1, LeastNat
  <2>2. n \in Nat
    OBVIOUS
  <2>3. n # 0
    <3> SUFFICES ASSUME n = 0 PROVE FALSE
      OBVIOUS
    <3> DEFINE g == [s \in SUBSET R |-> 0]
    <3>1. ASSUME NEW s \in SUBSET R, Cardinality(s) <= 0 PROVE g[s] = body(g, s)
      <4>1. s = {}
        <5>1. Cardinality(s) \in Nat /\ (Cardinality(s) = 0 => s = {})
          BY <1>1
        <5> QED BY <3>1, <5>1
      <4> QED BY <4>1
    <3>2. g = [s \in SUBSET R |-> g[s]]
      OBVIOUS
    <3> HIDE DEF g, body
    <3>3. UpTo(g, 0)
      BY <3>1, <3>2
    <3> QED BY <2>1, <3>3
  <2>4. PICK g : UpTo(g, n - 1)
    <3>1. n - 1 \in Nat /\ ~(n <= n - 1)
      BY <2>2, <2>3
    <3>2. n - 1 \notin Bad
      BY <2>1, <3>1
    <3> QED BY <3>1, <3>2
  <2> DEFINE h == [s \in SUBSET R |-> IF Cardinality(s) <= n - 1 THEN g[s] ELSE body(g, s)]
  <2>5. ASSUME NEW s \in SUBSET R PROVE h[s] = body(g, s)
    BY <2>4
  <2>6. ASSUME NEW s \in SUBSET R, Cardinality(s) <= n PROVE h[s] = body(h, s)
    <3>1. CASE s = {}
      BY <2>5, <3>1
    <3>2. CASE s # {}
      <4> DEFINE t == s \ {Some(s)}
      <4>1. t \in SUBSET R /\ Cardinality(t) <= n - 1
        <5>1. /\ t \in SUBSET R /\ Cardinality(t) = Cardinality(s) - 1
              /\ Cardinality(s) \in Nat
          BY <1>1, <3>2
        <5> HIDE DEF t
        <5> QED BY <2>2, <2>6, <5>1
      <4>2. h[t] = g[t]
        BY <4>1
      <4>3. h[s] = f[Some(s)] + g[t]
        BY <2>5, <3>2
      <4> HIDE DEF h
      <4> QED BY <3>2, <4>2, <4>3
    <3> QED BY <3>1, <3>2
  <2>7. h = [s \in SUBSET R |-> h[s]]
    OBVIOUS
  <2> HIDE DEF h, body
  <2>8. UpTo(h, n)
    BY <2>6, <2>7
  <2> QED BY <2>8
<1>3. Cardinality(R) \in Nat
  BY FS_CardinalityType
<1>4. PICK it : UpTo(it, Cardinality(R))
  <2>1. Cardinality(R) \notin Bad
    BY <1>2
  <2> QED BY <1>3, <2>1
<1>5. \A s \in SUBSET R : it[s] = body(it, s)
  BY <1>1, <1>4
<1>6. it = [s \in SUBSET R |-> body(it, s)]
  <2> HIDE DEF body
  <2>1. [s \in SUBSET R |-> it[s]] = [s \in SUBSET R |-> body(it, s)]
    BY <1>5
  <2> QED BY <1>4, <2>1
<1> QED BY <1>6 DEF Sums

\* Two of them agree where both are defined.
LEMMA SumsAgree ==
  ASSUME NEW f, NEW g, NEW R, NEW Q, IsFiniteSet(R), Q \subseteq R,
         \A x \in Q : f[x] = g[x],
         NEW it, Sums(it, f, R), NEW jt, Sums(jt, g, Q)
  PROVE  it[Q] = jt[Q]
<1> DEFINE B == {s \in SUBSET Q : it[s] # jt[s]}
<1> SUFFICES ASSUME B # {} PROVE FALSE
  <2>1. Q \in SUBSET Q
    OBVIOUS
  <2> QED BY <2>1
<1>1. PICK s \in B : \A x \in s : s \ {x} \notin B
  <2>1. IsFiniteSet(Q) /\ B \in SUBSET (SUBSET Q)
    BY FS_Subset
  <2> HIDE DEF B
  <2> QED BY <2>1, SmallestSubset
<1>2. s \in SUBSET Q /\ s \in SUBSET R /\ it[s] # jt[s]
  OBVIOUS
<1>3. CASE s = {}
  BY <1>2, <1>3 DEF Sums
<1>4. CASE s # {}
  <2>1. Some(s) \in s
    BY <1>4 DEF Some
  <2>2. it[s \ {Some(s)}] = jt[s \ {Some(s)}]
    BY <1>1, <1>2, <2>1
  <2>3. /\ it[s] = f[Some(s)] + it[s \ {Some(s)}]
        /\ jt[s] = g[Some(s)] + jt[s \ {Some(s)}]
    BY <1>2, <1>4 DEF Sums
  <2> QED BY <1>2, <2>1, <2>2, <2>3
<1> QED BY <1>3, <1>4

\* The sum is the value of any such function.
LEMMA TotalIs ==
  ASSUME NEW f, NEW R, IsFiniteSet(R), NEW it, Sums(it, f, R), NEW s \in SUBSET R
  PROVE  Total(f, s) = it[s]
<1>1. Total(f, s) = (CHOOSE kt : Sums(kt, f, s))[s]
  BY DEF Total, MapThenSumSet, MapThenFoldSet, Sums, Some
<1>2. PICK jt : jt = (CHOOSE kt : Sums(kt, f, s))
  OBVIOUS
<1>3. Sums(jt, f, s)
  <2>1. \E kt : Sums(kt, f, s)
    BY FS_Subset, SumsExist
  <2> QED BY <1>2, <2>1
<1>4. it[s] = jt[s]
  BY <1>3, SumsAgree
<1> QED BY <1>1, <1>2, <1>4

\* It depends on no values but those of the elements.
LEMMA TotalAgree ==
  ASSUME NEW S, IsFiniteSet(S), NEW f, NEW g, \A x \in S : f[x] = g[x]
  PROVE  Total(f, S) = Total(g, S)
<1>1. PICK it : Sums(it, f, S)
  BY SumsExist
<1>2. PICK jt : Sums(jt, g, S)
  BY SumsExist
<1>3. it[S] = jt[S]
  BY <1>1, <1>2, SumsAgree
<1> QED BY <1>1, <1>2, <1>3, TotalIs

\* The sum of no elements.
LEMMA TotalEmpty == ASSUME NEW f PROVE Total(f, {}) = 0
<1>1. IsFiniteSet({})
  BY FS_EmptySet
<1>2. PICK it : Sums(it, f, {})
  BY <1>1, SumsExist
<1>3. it[{}] = 0
  BY <1>2 DEF Sums
<1> QED BY <1>1, <1>2, <1>3, TotalIs

\* The sum is a number, and one element more adds its value.
LEMMA TotalAdd ==
  ASSUME NEW R, IsFiniteSet(R), NEW f, \A x \in R : f[x] \in Int
  PROVE  \A s \in SUBSET R :
           /\ Total(f, s) \in Int
           /\ \A x \in s : Total(f, s) = f[x] + Total(f, s \ {x})
<1>1. PICK it : Sums(it, f, R)
  BY SumsExist
<1>2. \A s \in SUBSET R : Total(f, s) = it[s]
  BY <1>1, TotalIs
<1>3. ASSUME NEW s \in SUBSET R, s # {}
      PROVE  /\ Some(s) \in s
             /\ it[s] = f[Some(s)] + it[s \ {Some(s)}]
  BY <1>1, <1>3 DEF Sums, Some
<1>4. ASSUME NEW s \in SUBSET R PROVE it[s] \in Int
  <2> DEFINE B == {t \in SUBSET R : it[t] \notin Int}
  <2> SUFFICES ASSUME B # {} PROVE FALSE
    OBVIOUS
  <2>1. PICK t \in B : \A x \in t : t \ {x} \notin B
    <3>1. B \in SUBSET (SUBSET R)
      OBVIOUS
    <3> HIDE DEF B
    <3> QED BY <3>1, SmallestSubset
  <2>2. t \in SUBSET R /\ it[t] \notin Int
    OBVIOUS
  <2>3. t # {}
    BY <1>1, <2>2 DEF Sums
  <2>4. Some(t) \in t /\ it[t] = f[Some(t)] + it[t \ {Some(t)}]
    BY <1>3, <2>2, <2>3
  <2>5. it[t \ {Some(t)}] \in Int /\ f[Some(t)] \in Int
    BY <2>1, <2>2, <2>4
  <2> QED BY <2>2, <2>4, <2>5
<1>5. ASSUME NEW s \in SUBSET R, NEW x \in s PROVE it[s] = f[x] + it[s \ {x}]
  <2> DEFINE B == {t \in SUBSET R : \E y \in t : it[t] # f[y] + it[t \ {y}]}
  <2> SUFFICES ASSUME B # {} PROVE FALSE
    OBVIOUS
  <2>1. PICK t \in B : \A y \in t : t \ {y} \notin B
    <3>1. B \in SUBSET (SUBSET R)
      OBVIOUS
    <3> HIDE DEF B
    <3> QED BY <3>1, SmallestSubset
  <2>2. PICK y \in t : it[t] # f[y] + it[t \ {y}]
    OBVIOUS
  <2> DEFINE z == Some(t)
             both == t \ {y, z}
  <2>3. t \in SUBSET R /\ z \in t /\ it[t] = f[z] + it[t \ {z}]
    <3>1. t \in SUBSET R /\ t # {}
      OBVIOUS
    <3> QED BY <1>3, <3>1
  <2> HIDE DEF z
  <2>4. y # z
    BY <2>2, <2>3
  <2>5. it[t \ {z}] = f[y] + it[both]
    <3>1. t \ {z} \notin B /\ t \ {z} \in SUBSET R /\ y \in t \ {z}
      BY <2>1, <2>3, <2>4
    <3>2. (t \ {z}) \ {y} = both
      OBVIOUS
    <3> QED BY <3>1, <3>2
  <2>6. it[t \ {y}] = f[z] + it[both]
    <3>1. t \ {y} \notin B /\ t \ {y} \in SUBSET R /\ z \in t \ {y}
      BY <2>1, <2>3, <2>4
    <3>2. (t \ {y}) \ {z} = both
      OBVIOUS
    <3> QED BY <3>1, <3>2
  <2>7. it[both] \in Int /\ f[y] \in Int /\ f[z] \in Int
    BY <1>4, <2>3
  <2> QED BY <2>2, <2>3, <2>5, <2>6, <2>7
<1> QED BY <1>2, <1>4, <1>5

\* The same, of one set.
LEMMA TotalTake ==
  ASSUME NEW S, IsFiniteSet(S), NEW f, \A x \in S : f[x] \in Int, NEW o \in S
  PROVE  /\ Total(f, S) \in Int /\ Total(f, S \ {o}) \in Int
         /\ Total(f, S) = f[o] + Total(f, S \ {o})
<1>1. S \in SUBSET S /\ S \ {o} \in SUBSET S
  OBVIOUS
<1>2. /\ Total(f, S) \in Int
      /\ \A x \in S : Total(f, S) = f[x] + Total(f, S \ {x})
  BY <1>1, TotalAdd
<1>3. Total(f, S \ {o}) \in Int
  BY <1>1, TotalAdd
<1> QED BY <1>2, <1>3

-----------------------------------------------------------------------------
(* Arithmetic modulo the width of an unsigned integer.                     *)

\* There is only one remainder.
LEMMA Remainder ==
  ASSUME NEW m \in Nat \ {0}, NEW k \in Int, NEW r \in 0 .. m - 1
  PROVE  (m * k + r) % m = r
<1> DEFINE a == m * k + r
           d == a \div m
           e == a % m
<1>1. a \in Int /\ d \in Int /\ e \in 0 .. m - 1 /\ a = m * d + e
  OBVIOUS
<1>2. a = m * k + r
  OBVIOUS
<1> HIDE DEF a, d, e
<1>3. ASSUME NEW x \in Int, NEW y \in Int, x > y PROVE m * x >= m * y + m
  <2>1. PICK z \in Nat : x = y + 1 + z
    <3>1. x = y + 1 + (x - y - 1) /\ x - y - 1 \in Nat
      BY <1>3
    <3> QED BY <3>1
  <2>2. m * x = m * y + m + m * z
    BY <2>1
  <2>3. m * z >= 0
    OBVIOUS
  <2>4. m * x \in Int /\ m * y \in Int /\ m * z \in Int
    BY <2>1
  <2> QED BY <2>2, <2>3, <2>4
<1>4. m * d \in Int /\ m * k \in Int
  BY <1>1
<1>5. ~(d > k)
  <2>1. d > k => m * d >= m * k + m
    BY <1>1, <1>3
  <2> QED BY <1>1, <1>2, <1>4, <2>1
<1>6. ~(k > d)
  <2>1. k > d => m * k >= m * d + m
    BY <1>1, <1>3
  <2> QED BY <1>1, <1>2, <1>4, <2>1
<1>7. d = k
  BY <1>1, <1>5, <1>6
<1>8. e = r
  BY <1>1, <1>2, <1>4, <1>7
<1> QED BY <1>8 DEF e, a

\* What is added to a remainder may as well be added before.
LEMMA ModSum ==
  ASSUME NEW m \in Nat \ {0}, NEW a \in Int, NEW b \in Int
  PROVE  ((a % m) + b) % m = (a + b) % m
<1> DEFINE c == (a % m) + b
           k == a \div m
           h == c \div m
           r == c % m
<1>1. /\ c \in Int /\ h \in Int /\ r \in 0 .. m - 1 /\ c = m * h + r
      /\ k \in Int /\ a % m \in Int /\ a = m * k + (a % m)
  OBVIOUS
<1>2. m * k \in Int /\ m * h \in Int /\ k + h \in Int
  BY <1>1
<1>3. a + b = m * (k + h) + r
  <2>1. a + b = m * k + c
    BY <1>1, <1>2
  <2> HIDE DEF c, k, h, r
  <2>2. m * (k + h) = m * k + m * h
    BY <1>1
  <2> QED BY <1>1, <1>2, <2>1, <2>2
<1> HIDE DEF c, k, h, r
<1>4. (m * (k + h) + r) % m = r
  BY <1>1, <1>2, Remainder
<1> QED BY <1>3, <1>4 DEF c, r

\* And what is taken away.
LEMMA ModDifference ==
  ASSUME NEW m \in Nat \ {0}, NEW a \in Int, NEW b \in Int
  PROVE  ((a % m) - b) % m = (a - b) % m
<1>1. -b \in Int
  OBVIOUS
<1>2. ((a % m) + (-b)) % m = (a + (-b)) % m
  BY <1>1, ModSum
<1>3. (a % m) + (-b) = (a % m) - b /\ a + (-b) = a - b
  <2>1. a % m \in Int
    OBVIOUS
  <2> QED BY <2>1
<1> QED BY <1>2, <1>3
=============================================================================
