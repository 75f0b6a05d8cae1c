-------------------------- MODULE LevelList_proofs --------------------------
(***************************************************************************)
(* The pointers of types.h represent the sequences module OrderBook is     *)
(* written with, for every pool and every set of levels.                   *)
(***************************************************************************)
EXTENDS LevelList, Queues_proofs

-----------------------------------------------------------------------------
(* The invariant, of any pointers m and any queues Q.                      *)

LooseIn(Q, o) == \A l \in Level : \A i \in 1 .. Len(Q[l]) : Q[l][i] # o

\* No order is on two levels, or twice on one.
Apart(Q) ==
  \A l, k \in Level : \A i \in 1 .. Len(Q[l]), j \in 1 .. Len(Q[k]) :
     Q[l][i] = Q[k][j] => l = k /\ i = j

Match(m, Q) ==
  /\ m \in Memory
  /\ Q \in [Level -> Seq(Order)]
  /\ Apart(Q)
  /\ \A l \in Level : Represents(m, l, Q[l])
  /\ \A o \in Order : LooseIn(Q, o) => m.next[o] = null /\ m.prev[o] = null

IInv ==
  /\ Match(mem, queue)
  /\ swept \in Level \cup {none}
  /\ cursor = IF swept = none THEN null ELSE mem.head[swept]

\* The elements of a queue are orders, and its two ends are those of the level.
LEMMA QueueFacts ==
  ASSUME NEW m, NEW Q, Match(m, Q), NEW l \in Level
  PROVE  /\ Q[l] \in Seq(Order) /\ Len(Q[l]) \in Nat /\ DOMAIN Q[l] = 1 .. Len(Q[l])
         /\ \A i \in 1 .. Len(Q[l]) : Q[l][i] \in Order /\ Q[l][i] # null
         /\ Q[l] = <<>> <=> Len(Q[l]) = 0
         /\ Q[l] = <<>> <=> m.head[l] = null
         /\ Q[l] = <<>> <=> m.tail[l] = null
<1>1. Q[l] \in Seq(Order)
  BY DEF Match
<1>2. PICK q \in Seq(Order) : q = Q[l]
  BY <1>1
<1>3. Len(q) \in Nat /\ DOMAIN q = 1 .. Len(q) /\ (q = <<>> <=> Len(q) = 0)
  BY LenProperties, EmptySeq
<1>4. \A i \in 1 .. Len(q) : q[i] \in Order /\ q[i] # null
  BY ElementOfSeq, ConstantsAssumption
<1>5. Represents(m, l, q)
  BY <1>2 DEF Match
<1>6. q # <<>> => 1 \in 1 .. Len(q) /\ Len(q) \in 1 .. Len(q)
  BY <1>3
<1>7. (q = <<>> <=> m.head[l] = null) /\ (q = <<>> <=> m.tail[l] = null)
  BY <1>4, <1>5, <1>6 DEF Represents
<1> QED BY <1>1, <1>2, <1>3, <1>4, <1>7

\* The resets that removeOrder, release, acquire and modifyOrder repeat find
\* the pointers of an order on no level already null.
LEMMA ResetIdle ==
  ASSUME NEW m, NEW Q, Match(m, Q), NEW o \in Order, LooseIn(Q, o)
  PROVE  Reset(m, o) = m
<1>1. m.next[o] = null /\ m.prev[o] = null /\ m \in Memory
  BY DEF Match
<1>2. [m.next EXCEPT ![o] = null] = m.next /\ [m.prev EXCEPT ![o] = null] = m.prev
  BY <1>1 DEF Memory
<1> QED BY <1>1, <1>2 DEF Reset, Memory

\* A level erased with its node had no pointer left.
LEMMA EraseIdle ==
  ASSUME NEW m, NEW Q, Match(m, Q), NEW l \in Level
  PROVE  EraseIfEmpty(m, l) = m
<1>1. CASE m.head[l] = null
  <2>1. m.tail[l] = null /\ m \in Memory
    BY <1>1, QueueFacts DEF Match
  <2>2. [m.tail EXCEPT ![l] = null] = m.tail
    BY <2>1 DEF Memory
  <2> QED BY <1>1, <2>1, <2>2 DEF EraseIfEmpty, Memory
<1>2. CASE m.head[l] # null
  BY <1>2 DEF EraseIfEmpty
<1> QED BY <1>1, <1>2

-----------------------------------------------------------------------------
(* What the operations of types.h write.                                   *)

LEMMA AppendFields ==
  ASSUME NEW m \in Memory, NEW l \in Level, NEW o \in Order, m.tail[l] \in Order \/ m.head[l] = null
  PROVE  LET new == AppendOrder(m, l, o)
         IN /\ new \in Memory
            /\ \A k \in Level : /\ new.tail[k] = IF k = l THEN o ELSE m.tail[k]
                                /\ new.head[k] = IF k = l /\ m.head[l] = null
                                                 THEN o ELSE m.head[k]
            /\ m.head[l] = null => new.next = m.next /\ new.prev = m.prev
            /\ m.head[l] # null => \A x \in Order :
                  /\ new.next[x] = IF x = m.tail[l] THEN o ELSE m.next[x]
                  /\ new.prev[x] = IF x = o THEN m.tail[l] ELSE m.prev[x]
<1>1. CASE m.head[l] = null
  BY <1>1 DEF AppendOrder, Memory, Pointer
<1>2. CASE m.head[l] # null
  BY <1>2 DEF AppendOrder, Memory, Pointer
<1> QED BY <1>1, <1>2

LEMMA RemoveFields ==
  ASSUME NEW m \in Memory, NEW l \in Level, NEW o \in Order
  PROVE  LET new == RemoveOrder(m, l, o)
             p == m.prev[o]
             n == m.next[o]
         IN /\ new \in Memory
            /\ \A k \in Level : /\ new.head[k] = IF k = l /\ p = null THEN n ELSE m.head[k]
                                /\ new.tail[k] = IF k = l /\ n = null THEN p ELSE m.tail[k]
            /\ \A x \in Order : /\ new.next[x] = IF x = o THEN null
                                                 ELSE IF x = p THEN n ELSE m.next[x]
                                /\ new.prev[x] = IF x = o THEN null
                                                 ELSE IF x = n THEN p ELSE m.prev[x]
<1> DEFINE p == m.prev[o]
           n == m.next[o]
           a == LinkForward(m, l, p, n)
           b == LinkBack(a, l, p, n)
<1>1. p \in Pointer /\ n \in Pointer
  BY DEF Memory
<1>2. \A x \in Order : x # null
  BY ConstantsAssumption
<1> HIDE DEF p, n
<1>3. /\ a \in Memory /\ a.tail = m.tail /\ a.prev = m.prev
      /\ \A k \in Level : a.head[k] = IF k = l /\ p = null THEN n ELSE m.head[k]
      /\ \A x \in Order : a.next[x] = IF x = p THEN n ELSE m.next[x]
  <2>1. CASE p = null
    BY <1>1, <1>2, <2>1 DEF LinkForward, Memory, Pointer
  <2>2. CASE p # null
    BY <1>1, <1>2, <2>2 DEF LinkForward, Memory, Pointer
  <2> QED BY <2>1, <2>2
<1> HIDE DEF a
<1>4. /\ b \in Memory /\ b.head = a.head /\ b.next = a.next
      /\ \A k \in Level : b.tail[k] = IF k = l /\ n = null THEN p ELSE a.tail[k]
      /\ \A x \in Order : b.prev[x] = IF x = n THEN p ELSE a.prev[x]
  <2>1. CASE n = null
    BY <1>1, <1>2, <1>3, <2>1 DEF LinkBack, Memory, Pointer
  <2>2. CASE n # null
    BY <1>1, <1>2, <1>3, <2>2 DEF LinkBack, Memory, Pointer
  <2> QED BY <2>1, <2>2
<1> HIDE DEF b
<1>5. /\ Reset(b, o) \in Memory /\ Reset(b, o).head = b.head /\ Reset(b, o).tail = b.tail
      /\ \A x \in Order : /\ Reset(b, o).next[x] = IF x = o THEN null ELSE b.next[x]
                          /\ Reset(b, o).prev[x] = IF x = o THEN null ELSE b.prev[x]
  BY <1>4 DEF Reset, Memory, Pointer
<1>6. RemoveOrder(m, l, o) = Reset(b, o)
  BY DEF RemoveOrder, a, b, p, n
<1> QED BY <1>3, <1>4, <1>5, <1>6 DEF p, n

-----------------------------------------------------------------------------
(* They keep the pointers and the queues in step.                          *)

LEMMA AppendMatches ==
  ASSUME NEW m, NEW Q, Match(m, Q), NEW l \in Level, NEW o \in Order, LooseIn(Q, o)
  PROVE  Match(AppendOrder(m, l, o), [Q EXCEPT ![l] = Append(@, o)])
<1> DEFINE q == Q[l]
           N == Len(q)
           q2 == Append(q, o)
           Q2 == [Q EXCEPT ![l] = q2]
           m2 == AppendOrder(m, l, o)
           t == m.tail[l]
<1>1. /\ q \in Seq(Order) /\ N \in Nat
      /\ \A i \in 1 .. N : q[i] \in Order /\ q[i] # null /\ q[i] # o
      /\ q = <<>> <=> N = 0
      /\ q = <<>> <=> m.head[l] = null
  BY QueueFacts DEF LooseIn
<1>2. /\ q2 \in Seq(Order) /\ Len(q2) = N + 1 /\ q2 # <<>>
      /\ \A i \in 1 .. N : q2[i] = q[i]
      /\ q2[N + 1] = o
  BY <1>1, AppendProperties
<1>3. Represents(m, l, q)
  BY DEF Match
<1>4. q # <<>> => t = q[N] /\ t \in Order /\ t # o
  <2>1. q # <<>> => N \in 1 .. N
    BY <1>1
  <2> QED BY <1>1, <1>3, <2>1 DEF Represents
<1>5. /\ m2 \in Memory
      /\ \A k \in Level : /\ m2.tail[k] = IF k = l THEN o ELSE m.tail[k]
                          /\ m2.head[k] = IF k = l /\ m.head[l] = null THEN o ELSE m.head[k]
      /\ m.head[l] = null => m2.next = m.next /\ m2.prev = m.prev
      /\ m.head[l] # null => \A x \in Order :
            /\ m2.next[x] = IF x = t THEN o ELSE m.next[x]
            /\ m2.prev[x] = IF x = o THEN t ELSE m.prev[x]
  BY <1>1, <1>4, AppendFields DEF Match
<1>6. /\ Q2 \in [Level -> Seq(Order)] /\ Q2[l] = q2
      /\ \A k \in Level : k # l => Q2[k] = Q[k]
  BY <1>2 DEF Match
<1>7. m.next[o] = null /\ m.prev[o] = null /\ o # null
  BY ConstantsAssumption DEF Match
<1> HIDE DEF q, q2, m2, Q2, t, N
<1>8. Represents(m2, l, q2)
  <2>1. m2.head[l] = q2[1]
    <3>1. CASE q = <<>>
      BY <1>1, <1>2, <1>5, <3>1
    <3>2. CASE q # <<>>
      <4>1. 1 \in 1 .. N
        BY <1>1, <3>2
      <4> QED BY <1>1, <1>2, <1>3, <1>5, <3>2, <4>1 DEF Represents
    <3> QED BY <3>1, <3>2
  <2>2. m2.tail[l] = q2[Len(q2)]
    BY <1>2, <1>5
  <2>3. ASSUME NEW i \in 1 .. N
        PROVE  /\ m2.next[q2[i]] = IF i = N + 1 THEN null ELSE q2[i + 1]
               /\ m2.prev[q2[i]] = IF i = 1 THEN null ELSE q2[i - 1]
    <3>1. N # 0 /\ q # <<>> /\ m.head[l] # null /\ i # N + 1 /\ N \in 1 .. N
      BY <1>1
    <3>2. q2[i] = q[i] /\ q[i] \in Order /\ q[i] # o
      BY <1>1, <1>2
    <3>3. /\ m.next[q[i]] = IF i = N THEN null ELSE q[i + 1]
          /\ m.prev[q[i]] = IF i = 1 THEN null ELSE q[i - 1]
      BY <1>3 DEF Represents, N
    <3>4. q[i] = t <=> i = N
      <4>1. q[i] = q[N] => i = N
        BY <3>1 DEF Match, Apart, q, N
      <4> QED BY <1>4, <3>1, <4>1
    <3>5. m2.next[q2[i]] = q2[i + 1]
      <4>1. CASE i = N
        BY <1>2, <1>5, <3>1, <3>2, <3>4, <4>1
      <4>2. CASE i # N
        <5>1. i + 1 \in 1 .. N
          BY <1>1, <4>2
        <5> QED BY <1>2, <1>5, <3>1, <3>2, <3>3, <3>4, <4>2, <5>1
      <4> QED BY <4>1, <4>2
    <3>6. m2.prev[q2[i]] = IF i = 1 THEN null ELSE q2[i - 1]
      <4>1. i # 1 => i - 1 \in 1 .. N
        BY <1>1
      <4> QED BY <1>2, <1>5, <3>1, <3>2, <3>3, <4>1
    <3> QED BY <3>1, <3>5, <3>6
  <2>4. /\ m2.next[q2[N + 1]] = null
        /\ m2.prev[q2[N + 1]] = IF N + 1 = 1 THEN null ELSE q2[N]
    <3>1. CASE q = <<>>
      BY <1>1, <1>2, <1>5, <1>7, <3>1
    <3>2. CASE q # <<>>
      <4>1. N \in 1 .. N /\ N + 1 # 1
        BY <1>1, <3>2
      <4> QED BY <1>1, <1>2, <1>4, <1>5, <1>7, <3>2, <4>1
    <3> QED BY <3>1, <3>2
  <2>5. ASSUME NEW i \in 1 .. Len(q2)
        PROVE  /\ m2.next[q2[i]] = IF i = Len(q2) THEN null ELSE q2[i + 1]
               /\ m2.prev[q2[i]] = IF i = 1 THEN null ELSE q2[i - 1]
    <3>1. CASE i \in 1 .. N
      BY <1>2, <2>3, <3>1
    <3>2. CASE i = N + 1
      <4>1. i - 1 = N
        BY <1>1, <3>2
      <4> QED BY <1>2, <2>4, <3>2, <4>1
    <3> QED BY <1>1, <1>2, <3>1, <3>2
  <2> QED BY <1>2, <2>1, <2>2, <2>5 DEF Represents
<1>9. ASSUME NEW k \in Level, k # l PROVE Represents(m2, k, Q2[k])
  <2>1. Represents(m, k, Q[k]) /\ Len(Q[k]) \in Nat
    BY QueueFacts DEF Match
  <2>2. ASSUME NEW i \in 1 .. Len(Q[k])
        PROVE  m2.next[Q[k][i]] = m.next[Q[k][i]] /\ m2.prev[Q[k][i]] = m.prev[Q[k][i]]
    <3>1. Q[k][i] \in Order /\ Q[k][i] # o
      BY QueueFacts DEF LooseIn
    <3>2. q # <<>> => Q[k][i] # t
      <4>1. q # <<>> => N \in 1 .. N
        BY <1>1
      <4> QED BY <1>4, <1>9, <4>1 DEF Match, Apart, q, N
    <3> QED BY <1>1, <1>5, <3>1, <3>2
  <2> QED BY <1>5, <1>6, <1>9, <2>1, <2>2 DEF Represents
<1>10. Apart(Q2)
  <2>1. ASSUME NEW j \in Level, NEW k \in Level,
               NEW a \in 1 .. Len(Q2[j]), NEW b \in 1 .. Len(Q2[k]), Q2[j][a] = Q2[k][b]
        PROVE  j = k /\ a = b
    <3>1. ASSUME NEW h \in Level, NEW c \in 1 .. Len(Q2[h])
          PROVE  \/ c \in 1 .. Len(Q[h]) /\ Q2[h][c] = Q[h][c] /\ Q2[h][c] # o
                 \/ h = l /\ c = N + 1 /\ Q2[h][c] = o
      <4>1. CASE h = l
        BY SMTT(20), <1>1, <1>2, <1>6, <4>1 DEF q, N
      <4>2. CASE h # l
        BY <1>6, <4>2 DEF LooseIn
      <4> QED BY <4>1, <4>2
    <3>2. CASE a \in 1 .. Len(Q[j]) /\ b \in 1 .. Len(Q[k])
               /\ Q2[j][a] = Q[j][a] /\ Q2[k][b] = Q[k][b]
      <4>1. Q[j][a] = Q[k][b]
        BY <2>1, <3>2
      <4>2. Apart(Q)
        BY DEF Match
      <4> QED BY <3>2, <4>1, <4>2 DEF Apart
    <3> QED BY <2>1, <3>1, <3>2
  <2> QED BY <2>1 DEF Apart
<1>11. ASSUME NEW x \in Order, LooseIn(Q2, x) PROVE m2.next[x] = null /\ m2.prev[x] = null
  <2>1. x # o
    <3>1. N + 1 \in 1 .. Len(q2)
      BY <1>1, <1>2
    <3> QED BY <1>2, <1>6, <1>11, <3>1 DEF LooseIn
  <2>2. LooseIn(Q, x)
    <3>1. ASSUME NEW k \in Level, NEW i \in 1 .. Len(Q[k]) PROVE Q[k][i] # x
      <4>1. CASE k = l
        <5>1. i \in 1 .. N /\ i \in 1 .. Len(q2)
          BY <1>1, <1>2, <4>1 DEF q, N
        <5> QED BY <1>2, <1>6, <1>11, <4>1, <5>1 DEF LooseIn, q
      <4>2. CASE k # l
        BY <1>6, <1>11, <4>2 DEF LooseIn
      <4> QED BY <4>1, <4>2
    <3> QED BY <3>1 DEF LooseIn
  <2>3. m.next[x] = null /\ m.prev[x] = null
    BY <2>2 DEF Match
  <2>4. q # <<>> => x # t
    <3>1. q # <<>> => N \in 1 .. N
      BY <1>1
    <3> QED BY <1>4, <2>2, <3>1 DEF LooseIn, q, N
  <2> QED BY <1>1, <1>5, <2>1, <2>3, <2>4
<1>12. \A k \in Level : Represents(m2, k, Q2[k])
  BY <1>6, <1>8, <1>9
<1>13. Match(m2, Q2)
  BY <1>5, <1>6, <1>10, <1>11, <1>12 DEF Match
<1> QED BY <1>13 DEF m2, Q2, q2, q

LEMMA RemoveMatches ==
  ASSUME NEW m, NEW Q, Match(m, Q), NEW l \in Level, NEW o \in Range(Q[l])
  PROVE  /\ Match(RemoveOrder(m, l, o), [Q EXCEPT ![l] = Unlinked(@, o)])
         /\ LooseIn([Q EXCEPT ![l] = Unlinked(@, o)], o)
         /\ o \in Order
<1> DEFINE q == Q[l]
           N == Len(q)
           u == Unlinked(q, o)
           Q2 == [Q EXCEPT ![l] = u]
           m2 == RemoveOrder(m, l, o)
           p == m.prev[o]
           n == m.next[o]
<1>1. /\ q \in Seq(Order) /\ N \in Nat /\ DOMAIN q = 1 .. N
      /\ \A i \in 1 .. N : q[i] \in Order /\ q[i] # null
  BY QueueFacts
<1>2. Position(q, o) \in 1 .. N /\ q[Position(q, o)] = o
  BY <1>1 DEF Position, Range
<1>3. PICK c \in 1 .. N : c = Position(q, o) /\ q[c] = o
  BY <1>2
<1>4. o \in Order /\ Apart(Q) /\ m \in Memory /\ Represents(m, l, q)
  BY <1>1, <1>3 DEF Match
<1>5. /\ u \in Seq(Order) /\ Len(u) = N - 1
      /\ \A i \in 1 .. c - 1 : u[i] = q[i]
      /\ \A i \in c .. N - 1 : u[i] = q[i + 1]
  BY <1>1, <1>3, RemoveAtElements DEF Unlinked
<1>6. /\ p = IF c = 1 THEN null ELSE q[c - 1]
      /\ n = IF c = N THEN null ELSE q[c + 1]
  BY <1>3, <1>4 DEF Represents
<1>7. /\ m2 \in Memory
      /\ \A k \in Level : /\ m2.head[k] = IF k = l /\ p = null THEN n ELSE m.head[k]
                          /\ m2.tail[k] = IF k = l /\ n = null THEN p ELSE m.tail[k]
      /\ \A x \in Order : /\ m2.next[x] = IF x = o THEN null
                                           ELSE IF x = p THEN n ELSE m.next[x]
                          /\ m2.prev[x] = IF x = o THEN null
                                           ELSE IF x = n THEN p ELSE m.prev[x]
  BY <1>4, RemoveFields
<1>8. /\ Q2 \in [Level -> Seq(Order)] /\ Q2[l] = u
      /\ \A k \in Level : k # l => Q2[k] = Q[k]
  BY <1>5 DEF Match
<1>9. ASSUME NEW i \in 1 .. N, NEW j \in 1 .. N, q[i] = q[j] PROVE i = j
  BY <1>4, <1>9 DEF Apart
<1>10. /\ c # 1 => c - 1 \in 1 .. N /\ p = q[c - 1] /\ p # null
       /\ c # N => c + 1 \in 1 .. N /\ n = q[c + 1] /\ n # null
       /\ c = 1 => p = null
       /\ c = N => n = null
  <2>1. (c # 1 => c - 1 \in 1 .. N) /\ (c # N => c + 1 \in 1 .. N)
    BY <1>1
  <2> QED BY <1>1, <1>6, <2>1
<1>11. \A x \in Order : x # null
  BY ConstantsAssumption
<1> HIDE DEF q, u, m2, Q2, p, n, N
\* What the neighbours of position i become.
<1>12. ASSUME NEW i \in 1 .. N, i # c
       PROVE  /\ m2.next[q[i]] = IF i = c - 1 THEN n ELSE IF i = N THEN null ELSE q[i + 1]
              /\ m2.prev[q[i]] = IF i = c + 1 THEN p ELSE IF i = 1 THEN null ELSE q[i - 1]
  <2>1. q[i] \in Order /\ q[i] # o /\ q[i] # null
    BY <1>1, <1>3, <1>9, <1>12
  <2>2. /\ m.next[q[i]] = IF i = N THEN null ELSE q[i + 1]
        /\ m.prev[q[i]] = IF i = 1 THEN null ELSE q[i - 1]
    BY <1>4 DEF Represents, N
  <2>3. q[i] = p <=> i = c - 1
    <3>1. CASE c = 1
      BY <1>1, <1>10, <2>1, <3>1
    <3>2. CASE c # 1
      BY <1>1, <1>9, <1>10, <3>2
    <3> QED BY <3>1, <3>2
  <2>4. q[i] = n <=> i = c + 1
    <3>1. CASE c = N
      BY <1>1, <1>10, <2>1, <3>1
    <3>2. CASE c # N
      BY <1>1, <1>9, <1>10, <3>2
    <3> QED BY <3>1, <3>2
  <2> QED BY <1>7, <2>1, <2>2, <2>3, <2>4
<1>13. Represents(m2, l, u)
  <2>1. m2.head[l] = IF u = <<>> THEN null ELSE u[1]
    <3>1. m.head[l] = q[1]
      BY <1>1, <1>3, <1>4 DEF Represents, N
    <3>2. CASE c = 1
      <4>1. m2.head[l] = n
        BY <1>7, <1>10, <3>2
      <4>2. CASE N = 1
        <5>1. u = <<>>
          BY <1>5, <4>2, EmptySeq
        <5> QED BY <1>10, <3>2, <4>1, <4>2, <5>1
      <4>3. CASE N # 1
        <5>1. 1 \in c .. N - 1 /\ 1 + 1 = c + 1 /\ c # N
          BY <1>1, <3>2, <4>3
        <5>2. u # <<>>
          BY <1>1, <1>5, <4>3, EmptySeq
        <5> QED BY <1>5, <1>10, <4>1, <5>1, <5>2
      <4> QED BY <4>2, <4>3
    <3>3. CASE c # 1
      <4>1. 1 \in 1 .. c - 1 /\ N - 1 # 0
        BY <1>1, <3>3
      <4>2. u # <<>>
        BY <1>5, <4>1, EmptySeq
      <4> QED BY <1>5, <1>7, <1>10, <3>1, <3>3, <4>1, <4>2
    <3> QED BY <3>2, <3>3
  <2>2. m2.tail[l] = IF u = <<>> THEN null ELSE u[Len(u)]
    <3>1. m.tail[l] = q[N]
      <4>1. q # <<>>
        BY <1>1, <1>3, EmptySeq DEF N
      <4> QED BY <1>4, <4>1 DEF Represents, N
    <3>2. CASE c = N
      <4>1. m2.tail[l] = p
        BY <1>7, <1>10, <3>2
      <4>2. CASE N = 1
        <5>1. u = <<>>
          BY <1>5, <4>2, EmptySeq
        <5> QED BY <1>10, <3>2, <4>1, <4>2, <5>1
      <4>3. CASE N # 1
        <5>1. N - 1 \in 1 .. c - 1 /\ c # 1 /\ N - 1 = c - 1
          BY <1>1, <3>2, <4>3
        <5>2. u # <<>>
          BY <1>1, <1>5, <4>3, EmptySeq
        <5>3. u[N - 1] = q[N - 1] /\ Len(u) = N - 1
          BY <1>5, <5>1
        <5> QED BY <1>10, <4>1, <5>1, <5>2, <5>3
      <4> QED BY <4>2, <4>3
    <3>3. CASE c # N
      <4>1. N - 1 \in c .. N - 1 /\ N - 1 # 0 /\ (N - 1) + 1 = N
        BY <1>1, <3>3
      <4>2. u # <<>>
        BY <1>5, <4>1, EmptySeq
      <4> QED BY <1>5, <1>7, <1>10, <3>1, <3>3, <4>1, <4>2
    <3> QED BY <3>2, <3>3
  <2>3. ASSUME NEW i \in 1 .. Len(u)
        PROVE  m2.next[u[i]] = IF i = Len(u) THEN null ELSE u[i + 1]
    <3>1. CASE i < c - 1
      <4>1. /\ i \in 1 .. c - 1 /\ i + 1 \in 1 .. c - 1 /\ i \in 1 .. N
            /\ i # c /\ i # N /\ i # N - 1 /\ i # c - 1
        BY <1>1, <1>5, <3>1
      <4> QED BY <1>5, <1>12, <4>1
    <3>2. CASE i = c - 1
      <4>1. i \in 1 .. c - 1 /\ i \in 1 .. N /\ i # c
        BY <1>1, <1>5, <3>2
      <4>2. m2.next[u[i]] = n
        BY <1>5, <1>12, <3>2, <4>1
      <4>3. CASE c = N
        BY <1>1, <1>5, <1>10, <3>2, <4>2, <4>3
      <4>4. CASE c # N
        <5>1. c \in c .. N - 1 /\ i + 1 = c /\ i # N - 1
          BY <1>1, <3>2, <4>4
        <5> QED BY <1>5, <1>10, <4>2, <4>4, <5>1
      <4> QED BY <4>3, <4>4
    <3>3. CASE i > c - 1
      <4>1. /\ i \in c .. N - 1 /\ i + 1 \in 1 .. N /\ i + 1 # c /\ i + 1 # c - 1
            /\ (i + 1 = N <=> i = N - 1)
        BY <1>1, <1>5, <3>3
      <4>2. m2.next[u[i]] = IF i = N - 1 THEN null ELSE q[(i + 1) + 1]
        BY <1>5, <1>12, <4>1
      <4>3. i # N - 1 => i + 1 \in c .. N - 1
        BY <1>1, <4>1
      <4> QED BY <1>5, <4>2, <4>3
    <3> QED BY <1>1, <1>5, <3>1, <3>2, <3>3
  <2>4. ASSUME NEW i \in 1 .. Len(u)
        PROVE  m2.prev[u[i]] = IF i = 1 THEN null ELSE u[i - 1]
    <3>1. CASE i < c
      <4>1. i \in 1 .. c - 1 /\ i \in 1 .. N /\ i # c /\ i # c + 1
        BY <1>1, <1>5, <3>1
      <4>2. m2.prev[u[i]] = IF i = 1 THEN null ELSE q[i - 1]
        BY <1>5, <1>12, <4>1
      <4>3. i # 1 => i - 1 \in 1 .. c - 1
        BY <4>1
      <4> QED BY <1>5, <4>2, <4>3
    <3>2. CASE i = c
      <4>1. i \in c .. N - 1 /\ i + 1 \in 1 .. N /\ i + 1 # c /\ i + 1 = c + 1
        BY <1>1, <1>5, <3>2
      <4>2. m2.prev[u[i]] = p
        BY <1>5, <1>12, <4>1
      <4>3. i # 1 => i - 1 \in 1 .. c - 1 /\ i - 1 = c - 1
        BY <1>1, <3>2
      <4> QED BY <1>5, <1>10, <3>2, <4>2, <4>3
    <3>3. CASE i > c
      <4>1. /\ i \in c .. N - 1 /\ i + 1 \in 1 .. N /\ i + 1 # c /\ i + 1 # c + 1
            /\ i + 1 # 1 /\ i # 1
        BY <1>1, <1>5, <3>3
      <4>2. m2.prev[u[i]] = q[(i + 1) - 1]
        BY <1>5, <1>12, <4>1
      <4>3. i - 1 \in c .. N - 1 /\ (i - 1) + 1 = (i + 1) - 1
        BY <1>1, <3>3, <4>1
      <4>4. u[i - 1] = q[(i + 1) - 1]
        BY <1>5, <4>3
      <4> QED BY <4>1, <4>2, <4>4
    <3> QED BY <1>1, <1>5, <3>1, <3>2, <3>3
  <2> QED BY <2>1, <2>2, <2>3, <2>4 DEF Represents
\* Every position of the new queues is a position of the old ones, but o's.
<1>14. ASSUME NEW h \in Level, NEW i \in 1 .. Len(Q2[h])
       PROVE  \E a \in 1 .. Len(Q[h]) :
                 /\ Q2[h][i] = Q[h][a] /\ Q[h][a] # o
                 /\ a = IF h = l /\ i >= c THEN i + 1 ELSE i
  <2>1. CASE h # l
    <3>1. i \in 1 .. Len(Q[h]) /\ Q2[h][i] = Q[h][i]
      BY <1>8, <2>1
    <3>2. Q[h][i] # o
      BY <1>3, <1>4, <2>1, <3>1 DEF Apart, q, N
    <3> QED BY <2>1, <3>1, <3>2
  <2>2. CASE h = l /\ i < c
    <3>1. i \in 1 .. c - 1 /\ i \in 1 .. N /\ i # c /\ ~(i >= c)
      BY <1>1, <1>5, <1>8, <2>2
    <3>2. u[i] = q[i] /\ q[i] # o
      BY <1>3, <1>5, <1>9, <3>1
    <3> QED BY <1>8, <2>2, <3>1, <3>2 DEF q, N
  <2>3. CASE h = l /\ ~(i < c)
    <3>1. i \in c .. N - 1 /\ i + 1 \in 1 .. N /\ i + 1 # c /\ i >= c
      BY <1>1, <1>5, <1>8, <2>3
    <3>2. u[i] = q[i + 1] /\ q[i + 1] # o
      BY <1>3, <1>5, <1>9, <3>1
    <3> QED BY <1>8, <2>3, <3>1, <3>2 DEF q, N
  <2> QED BY <2>1, <2>2, <2>3
<1>15. LooseIn(Q2, o)
  BY <1>14 DEF LooseIn
<1>16. Apart(Q2)
  <2>1. ASSUME NEW j \in Level, NEW k \in Level,
               NEW a \in 1 .. Len(Q2[j]), NEW b \in 1 .. Len(Q2[k]), Q2[j][a] = Q2[k][b]
        PROVE  j = k /\ a = b
    <3>1. PICK x \in 1 .. Len(Q[j]) :
             Q2[j][a] = Q[j][x] /\ x = IF j = l /\ a >= c THEN a + 1 ELSE a
      BY <1>14
    <3>2. PICK y \in 1 .. Len(Q[k]) :
             Q2[k][b] = Q[k][y] /\ y = IF k = l /\ b >= c THEN b + 1 ELSE b
      BY <1>14
    <3>3. Q[j][x] = Q[k][y]
      BY <2>1, <3>1, <3>2
    <3>4. j = k /\ x = y
      BY <1>4, <3>3 DEF Apart
    <3>5. a \in Int /\ b \in Int /\ c \in Int
      OBVIOUS
    <3> QED BY <3>1, <3>2, <3>4, <3>5
  <2> QED BY <2>1 DEF Apart
<1>17. ASSUME NEW k \in Level, k # l PROVE Represents(m2, k, Q2[k])
  <2>1. Represents(m, k, Q[k])
    BY DEF Match
  <2>2. ASSUME NEW i \in 1 .. Len(Q[k])
        PROVE  m2.next[Q[k][i]] = m.next[Q[k][i]] /\ m2.prev[Q[k][i]] = m.prev[Q[k][i]]
    <3>1. Q[k][i] \in Order /\ Q[k][i] # null
      BY QueueFacts
    <3>2. \A a \in 1 .. N : Q[k][i] # q[a]
      BY <1>4, <1>17 DEF Apart, q, N
    <3>3. Q[k][i] # o /\ Q[k][i] # p /\ Q[k][i] # n
      BY <1>3, <1>10, <3>1, <3>2
    <3> QED BY <1>7, <3>1, <3>3
  <2>3. /\ Q2[k] = Q[k]
        /\ m2.head[k] = m.head[k] /\ m2.tail[k] = m.tail[k]
    BY <1>7, <1>8, <1>17
  <2> QED BY <2>1, <2>2, <2>3 DEF Represents
<1>18. ASSUME NEW x \in Order, LooseIn(Q2, x) PROVE m2.next[x] = null /\ m2.prev[x] = null
  <2>1. CASE x = o
    BY <1>7, <2>1
  <2>2. CASE x # o
    <3>1. ASSUME NEW k \in Level, NEW i \in 1 .. Len(Q[k]) PROVE Q[k][i] # x
      <4>1. CASE k # l
        BY <1>8, <1>18, <4>1 DEF LooseIn
      <4>2. CASE k = l /\ i < c
        <5>1. i \in 1 .. c - 1 /\ i \in 1 .. Len(u)
          BY <1>1, <1>5, <4>2 DEF q, N
        <5> QED BY <1>5, <1>8, <1>18, <4>2, <5>1 DEF LooseIn, q
      <4>3. CASE k = l /\ i = c
        BY <1>3, <2>2, <4>3 DEF q
      <4>4. CASE k = l /\ i > c
        <5>1. i - 1 \in c .. N - 1 /\ i - 1 \in 1 .. Len(u) /\ (i - 1) + 1 = i
          BY <1>1, <1>5, <4>4 DEF q, N
        <5> QED BY <1>5, <1>8, <1>18, <4>4, <5>1 DEF LooseIn, q
      <4>5. i \in Int /\ c \in Int
        OBVIOUS
      <4> QED BY <4>1, <4>2, <4>3, <4>4, <4>5
    <3>2. LooseIn(Q, x)
      BY <3>1 DEF LooseIn
    <3>3. m.next[x] = null /\ m.prev[x] = null
      BY <3>2 DEF Match
    <3>4. \A a \in 1 .. N : x # q[a]
      BY <3>2 DEF LooseIn, q, N
    <3>5. x # p /\ x # n
      BY <1>10, <1>11, <3>4
    <3> QED BY <1>7, <2>2, <3>3, <3>5
  <2> QED BY <2>1, <2>2
<1>19. \A k \in Level : Represents(m2, k, Q2[k])
  BY <1>8, <1>13, <1>17
<1>20. Match(m2, Q2)
  BY <1>7, <1>8, <1>16, <1>18, <1>19 DEF Match
<1> QED BY <1>4, <1>15, <1>20 DEF m2, Q2, u, q

-----------------------------------------------------------------------------
(* The specification.                                                      *)

\* The invariant is what the properties say, plus that orders are Apart.
LEMMA LooseIsLooseIn ==
  ASSUME NEW m, Match(m, queue), NEW o
  PROVE  Loose(o) <=> LooseIn(queue, o)
<1>1. ASSUME NEW l \in Level
      PROVE  o \notin On(l) <=> \A i \in 1 .. Len(queue[l]) : queue[l][i] # o
  BY QueueFacts DEF On, Range
<1> QED BY <1>1 DEF Loose, LooseIn

LEMMA IInvImplies == IInv => TypeOK /\ PointersMatchQueues /\ SweepInOrder
<1> SUFFICES ASSUME IInv PROVE TypeOK /\ PointersMatchQueues /\ SweepInOrder
  OBVIOUS
<1>1. mem \in Memory /\ queue \in [Level -> Seq(Order)]
  BY DEF IInv, Match
<1>2. cursor \in Pointer
  BY <1>1 DEF IInv, Memory, Pointer
<1>3. PointersMatchQueues
  BY LooseIsLooseIn DEF IInv, Match, PointersMatchQueues
<1> QED BY <1>1, <1>2, <1>3 DEF IInv, TypeOK, SweepInOrder, Idle

LEMMA InitIInv == Init => IInv
<1> SUFFICES ASSUME Init PROVE IInv
  OBVIOUS
<1>1. mem \in Memory
  BY DEF Init, Memory, Pointer
<1>2. queue \in [Level -> Seq(Order)] /\ \A l \in Level : queue[l] = <<>> /\ Len(queue[l]) = 0
  <2>1. <<>> \in Seq(Order) /\ Len(<<>>) = 0
    OBVIOUS
  <2> QED BY <2>1 DEF Init
<1>3. Apart(queue)
  BY <1>2 DEF Apart
<1>4. \A l \in Level : Represents(mem, l, queue[l])
  BY <1>2 DEF Init, Represents
<1>5. \A o \in Order : mem.next[o] = null /\ mem.prev[o] = null
  BY DEF Init
<1> QED BY <1>1, <1>2, <1>3, <1>4, <1>5 DEF IInv, Match, Init

\* Removing an order and releasing or re-linking it: erasing the level and
\* resetting the order again change nothing.
LEMMA RemoveAndRelease ==
  ASSUME NEW m, NEW Q, Match(m, Q), NEW l \in Level, NEW o \in Range(Q[l])
  PROVE  LET less == RemoveOrder(m, l, o)
             cut == [Q EXCEPT ![l] = Unlinked(@, o)]
         IN /\ Match(less, cut) /\ LooseIn(cut, o) /\ o \in Order
            /\ Reset(less, o) = less
            /\ Reset(EraseIfEmpty(less, l), o) = less
<1> DEFINE less == RemoveOrder(m, l, o)
           cut == [Q EXCEPT ![l] = Unlinked(@, o)]
<1>1. Match(less, cut) /\ LooseIn(cut, o) /\ o \in Order
  BY RemoveMatches
<1> HIDE DEF less, cut
<1>2. Reset(less, o) = less /\ EraseIfEmpty(less, l) = less
  BY <1>1, ResetIdle, EraseIdle
<1> QED BY <1>1, <1>2 DEF less, cut

LEMMA NextIInv == IInv /\ [Next]_vars => IInv'
<1> SUFFICES ASSUME IInv, [Next]_vars PROVE IInv'
  OBVIOUS
<1>1. Match(mem, queue)
  BY DEF IInv
<1> DEFINE Still == swept' = swept /\ cursor' = cursor /\ swept = none
<1>2. ASSUME Still, Match(mem', queue') PROVE IInv'
  <2>1. swept' \in Level \cup {none} /\ cursor' = null /\ swept' = none
    BY <1>2 DEF IInv
  <2>2. Match(mem, queue)'
    BY <1>2 DEF Match, Apart, LooseIn, Represents
  <2> QED BY <2>1, <2>2 DEF IInv
<1>3. ASSUME NEW o \in Order, NEW l \in Level, AddOrder(o, l) PROVE IInv'
  <2>1. LooseIn(queue, o) /\ Still
    BY <1>1, <1>3, LooseIsLooseIn DEF AddOrder, Idle
  <2>2. Reset(mem, o) = mem
    BY <1>1, <2>1, ResetIdle
  <2>3. /\ mem' = AppendOrder(mem, l, o)
        /\ queue' = [queue EXCEPT ![l] = Append(@, o)]
    BY <1>3, <2>2 DEF AddOrder
  <2>4. Match(mem', queue')
    BY <1>1, <2>1, <2>3, AppendMatches
  <2> QED BY <1>2, <2>1, <2>4
<1>4. ASSUME NEW o \in Order, NEW l \in Level, CancelOrder(o, l) PROVE IInv'
  <2> DEFINE less == RemoveOrder(mem, l, o)
             cut == [queue EXCEPT ![l] = Unlinked(@, o)]
  <2>1. /\ Still /\ o \in Range(queue[l]) /\ queue' = cut
        /\ mem' = Reset(EraseIfEmpty(less, l), o)
    BY <1>4 DEF CancelOrder, Idle, On
  <2>2. Match(less, cut) /\ Reset(EraseIfEmpty(less, l), o) = less
    BY <1>1, <2>1, RemoveAndRelease
  <2> HIDE DEF less, cut
  <2>3. Match(mem', queue')
    BY <2>1, <2>2
  <2> QED BY <1>2, <2>1, <2>3
<1>5. ASSUME NEW o \in Order, NEW l \in Level, NEW k \in Level, ReplaceOrder(o, l, k)
      PROVE  IInv'
  <2> DEFINE less == RemoveOrder(mem, l, o)
             cut == [queue EXCEPT ![l] = Unlinked(@, o)]
  <2>1. /\ Still /\ o \in Range(queue[l])
        /\ queue' = [cut EXCEPT ![k] = Append(@, o)]
        /\ mem' = AppendOrder(Reset(EraseIfEmpty(less, l), o), k, o)
    BY <1>5 DEF ReplaceOrder, Idle, On
  <2>2. Match(less, cut) /\ LooseIn(cut, o) /\ Reset(EraseIfEmpty(less, l), o) = less
    BY <1>1, <2>1, RemoveAndRelease
  <2> HIDE DEF less, cut
  <2>3. Match(AppendOrder(less, k, o), [cut EXCEPT ![k] = Append(@, o)])
    BY <2>2, AppendMatches
  <2>4. Match(mem', queue')
    BY <2>1, <2>2, <2>3
  <2> QED BY <1>2, <2>1, <2>4
<1>6. ASSUME NEW l \in Level, StartLevel(l) PROVE IInv'
  <2>1. /\ swept' = l /\ cursor' = mem.head[l]
        /\ mem' = mem /\ queue' = queue
    BY <1>6 DEF StartLevel
  <2>2. l # none
    BY ConstantsAssumption
  <2>3. Match(mem', queue')
    BY <1>1, <2>1
  <2>4. Match(mem, queue)'
    BY <2>3 DEF Match, Apart, LooseIn, Represents
  <2> QED BY <2>1, <2>2, <2>4 DEF IInv
<1>7. CASE FillMaker
  <2> DEFINE less == RemoveOrder(mem, swept, cursor)
             cut == [queue EXCEPT ![swept] = Unlinked(@, cursor)]
  <2>1. /\ swept \in Level /\ swept # none /\ swept' = swept
        /\ cursor = mem.head[swept] /\ cursor # null
        /\ cursor' = mem.next[cursor] /\ queue' = cut
        /\ mem' = Reset(less, cursor)
    BY <1>7 DEF FillMaker, Idle, IInv
  <2>2. /\ Len(queue[swept]) \in Nat \ {0} /\ DOMAIN queue[swept] = 1 .. Len(queue[swept])
        /\ Represents(mem, swept, queue[swept])
        /\ queue[swept] # <<>>
    <3>1. Represents(mem, swept, queue[swept])
      BY <1>1, <2>1 DEF Match
    <3> QED BY <1>1, <2>1, <3>1, QueueFacts
  <2>3. cursor = queue[swept][1] /\ cursor \in Range(queue[swept]) /\ mem.prev[cursor] = null
    <3>1. 1 \in 1 .. Len(queue[swept])
      BY <2>2
    <3>2. cursor = queue[swept][1]
      BY <2>1, <2>2 DEF Represents
    <3>3. mem.prev[queue[swept][1]] = null
      BY <2>2, <3>1 DEF Represents
    <3> QED BY <2>2, <3>1, <3>2, <3>3 DEF Range
  <2>4. Match(less, cut) /\ Reset(less, cursor) = less /\ cursor \in Order
    <3>1. PICK l \in Level : l = swept
      BY <2>1
    <3>2. PICK o \in Range(queue[l]) : o = cursor
      BY <2>3, <3>1
    <3>3. /\ Match(RemoveOrder(mem, l, o), [queue EXCEPT ![l] = Unlinked(@, o)])
          /\ Reset(RemoveOrder(mem, l, o), o) = RemoveOrder(mem, l, o)
          /\ o \in Order
      BY <1>1, RemoveAndRelease
    <3> QED BY <3>1, <3>2, <3>3
  <2>5. less.head[swept] = mem.next[cursor]
    <3>1. mem \in Memory
      BY <1>1 DEF Match
    <3> QED BY <2>1, <2>3, <2>4, <3>1, RemoveFields
  <2> HIDE DEF less, cut
  <2>6. mem' = less
    BY <2>1, <2>4
  <2>7. Match(mem, queue)'
    <3>1. Match(mem', queue')
      BY <2>1, <2>4, <2>6
    <3> QED BY <3>1 DEF Match, Apart, LooseIn, Represents
  <2> QED BY <2>1, <2>5, <2>6, <2>7 DEF IInv
<1>8. CASE EndLevel
  <2>1. /\ swept \in Level /\ swept' = none /\ cursor' = null /\ queue' = queue
        /\ mem' = EraseIfEmpty(mem, swept)
    BY <1>8 DEF EndLevel, Idle, IInv
  <2>2. mem' = mem
    BY <1>1, <2>1, EraseIdle
  <2>3. Match(mem, queue)'
    BY <1>1, <2>1, <2>2 DEF Match, Apart, LooseIn, Represents
  <2> QED BY <2>1, <2>3 DEF IInv
<1>9. CASE UNCHANGED vars
  BY <1>9 DEF vars, IInv, Match, Apart, LooseIn, Represents
<1> QED BY <1>3, <1>4, <1>5, <1>6, <1>7, <1>8, <1>9 DEF Next

\* Every reachable state satisfies the invariant.
THEOREM Invariance == Spec => []IInv
BY InitIInv, NextIInv, PTL DEF Spec

\* No pointer is ever followed from nullptr or to anything but an order
\* (property TypeOK).
THEOREM TypeCorrect == Spec => []TypeOK
BY Invariance, IInvImplies, PTL

\* The lists that types.h keeps with pointers are the sequences that module
\* OrderBook computes with (property PointersMatchQueues).
THEOREM ListsRepresentQueues == Spec => []PointersMatchQueues
BY Invariance, IInvImplies, PTL

\* A match loop serves its level first come, first served, and ends with it
\* (property SweepInOrder).
THEOREM SweepsInOrder == Spec => []SweepInOrder
BY Invariance, IInvImplies, PTL
=============================================================================
