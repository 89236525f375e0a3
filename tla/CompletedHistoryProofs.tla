----------------------- MODULE CompletedHistoryProofs -----------------------
(***************************************************************************)
(* The history of finished children, for every set of ids and every        *)
(* MAX_COMPLETED_ENTRIES: its deque lists every record once and oldest     *)
(* first, a record that comes back is newer than all that was evicted, and *)
(* popping the front keeps exactly the newest.                             *)
(***************************************************************************)
EXTENDS CompletedHistory, SequenceTheorems, FiniteSetTheorems, WellFoundedInduction, TLAPS

----------------------------------------------------------------------------
(* Sequences.                                                              *)

LEMMA RemoveAtProps ==
    ASSUME NEW S, NEW s \in Seq(S), NEW i \in 1..Len(s)
    PROVE  LET r == RemoveAt(s, i) IN
           /\ r \in Seq(S) /\ Len(r) = Len(s) - 1
           /\ \A n \in 1..Len(r) : r[n] = IF n < i THEN s[n] ELSE s[n + 1]
<1> DEFINE a == SubSeq(s, 1, i - 1)
           b == SubSeq(s, i + 1, Len(s))
<1>1. Len(s) \in Nat /\ i \in Nat /\ i >= 1 /\ i <= Len(s)
  BY LenProperties
<1>2. \A k \in 1..Len(s) : s[k] \in S
  BY ElementOfSeq
<1>3. /\ a \in Seq(S) /\ Len(a) = i - 1
      /\ \A n \in 1..(i - 1) : a[n] = s[n]
  <2>1. i - 1 \in Int /\ \A k \in 1..(i - 1) : s[k] \in S
    BY <1>1, <1>2
  <2>2. /\ a \in Seq(S) /\ Len(a) = IF 1 <= i - 1 THEN (i - 1) - 1 + 1 ELSE 0
        /\ \A n \in 1..((i - 1) - 1 + 1) : a[n] = s[1 + n - 1]
    BY <2>1, SubSeqProperties
  <2> QED
    BY <2>2, <1>1
<1>4. /\ b \in Seq(S) /\ Len(b) = Len(s) - i
      /\ \A n \in 1..(Len(s) - i) : b[n] = s[i + n]
  <2>1. i + 1 \in Int /\ \A k \in (i + 1)..Len(s) : s[k] \in S
    BY <1>1, <1>2
  <2>2. /\ b \in Seq(S) /\ Len(b) = IF i + 1 <= Len(s) THEN Len(s) - (i + 1) + 1 ELSE 0
        /\ \A n \in 1..(Len(s) - (i + 1) + 1) : b[n] = s[(i + 1) + n - 1]
    BY <2>1, <1>1, SubSeqProperties
  <2> QED
    BY <2>2, <1>1
<1>5. RemoveAt(s, i) = a \o b
  BY DEF RemoveAt
<1> HIDE DEF a, b
<1>6. /\ a \o b \in Seq(S) /\ Len(a \o b) = Len(a) + Len(b)
      /\ \A n \in 1..(Len(a) + Len(b)) : (a \o b)[n] = IF n <= Len(a) THEN a[n] ELSE b[n - Len(a)]
  BY <1>3, <1>4, ConcatProperties
<1>7. Len(a) + Len(b) = Len(s) - 1
  BY <1>1, <1>3, <1>4
<1>8. ASSUME NEW n \in 1..(Len(s) - 1)
      PROVE  (a \o b)[n] = IF n < i THEN s[n] ELSE s[n + 1]
  <2>0. n \in Nat
    BY <1>1
  <2>1. CASE n < i
    BY <2>0, <2>1, <1>1, <1>3, <1>6, <1>7
  <2>2. CASE n >= i
    <3>1. n - (i - 1) \in 1..(Len(s) - i) /\ i + (n - (i - 1)) = n + 1 /\ ~(n <= Len(a))
      BY <2>0, <2>2, <1>1, <1>3
    <3>2. (a \o b)[n] = b[n - (i - 1)]
      BY <3>1, <1>3, <1>6, <1>7
    <3> QED
      BY <3>1, <3>2, <1>4, <2>0, <2>2, <1>1
  <2>3. n < i \/ n >= i
    BY <2>0, <1>1
  <2> QED
    BY <2>1, <2>2, <2>3, Zenon
<1> QED
  BY <1>5, <1>6, <1>7, <1>8

LEMMA InsertAtProps ==
    ASSUME NEW S, NEW s \in Seq(S), NEW i \in 1..(Len(s) + 1), NEW e \in S
    PROVE  LET r == InsertAt(s, i, e) IN
           /\ r \in Seq(S) /\ Len(r) = Len(s) + 1
           /\ \A n \in 1..Len(r) : r[n] = IF n < i THEN s[n] ELSE IF n = i THEN e ELSE s[n - 1]
<1> DEFINE a == SubSeq(s, 1, i - 1)
           b == SubSeq(s, i, Len(s))
<1>1. Len(s) \in Nat /\ i \in Nat /\ i >= 1 /\ i <= Len(s) + 1
  BY LenProperties
<1>2. \A k \in 1..Len(s) : s[k] \in S
  BY ElementOfSeq
<1>3. /\ a \in Seq(S) /\ Len(a) = i - 1
      /\ \A n \in 1..(i - 1) : a[n] = s[n]
  <2>1. i - 1 \in Int /\ \A k \in 1..(i - 1) : s[k] \in S
    BY <1>1, <1>2
  <2>2. /\ a \in Seq(S) /\ Len(a) = IF 1 <= i - 1 THEN (i - 1) - 1 + 1 ELSE 0
        /\ \A n \in 1..((i - 1) - 1 + 1) : a[n] = s[1 + n - 1]
    BY <2>1, SubSeqProperties
  <2> QED
    BY <2>2, <1>1
<1>4. /\ b \in Seq(S) /\ Len(b) = Len(s) - i + 1
      /\ \A n \in 1..(Len(s) - i + 1) : b[n] = s[i + n - 1]
  <2>1. i \in Int /\ \A k \in i..Len(s) : s[k] \in S
    BY <1>1, <1>2
  <2>2. /\ b \in Seq(S) /\ Len(b) = IF i <= Len(s) THEN Len(s) - i + 1 ELSE 0
        /\ \A n \in 1..(Len(s) - i + 1) : b[n] = s[i + n - 1]
    BY <2>1, <1>1, SubSeqProperties
  <2> QED
    BY <2>2, <1>1
<1>5. InsertAt(s, i, e) = (a \o <<e>>) \o b
  BY DEF InsertAt
<1> HIDE DEF a, b
<1>6. <<e>> \in Seq(S) /\ Len(<<e>>) = 1 /\ <<e>>[1] = e
  OBVIOUS
<1> DEFINE c == a \o <<e>>
<1>7. /\ c \in Seq(S) /\ Len(c) = Len(a) + 1
      /\ \A n \in 1..(Len(a) + 1) : c[n] = IF n <= Len(a) THEN a[n] ELSE <<e>>[n - Len(a)]
  BY <1>3, <1>6, ConcatProperties
<1>8. \A n \in 1..(Len(a) + 1) : c[n] = IF n <= Len(a) THEN a[n] ELSE e
  BY <1>7, <1>6, <1>3, <1>1
<1> HIDE DEF c
<1>9. /\ c \o b \in Seq(S) /\ Len(c \o b) = Len(c) + Len(b)
      /\ \A n \in 1..(Len(c) + Len(b)) : (c \o b)[n] = IF n <= Len(c) THEN c[n] ELSE b[n - Len(c)]
  BY <1>7, <1>4, ConcatProperties
<1>10. InsertAt(s, i, e) = c \o b
  BY <1>5 DEF c
<1>11. Len(c) = i /\ Len(c) + Len(b) = Len(s) + 1
  BY <1>1, <1>3, <1>4, <1>7
<1>12. ASSUME NEW n \in 1..(Len(s) + 1)
       PROVE  (c \o b)[n] = IF n < i THEN s[n] ELSE IF n = i THEN e ELSE s[n - 1]
  <2>0. n \in Nat
    BY <1>1
  <2>1. CASE n <= i
    BY <2>1, <1>1, <1>3, <1>8, <1>9, <1>11
  <2>2. CASE n > i
    <3>1. n - i \in 1..(Len(s) - i + 1) /\ i + (n - i) - 1 = n - 1 /\ ~(n <= Len(c))
      BY <2>2, <1>1, <1>11
    <3>2. (c \o b)[n] = b[n - i]
      BY <3>1, <1>9, <1>11
    <3> QED
      BY <3>1, <3>2, <1>4, <2>2, <1>1
  <2>3. n <= i \/ n > i
    BY <2>0, <1>1
  <2> QED
    BY <2>1, <2>2, <2>3, Zenon
<1> QED
  BY <1>9, <1>10, <1>11, <1>12

----------------------------------------------------------------------------
(* The inductive invariant.                                                *)

\* The records of `c` are the entries of `o`, oldest first by the ages `g`,
\* which were given out before `n`.
Listed(c, o, g, n) ==
    /\ o \in Seq(Ids) /\ g \in [Ids -> Nat] /\ n \in Nat
    /\ c = {o[i] : i \in 1..Len(o)}
    /\ \A i, j \in 1..Len(o) : i < j => g[o[i]] < g[o[j]]
    /\ \A id \in c : g[id] >= 1 /\ g[id] < n

\* What a wake holds has an age of its own.
Away(c, d, g, n) ==
    /\ d \subseteq Ids /\ c \cap d = {}
    /\ \A id \in d : g[id] >= 1 /\ g[id] < n
    /\ \A x \in d, y \in c \cup d : x # y => g[x] # g[y]

\* What was evicted is older than what is kept, and than the MaxCompleted ages
\* given out last: a record that was away meanwhile and comes back is at or
\* above the floor, so it is newer too.
Bygone(c, g, n, e) ==
    /\ e \in Nat
    /\ \A id \in c : g[id] > e
    /\ e = 0 \/ e + MaxCompleted < n

HistoryInv ==
    /\ Listed(completed, order, age, nextAge)
    /\ Away(completed, displaced, age, nextAge)
    /\ Bygone(completed, age, nextAge, evicted)
    /\ Len(order) <= MaxCompleted /\ nextAge >= 1

----------------------------------------------------------------------------
(* Lists of records.                                                       *)

LEMMA ListedFacts ==
    ASSUME NEW c, NEW o, NEW g, NEW n, Listed(c, o, g, n)
    PROVE  /\ Len(o) \in Nat /\ DOMAIN o = 1..Len(o) /\ c \subseteq Ids
           /\ \A i \in 1..Len(o) : o[i] \in c /\ g[o[i]] \in Nat
           /\ \A i, j \in 1..Len(o) : o[i] = o[j] => i = j
<1>1. Len(o) \in Nat /\ DOMAIN o = 1..Len(o) /\ \A i \in 1..Len(o) : o[i] \in Ids
  BY LenProperties, ElementOfSeq DEF Listed
<1>2. \A i \in 1..Len(o) : o[i] \in c /\ g[o[i]] \in Nat
  BY <1>1 DEF Listed
<1>3. ASSUME NEW i \in 1..Len(o), NEW j \in 1..Len(o), o[i] = o[j] PROVE i = j
  <2>1. ~(i < j) /\ ~(j < i)
    BY <1>2, <1>3 DEF Listed
  <2> QED
    BY <2>1, <1>1
<1>4. c \subseteq Ids
  BY <1>1 DEF Listed
<1> QED
  BY <1>1, <1>2, <1>3, <1>4

LEMMA ListedCount ==
    ASSUME NEW c, NEW o, NEW g, NEW n, Listed(c, o, g, n)
    PROVE  IsFiniteSet(c) /\ Cardinality(c) = Len(o)
<1>1. o \in Bijection(1..Len(o), c)
  <2>1. o \in [1..Len(o) -> c]
    BY ListedFacts, LenProperties DEF Listed
  <2>2. \A x \in c : \E i \in 1..Len(o) : o[i] = x
    BY DEF Listed
  <2>3. \A i, j \in 1..Len(o) : o[i] = o[j] => i = j
    BY ListedFacts
  <2> QED
    BY <2>1, <2>2, <2>3 DEF Bijection, Injection, Surjection, IsInjective
<1>2. Len(o) \in Nat /\ ExistsBijection(1..Len(o), c)
  BY <1>1, ListedFacts DEF ExistsBijection
<1> QED
  BY <1>2, FS_NatBijection, FS_CountingElements

\* There are no more records than ages above e.
LEMMA AgeRoom ==
    ASSUME NEW c, NEW o, NEW g, NEW n, Listed(c, o, g, n), NEW e \in Nat,
           \A id \in c : g[id] > e, Len(o) # 0
    PROVE  Len(o) + e < n
<1> DEFINE T == (e + 1)..(n - 1)
           f == [i \in 1..Len(o) |-> g[o[i]]]
<1>1. Len(o) \in Nat /\ n \in Nat
  BY ListedFacts DEF Listed
<1>2. \A i \in 1..Len(o) : g[o[i]] \in T
  <2>1. \A i \in 1..Len(o) : g[o[i]] \in Nat /\ o[i] \in c
    BY ListedFacts
  <2>2. \A id \in c : g[id] < n
    BY DEF Listed
  <2> QED
    BY <2>1, <2>2, <1>1
<1>3. \A i, j \in 1..Len(o) : g[o[i]] = g[o[j]] => i = j
  <2> SUFFICES ASSUME NEW i \in 1..Len(o), NEW j \in 1..Len(o), g[o[i]] = g[o[j]]
               PROVE  i = j
    OBVIOUS
  <2>1. ~(i < j) /\ ~(j < i)
    BY ListedFacts DEF Listed
  <2> QED
    BY <2>1, <1>1
<1>4. f \in Injection(1..Len(o), T)
  BY <1>2, <1>3 DEF Injection, IsInjective
<1>5. IsFiniteSet(T) /\ Cardinality(T) = IF e + 1 > n - 1 THEN 0 ELSE (n - 1) - (e + 1) + 1
  <2>1. e + 1 \in Int /\ n - 1 \in Int
    BY <1>1
  <2> QED
    BY <2>1, FS_Interval, Zenon
<1>6. Cardinality(1..Len(o)) = Len(o)
  <2>1. 1 \in Int /\ Len(o) \in Int
    BY <1>1
  <2>2. Cardinality(1..Len(o)) = IF 1 > Len(o) THEN 0 ELSE Len(o) - 1 + 1
    BY <2>1, FS_Interval, Zenon
  <2> QED
    BY <2>2, <1>1
<1>7. Cardinality(1..Len(o)) <= Cardinality(T)
  BY <1>4, <1>5, FS_Injection
<1> HIDE DEF T, f
<1> QED
  BY <1>1, <1>5, <1>6, <1>7

----------------------------------------------------------------------------
(* evict_completed_overflow.                                               *)

\* What is left of the record set c: the newest, MaxCompleted of them if some
\* was evicted.
Newest(r, c, g) ==
    /\ r \subseteq c /\ IsFiniteSet(c) /\ Cardinality(r) <= MaxCompleted
    /\ \A x \in c \ r : Cardinality(r) = MaxCompleted /\ \A y \in r : g[x] < g[y]

LEMMA EvictOverflowEffect ==
    ASSUME NEW c, NEW o, NEW g, NEW n, Listed(c, o, g, n), EvictOverflow(c, o, g),
           Bygone(c, g, n, evicted)
    PROVE  /\ Listed(completed', order', age', n) /\ Bygone(completed', age', n, evicted')
           /\ Len(order') <= MaxCompleted /\ Newest(completed', c, g)
           /\ \A id \in Ids : id \notin c \/ id \in completed' => age'[id] = g[id]
<1> DEFINE x == IF Cardinality(c) > MaxCompleted THEN Cardinality(c) - MaxCompleted ELSE 0
           popped == {o[i] : i \in 1..x}
           m == Len(o) - x
<1>1. /\ IsFiniteSet(c) /\ Cardinality(c) = Len(o) /\ Len(o) \in Nat
      /\ MaxCompleted \in Nat /\ MaxCompleted >= 1
  BY ListedFacts, ListedCount, HistoryAssumption
<1>2. /\ x \in Nat /\ m \in Nat /\ x + m = Len(o) /\ m <= MaxCompleted
      /\ x # 0 => m = MaxCompleted
  BY <1>1
<1>3. /\ completed' = c \ popped /\ order' = SubSeq(o, x + 1, Len(o))
      /\ age' = [id \in Ids |-> IF id \in popped THEN 0 ELSE g[id]]
      /\ evicted' = IF x = 0 THEN evicted ELSE g[o[x]]
  BY DEF EvictOverflow
<1> HIDE DEF x, m
<1>4. /\ order' \in Seq(Ids) /\ Len(order') = m
      /\ \A i \in 1..m : order'[i] = o[x + i]
  <2>1. /\ x + 1 \in Int /\ Len(o) \in Int
        /\ \A i \in (x + 1)..Len(o) : o[i] \in Ids
    BY <1>1, <1>2, ListedFacts
  <2>2. /\ SubSeq(o, x + 1, Len(o)) \in Seq(Ids)
        /\ Len(SubSeq(o, x + 1, Len(o)))
             = IF x + 1 <= Len(o) THEN Len(o) - (x + 1) + 1 ELSE 0
        /\ \A i \in 1..(Len(o) - (x + 1) + 1) : SubSeq(o, x + 1, Len(o))[i] = o[(x + 1) + i - 1]
    BY <2>1, SubSeqProperties
  <2>3. /\ Len(o) - (x + 1) + 1 = m /\ \A i \in 1..m : (x + 1) + i - 1 = x + i
        /\ (IF x + 1 <= Len(o) THEN Len(o) - (x + 1) + 1 ELSE 0) = m
    BY <1>1, <1>2
  <2>4. order' = SubSeq(o, x + 1, Len(o))
    BY <1>3
  <2> QED
    BY <2>2, <2>3, <2>4
<1>5. \A i \in 1..m : x + i \in 1..Len(o) /\ o[x + i] \in c /\ o[x + i] \notin popped
  <2> SUFFICES ASSUME NEW i \in 1..m
               PROVE  x + i \in 1..Len(o) /\ o[x + i] \in c /\ o[x + i] \notin popped
    OBVIOUS
  <2>1. x + i \in 1..Len(o) /\ \A k \in 1..x : k \in 1..Len(o) /\ k # x + i
    BY <1>1, <1>2
  <2> QED
    BY <2>1, ListedFacts
<1>6. completed' = {order'[i] : i \in 1..Len(order')}
  <2>1. ASSUME NEW id \in completed' PROVE \E i \in 1..m : id = order'[i]
    <3>1. PICK k \in 1..Len(o) : id = o[k]
      BY <1>3 DEF Listed
    <3>2. k \notin 1..x
      BY <1>3, <3>1
    <3>3. k - x \in 1..m /\ x + (k - x) = k
      BY <3>2, <1>1, <1>2
    <3> QED
      BY <3>1, <3>3, <1>4
  <2>2. \A i \in 1..m : order'[i] \in completed'
    BY <1>3, <1>4, <1>5
  <2> QED
    BY <2>1, <2>2, <1>4
<1>7. \A id \in Ids : id \notin c \/ id \in completed' => age'[id] = g[id]
  <2>1. popped \subseteq c
    BY <1>1, <1>2, ListedFacts
  <2> QED
    BY <2>1, <1>3
<1>8. completed' \subseteq c /\ c \subseteq Ids /\ \A id \in completed' : age'[id] = g[id]
  BY <1>3, <1>7, ListedFacts
<1>9. age' \in [Ids -> Nat]
  BY <1>3 DEF Listed
<1>10. \A i, j \in 1..Len(order') : i < j => age'[order'[i]] < age'[order'[j]]
  <2> SUFFICES ASSUME NEW i \in 1..m, NEW j \in 1..m, i < j
               PROVE  age'[order'[i]] < age'[order'[j]]
    BY <1>4
  <2>1. order'[i] \in completed' /\ order'[j] \in completed'
    BY <1>4, <1>6
  <2>2. g[o[x + i]] < g[o[x + j]]
    <3>1. x + i < x + j
      BY <1>2
    <3> QED
      BY <3>1, <1>5 DEF Listed
  <2> QED
    BY <2>1, <2>2, <1>4, <1>8
<1>11. Listed(completed', order', age', n)
  BY <1>4, <1>6, <1>8, <1>9, <1>10 DEF Listed
<1>12. \A z \in popped, y \in completed' : g[z] < g[y]
  <2> SUFFICES ASSUME NEW k \in 1..x, NEW y \in completed' PROVE g[o[k]] < g[y]
    OBVIOUS
  <2>1. PICK i \in 1..m : y = o[x + i]
    BY <1>4, <1>6
  <2>2. k < x + i /\ k \in 1..Len(o)
    BY <1>1, <1>2
  <2> QED
    BY <2>1, <2>2, <1>5 DEF Listed
<1>13. \A z \in popped : Len(order') = MaxCompleted
  BY <1>2, <1>4
<1>14. Newest(completed', c, g)
  <2>1. Cardinality(completed') = m
    BY <1>4, <1>11, ListedCount
  <2> QED
    BY <2>1, <1>1, <1>2, <1>3, <1>4, <1>8, <1>12, <1>13 DEF Newest
<1>15. /\ evicted' \in Nat /\ \A id \in completed' : age'[id] > evicted'
       /\ evicted' = 0 \/ evicted' + MaxCompleted < n
  <2>1. CASE x = 0
    BY <2>1, <1>3, <1>8 DEF Bygone
  <2>2. CASE x # 0
    <3>1. x \in 1..x /\ x \in 1..Len(o)
      BY <2>2, <1>1, <1>2
    <3>2. evicted' = g[o[x]] /\ o[x] \in popped /\ evicted' \in Nat
      BY <3>1, <2>2, <1>3, ListedFacts
    <3>3. \A id \in completed' : age'[id] > evicted'
      <4>1. \A id \in completed' : g[id] \in Nat /\ g[o[x]] < g[id]
        BY <3>2, <1>8, <1>12 DEF Listed
      <4> QED
        BY <4>1, <3>2, <1>8
    <3>4. Len(order') + evicted' < n
      <4>1. Len(order') # 0
        BY <2>2, <1>1, <1>2, <1>4
      <4> DEFINE r == completed'
                 l == order'
                 a == age'
                 e == evicted'
      <4>2. Listed(r, l, a, n) /\ e \in Nat /\ (\A id \in r : a[id] > e) /\ Len(l) # 0
        BY <4>1, <3>2, <3>3, <1>11
      <4> HIDE DEF r, l, a, e
      <4>3. Len(l) + e < n
        BY <4>2, AgeRoom
      <4> QED
        BY <4>3 DEF l, e
    <3> QED
      BY <3>2, <3>3, <3>4, <2>2, <1>1, <1>2, <1>4
  <2> QED
    BY <2>1, <2>2
<1> QED
  BY <1>2, <1>4, <1>7, <1>11, <1>14, <1>15 DEF Bygone

\* The newest MaxCompleted, as KeepsNewest counts them.
LEMMA NewestByCount ==
    ASSUME NEW r, NEW K, NEW h, Newest(r, K, h), \A x \in K : h[x] \in Nat
    PROVE  r = {x \in K : Cardinality({y \in K : h[y] > h[x]}) < MaxCompleted}
<1> DEFINE Above(x) == {y \in K : h[y] > h[x]}
<1>1. /\ IsFiniteSet(K) /\ r \subseteq K /\ IsFiniteSet(r)
      /\ Cardinality(r) \in Nat /\ Cardinality(r) <= MaxCompleted /\ MaxCompleted \in Nat
  BY FS_Subset, FS_CardinalityType, HistoryAssumption DEF Newest
<1>2. \A x \in K : IsFiniteSet(Above(x)) /\ Cardinality(Above(x)) \in Nat
  <2>1. \A x \in K : Above(x) \in SUBSET K
    OBVIOUS
  <2> HIDE DEF Above
  <2> QED
    BY <2>1, <1>1, FS_Subset, FS_CardinalityType
<1>3. ASSUME NEW x \in r PROVE Cardinality(Above(x)) < MaxCompleted
  <2>1. Above(x) \in SUBSET (r \ {x})
    <3> SUFFICES ASSUME NEW y \in K, h[y] > h[x] PROVE y \in r /\ y # x
      OBVIOUS
    <3>1. y # x
      BY <1>1
    <3>2. y \in r
      BY <1>1 DEF Newest
    <3> QED
      BY <3>1, <3>2
  <2>2. IsFiniteSet(r \ {x}) /\ Cardinality(r \ {x}) = Cardinality(r) - 1
    BY <1>1, FS_RemoveElement
  <2> HIDE DEF Above
  <2>3. Cardinality(Above(x)) <= Cardinality(r \ {x})
    BY <2>1, <2>2, FS_Subset
  <2> QED
    BY <2>2, <2>3, <1>1, <1>2
<1>4. ASSUME NEW x \in K \ r PROVE ~(Cardinality(Above(x)) < MaxCompleted)
  <2>1. r \in SUBSET Above(x) /\ Cardinality(r) = MaxCompleted
    BY <1>1 DEF Newest
  <2> HIDE DEF Above
  <2>2. Cardinality(r) <= Cardinality(Above(x))
    BY <2>1, <1>2, FS_Subset
  <2> QED
    BY <2>1, <2>2, <1>1, <1>2
<1> HIDE DEF Above
<1>5. r = {x \in K : Cardinality(Above(x)) < MaxCompleted}
  BY <1>1, <1>3, <1>4
<1> QED
  BY <1>5 DEF Above

LEMMA StepKeepsNewest ==
    ASSUME NEW c, NEW g, Newest(completed', c, g),
           \A id \in c : g[id] \in Nat,
           \A id \in completed' : age'[id] = g[id],
           \A id \in completed : id \notin displaced' => id \in c /\ age[id] = g[id]
    PROVE  KeepsNewest
<1> DEFINE K == completed' \cup {id \in completed : id \notin displaced'}
           h == [id \in K |-> IF id \in completed' THEN age'[id] ELSE age[id]]
           r == completed'
<1>1. completed' \subseteq c /\ IsFiniteSet(c) /\ K \in SUBSET c
  BY DEF Newest
<1>2. \A id \in K : h[id] = g[id] /\ h[id] \in Nat
  BY <1>1
<1>3. IsFiniteSet(K)
  <2> HIDE DEF K
  <2> QED
    BY <1>1, FS_Subset
<1>4. Newest(r, K, h)
  <2>1. r \subseteq K
    OBVIOUS
  <2> HIDE DEF K, h
  <2> QED
    BY <2>1, <1>1, <1>2, <1>3 DEF Newest
<1>5. r = {x \in K : Cardinality({y \in K : h[y] > h[x]}) < MaxCompleted}
  <2> HIDE DEF r, K, h
  <2> QED
    BY <1>2, <1>4, NewestByCount
<1>6. \A x \in K : {y \in K : h[y] > h[x]} =
          {y \in K : (IF y \in completed' THEN age'[y] ELSE age[y])
                      > (IF x \in completed' THEN age'[x] ELSE age[x])}
  OBVIOUS
<1> HIDE DEF h
<1>7. r = {x \in K : Cardinality({y \in K : (IF y \in completed' THEN age'[y] ELSE age[y])
                      > (IF x \in completed' THEN age'[x] ELSE age[x])}) < MaxCompleted}
  BY <1>5, <1>6
<1> QED
  BY <1>7 DEF KeepsNewest, r, K

\* Where nothing is evicted.
LEMMA NothingEvicted ==
    ASSUME HistoryInv', \A id \in completed : id \notin displaced' => id \in completed' /\ age'[id] = age[id]
    PROVE  KeepsNewest
<1>1. IsFiniteSet(completed') /\ Cardinality(completed') = Len(order')
  BY ListedCount DEF HistoryInv
<1>2. Newest(completed', completed', age')
  BY <1>1 DEF Newest, HistoryInv
<1>3. \A id \in completed' : age'[id] \in Nat
  BY ListedFacts DEF HistoryInv, Listed
<1> QED
  BY <1>2, <1>3, StepKeepsNewest

----------------------------------------------------------------------------
(* The actions.                                                            *)

\* wake_completed_child: what is left keeps its order.
LEMMA DisplaceStep ==
    ASSUME HistoryInv, NEW id \in Ids, Displace(id)
    PROVE  HistoryInv' /\ KeepsNewest
<1> DEFINE I == {i \in 1..Len(order) : order[i] = id}
<1>1. PICK k \in 1..Len(order) : order[k] = id
  BY DEF Displace, HistoryInv, Listed
<1>2. I = {k}
  BY <1>1, ListedFacts DEF HistoryInv
<1>3. Min(I) = k
  BY <1>1, <1>2, ListedFacts DEF Min, HistoryInv
<1>4. order' = RemoveAt(order, k)
  BY <1>1, <1>2, <1>3 DEF Displace, RemoveFirst, SelectInSeq
<1>5. /\ order \in Seq(Ids) /\ Len(order) \in Nat /\ age \in [Ids -> Nat]
      /\ completed \subseteq Ids /\ completed = {order[i] : i \in 1..Len(order)}
  BY ListedFacts DEF HistoryInv, Listed
<1>6. /\ order' \in Seq(Ids) /\ Len(order') = Len(order) - 1
      /\ \A n \in 1..Len(order') : order'[n] = IF n < k THEN order[n] ELSE order[n + 1]
  BY <1>4, <1>5, RemoveAtProps
<1>7. \A n \in 1..Len(order') :
        (IF n < k THEN n ELSE n + 1) \in 1..Len(order) /\ (IF n < k THEN n ELSE n + 1) # k
  BY <1>5, <1>6
<1>8. completed' = {order'[n] : n \in 1..Len(order')}
  <2>1. ASSUME NEW x \in completed' PROVE \E n \in 1..Len(order') : x = order'[n]
    <3>1. PICK i \in 1..Len(order) : x = order[i]
      BY <1>5 DEF Displace
    <3>2. i # k
      BY <1>1, <3>1 DEF Displace
    <3>3. CASE i < k
      <4>1. i \in 1..Len(order')
        BY <3>3, <1>5, <1>6
      <4> QED
        BY <3>1, <3>3, <4>1, <1>6
    <3>4. CASE i > k
      <4>1. i - 1 \in 1..Len(order') /\ ~(i - 1 < k) /\ (i - 1) + 1 = i
        BY <3>4, <1>5, <1>6
      <4> QED
        BY <3>1, <4>1, <1>6
    <3> QED
      BY <3>2, <3>3, <3>4, <1>5
  <2>2. ASSUME NEW n \in 1..Len(order') PROVE order'[n] \in completed'
    <3>1. PICK i \in 1..Len(order) : i # k /\ order'[n] = order[i]
      BY <1>6, <1>7
    <3>2. order[i] # id
      BY <3>1, <1>2
    <3> QED
      BY <3>1, <3>2, <1>5 DEF Displace
  <2> QED
    BY <2>1, <2>2
<1>9. \A m, n \in 1..Len(order') : m < n => age'[order'[m]] < age'[order'[n]]
  <2> SUFFICES ASSUME NEW m \in 1..Len(order'), NEW n \in 1..Len(order'), m < n
               PROVE  age[order'[m]] < age[order'[n]]
    BY DEF Displace
  <2> DEFINE F(q) == IF q < k THEN q ELSE q + 1
  <2>1. F(m) \in 1..Len(order) /\ F(n) \in 1..Len(order) /\ F(m) < F(n)
    <3>1. F(m) \in 1..Len(order) /\ F(n) \in 1..Len(order)
      BY <1>7
    <3>2. m \in Nat /\ n \in Nat /\ k \in Nat
      BY <1>5, <1>6
    <3> QED
      BY <3>1, <3>2
  <2>2. order'[m] = order[F(m)] /\ order'[n] = order[F(n)]
    BY <1>6
  <2> HIDE DEF F
  <2> QED
    BY <2>1, <2>2 DEF HistoryInv, Listed
<1>10. Listed(completed', order', age', nextAge')
  BY <1>5, <1>6, <1>8, <1>9 DEF Displace, HistoryInv, Listed
<1>11. Away(completed', displaced', age', nextAge')
  <2>1. id \in completed /\ 1 <= age[id] /\ age[id] < nextAge
    BY DEF Displace, HistoryInv, Listed
  <2>2. \A y \in completed : y # id => age[y] # age[id]
    <3> SUFFICES ASSUME NEW y \in completed, y # id PROVE age[y] # age[id]
      OBVIOUS
    <3>1. PICK i \in 1..Len(order) : y = order[i]
      BY <1>5
    <3>2. i < k \/ k < i
      BY <1>1, <3>1, <1>5
    <3>3. age[order[i]] \in Nat /\ age[order[k]] \in Nat
      BY ListedFacts DEF HistoryInv
    <3> QED
      BY <1>1, <3>1, <3>2, <3>3 DEF HistoryInv, Listed
  <2> QED
    BY <2>1, <2>2 DEF Displace, HistoryInv, Away
<1>12. HistoryInv'
  BY <1>5, <1>6, <1>10, <1>11, HistoryAssumption DEF Displace, HistoryInv, Bygone
<1>13. KeepsNewest
  BY <1>12, NothingEvicted DEF Displace
<1> QED
  BY <1>12, <1>13

LEMMA LeastNat ==
    ASSUME NEW T, T \subseteq Nat, T # {}
    PROVE  \E x \in T : \A y \in T : x <= y
<1>1. PICK x \in T : \A y \in T : ~(<<y, x>> \in OpToRel(<, Nat))
  BY NatLessThanWellFounded, WFMin
<1>2. \A y \in T : ~(y < x)
  BY <1>1 DEF OpToRel
<1> QED
  BY <1>2

\* The place of a record that comes back: after the older, before the newer.
LEMMA RestorePlace ==
    ASSUME HistoryInv, NEW id \in displaced
    PROVE  /\ RestoreIndex(id) \in 1..(Len(order) + 1)
           /\ \A i \in 1..Len(order) : age[order[i]] < age[id] <=> i < RestoreIndex(id)
           /\ \A i \in 1..Len(order) : age[order[i]] > age[id] <=> i >= RestoreIndex(id)
<1> DEFINE newer == {i \in 1..Len(order) : age[order[i]] > age[id]}
<1>1. /\ Len(order) \in Nat /\ age[id] \in Nat
      /\ \A i \in 1..Len(order) : age[order[i]] \in Nat /\ age[order[i]] # age[id]
  BY ListedFacts DEF HistoryInv, Listed, Away
<1>2. CASE newer = {}
  BY <1>1, <1>2 DEF RestoreIndex
<1>3. CASE newer # {}
  <2>1. \E i \in newer : \A j \in newer : i <= j
    <3>1. newer \subseteq Nat
      BY <1>1
    <3> HIDE DEF newer
    <3> QED
      BY <3>1, <1>3, LeastNat
  <2>2. RestoreIndex(id) = CHOOSE i \in newer : \A j \in newer : i <= j
    BY <1>3 DEF RestoreIndex
  <2> DEFINE k == RestoreIndex(id)
  <2>3. k \in newer /\ \A j \in newer : k <= j
    BY <2>1, <2>2
  <2> HIDE DEF k
  <2>4. \A i \in 1..Len(order) : i >= k => age[order[i]] > age[id]
    <3> SUFFICES ASSUME NEW i \in 1..Len(order), i > k PROVE age[order[i]] > age[id]
      BY <2>3, <1>1
    <3>1. age[order[k]] < age[order[i]]
      BY <2>3 DEF HistoryInv, Listed
    <3> QED
      BY <3>1, <2>3, <1>1
  <2>5. \A i \in 1..Len(order) : i < k => age[order[i]] < age[id]
    BY <2>3, <1>1
  <2> QED
    BY <2>3, <2>4, <2>5, <1>1 DEF k
<1> QED
  BY <1>2, <1>3

\* restore_displaced_completion: a record above the floor is newer than all that
\* was evicted, and goes back to its place.
LEMMA RestoreStep ==
    ASSUME HistoryInv, NEW id \in Ids, Restore(id)
    PROVE  HistoryInv' /\ KeepsNewest
<1>1. id \in displaced /\ displaced' = displaced \ {id} /\ nextAge' = nextAge
  BY DEF Restore
<1>2. /\ order \in Seq(Ids) /\ Len(order) \in Nat /\ age \in [Ids -> Nat]
      /\ completed \subseteq Ids /\ completed = {order[i] : i \in 1..Len(order)}
      /\ id \notin completed /\ age[id] >= 1 /\ age[id] < nextAge /\ nextAge \in Nat
  BY <1>1, ListedFacts DEF HistoryInv, Listed, Away
<1>3. CASE age[id] < Floor
  <2>1. /\ age' = [age EXCEPT ![id] = 0] /\ UNCHANGED <<completed, order, evicted>>
    BY <1>3 DEF Restore
  <2>2. /\ age' \in [Ids -> Nat] /\ \A x \in Ids : x # id => age'[x] = age[x]
    BY <2>1, <1>2
  <2>3. \A i \in 1..Len(order) : order[i] \in completed /\ age'[order[i]] = age[order[i]]
    BY <2>2, <1>2
  <2>4. Listed(completed', order', age', nextAge')
    BY <2>1, <2>2, <2>3, <1>1, <1>2 DEF HistoryInv, Listed
  <2>5. Away(completed', displaced', age', nextAge')
    BY <2>1, <2>2, <1>1, <1>2 DEF HistoryInv, Away
  <2>6. Bygone(completed', age', nextAge', evicted')
    BY <2>1, <2>2, <1>1, <1>2 DEF HistoryInv, Bygone
  <2>7. HistoryInv'
    BY <2>1, <2>4, <2>5, <2>6, <1>1 DEF HistoryInv
  <2>8. KeepsNewest
    BY <2>1, <2>2, <2>7, <1>2, NothingEvicted
  <2> QED
    BY <2>7, <2>8
<1>4. CASE ~(age[id] < Floor)
  <2> DEFINE k == RestoreIndex(id)
             c == completed \cup {id}
             o == InsertAt(order, k, id)
  <2>1. /\ k \in 1..(Len(order) + 1)
        /\ \A i \in 1..Len(order) : i < k => age[order[i]] < age[id]
        /\ \A i \in 1..Len(order) : i >= k => age[order[i]] > age[id]
    BY <1>1, RestorePlace
  <2>2. EvictOverflow(c, o, age)
    BY <1>4 DEF Restore
  <2> HIDE DEF k
  <2>3. /\ o \in Seq(Ids) /\ Len(o) = Len(order) + 1
        /\ \A n \in 1..Len(o) : o[n] = IF n < k THEN order[n] ELSE IF n = k THEN id ELSE order[n - 1]
    BY <2>1, <1>2, InsertAtProps, SMTT(20)
  <2> HIDE DEF o
  <2>4. \A n \in 1..Len(o) :
           /\ n < k => n \in 1..Len(order) /\ o[n] = order[n]
           /\ n = k => o[n] = id
           /\ n > k => n - 1 \in 1..Len(order) /\ n - 1 >= k /\ o[n] = order[n - 1]
    BY <2>1, <2>3, <1>2
  <2>5. c = {o[n] : n \in 1..Len(o)}
    <3>1. ASSUME NEW x \in c PROVE \E n \in 1..Len(o) : x = o[n]
      <4>1. CASE x = id
        <5>1. k \in 1..Len(o)
          BY <2>1, <2>3, <1>2
        <5> QED
          BY <5>1, <4>1, <2>4
      <4>2. CASE x # id
        <5>1. PICK i \in 1..Len(order) : x = order[i]
          BY <4>2, <1>2
        <5>2. CASE i < k
          <6>1. i \in 1..Len(o)
            BY <2>3, <1>2
          <6> QED
            BY <6>1, <5>1, <5>2, <2>4
        <5>3. CASE i >= k
          <6>1. i + 1 \in 1..Len(o) /\ i + 1 > k /\ (i + 1) - 1 = i
            BY <5>3, <2>1, <2>3, <1>2
          <6> QED
            BY <6>1, <5>1, <2>4
        <5> QED
          BY <5>2, <5>3, <2>1, <1>2
      <4> QED
        BY <4>1, <4>2
    <3>2. ASSUME NEW n \in 1..Len(o) PROVE o[n] \in c
      <4>1. n < k \/ n = k \/ n > k
        BY <2>1, <2>3, <1>2
      <4>2. n = k => o[n] = id
        BY <2>4
      <4>3. n # k => \E i \in 1..Len(order) : o[n] = order[i]
        BY <4>1, <2>4
      <4> QED
        BY <4>2, <4>3, <1>2
    <3> QED
      BY <3>1, <3>2
  <2>6. \A m, n \in 1..Len(o) : m < n => age[o[m]] < age[o[n]]
    <3> SUFFICES ASSUME NEW m \in 1..Len(o), NEW n \in 1..Len(o), m < n
                 PROVE  age[o[m]] < age[o[n]]
      OBVIOUS
    <3>0. k \in Nat /\ m \in Nat /\ n \in Nat /\ age[id] \in Nat
          /\ \A i \in 1..Len(order) : age[order[i]] \in Nat
      <4>1. \A i \in 1..Len(order) : age[order[i]] \in Nat
        BY ListedFacts DEF HistoryInv
      <4>2. k \in Nat /\ m \in Nat /\ n \in Nat
        BY <2>1, <2>3, <1>2
      <4> QED
        BY <4>1, <4>2, <1>2
    <3>1. CASE n < k
      <4>1. m < k
        BY <3>0, <3>1
      <4>2. /\ o[m] = order[m] /\ m \in 1..Len(order) /\ o[n] = order[n] /\ n \in 1..Len(order)
        BY <4>1, <3>1, <2>4
      <4> QED
        BY <4>2 DEF HistoryInv, Listed
    <3>2. CASE n = k
      <4>1. m \in 1..Len(order) /\ o[m] = order[m] /\ o[n] = id
        BY <3>2, <2>4
      <4> QED
        BY <4>1, <3>2, <2>1
    <3>3. CASE n > k /\ m <= k
      <4>1. o[n] = order[n - 1] /\ n - 1 \in 1..Len(order) /\ age[order[n - 1]] > age[id]
        BY <3>3, <2>1, <2>4
      <4>2. CASE m = k
        BY <4>1, <4>2, <2>4, <3>0
      <4>3. CASE m < k
        <5>1. m \in 1..Len(order) /\ o[m] = order[m] /\ age[order[m]] < age[id]
          BY <4>3, <2>1, <2>4
        <5> QED
          BY <4>1, <5>1, <3>0
      <4> QED
        BY <3>0, <3>3, <4>2, <4>3
    <3>4. CASE n > k /\ m > k
      <4>1. /\ o[n] = order[n - 1] /\ n - 1 \in 1..Len(order)
            /\ o[m] = order[m - 1] /\ m - 1 \in 1..Len(order)
        BY <3>4, <2>4
      <4>2. m - 1 < n - 1
        BY <3>0
      <4> QED
        BY <4>1, <4>2 DEF HistoryInv, Listed
    <3> QED
      BY <3>0, <3>1, <3>2, <3>3, <3>4
  <2>7. Listed(c, o, age, nextAge)
    BY <2>3, <2>5, <2>6, <1>2 DEF HistoryInv, Listed
  <2>8. Bygone(c, age, nextAge, evicted)
    <3>1. age[id] > evicted
      BY <1>2, <1>4, HistoryAssumption DEF Floor, HistoryInv, Bygone
    <3> QED
      BY <3>1 DEF HistoryInv, Bygone
  <2>9. /\ Listed(completed', order', age', nextAge) /\ Bygone(completed', age', nextAge, evicted')
        /\ Len(order') <= MaxCompleted /\ Newest(completed', c, age)
        /\ \A x \in Ids : x \notin c \/ x \in completed' => age'[x] = age[x]
    <3> HIDE DEF c
    <3> QED
      BY <2>2, <2>7, <2>8, EvictOverflowEffect
  <2>10. /\ completed' \subseteq c /\ c \subseteq Ids
         /\ \A x \in completed' \cup displaced' : age'[x] = age[x]
    BY <2>9, <1>1, <1>2 DEF Newest, HistoryInv, Away
  <2>11. Away(completed', displaced', age', nextAge')
    BY <2>10, <1>1, <1>2 DEF HistoryInv, Away
  <2>12. HistoryInv'
    BY <2>9, <2>11, <1>1 DEF HistoryInv
  <2>13. KeepsNewest
    <3>1. /\ \A x \in c : age[x] \in Nat
          /\ \A x \in completed' : age'[x] = age[x]
          /\ \A x \in completed : x \in c
      BY <2>10, <1>2
    <3> HIDE DEF c
    <3> QED
      BY <2>9, <3>1, StepKeepsNewest
  <2> QED
    BY <2>12, <2>13
<1> QED
  BY <1>3, <1>4

\* finish_child: the records of one iteration are the newest, however many.
LEMMA CompleteStep ==
    ASSUME HistoryInv, NEW batch \in Seq(Ids), IsInjective(batch), Complete(batch)
    PROVE  HistoryInv' /\ KeepsNewest
<1> DEFINE n == Len(batch)
           ids == Range(batch)
           g == [id \in Ids |-> IF id \in ids
                                THEN nextAge + (CHOOSE i \in 1..n : batch[i] = id) - 1
                                ELSE age[id]]
           c == completed \cup ids
           o == order \o batch
           L == Len(order)
<1>1. /\ ids \cap completed = {} /\ nextAge' = nextAge + n /\ displaced' = displaced \ ids
      /\ EvictOverflow(c, o, g)
  BY DEF Complete
<1>2. /\ order \in Seq(Ids) /\ L \in Nat /\ age \in [Ids -> Nat]
      /\ completed \subseteq Ids /\ completed = {order[i] : i \in 1..L}
      /\ nextAge \in Nat /\ nextAge >= 1
  BY ListedFacts DEF HistoryInv, Listed
<1>3. /\ n \in Nat /\ DOMAIN batch = 1..n /\ \A i \in 1..n : batch[i] \in Ids
  BY LenProperties, ElementOfSeq
<1>4. /\ ids = {batch[i] : i \in 1..n} /\ ids \subseteq Ids
      /\ \A i, j \in 1..n : batch[i] = batch[j] => i = j
  BY <1>3 DEF Range, IsInjective
<1> HIDE DEF ids, n, L
<1>5. \A i \in 1..n : g[batch[i]] = nextAge + i - 1
  <2> SUFFICES ASSUME NEW i \in 1..n PROVE g[batch[i]] = nextAge + i - 1
    OBVIOUS
  <2>1. (CHOOSE j \in 1..n : batch[j] = batch[i]) = i
    BY <1>4
  <2>2. batch[i] \in ids /\ batch[i] \in Ids
    BY <1>3, <1>4
  <2> QED
    BY <2>1, <2>2
<1>6. \A x \in Ids : x \notin ids => g[x] = age[x]
  OBVIOUS
<1>7. DOMAIN g = Ids
  OBVIOUS
<1> HIDE DEF g
<1>8. \A x \in ids : g[x] \in Nat /\ g[x] >= nextAge /\ g[x] < nextAge + n
  <2> SUFFICES ASSUME NEW i \in 1..n
               PROVE  /\ g[batch[i]] \in Nat /\ g[batch[i]] >= nextAge
                      /\ g[batch[i]] < nextAge + n
    BY <1>4
  <2> QED
    BY <1>2, <1>3, <1>5
<1>9. g \in [Ids -> Nat]
  <2>1. \A x \in Ids : g[x] \in Nat
    BY <1>2, <1>6, <1>8
  <2>2. g = [x \in Ids |-> g[x]]
    BY DEF g
  <2> QED
    BY <2>1, <2>2
<1>10. \A x \in completed : x \in Ids /\ x \notin ids /\ g[x] = age[x] /\ g[x] >= 1 /\ g[x] < nextAge
  BY <1>1, <1>2, <1>6 DEF HistoryInv, Listed
<1>11. /\ o \in Seq(Ids) /\ Len(o) = L + n
       /\ \A i \in 1..(L + n) : o[i] = IF i <= L THEN order[i] ELSE batch[i - L]
  BY <1>2, ConcatProperties DEF L, n
<1> HIDE DEF o
<1>12. \A i \in 1..(L + n) :
          /\ i <= L => i \in 1..L /\ o[i] = order[i] /\ o[i] \in completed
          /\ i > L => i - L \in 1..n /\ o[i] = batch[i - L] /\ o[i] \in ids
  <2>1. \A i \in 1..(L + n) :
          /\ i <= L => i \in 1..L /\ o[i] = order[i]
          /\ i > L => i - L \in 1..n /\ o[i] = batch[i - L]
    BY <1>2, <1>3, <1>11
  <2> QED
    BY <2>1, <1>2, <1>4
<1>13. c = {o[i] : i \in 1..Len(o)}
  <2>1. ASSUME NEW x \in completed PROVE \E i \in 1..Len(o) : x = o[i]
    <3>1. PICK i \in 1..L : x = order[i]
      BY <1>2
    <3>2. i \in 1..(L + n) /\ i <= L
      BY <1>2, <1>3
    <3> QED
      BY <3>1, <3>2, <1>11
  <2>2. ASSUME NEW x \in ids PROVE \E i \in 1..Len(o) : x = o[i]
    <3>1. PICK i \in 1..n : x = batch[i]
      BY <1>4
    <3>2. L + i \in 1..(L + n) /\ ~(L + i <= L) /\ (L + i) - L = i
      BY <1>2, <1>3
    <3> QED
      BY <3>1, <3>2, <1>11
  <2>3. ASSUME NEW i \in 1..Len(o) PROVE o[i] \in c
    <3>1. i \in 1..(L + n) /\ (i <= L \/ i > L)
      BY <1>2, <1>3, <1>11
    <3> QED
      BY <3>1, <1>12
  <2> QED
    BY <2>1, <2>2, <2>3
<1>14. \A i, j \in 1..Len(o) : i < j => g[o[i]] < g[o[j]]
  <2> SUFFICES ASSUME NEW i \in 1..(L + n), NEW j \in 1..(L + n), i < j
               PROVE  g[o[i]] < g[o[j]]
    BY <1>11
  <2>0. i \in Nat /\ j \in Nat
    BY <1>2, <1>3
  <2>1. CASE j <= L
    <3>1. i <= L
      BY <2>0, <2>1, <1>2
    <3>2. /\ i \in 1..L /\ o[i] = order[i] /\ g[o[i]] = age[order[i]]
          /\ j \in 1..L /\ o[j] = order[j] /\ g[o[j]] = age[order[j]]
      BY <2>1, <3>1, <1>10, <1>12
    <3> QED
      BY <3>2 DEF HistoryInv, Listed, L
  <2>2. CASE i <= L /\ j > L
    <3>1. o[i] \in completed /\ o[j] \in ids
      BY <2>2, <1>12
    <3>2. g[o[i]] < nextAge /\ g[o[j]] >= nextAge /\ g[o[i]] \in Nat /\ g[o[j]] \in Nat
      BY <3>1, <1>2, <1>8, <1>10
    <3> QED
      BY <3>2, <1>2
  <2>3. CASE i > L
    <3>1. j > L
      BY <2>0, <2>3, <1>2
    <3>2. /\ i - L \in 1..n /\ g[o[i]] = nextAge + (i - L) - 1
          /\ j - L \in 1..n /\ g[o[j]] = nextAge + (j - L) - 1
      BY <2>3, <3>1, <1>5, <1>12
    <3> QED
      BY <3>2, <2>0, <1>2
  <2> QED
    BY <2>0, <2>1, <2>2, <2>3, <1>2
<1>15. Listed(c, o, g, nextAge + n)
  <2>1. \A x \in c : g[x] >= 1 /\ g[x] < nextAge + n
    <3>1. \A x \in completed : g[x] \in Nat /\ g[x] >= 1 /\ g[x] < nextAge + n
      BY <1>2, <1>3, <1>9, <1>10
    <3>2. \A x \in ids : g[x] >= 1
      BY <1>2, <1>8
    <3> QED
      BY <3>1, <3>2, <1>8
  <2>2. nextAge + n \in Nat
    BY <1>2, <1>3
  <2> QED
    BY <2>1, <2>2, <1>9, <1>11, <1>13, <1>14 DEF Listed
<1>16. Bygone(c, g, nextAge + n, evicted)
  <2>1. /\ evicted \in Nat /\ \A x \in completed : g[x] > evicted
        /\ evicted = 0 \/ evicted + MaxCompleted < nextAge
    BY <1>10 DEF HistoryInv, Bygone
  <2>2. evicted < nextAge /\ (evicted = 0 \/ evicted + MaxCompleted < nextAge + n)
    BY <2>1, <1>2, <1>3, HistoryAssumption
  <2>3. \A x \in ids : g[x] > evicted
    BY <2>1, <2>2, <1>2, <1>8
  <2> QED
    BY <2>1, <2>2, <2>3 DEF Bygone
<1>17. /\ Listed(completed', order', age', nextAge + n)
       /\ Bygone(completed', age', nextAge + n, evicted')
       /\ Len(order') <= MaxCompleted /\ Newest(completed', c, g)
       /\ \A x \in Ids : x \notin c \/ x \in completed' => age'[x] = g[x]
  <2> HIDE DEF c
  <2> QED
    BY <1>1, <1>15, <1>16, EvictOverflowEffect
<1>18. completed' \subseteq c /\ c \subseteq Ids /\ \A x \in completed' : age'[x] = g[x]
  BY <1>2, <1>4, <1>17 DEF Newest
<1>19. \A x \in displaced' : x \in displaced /\ x \notin c /\ age'[x] = age[x]
                             /\ age[x] >= 1 /\ age[x] < nextAge /\ age[x] \in Nat
  BY <1>1, <1>2, <1>6, <1>17 DEF HistoryInv, Away
<1>20. Away(completed', displaced', age', nextAge')
  <2>1. displaced' \subseteq Ids /\ completed' \cap displaced' = {}
    BY <1>18, <1>19 DEF HistoryInv, Away
  <2>2. \A x \in displaced' : age'[x] >= 1 /\ age'[x] < nextAge'
    BY <1>1, <1>2, <1>3, <1>19
  <2>3. ASSUME NEW x \in displaced', NEW y \in completed' \cup displaced', x # y
        PROVE  age'[x] # age'[y]
    <3>1. CASE y \in ids /\ y \in completed'
      BY <3>1, <1>2, <1>8, <1>18, <1>19
    <3>2. CASE y \in completed /\ y \in completed'
      BY <2>3, <3>2, <1>10, <1>18, <1>19 DEF HistoryInv, Away
    <3>3. CASE y \in displaced'
      BY <2>3, <3>3, <1>19 DEF HistoryInv, Away
    <3> QED
      BY <3>1, <3>2, <3>3, <1>18
  <2> QED
    BY <2>1, <2>2, <2>3 DEF Away
<1>21. HistoryInv'
  BY <1>1, <1>2, <1>3, <1>17, <1>20 DEF HistoryInv
<1>22. KeepsNewest
  <2>1. /\ \A x \in c : g[x] \in Nat
        /\ \A x \in completed : x \in c /\ age[x] = g[x]
    BY <1>9, <1>10, <1>18
  <2> HIDE DEF c
  <2> QED
    BY <2>1, <1>17, <1>18, StepKeepsNewest
<1> QED
  BY <1>21, <1>22

----------------------------------------------------------------------------
(* The theorems.                                                           *)

LEMMA HistoryInit == Init => HistoryInv
<1> SUFFICES ASSUME Init PROVE HistoryInv
  OBVIOUS
<1>1. order = <<>> /\ order \in Seq(Ids) /\ Len(order) = 0 /\ 1..Len(order) = {}
  BY EmptySeq DEF Init
<1> QED
  BY <1>1, HistoryAssumption DEF Init, HistoryInv, Listed, Away, Bygone

LEMMA HistoryStep ==
    ASSUME HistoryInv, Next
    PROVE  HistoryInv' /\ KeepsNewest
<1>1. ASSUME NEW batch \in {s \in Batches : IsInjective(s)}, Complete(batch)
      PROVE  HistoryInv' /\ KeepsNewest
  <2>1. batch \in Seq(Ids) /\ IsInjective(batch)
    <3>1. CASE \E x \in Ids : batch = <<x>>
      BY <3>1
    <3>2. CASE \E x, y \in Ids : batch = <<x, y>>
      BY <3>2
    <3> QED
      BY <3>1, <3>2 DEF Batches
  <2> QED
    BY <1>1, <2>1, CompleteStep
<1>2. ASSUME NEW id \in Ids, Displace(id) PROVE HistoryInv' /\ KeepsNewest
  BY <1>2, DisplaceStep
<1>3. ASSUME NEW id \in Ids, Restore(id) PROVE HistoryInv' /\ KeepsNewest
  BY <1>3, RestoreStep
<1> QED
  BY <1>1, <1>2, <1>3 DEF Next

\* The deque and the map of finished children agree, whatever completes, is
\* woken, comes back or is evicted.
THEOREM HistoryInvariance == Spec => []HistoryInv
<1>1. HistoryInv /\ [Next]_vars => HistoryInv'
  <2> SUFFICES ASSUME HistoryInv, [Next]_vars PROVE HistoryInv'
    OBVIOUS
  <2>1. CASE UNCHANGED vars
    BY <2>1 DEF vars, HistoryInv, Listed, Away, Bygone
  <2> QED
    BY <2>1, HistoryStep
<1> QED
  BY <1>1, HistoryInit, PTL DEF Spec

\* The eviction order (completed_order) lists every record once, oldest first,
\* for any number of ids and of records kept.
THEOREM HistoryOrderExact == Spec => []OrderExact
<1>1. HistoryInv => OrderExact
  <2> SUFFICES ASSUME HistoryInv PROVE OrderExact
    OBVIOUS
  <2>1. /\ DOMAIN order = 1..Len(order)
        /\ \A i, j \in 1..Len(order) : order[i] = order[j] => i = j
    BY ListedFacts DEF HistoryInv
  <2> QED
    BY <2>1 DEF HistoryInv, Listed, Away, OrderExact, Range, IsInjective
<1> QED
  BY <1>1, HistoryInvariance, PTL

\* A record that a failed wake puts back (restore_displaced_completion) is newer
\* than every record evicted while it was away: the floor is high enough.
THEOREM HistoryNoResurrection == Spec => []NoResurrection
<1>1. HistoryInv => NoResurrection
  BY DEF HistoryInv, Bygone, NoResurrection
<1> QED
  BY <1>1, HistoryInvariance, PTL

\* Popping the front of the deque keeps exactly the MaxCompleted newest records:
\* the abstraction of evict_completed_overflow in SubagentCoordinator is right.
THEOREM HistoryKeepsNewest == Spec => KeepsNewestProp
<1>1. HistoryInv /\ [Next]_vars => [KeepsNewest]_vars
  BY HistoryStep
<1> QED
  BY <1>1, HistoryInvariance, PTL DEF Spec, KeepsNewestProp
============================================================================
