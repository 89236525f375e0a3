-------------------------- MODULE SchedulerProofs --------------------------
(***************************************************************************)
(* What holds of Scheduler for every set of tasks, prompts and children    *)
(* and every bound: its types, the freshness of its reservations, that its *)
(* use of the writer implements the register, and its loops.               *)
(***************************************************************************)
EXTENDS Scheduler, ResourcesPersistenceProofs, FiniteSetTheorems

----------------------------------------------------------------------------
(* Sequences.                                                              *)

\* The position of each entry of a filtered list.
Nths(K) == [m \in 1..Cardinality(K) |-> CHOOSE i \in K : Cardinality({j \in K : j <= i}) = m]

\* A filtered list holds elements of the list, each position once, and every
\* position asked for.
Picks(r, list, K, f) ==
    /\ f \in [1..Len(r) -> K]
    /\ \A n \in 1..Len(r) : r[n] = list[f[n]]
    /\ \A m, n \in 1..Len(r) : f[m] = f[n] => m = n
    /\ \A k \in K : \E n \in 1..Len(r) : f[n] = k

LEMMA RetainProps ==
    ASSUME NEW S, NEW list \in Seq(S), NEW K, K \subseteq 1..Len(list),
           NEW r, r = Retain(list, K)
    PROVE  r \in Seq(S) /\ Len(r) <= Len(list) /\ Picks(r, list, K, Nths(K))
<1> DEFINE Below(i) == {j \in K : j <= i}
           n == Cardinality(K)
           g == [i \in K |-> Cardinality(Below(i))]
           f == Nths(K)
<1>1. IsFiniteSet(K) /\ n \in Nat /\ n <= Len(list) /\ Len(list) \in Nat
  <2>1. Len(list) \in Nat /\ 1 \in Int /\ Len(list) \in Int
    BY LenProperties
  <2>2. /\ IsFiniteSet(1..Len(list))
        /\ Cardinality(1..Len(list)) = IF 1 > Len(list) THEN 0 ELSE Len(list) - 1 + 1
    BY <2>1, FS_Interval, Zenon
  <2>3. Cardinality(1..Len(list)) = Len(list)
    BY <2>1, <2>2
  <2>4. IsFiniteSet(K) /\ n <= Cardinality(1..Len(list))
    BY <2>2, FS_Subset, Zenon
  <2> QED
    BY <2>1, <2>3, <2>4, FS_CardinalityType
<1>0. \A i \in K : i \in Nat /\ i \in 1..Len(list)
  BY <1>1
<1>2. \A i \in K : /\ IsFiniteSet(Below(i)) /\ Cardinality(Below(i)) \in Nat
                   /\ Cardinality(Below(i)) <= n /\ Cardinality(Below(i)) >= 1
  <2> SUFFICES ASSUME NEW i \in K
               PROVE  /\ IsFiniteSet(Below(i)) /\ Cardinality(Below(i)) \in Nat
                      /\ Cardinality(Below(i)) <= n /\ Cardinality(Below(i)) >= 1
    OBVIOUS
  <2>1. Below(i) \subseteq K /\ i \in Below(i)
    BY <1>1
  <2>2. /\ IsFiniteSet(Below(i)) /\ Cardinality(Below(i)) \in Nat
        /\ Cardinality(Below(i)) <= n
    BY <2>1, <1>1, FS_Subset, FS_CardinalityType
  <2>3. Cardinality(Below(i)) # 0
    BY <2>1, <2>2, FS_EmptySet
  <2> QED
    BY <2>2, <2>3
<1>3. \A i, k \in K : i < k => Cardinality(Below(i)) < Cardinality(Below(k))
  <2> SUFFICES ASSUME NEW i \in K, NEW k \in K, i < k
               PROVE  Cardinality(Below(i)) < Cardinality(Below(k))
    OBVIOUS
  <2>1. Below(i) \subseteq Below(k) /\ k \in Below(k) /\ k \notin Below(i)
    <3>1. i \in Nat /\ k \in Nat
      BY <1>0
    <3>2. \A j \in K : j <= i => j <= k
      BY <3>1, <1>0
    <3>3. Below(i) \subseteq Below(k)
      BY <3>2
    <3>4. k <= k /\ ~(k <= i)
      BY <3>1
    <3> QED
      BY <3>3, <3>4
  <2>2. Below(i) # Below(k)
    BY <2>1
  <2>3. Cardinality(Below(i)) <= Cardinality(Below(k))
        /\ (Cardinality(Below(i)) = Cardinality(Below(k)) => Below(i) = Below(k))
    <3>1. IsFiniteSet(Below(k)) /\ Below(i) \in SUBSET Below(k)
      BY <2>1, <1>2
    <3> HIDE DEF Below
    <3> QED
      BY <3>1, FS_Subset
  <2> HIDE DEF Below, n
  <2> QED
    BY <2>2, <2>3, <1>2
<1>4. g \in [K -> 1..n]
  <2>1. \A i \in K : Cardinality(Below(i)) \in 1..n
    <3> HIDE DEF Below, n
    <3> QED
      BY <1>1, <1>2
  <2> HIDE DEF Below, n
  <2> QED
    BY <2>1
<1>5. g \in Injection(K, 1..n)
  <2>1. \A i, k \in K : g[i] = g[k] => i = k
    <3>1. \A i \in K : g[i] = Cardinality(Below(i))
      OBVIOUS
    <3> HIDE DEF Below, g, n
    <3> QED
      BY <3>1, <1>3, <1>2, <1>0
  <2> QED
    BY <1>4, <2>1 DEF Injection, IsInjective
<1>6. g \in Surjection(K, 1..n)
  <2>1. IsFiniteSet(1..n) /\ Cardinality(1..n) = n
    BY <1>1, FS_Interval
  <2> QED
    BY <1>5, <2>1, FS_Injection
<1>7. \A m \in 1..n : \E i \in K : Cardinality(Below(i)) = m
  BY <1>6 DEF Surjection
<1>8. f \in [1..n -> K] /\ \A m \in 1..n : Cardinality(Below(f[m])) = m
  BY <1>7 DEF Nths
<1>9. \A k \in K : \E m \in 1..n : f[m] = k
  <2> SUFFICES ASSUME NEW k \in K PROVE \E m \in 1..n : f[m] = k
    OBVIOUS
  <2>1. g[k] \in 1..n /\ f[g[k]] \in K /\ Cardinality(Below(f[g[k]])) = g[k]
    BY <1>4, <1>8
  <2>2. f[g[k]] = k
    <3>1. g[k] = Cardinality(Below(k))
      OBVIOUS
    <3>2. ASSUME NEW i \in K, Cardinality(Below(i)) = Cardinality(Below(k)) PROVE i = k
      <4>1. i \in Nat /\ k \in Nat /\ Cardinality(Below(i)) \in Nat
        BY <1>0, <1>2
      <4>2. ~(i < k) /\ ~(k < i)
        <5> HIDE DEF Below
        <5> QED
          BY <1>3, <4>1, <3>2
      <4> QED
        BY <4>1, <4>2
    <3> HIDE DEF Below, g, n, f
    <3> QED
      BY <2>1, <3>1, <3>2
  <2> QED
    BY <2>1, <2>2
<1>10. r = [m \in 1..n |-> list[f[m]]]
  BY DEF Retain, Nths
<1>11. r \in [1..n -> S]
  <2>1. \A m \in 1..n : f[m] \in 1..Len(list)
    BY <1>8, <1>0
  <2>2. \A m \in 1..n : list[f[m]] \in S
    BY <2>1, ElementOfSeq
  <2> HIDE DEF f, n
  <2> QED
    BY <1>10, <2>2
<1>12. r \in Seq(S) /\ Len(r) = n
  BY <1>11, <1>1, FunctionIsSeq
<1>13. \A m \in 1..n : r[m] = list[f[m]]
  BY <1>10
<1>14. \A l, m \in 1..n : f[l] = f[m] => l = m
  BY <1>8
<1> HIDE DEF g, n, Below
<1>15. Picks(r, list, K, f)
  <2> HIDE DEF f
  <2> QED
    BY <1>12, <1>1, <1>8, <1>9, <1>13, <1>14 DEF Picks
<1> QED
  BY <1>12, <1>1, <1>15

LEMMA RemoveAtProps ==
    ASSUME NEW S, NEW s \in Seq(S), NEW i \in 1..Len(s)
    PROVE  LET r == RemoveAt(s, i) IN
           /\ r \in Seq(S) /\ Len(r) = Len(s) - 1
           /\ \A n \in 1..Len(r) : r[n] = IF n < i THEN s[n] ELSE s[n + 1]
<1> DEFINE a == SubSeq(s, 1, i - 1)
           b == SubSeq(s, i + 1, Len(s))
<1>1. Len(s) \in Nat /\ i \in Nat /\ i >= 1 /\ i <= Len(s)
  BY LenProperties
<1>2. \A k \in 1..Len(s) : s[k] \in S
  BY ElementOfSeq
<1>3. /\ a \in Seq(S) /\ Len(a) = i - 1
      /\ \A n \in 1..(i - 1) : a[n] = s[n]
  <2>1. i - 1 \in Int /\ \A k \in 1..(i - 1) : s[k] \in S
    BY <1>1, <1>2
  <2>2. /\ a \in Seq(S) /\ Len(a) = IF 1 <= i - 1 THEN (i - 1) - 1 + 1 ELSE 0
        /\ \A n \in 1..((i - 1) - 1 + 1) : a[n] = s[1 + n - 1]
    BY <2>1, SubSeqProperties
  <2> QED
    BY <2>2, <1>1
<1>4. /\ b \in Seq(S) /\ Len(b) = Len(s) - i
      /\ \A n \in 1..(Len(s) - i) : b[n] = s[i + n]
  <2>1. i + 1 \in Int /\ \A k \in (i + 1)..Len(s) : s[k] \in S
    BY <1>1, <1>2
  <2>2. /\ b \in Seq(S) /\ Len(b) = IF i + 1 <= Len(s) THEN Len(s) - (i + 1) + 1 ELSE 0
        /\ \A n \in 1..(Len(s) - (i + 1) + 1) : b[n] = s[(i + 1) + n - 1]
    BY <2>1, <1>1, SubSeqProperties
  <2> QED
    BY <2>2, <1>1
<1>5. RemoveAt(s, i) = a \o b
  BY DEF RemoveAt
<1> HIDE DEF a, b
<1>6. /\ a \o b \in Seq(S) /\ Len(a \o b) = Len(a) + Len(b)
      /\ \A n \in 1..(Len(a) + Len(b)) : (a \o b)[n] = IF n <= Len(a) THEN a[n] ELSE b[n - Len(a)]
  BY <1>3, <1>4, ConcatProperties
<1>7. Len(a) + Len(b) = Len(s) - 1
  BY <1>1, <1>3, <1>4
<1>8. ASSUME NEW n \in 1..(Len(s) - 1)
      PROVE  (a \o b)[n] = IF n < i THEN s[n] ELSE s[n + 1]
  <2>0. n \in Nat
    BY <1>1
  <2>1. CASE n < i
    BY <2>0, <2>1, <1>1, <1>3, <1>6, <1>7
  <2>2. CASE n >= i
    <3>1. n - (i - 1) \in 1..(Len(s) - i) /\ i + (n - (i - 1)) = n + 1 /\ ~(n <= Len(a))
      BY <2>0, <2>2, <1>1, <1>3
    <3>2. (a \o b)[n] = b[n - (i - 1)]
      BY <3>1, <1>3, <1>6, <1>7
    <3> QED
      BY <3>1, <3>2, <1>4, <2>0, <2>2, <1>1
  <2>3. n < i \/ n >= i
    BY <2>0, <1>1
  <2> QED
    BY <2>1, <2>2, <2>3, Zenon
<1> QED
  BY <1>5, <1>6, <1>7, <1>8

LEMMA InsertAtProps ==
    ASSUME NEW S, NEW s \in Seq(S), NEW i \in 1..(Len(s) + 1), NEW e \in S
    PROVE  LET r == InsertAt(s, i, e) IN
           /\ r \in Seq(S) /\ Len(r) = Len(s) + 1
           /\ \A n \in 1..Len(r) : r[n] = IF n < i THEN s[n] ELSE IF n = i THEN e ELSE s[n - 1]
<1> DEFINE a == SubSeq(s, 1, i - 1)
           b == SubSeq(s, i, Len(s))
<1>1. Len(s) \in Nat /\ i \in Nat /\ i >= 1 /\ i <= Len(s) + 1
  BY LenProperties
<1>2. \A k \in 1..Len(s) : s[k] \in S
  BY ElementOfSeq
<1>3. /\ a \in Seq(S) /\ Len(a) = i - 1
      /\ \A n \in 1..(i - 1) : a[n] = s[n]
  <2>1. i - 1 \in Int /\ \A k \in 1..(i - 1) : s[k] \in S
    BY <1>1, <1>2
  <2>2. /\ a \in Seq(S) /\ Len(a) = IF 1 <= i - 1 THEN (i - 1) - 1 + 1 ELSE 0
        /\ \A n \in 1..((i - 1) - 1 + 1) : a[n] = s[1 + n - 1]
    BY <2>1, SubSeqProperties
  <2> QED
    BY <2>2, <1>1
<1>4. /\ b \in Seq(S) /\ Len(b) = Len(s) - i + 1
      /\ \A n \in 1..(Len(s) - i + 1) : b[n] = s[i + n - 1]
  <2>1. i \in Int /\ \A k \in i..Len(s) : s[k] \in S
    BY <1>1, <1>2
  <2>2. /\ b \in Seq(S) /\ Len(b) = IF i <= Len(s) THEN Len(s) - i + 1 ELSE 0
        /\ \A n \in 1..(Len(s) - i + 1) : b[n] = s[i + n - 1]
    BY <2>1, <1>1, SubSeqProperties
  <2> QED
    BY <2>2, <1>1
<1>5. InsertAt(s, i, e) = (a \o <<e>>) \o b
  BY DEF InsertAt
<1> HIDE DEF a, b
<1>6. <<e>> \in Seq(S) /\ Len(<<e>>) = 1 /\ <<e>>[1] = e
  OBVIOUS
<1> DEFINE c == a \o <<e>>
<1>7. /\ c \in Seq(S) /\ Len(c) = Len(a) + 1
      /\ \A n \in 1..(Len(a) + 1) : c[n] = IF n <= Len(a) THEN a[n] ELSE <<e>>[n - Len(a)]
  BY <1>3, <1>6, ConcatProperties
<1>8. \A n \in 1..(Len(a) + 1) : c[n] = IF n <= Len(a) THEN a[n] ELSE e
  BY <1>7, <1>6, <1>3, <1>1
<1> HIDE DEF c
<1>9. /\ c \o b \in Seq(S) /\ Len(c \o b) = Len(c) + Len(b)
      /\ \A n \in 1..(Len(c) + Len(b)) : (c \o b)[n] = IF n <= Len(c) THEN c[n] ELSE b[n - Len(c)]
  BY <1>7, <1>4, ConcatProperties
<1>10. InsertAt(s, i, e) = c \o b
  BY <1>5 DEF c
<1>11. Len(c) = i /\ Len(c) + Len(b) = Len(s) + 1
  BY <1>1, <1>3, <1>4, <1>7
<1>12. ASSUME NEW n \in 1..(Len(s) + 1)
       PROVE  (c \o b)[n] = IF n < i THEN s[n] ELSE IF n = i THEN e ELSE s[n - 1]
  <2>0. n \in Nat
    BY <1>1
  <2>1. CASE n <= i
    BY <2>1, <1>1, <1>3, <1>8, <1>9, <1>11
  <2>2. CASE n > i
    <3>1. n - i \in 1..(Len(s) - i + 1) /\ i + (n - i) - 1 = n - 1 /\ ~(n <= Len(c))
      BY <2>2, <1>1, <1>11
    <3>2. (c \o b)[n] = b[n - i]
      BY <3>1, <1>9, <1>11
    <3> QED
      BY <3>1, <3>2, <1>4, <2>2, <1>1
  <2>3. n <= i \/ n > i
    BY <2>0, <1>1
  <2> QED
    BY <2>1, <2>2, <2>3, Zenon
<1> QED
  BY <1>9, <1>10, <1>11, <1>12

----------------------------------------------------------------------------
(* Lists of tasks, by the entries they hold.                               *)

Entries(list) == {list[i] : i \in 1..Len(list)}

\* A list as the scheduler keeps it: at most MaxTasks tasks, each with an id
\* of its own.
ListOK(list) == list \in Seq(Task) /\ Len(list) <= MaxTasks /\ UniqueIds(list)

LEMMA IdsOfEntries ==
    ASSUME NEW list
    PROVE  /\ \A id : id \in Ids(list) <=> \E t \in Entries(list) : t.id = id
           /\ \A i \in 1..Len(list) : list[i] \in Entries(list)
BY DEF Ids, Entries

LEMMA EntriesOK ==
    ASSUME NEW list, ListOK(list)
    PROVE  /\ Entries(list) \subseteq Task /\ Ids(list) \subseteq Tasks /\ Len(list) \in Nat
           /\ \A s, t \in Entries(list) : s.id = t.id => s = t
           /\ \A i \in 1..Len(list) : list[i] \in Task
<1>1. Len(list) \in Nat /\ \A i \in 1..Len(list) : list[i] \in Task
  BY LenProperties, ElementOfSeq DEF ListOK
<1> QED
  BY <1>1 DEF ListOK, Entries, Ids, Task, UniqueIds

\* The position that Index finds.
LEMMA IndexFinds ==
    ASSUME NEW list, ListOK(list), NEW id \in Ids(list)
    PROVE  /\ Index(list, id) \in 1..Len(list) /\ list[Index(list, id)].id = id
           /\ list[Index(list, id)] \in Entries(list)
           /\ \A t \in Entries(list) : t.id = id => t = list[Index(list, id)]
<1>1. \E i \in 1..Len(list) : list[i].id = id
  BY DEF Ids
<1>2. Index(list, id) \in 1..Len(list) /\ list[Index(list, id)].id = id
  BY <1>1 DEF Index
<1> QED
  BY <1>2, EntriesOK DEF Entries

\* A filtered list, by its entries.
HoldsThose(l, list, K) ==
    /\ \A k \in K : \E n \in 1..Len(l) : l[n] = list[k]
    /\ \A n \in 1..Len(l) : \E k \in K : l[n] = list[k]

LEMMA RetainOK ==
    ASSUME NEW list, ListOK(list), NEW K, K \subseteq 1..Len(list), NEW l, l = Retain(list, K)
    PROVE  /\ ListOK(l) /\ Entries(l) \subseteq Entries(list) /\ Ids(l) \subseteq Ids(list)
           /\ HoldsThose(l, list, K)
<1> DEFINE f == Nths(K)
<1>1. list \in Seq(Task) /\ Len(list) \in Nat /\ Len(list) <= MaxTasks /\ UniqueIds(list)
  BY LenProperties DEF ListOK
<1>2. l \in Seq(Task) /\ Len(l) <= Len(list) /\ Picks(l, list, K, f)
  BY <1>1, RetainProps
<1> HIDE DEF f
<1>3. /\ \A n \in 1..Len(l) : l[n] = list[f[n]] /\ f[n] \in K /\ f[n] \in 1..Len(list)
      /\ \A m, n \in 1..Len(l) : f[m] = f[n] => m = n
      /\ \A k \in K : \E n \in 1..Len(l) : f[n] = k
  BY <1>2 DEF Picks
<1>4. UniqueIds(l)
  <2> SUFFICES ASSUME NEW m \in 1..Len(l), NEW n \in 1..Len(l), l[m].id = l[n].id PROVE m = n
    BY DEF UniqueIds
  <2>1. list[f[m]].id = list[f[n]].id /\ f[m] \in 1..Len(list) /\ f[n] \in 1..Len(list)
    BY <1>3
  <2>2. f[m] = f[n]
    BY <2>1, <1>1 DEF UniqueIds
  <2> QED
    BY <2>2, <1>3
<1>5. Entries(l) \subseteq Entries(list) /\ Ids(l) \subseteq Ids(list)
  BY <1>3 DEF Entries, Ids
<1>6. Len(l) <= MaxTasks
  BY <1>1, <1>2, LenProperties, SchedulerAssumption
<1>7. HoldsThose(l, list, K)
  <2>1. ASSUME NEW k \in K PROVE \E n \in 1..Len(l) : l[n] = list[k]
    <3>1. PICK n \in 1..Len(l) : f[n] = k
      BY <1>3
    <3>2. l[n] = list[f[n]]
      BY <1>3
    <3> QED
      BY <3>1, <3>2
  <2>2. ASSUME NEW n \in 1..Len(l) PROVE \E k \in K : l[n] = list[k]
    <3>1. f[n] \in K /\ l[n] = list[f[n]]
      BY <1>3
    <3> QED
      BY <3>1
  <2> QED
    BY <2>1, <2>2 DEF HoldsThose
<1> QED
  BY <1>2, <1>4, <1>5, <1>6, <1>7 DEF ListOK

LEMMA WithoutOK ==
    ASSUME NEW list, ListOK(list), NEW id, NEW l, l = Without(list, id)
    PROVE  /\ ListOK(l) /\ id \notin Ids(l)
           /\ Entries(l) \subseteq Entries(list) /\ Ids(l) \subseteq Ids(list)
<1> DEFINE K == {i \in 1..Len(list) : list[i].id # id}
<1>1. K \subseteq 1..Len(list) /\ l = Retain(list, K)
  BY DEF Without
<1>2. \A k \in K : list[k].id # id
  OBVIOUS
<1> HIDE DEF K
<1>3. /\ ListOK(l) /\ Entries(l) \subseteq Entries(list) /\ Ids(l) \subseteq Ids(list)
      /\ HoldsThose(l, list, K)
  BY <1>1, RetainOK
<1>4. id \notin Ids(l)
  BY <1>2, <1>3 DEF Ids, HoldsThose
<1> QED
  BY <1>3, <1>4

LEMMA RemoveAtOK ==
    ASSUME NEW list, ListOK(list), NEW i \in 1..Len(list), NEW l, l = RemoveAt(list, i)
    PROVE  /\ ListOK(l) /\ list[i].id \notin Ids(l) /\ Len(l) = Len(list) - 1
           /\ Entries(l) \subseteq Entries(list) /\ Ids(l) \subseteq Ids(list)
<1>1. list \in Seq(Task) /\ Len(list) \in Nat /\ Len(list) <= MaxTasks /\ UniqueIds(list)
  BY LenProperties DEF ListOK
<1>2. /\ l \in Seq(Task) /\ Len(l) = Len(list) - 1
      /\ \A n \in 1..Len(l) : l[n] = IF n < i THEN list[n] ELSE list[n + 1]
  BY <1>1, RemoveAtProps
<1>3. \A n \in 1..Len(l) : \E k \in 1..Len(list) : k # i /\ l[n] = list[k]
  BY <1>1, <1>2
<1>4. UniqueIds(l)
  <2> SUFFICES ASSUME NEW m \in 1..Len(l), NEW n \in 1..Len(l), l[m].id = l[n].id PROVE m = n
    BY DEF UniqueIds
  <2> DEFINE F(k) == IF k < i THEN k ELSE k + 1
  <2>1. F(m) \in 1..Len(list) /\ F(n) \in 1..Len(list) /\ l[m] = list[F(m)] /\ l[n] = list[F(n)]
    BY <1>1, <1>2
  <2>2. F(m) = F(n)
    BY <2>1, <1>1 DEF UniqueIds
  <2> QED
    BY <2>2, <1>1, <1>2
<1>5. list[i].id \notin Ids(l) /\ Entries(l) \subseteq Entries(list) /\ Ids(l) \subseteq Ids(list)
  <2>1. \A k \in 1..Len(list) : k # i => list[k].id # list[i].id
    BY <1>1 DEF UniqueIds
  <2>a. ASSUME NEW n \in 1..Len(l)
        PROVE  /\ l[n].id # list[i].id /\ l[n].id \in Ids(list) /\ l[n] \in Entries(list)
    <3>1. PICK k \in 1..Len(list) : k # i /\ l[n] = list[k]
      BY <1>3
    <3> QED
      BY <2>1, <3>1 DEF Ids, Entries
  <2>2. list[i].id \notin Ids(l)
    BY <2>a DEF Ids
  <2>3. Entries(l) \subseteq Entries(list)
    BY <2>a DEF Entries
  <2>4. Ids(l) \subseteq Ids(list)
    <3>1. ASSUME NEW x \in Ids(l) PROVE x \in Ids(list)
      <4>1. PICK n \in 1..Len(l) : x = l[n].id
        BY <3>1 DEF Ids
      <4> QED
        BY <2>a, <4>1
    <3> QED
      BY <3>1
  <2> QED
    BY <2>2, <2>3, <2>4
<1>6. Len(l) <= MaxTasks
  BY <1>1, <1>2, SchedulerAssumption
<1> QED
  BY <1>2, <1>4, <1>5, <1>6 DEF ListOK

LEMMA InsertAtOK ==
    ASSUME NEW list, ListOK(list), NEW i \in 1..(Len(list) + 1), NEW e \in Task,
           e.id \notin Ids(list), Len(list) < MaxTasks, NEW l, l = InsertAt(list, i, e)
    PROVE  ListOK(l) /\ Entries(l) \subseteq Entries(list) \cup {e} /\ Ids(l) \subseteq Ids(list) \cup {e.id}
<1>1. list \in Seq(Task) /\ Len(list) \in Nat /\ UniqueIds(list)
  BY LenProperties DEF ListOK
<1>2. /\ l \in Seq(Task) /\ Len(l) = Len(list) + 1
      /\ \A n \in 1..Len(l) : l[n] = IF n < i THEN list[n] ELSE IF n = i THEN e ELSE list[n - 1]
  <2> DEFINE r == InsertAt(list, i, e)
  <2>1. /\ r \in Seq(Task) /\ Len(r) = Len(list) + 1
        /\ \A n \in 1..Len(r) : r[n] = IF n < i THEN list[n] ELSE IF n = i THEN e ELSE list[n - 1]
    BY <1>1, InsertAtProps, SMTT(20)
  <2>2. l = r
    OBVIOUS
  <2> HIDE DEF r
  <2> QED
    BY <2>1, <2>2
<1>3. \A n \in 1..Len(l) : n # i =>
        LET k == IF n < i THEN n ELSE n - 1 IN k \in 1..Len(list) /\ l[n] = list[k]
  BY <1>1, <1>2
<1>4. i \in 1..Len(l) /\ l[i] = e
  BY <1>1, <1>2
<1>5. UniqueIds(l)
  <2> SUFFICES ASSUME NEW m \in 1..Len(l), NEW n \in 1..Len(l), l[m].id = l[n].id PROVE m = n
    BY DEF UniqueIds
  <2>1. \A k \in 1..Len(l) : k # i => l[k].id # e.id
    BY <1>3 DEF Ids
  <2>2. CASE m = i \/ n = i
    BY <2>1, <2>2, <1>4
  <2>3. CASE m # i /\ n # i
    <3> DEFINE F(k) == IF k < i THEN k ELSE k - 1
    <3>1. F(m) \in 1..Len(list) /\ F(n) \in 1..Len(list) /\ l[m] = list[F(m)] /\ l[n] = list[F(n)]
      BY <2>3, <1>3
    <3>2. F(m) = F(n)
      BY <3>1, <1>1 DEF UniqueIds
    <3> QED
      BY <3>2, <2>3, <1>1, <1>2
  <2> QED
    BY <2>2, <2>3
<1>6. Entries(l) \subseteq Entries(list) \cup {e} /\ Ids(l) \subseteq Ids(list) \cup {e.id}
  <2>1. \A n \in 1..Len(l) : l[n] = e \/ \E k \in 1..Len(list) : l[n] = list[k]
    BY <1>3, <1>4
  <2> QED
    BY <2>1 DEF Entries, Ids
<1>7. Len(l) <= MaxTasks
  BY <1>1, <1>2, SchedulerAssumption
<1> QED
  BY <1>2, <1>5, <1>6, <1>7 DEF ListOK

LEMMA AppendOK ==
    ASSUME NEW list, ListOK(list), NEW e \in Task, e.id \notin Ids(list), Len(list) < MaxTasks,
           NEW l, l = Append(list, e)
    PROVE  ListOK(l) /\ Entries(l) \subseteq Entries(list) \cup {e} /\ Ids(l) \subseteq Ids(list) \cup {e.id}
<1>1. list \in Seq(Task) /\ Len(list) \in Nat /\ UniqueIds(list)
  BY LenProperties DEF ListOK
<1>2. /\ l \in Seq(Task) /\ Len(l) = Len(list) + 1
      /\ \A n \in 1..Len(list) : l[n] = list[n]
      /\ l[Len(list) + 1] = e
  BY <1>1, AppendProperties
<1>3. \A n \in 1..Len(l) : (n \in 1..Len(list) /\ l[n] = list[n]) \/ (n = Len(list) + 1 /\ l[n] = e)
  <2> SUFFICES ASSUME NEW n \in 1..Len(l)
               PROVE  (n \in 1..Len(list) /\ l[n] = list[n]) \/ (n = Len(list) + 1 /\ l[n] = e)
    OBVIOUS
  <2>1. n \in 1..Len(list) \/ n = Len(list) + 1
    BY <1>1, <1>2
  <2> QED
    BY <2>1, <1>2, Zenon
<1>4. \A n \in 1..Len(list) : list[n].id # e.id
  BY DEF Ids
<1>5. UniqueIds(l)
  BY <1>1, <1>3, <1>4 DEF UniqueIds
<1>6. Entries(l) \subseteq Entries(list) \cup {e}
  BY <1>3 DEF Entries
<1>7. Ids(l) \subseteq Ids(list) \cup {e.id}
  BY <1>3 DEF Ids
<1>8. Len(l) <= MaxTasks
  BY <1>1, <1>2, SchedulerAssumption
<1> QED
  BY <1>2, <1>5, <1>6, <1>7, <1>8 DEF ListOK

\* One task of the list is written: the others stay.
LEMMA ExceptOK ==
    ASSUME NEW list, ListOK(list), NEW k \in 1..Len(list), NEW e \in Task, e.id = list[k].id,
           NEW l, l = [list EXCEPT ![k] = e]
    PROVE  /\ ListOK(l) /\ Ids(l) = Ids(list) /\ Len(l) = Len(list)
           /\ \A t \in Entries(l) : t = e \/ (t \in Entries(list) /\ t.id # e.id)
           /\ e \in Entries(l)
<1>1. list \in Seq(Task) /\ Len(list) \in Nat /\ UniqueIds(list) /\ Len(list) <= MaxTasks
  BY LenProperties DEF ListOK
<1>2. /\ l \in Seq(Task) /\ Len(l) = Len(list)
      /\ \A n \in 1..Len(list) : l[n] = IF n = k THEN e ELSE list[n]
  BY <1>1, ExceptSeq
<1>3. \A n \in 1..Len(list) : l[n].id = list[n].id
  BY <1>2
<1>4. UniqueIds(l) /\ Ids(l) = Ids(list)
  BY <1>1, <1>2, <1>3 DEF UniqueIds, Ids
<1>5. \A n \in 1..Len(list) : (n = k /\ l[n] = e) \/ (l[n] = list[n] /\ list[n].id # e.id)
  <2> SUFFICES ASSUME NEW n \in 1..Len(list)
               PROVE  (n = k /\ l[n] = e) \/ (l[n] = list[n] /\ list[n].id # e.id)
    OBVIOUS
  <2>1. CASE n = k
    BY <2>1, <1>2
  <2>2. CASE n # k
    <3>1. list[n].id # list[k].id
      BY <2>2, <1>1 DEF UniqueIds
    <3>2. l[n] = list[n]
      BY <2>2, <1>2
    <3> QED
      BY <3>1, <3>2
  <2> QED
    BY <2>1, <2>2
<1>6. \A t \in Entries(l) : t = e \/ (t \in Entries(list) /\ t.id # e.id)
  BY <1>2, <1>5 DEF Entries
<1>7. e \in Entries(l)
  BY <1>2 DEF Entries
<1> QED
  BY <1>1, <1>2, <1>4, <1>6, <1>7 DEF ListOK

LEMMA Bounds ==
    /\ MaxTasks \in Nat /\ MaxRev \in Nat /\ MaxRev >= 1 /\ MaxTasks <= MaxRev
    /\ OneShots # {} => MaxRev >= 2
    /\ FreshEvery \in Nat /\ FreshEvery >= 1 /\ MaxSaves \in Nat /\ MaxEnds \in Nat
    /\ Bridged \in BOOLEAN /\ None \notin Children
BY SchedulerAssumption

\* A task that no longer has an anchor.
Cleared(t) == [t EXCEPT !.anchor = None, !.iters = 0]

\* What the guard of c leaves of a list.
Guarded(list, c) == [i \in 1..Len(list) |-> IF list[i].anchor = c THEN Cleared(list[i]) ELSE list[i]]

LEMMA GuardListOK ==
    ASSUME NEW list, ListOK(list), NEW c, NEW l, l = Guarded(list, c)
    PROVE  /\ ListOK(l) /\ Ids(l) = Ids(list) /\ Len(l) = Len(list)
           /\ \A t \in Entries(l) : \E s \in Entries(list) :
                 (s.anchor # c /\ t = s) \/ (s.anchor = c /\ t = Cleared(s))
<1>1. list \in Seq(Task) /\ Len(list) \in Nat /\ UniqueIds(list) /\ Len(list) <= MaxTasks
  BY LenProperties DEF ListOK
<1>2. \A i \in 1..Len(list) : list[i] \in Task
  BY <1>1, ElementOfSeq
<1>3. \A t \in Task : Cleared(t) \in Task /\ Cleared(t).id = t.id
  <2>1. 0 \in 0..FreshEvery
    BY Bounds
  <2> QED
    BY <2>1 DEF Task, Cleared
<1>4. \A i \in 1..Len(list) :
        /\ l[i] \in Task /\ l[i].id = list[i].id
        /\ (list[i].anchor # c /\ l[i] = list[i]) \/ (list[i].anchor = c /\ l[i] = Cleared(list[i]))
  <2>1. \A i \in 1..Len(list) : l[i] = IF list[i].anchor = c THEN Cleared(list[i]) ELSE list[i]
    BY DEF Guarded
  <2> SUFFICES ASSUME NEW i \in 1..Len(list)
               PROVE  /\ l[i] \in Task /\ l[i].id = list[i].id
                      /\ \/ list[i].anchor # c /\ l[i] = list[i]
                         \/ list[i].anchor = c /\ l[i] = Cleared(list[i])
    OBVIOUS
  <2>2. CASE list[i].anchor = c
    BY <2>1, <2>2, <1>2, <1>3
  <2>3. CASE list[i].anchor # c
    BY <2>1, <2>3, <1>2
  <2> QED
    BY <2>2, <2>3
<1>5. l \in [1..Len(list) -> Task]
  <2>1. l = [i \in 1..Len(list) |-> l[i]]
    BY DEF Guarded
  <2> QED
    BY <2>1, <1>4
<1>6. l \in Seq(Task) /\ Len(l) = Len(list)
  BY <1>1, <1>5, FunctionIsSeq
<1>7. UniqueIds(l) /\ Ids(l) = Ids(list)
  <2>1. UniqueIds(l)
    BY <1>1, <1>4, <1>6 DEF UniqueIds
  <2> QED
    BY <2>1, <1>4, <1>6 DEF Ids
<1>8. \A t \in Entries(l) : \E s \in Entries(list) :
                 (s.anchor # c /\ t = s) \/ (s.anchor = c /\ t = Cleared(s))
  <2> SUFFICES ASSUME NEW i \in 1..Len(list)
               PROVE  \E s \in Entries(list) :
                        (s.anchor # c /\ l[i] = s) \/ (s.anchor = c /\ l[i] = Cleared(s))
    BY <1>6 DEF Entries
  <2>1. list[i] \in Entries(list)
    BY DEF Entries
  <2> QED
    BY <2>1, <1>4
<1> QED
  BY <1>1, <1>6, <1>7, <1>8 DEF ListOK

----------------------------------------------------------------------------
(* What a step of the scheduler does to the writer.                        *)

Cmd == [op : {"Save", "SaveAndFlush"}, snap : Seq(Task), waited : BOOLEAN]

\* PersistTypeOK, of lists of tasks.
FileOK ==
    /\ chan \in Seq(Cmd) /\ held \in Seq(Task) \cup {NoSnapshot} /\ disk \in Seq(Task)
    /\ reply \in {"none", "ok", "err"}

PersistStep ==
    \/ UNCHANGED pvars \/ Save(tasks') \/ SaveAndFlush(tasks')
    \/ StopWaiting \/ Writer \/ WriterCrash

\* Whatever the scheduler does, the lists that may still be written or loaded
\* are among those there were, but for the list it now has.
LEMMA PersistEffect ==
    ASSUME FileOK, PersistStep, tasks' \in Seq(Task)
    PROVE  FileOK' /\ \A l \in Lists' : l \in Lists \/ l = tasks'
<1>1. /\ chan \in Seq(Cmd) /\ held \in Seq(Task) \cup {NoSnapshot} /\ disk \in Seq(Task)
      /\ reply \in {"none", "ok", "err"} /\ Len(chan) \in Nat
  BY LenProperties DEF FileOK
<1>2. \A i \in 1..Len(chan) : chan[i] \in Cmd /\ chan[i].snap \in Seq(Task) /\ chan[i].snap \in Lists
  <2>1. \A i \in 1..Len(chan) : chan[i] \in Cmd
    BY <1>1, ElementOfSeq
  <2> QED
    BY <2>1 DEF Cmd, Lists
<1>3. disk \in Lists /\ (held # NoSnapshot => held \in Lists)
  BY DEF Lists
<1> DEFINE Sub == /\ disk' \in Lists /\ (held' # NoSnapshot => held' \in Lists)
                  /\ \A i \in 1..Len(chan') : chan'[i].snap \in Lists \/ chan'[i].snap = tasks'
<1>4. Sub => \A l \in Lists' : l \in Lists \/ l = tasks'
  BY DEF Lists
<1>5. ASSUME NEW op \in {"Save", "SaveAndFlush"}, Enqueue(op, tasks'), UNCHANGED <<held, disk>>
      PROVE  chan' \in Seq(Cmd) /\ Sub
  <2> DEFINE e == [op |-> op, snap |-> tasks', waited |-> op = "SaveAndFlush"]
  <2>1. e \in Cmd /\ e.snap = tasks' /\ chan' = Append(chan, e)
    BY <1>5 DEF Cmd, Enqueue
  <2> HIDE DEF e
  <2>2. /\ chan' \in Seq(Cmd) /\ Len(chan') = Len(chan) + 1
        /\ \A i \in 1..Len(chan) : chan'[i] = chan[i]
        /\ chan'[Len(chan) + 1] = e
    BY <2>1, <1>1, AppendProperties
  <2>3. \A i \in 1..Len(chan') : i \in 1..Len(chan) \/ i = Len(chan) + 1
    BY <2>2, <1>1
  <2>4. \A i \in 1..Len(chan') : chan'[i].snap \in Lists \/ chan'[i].snap = tasks'
    BY <2>1, <2>2, <2>3, <1>2
  <2> QED
    BY <2>2, <2>4, <1>3, <1>5
<1>6. ASSUME chan # <<>>, chan' = Tail(chan)
      PROVE  /\ chan' \in Seq(Cmd) /\ Head(chan) \in Cmd /\ Head(chan).snap \in Seq(Task)
             /\ Head(chan).snap \in Lists
             /\ \A i \in 1..Len(chan') : chan'[i].snap \in Lists
  <2>1. /\ chan' \in Seq(Cmd) /\ Len(chan') = Len(chan) - 1 /\ Head(chan) \in Cmd
        /\ \A i \in 1..Len(chan') : chan'[i] = chan[i + 1]
    BY <1>6, <1>1, HeadTailProperties
  <2>2. Len(chan) >= 1 /\ Head(chan) = chan[1]
    BY <1>6, <1>1, EmptySeq
  <2> QED
    BY <2>1, <2>2, <1>1, <1>2
<1>7. CASE UNCHANGED pvars
  BY <1>7, <1>1, <1>2, <1>3, <1>4 DEF pvars, FileOK
<1>8. CASE Save(tasks')
  BY <1>8, <1>1, <1>4, <1>5 DEF Save, FileOK
<1>9. CASE SaveAndFlush(tasks')
  BY <1>9, <1>1, <1>4, <1>5 DEF SaveAndFlush, FileOK
<1>10. CASE StopWaiting
  <2> DEFINE C == [i \in 1..Len(chan) |-> [chan[i] EXCEPT !.waited = FALSE]]
  <2>1. chan' = C /\ reply' = "none" /\ UNCHANGED <<held, disk>>
    BY <1>10 DEF StopWaiting
  <2>2. \A i \in 1..Len(chan) : C[i] \in Cmd /\ C[i].snap = chan[i].snap
    BY <1>2 DEF Cmd
  <2>3. C \in [1..Len(chan) -> Cmd] /\ Len(chan) \in Nat
    BY <1>1, <2>2
  <2> HIDE DEF C
  <2>4. C \in Seq(Cmd) /\ Len(C) = Len(chan)
    BY <2>3, FunctionIsSeq
  <2>5. Sub
    BY <2>1, <2>2, <2>4, <1>2, <1>3
  <2> QED
    BY <2>1, <2>4, <2>5, <1>1, <1>4 DEF FileOK
<1>11. CASE Writer
  <2>1. CASE RecvSave
    <3>1. Sub
      BY <2>1, <1>3, <1>6 DEF RecvSave
    <3> QED
      BY <2>1, <3>1, <1>1, <1>4, <1>6 DEF RecvSave, FileOK
  <2>2. ASSUME NEW landed \in BOOLEAN, NEW ok \in BOOLEAN, RecvSaveAndFlush(landed, ok)
        PROVE  FileOK' /\ \A l \in Lists' : l \in Lists \/ l = tasks'
    <3>1. Sub
      BY <2>2, <1>3, <1>6 DEF RecvSaveAndFlush
    <3> QED
      BY <2>2, <3>1, <1>1, <1>4, <1>6 DEF RecvSaveAndFlush, FileOK
  <2>3. ASSUME NEW landed \in BOOLEAN, WriteHeld(landed)
        PROVE  FileOK' /\ \A l \in Lists' : l \in Lists \/ l = tasks'
    <3>1. Sub
      BY <2>3, <1>2, <1>3 DEF WriteHeld
    <3> QED
      BY <2>3, <3>1, <1>1, <1>4 DEF WriteHeld, FileOK
  <2> QED
    BY <1>11, <2>1, <2>2, <2>3 DEF Writer
<1>12. CASE WriterCrash
  <2>1. chan' \in Seq(Cmd) /\ Len(chan') = 0
    BY <1>12, EmptySeq DEF WriterCrash
  <2>2. Sub
    BY <1>12, <2>1, <1>3 DEF WriterCrash
  <2> QED
    BY <1>12, <2>1, <2>2, <1>1, <1>4 DEF WriterCrash, FileOK
<1> QED
  BY <1>7, <1>8, <1>9, <1>10, <1>11, <1>12 DEF PersistStep

\* Every step uses the writer as its interface allows.
LEMMA NextPersists == Next => PersistStep
<1> USE DEF Aside, Idle
<1>1. ASSUME NEW id \in Tasks, NEW p \in Prompts, NEW b \in BOOLEAN, Create(id, p, b) \/ Update(id, p, b)
      PROVE  PersistStep
  BY <1>1 DEF Create, Update, PersistStep
<1>2. ASSUME NEW id \in Tasks, Delete(id) PROVE PersistStep
  BY <1>2 DEF Delete, BeginBarrier, PersistStep
<1>3. RetryDelete => PersistStep
  BY DEF RetryDelete, BeginBarrier, PersistStep
<1>4. AbandonRemoval => PersistStep
  BY DEF AbandonRemoval, PersistStep
<1>5. ASSUME NEW i \in 1..Len(tasks), ExpireBlocked(i) \/ ExpireTask(i) \/ FireTask(i)
      PROVE  PersistStep
  BY <1>5 DEF ExpireBlocked, ExpireTask, FireTask, PersistStep
<1>6. Announce \/ Stop \/ DeletePersisted \/ DeleteAcknowledged => PersistStep
  BY DEF Announce, Stop, DeletePersisted, DeleteAcknowledged, PersistStep
<1>7. DeleteTimesOut \/ ExpiryTimesOut => PersistStep
  BY DEF DeleteTimesOut, ExpiryTimesOut, GiveUp, PersistStep
<1>8. ExpiryPersisted \/ ExpiryAcknowledged \/ RemovalFlushed \/ Skip => PersistStep
  BY DEF ExpiryPersisted, ExpiryAcknowledged, RemovalFlushed, Skip, PersistStep
<1>9. AskSkips \/ QueryEnded \/ UnitInactive => PersistStep
  BY DEF AskSkips, QueryEnded, UnitInactive, PersistStep
<1>10. ASSUME NEW c \in Children, Launch(c) PROVE PersistStep
  BY <1>10 DEF Launch, PersistStep
<1>11. SpawnRefused \/ SpawnCancelled \/ Spawned => PersistStep
  BY DEF SpawnRefused, SpawnCancelled, Spawned, PersistStep
<1>12. ASSUME NEW c \in Children,
              Admit(c) \/ Refuse(c) \/ GuardClears(c)
                  \/ ChildEnds(c, "completed") \/ ChildEnds(c, "failed")
       PROVE  PersistStep
  BY <1>12 DEF Admit, Refuse, GuardClears, ChildEnds, PersistStep
<1>13. CoordinatorGone \/ Wire => PersistStep
  BY DEF CoordinatorGone, Wire, PersistStep
<1>14. ASSUME NEW id \in Tasks, FallsDue(id) \/ Expires(id) PROVE PersistStep
  BY <1>14 DEF FallsDue, Expires, PersistStep
<1>15. ToolSave => PersistStep
  BY DEF ToolSave, avars, PersistStep
<1>16. Cancel \/ Crash \/ Start => PersistStep
  BY DEF Cancel, Crash, Start, PersistStep
<1>17. WriterStep \/ BridgeStep => PersistStep
  BY DEF WriterStep, BridgeStep, PersistStep
<1> QED
  BY <1>1, <1>2, <1>3, <1>4, <1>5, <1>6, <1>7, <1>8, <1>9, <1>10, <1>11, <1>12, <1>13, <1>14,
     <1>15, <1>16, <1>17
     DEF Next, Commands, Timer, Carries, Coordinator, Environment

----------------------------------------------------------------------------
(* The inductive invariant: the types, with what ties the actor's locals   *)
(* to the list and the clock.                                              *)

PCs == {"down", "start", "idle", "stopped", "skip", "query", "unit", "launch", "register",
        "delFlush", "delAck", "expFlush", "expAck", "rmFlush"}

\* The actor fires or removes a task; of these, the task is still in the
\* list, or no longer.
JobPcs == {"skip", "query", "unit", "launch", "register", "expFlush", "expAck", "rmFlush"}
FirePcs == {"query", "unit", "launch", "register"}
GonePcs == {"expFlush", "expAck", "rmFlush"}

\* The versions a reservation still has do not overflow.
ResOK(r) == r \in Reservation /\ r.left >= 1 /\ r.next >= 1 /\ r.next + r.left - 1 <= MaxRev

\* Child, but for the bound on len.
Record == [st : {"none", "sent", "unsent", "live", "completed", "failed", "refused", "dead"},
           task : Tasks \cup {None}, prompt : Prompts \cup {None},
           same : BOOLEAN, len : Nat]

ListsOK == FileOK /\ \A l \in Lists : ListOK(l) /\ Ids(l) \subseteq created

SetsOK ==
    /\ due \subseteq Tasks /\ blocked \subseteq Tasks /\ clock \in Version
    /\ cancelled \in BOOLEAN /\ saves \in 0..MaxSaves /\ ends \in 0..MaxEnds
    /\ coord \in {"unwired", "wired", "closed"} /\ guards \subseteq Children
    /\ ran \subseteq OneShots /\ expired \subseteq Tasks /\ created \subseteq Tasks

ChildrenOK == child \in [Children -> Record]

PendingOK ==
    /\ pending \in [id : Tasks, res : Reservation] /\ ResOK(pending.res)
    /\ pc # "stopped" => clock = Expected(pending.res)
    /\ pending.id \notin Ids(tasks) /\ pending.id \in created

JobOK ==
    /\ job \in Job /\ ResOK(job.res) /\ clock = Expected(job.res) /\ job.t.id \in created
    /\ pc \in FirePcs => job.t.id \in Ids(tasks) /\ (job.t.id \in OneShots => job.res.left = 2)
    /\ pc \in GonePcs => job.t.id \notin Ids(tasks)
    /\ pc = "expFlush" => job.i <= Len(tasks) + 1 /\ Len(tasks) < MaxTasks
    /\ pc = "register" => job.c \in Children

ActorOK ==
    /\ pc \in PCs
    /\ IF pc \in JobPcs THEN JobOK /\ pending = None ELSE job = None
    /\ pending # None => PendingOK
    /\ pc \in {"delFlush", "delAck"} => PendingOK
    /\ pc = "down" => pending = None

HistoryOK ==
    /\ told \subseteq gone /\ gone \subseteq created
    /\ pc = "delAck" => pending.id \in gone
    /\ pc = "expAck" => job.t.id \in gone

TypeInv == ListsOK /\ BridgeTypeOK /\ SetsOK /\ ChildrenOK /\ ActorOK /\ HistoryOK

LEMMA TasksOK ==
    ASSUME ListsOK
    PROVE  /\ ListOK(tasks) /\ Ids(tasks) \subseteq created /\ tasks \in Seq(Task)
           /\ Len(tasks) \in Nat /\ Len(tasks) <= MaxTasks
           /\ ListOK(disk) /\ Ids(disk) \subseteq created
BY EntriesOK DEF ListsOK, Lists, ListOK

LEMMA ReserveOK ==
    ASSUME clock \in Version, NEW n \in {1, 2}, n = 2 => MaxRev >= 2
    PROVE  ResOK(Reserve(n)) /\ clock = Expected(Reserve(n)) /\ Reserve(n).left = n
<1> USE Bounds
<1>1. clock \in Nat /\ clock <= MaxRev
  BY DEF Version
<1>2. CASE clock + n > MaxRev
  <2>1. Reserve(n) = [source |-> clock, rolls |-> TRUE, left |-> n, next |-> 1]
    BY <1>2 DEF Reserve
  <2> QED
    BY <2>1, <1>1 DEF ResOK, Reservation, Version, Expected
<1>3. CASE ~(clock + n > MaxRev)
  <2>1. Reserve(n) = [source |-> clock, rolls |-> FALSE, left |-> n, next |-> clock + 1]
    <3>1. (clock + n > MaxRev) = FALSE
      BY <1>3
    <3> QED
      BY <3>1 DEF Reserve
  <2> QED
    BY <2>1, <1>1, <1>3 DEF ResOK, Reservation, Version, Expected
<1> QED
  BY <1>2, <1>3

LEMMA ResNext ==
    ASSUME NEW r, ResOK(r)
    PROVE  /\ r.next \in Version /\ r.next <= MaxRev
           /\ r.left = 2 => ResOK(Spent(r)) /\ Expected(Spent(r)) = r.next
<1> USE Bounds
<1>1. /\ r \in Reservation /\ r.next \in Nat /\ r.next <= MaxRev /\ r.left \in Nat
      /\ r.next >= 1 /\ r.next + r.left - 1 <= MaxRev
  BY DEF ResOK, Reservation, Version
<1>2. ASSUME r.left = 2 PROVE ResOK(Spent(r)) /\ Expected(Spent(r)) = r.next
  <2>1. Spent(r) = [r EXCEPT !.rolls = FALSE, !.left = 1, !.next = r.next + 1]
    BY <1>1, <1>2 DEF Spent
  <2>2. r.next + 1 \in Version /\ 1 \in 0..MaxRev
    BY <1>1, <1>2 DEF Version
  <2>3. /\ Spent(r) \in Reservation /\ Spent(r).rolls = FALSE /\ Spent(r).left = 1
        /\ Spent(r).next = r.next + 1
    BY <2>1, <2>2, <1>1 DEF Reservation
  <2> QED
    BY <2>3, <1>1, <1>2 DEF ResOK, Expected
<1> QED
  BY <1>1, <1>2 DEF Version

----------------------------------------------------------------------------
(* What each operation does to the list.                                   *)

LEMMA CreateEffect ==
    ASSUME ListsOK, SetsOK, NEW id \in Tasks, NEW p \in Prompts, NEW now, Create(id, p, now)
    PROVE  /\ ListOK(tasks') /\ id \notin Ids(tasks)
           /\ Entries(tasks') \subseteq Entries(tasks) \cup {NewTask(id, p)}
           /\ Ids(tasks') \subseteq Ids(tasks) \cup {id}
<1>1. ListOK(tasks) /\ Ids(tasks) \subseteq created
  BY TasksOK
<1> DEFINE e == NewTask(id, p)
<1>2. e \in Task /\ e.id = id
  BY Bounds DEF NewTask, Task
<1>3. id \notin Ids(tasks) /\ Len(tasks) < MaxTasks /\ tasks' = Append(tasks, e)
  BY <1>1 DEF Create
<1> HIDE DEF e
<1>4. /\ ListOK(tasks') /\ Entries(tasks') \subseteq Entries(tasks) \cup {e}
      /\ Ids(tasks') \subseteq Ids(tasks) \cup {e.id}
  BY <1>1, <1>2, <1>3, AppendOK
<1> QED
  BY <1>2, <1>3, <1>4 DEF e

LEMMA UpdateEffect ==
    ASSUME ListsOK, NEW id \in Tasks, NEW p \in Prompts, NEW interval, Update(id, p, interval)
    PROVE  /\ ListOK(tasks') /\ Ids(tasks') = Ids(tasks)
           /\ \A t \in Entries(tasks') :
                 t \in Entries(tasks) \/ \E s \in Entries(tasks) : t = Updated(s, p)
<1>1. ListOK(tasks) /\ id \in Ids(tasks)
  BY TasksOK DEF Update
<1> DEFINE k == Index(tasks, id)
           e == Updated(tasks[k], p)
<1>2. k \in 1..Len(tasks) /\ tasks[k].id = id /\ tasks[k] \in Entries(tasks) /\ tasks[k] \in Task
  BY <1>1, IndexFinds, EntriesOK
<1>3. e \in Task /\ e.id = tasks[k].id
  <2> HIDE DEF k
  <2> DEFINE t == tasks[k]
             i == IF p # t.prompt THEN 0 ELSE t.iters
             b == t.reset \/ p # t.prompt
  <2>1. e = [t EXCEPT !.prompt = p, !.reset = b, !.iters = i] /\ t \in Task
    BY <1>2 DEF Updated
  <2>2. b \in BOOLEAN
    OBVIOUS
  <2>3. i \in 0..FreshEvery
    BY <1>2, Bounds DEF Task
  <2> HIDE DEF t, b, i, e
  <2>4. e \in Task /\ e.id = t.id
    BY <2>1, <2>2, <2>3 DEF Task
  <2> QED
    BY <2>4 DEF t
<1>4. tasks' = [tasks EXCEPT ![k] = e]
  BY DEF Update
<1> HIDE DEF k, e
<1>5. /\ ListOK(tasks') /\ Ids(tasks') = Ids(tasks)
      /\ \A t \in Entries(tasks') : t = e \/ (t \in Entries(tasks) /\ t.id # e.id)
  BY <1>1, <1>2, <1>3, <1>4, ExceptOK, ZenonT(40)
<1> QED
  BY <1>2, <1>5 DEF e

LEMMA DeleteEffect ==
    ASSUME ListsOK, NEW id \in Tasks, Delete(id)
    PROVE  /\ ListOK(tasks') /\ id \notin Ids(tasks') /\ id \in Ids(tasks)
           /\ Entries(tasks') \subseteq Entries(tasks) /\ Ids(tasks') \subseteq Ids(tasks)
BY TasksOK, WithoutOK DEF Delete

LEMMA ExpireEffect ==
    ASSUME ListsOK, NEW i \in 1..Len(tasks), ExpireTask(i)
    PROVE  /\ ListOK(tasks') /\ tasks[i].id \notin Ids(tasks') /\ Len(tasks') = Len(tasks) - 1
           /\ tasks[i] \in Entries(tasks) /\ tasks[i] \in Task /\ tasks[i].id \in Ids(tasks)
           /\ Entries(tasks') \subseteq Entries(tasks) /\ Ids(tasks') \subseteq Ids(tasks)
<1>1. ListOK(tasks) /\ tasks' = RemoveAt(tasks, i)
  BY TasksOK DEF ExpireTask
<1>2. tasks[i] \in Entries(tasks) /\ tasks[i] \in Task /\ tasks[i].id \in Ids(tasks)
  BY <1>1, EntriesOK, IdsOfEntries
<1> QED
  BY <1>1, <1>2, RemoveAtOK

LEMMA ReinsertEffect ==
    ASSUME ListsOK, ActorOK, pc = "expFlush", tasks' = InsertAt(tasks, job.i, job.t)
    PROVE  /\ ListOK(tasks') /\ Entries(tasks') \subseteq Entries(tasks) \cup {job.t}
           /\ Ids(tasks') \subseteq Ids(tasks) \cup {job.t.id}
<1>1. /\ job \in Job /\ job.t.id \notin Ids(tasks) /\ job.i <= Len(tasks) + 1
      /\ Len(tasks) < MaxTasks
  BY DEF ActorOK, JobOK, JobPcs, GonePcs
<1>2. ListOK(tasks) /\ Len(tasks) \in Nat
  BY TasksOK
<1>3. job.t \in Task /\ job.i \in 1..(Len(tasks) + 1)
  BY <1>1, <1>2, Bounds DEF Job
<1> QED
  BY <1>1, <1>2, <1>3, InsertAtOK

\* The task as Launch writes it, and as restore_fire_anchor does.
Anchored(t, c) ==
    [t EXCEPT !.anchor = c, !.iters = IF StartsFresh THEN 1 ELSE job.t.iters + 1, !.reset = FALSE]
PutBack(t) ==
    [t EXCEPT !.anchor = job.t.anchor, !.iters = job.t.iters, !.reset = job.t.reset]

LEMMA LaunchEffect ==
    ASSUME ListsOK, ActorOK, NEW c \in Children, Launch(c)
    PROVE  /\ ListOK(tasks') /\ Ids(tasks') = Ids(tasks)
           /\ \E s \in Entries(tasks) :
                /\ s.id = job.t.id
                /\ \A t \in Entries(tasks') :
                     t = Anchored(s, c) \/ (t \in Entries(tasks) /\ t.id # job.t.id)
<1>1. /\ job \in Job /\ job.t.id \in Ids(tasks) /\ ListOK(tasks)
  BY TasksOK DEF Launch, ActorOK, JobOK, JobPcs, FirePcs
<1> DEFINE k == Index(tasks, job.t.id)
           e == Anchored(tasks[k], c)
<1>2. k \in 1..Len(tasks) /\ tasks[k].id = job.t.id /\ tasks[k] \in Entries(tasks) /\ tasks[k] \in Task
  BY <1>1, IndexFinds, EntriesOK
<1>3. tasks' = [tasks EXCEPT ![k] = e]
  BY DEF Launch, Anchored
<1> HIDE DEF k
<1>4. (IF StartsFresh THEN 1 ELSE job.t.iters + 1) \in 0..FreshEvery
  <2>1. job.t.iters \in 0..FreshEvery
    BY <1>1 DEF Job, Task
  <2> QED
    BY <2>1, Bounds DEF StartsFresh
<1>5. e \in Task /\ e.id = tasks[k].id
  BY <1>2, <1>4 DEF Anchored, Task
<1> HIDE DEF e
<1>6. /\ ListOK(tasks') /\ Ids(tasks') = Ids(tasks)
      /\ \A t \in Entries(tasks') : t = e \/ (t \in Entries(tasks) /\ t.id # e.id)
  BY <1>1, <1>2, <1>3, <1>5, ExceptOK, ZenonT(40)
<1> QED
  BY <1>2, <1>5, <1>6 DEF e

LEMMA RestoreEffect ==
    ASSUME ListsOK, ActorOK, SpawnRefused
    PROVE  /\ ListOK(tasks') /\ Ids(tasks') = Ids(tasks)
           /\ \E s \in Entries(tasks) :
                /\ s.id = job.t.id
                /\ \A t \in Entries(tasks') :
                     t = PutBack(s) \/ (t \in Entries(tasks) /\ t.id # job.t.id)
<1>1. /\ job \in Job /\ job.t.id \in Ids(tasks) /\ ListOK(tasks)
  BY TasksOK DEF SpawnRefused, ActorOK, JobOK, JobPcs, FirePcs
<1> DEFINE k == Index(tasks, job.t.id)
           e == PutBack(tasks[k])
<1>2. k \in 1..Len(tasks) /\ tasks[k].id = job.t.id /\ tasks[k] \in Entries(tasks) /\ tasks[k] \in Task
  BY <1>1, IndexFinds, EntriesOK
<1>3. tasks' = [tasks EXCEPT ![k] = e]
  BY DEF SpawnRefused, Restored, PutBack
<1> HIDE DEF k
<1>5. e \in Task /\ e.id = tasks[k].id
  <2>1. job.t \in Task
    BY <1>1 DEF Job
  <2> QED
    BY <1>2, <2>1 DEF PutBack, Task
<1> HIDE DEF e
<1>6. /\ ListOK(tasks') /\ Ids(tasks') = Ids(tasks)
      /\ \A t \in Entries(tasks') : t = e \/ (t \in Entries(tasks) /\ t.id # e.id)
  BY <1>1, <1>2, <1>3, <1>5, ExceptOK, ZenonT(40)
<1> QED
  BY <1>2, <1>5, <1>6 DEF e

LEMMA OneShotEffect ==
    ASSUME ListsOK, Spawned, ~Recurring(job.t.id)
    PROVE  /\ ListOK(tasks') /\ job.t.id \notin Ids(tasks')
           /\ Entries(tasks') \subseteq Entries(tasks) /\ Ids(tasks') \subseteq Ids(tasks)
<1>1. ListOK(tasks) /\ tasks' = Without(tasks, job.t.id)
  BY TasksOK DEF Spawned
<1> QED
  BY <1>1, WithoutOK

LEMMA GuardEffect ==
    ASSUME ListsOK, NEW c \in Children, GuardClears(c)
    PROVE  /\ ListOK(tasks') /\ Ids(tasks') = Ids(tasks) /\ Len(tasks') = Len(tasks)
           /\ \A t \in Entries(tasks') : \E s \in Entries(tasks) :
                 (s.anchor # c /\ t = s) \/ (s.anchor = c /\ t = Cleared(s))
<1>1. ListOK(tasks) /\ tasks' = Guarded(tasks, c)
  BY TasksOK DEF GuardClears, Guarded, Cleared
<1> QED
  BY <1>1, GuardListOK

----------------------------------------------------------------------------
(* A step keeps the invariant.                                             *)

LEMMA TasksStep ==
    ASSUME TypeInv, Next
    PROVE  /\ ListOK(tasks') /\ Ids(tasks') \subseteq created'
           /\ created \subseteq created' /\ created' \subseteq Tasks
<1> DEFINE Goal == /\ ListOK(tasks') /\ Ids(tasks') \subseteq created'
                   /\ created \subseteq created' /\ created' \subseteq Tasks
<1>0. ListsOK /\ SetsOK /\ ActorOK
  BY DEF TypeInv
<1>a. /\ ListOK(tasks) /\ Ids(tasks) \subseteq created /\ created \subseteq Tasks
      /\ ListOK(disk) /\ Ids(disk) \subseteq created
  BY <1>0, TasksOK DEF SetsOK
<1>b. ASSUME UNCHANGED <<tasks, created>> PROVE Goal
  BY <1>a, <1>b
<1>c. ASSUME UNCHANGED created, ListOK(tasks'), Ids(tasks') \subseteq Ids(tasks) PROVE Goal
  BY <1>a, <1>c
<1> USE DEF Aside, Idle, avars, hvars
<1>1. ASSUME NEW id \in Tasks, NEW p \in Prompts, NEW b \in BOOLEAN, Create(id, p, b)
      PROVE  Goal
  <2>1. ListOK(tasks') /\ Ids(tasks') \subseteq Ids(tasks) \cup {id}
    BY <1>0, <1>1, CreateEffect
  <2>2. created' = created \cup {id}
    BY <1>1 DEF Create
  <2> QED
    BY <1>a, <2>1, <2>2
<1>2. ASSUME NEW id \in Tasks, NEW p \in Prompts, NEW b \in BOOLEAN, Update(id, p, b)
      PROVE  Goal
  <2>1. ListOK(tasks') /\ Ids(tasks') = Ids(tasks)
    BY <1>0, <1>2, UpdateEffect
  <2> QED
    BY <2>1, <1>c, <1>2 DEF Update
<1>3. ASSUME NEW id \in Tasks, Delete(id) PROVE Goal
  <2>1. ListOK(tasks') /\ Ids(tasks') \subseteq Ids(tasks)
    BY <1>0, <1>3, DeleteEffect
  <2> QED
    BY <2>1, <1>c, <1>3 DEF Delete
<1>4. ASSUME NEW i \in 1..Len(tasks), ExpireTask(i) PROVE Goal
  <2>1. ListOK(tasks') /\ Ids(tasks') \subseteq Ids(tasks)
    BY <1>0, <1>4, ExpireEffect
  <2> QED
    BY <2>1, <1>c, <1>4 DEF ExpireTask
<1>5. ASSUME ExpiryPersisted PROVE Goal
  <2>1. CASE UNCHANGED tasks
    BY <2>1, <1>5, <1>b DEF ExpiryPersisted
  <2>2. CASE tasks' = InsertAt(tasks, job.i, job.t)
    <3>1. pc = "expFlush" /\ created' = created
      BY <1>5 DEF ExpiryPersisted
    <3>2. ListOK(tasks') /\ Ids(tasks') \subseteq Ids(tasks) \cup {job.t.id}
      BY <1>0, <2>2, <3>1, ReinsertEffect
    <3>3. job.t.id \in created
      BY <1>0, <3>1 DEF ActorOK, JobOK, JobPcs
    <3> QED
      BY <3>1, <3>2, <3>3, <1>a
  <2> QED
    BY <1>5, <2>1, <2>2 DEF ExpiryPersisted
<1>6. ASSUME NEW c \in Children, Launch(c) PROVE Goal
  <2>0. created' = created
    BY <1>6 DEF Launch
  <2>1. ListOK(tasks') /\ Ids(tasks') = Ids(tasks)
    BY <1>0, <1>6, LaunchEffect
  <2> QED
    BY <2>0, <2>1, <1>c
<1>7. ASSUME SpawnRefused PROVE Goal
  <2>1. ListOK(tasks') /\ Ids(tasks') = Ids(tasks)
    BY <1>0, <1>7, RestoreEffect
  <2> QED
    BY <2>1, <1>c, <1>7 DEF SpawnRefused
<1>8. ASSUME Spawned PROVE Goal
  <2>1. CASE Recurring(job.t.id)
    BY <2>1, <1>8, <1>b DEF Spawned
  <2>2. CASE ~Recurring(job.t.id)
    <3>1. ListOK(tasks') /\ Ids(tasks') \subseteq Ids(tasks)
      BY <1>0, <1>8, <2>2, OneShotEffect
    <3> QED
      BY <3>1, <1>c, <1>8 DEF Spawned
  <2> QED
    BY <2>1, <2>2
<1>9. ASSUME NEW c \in Children, GuardClears(c) PROVE Goal
  <2>1. ListOK(tasks') /\ Ids(tasks') = Ids(tasks)
    BY <1>0, <1>9, GuardEffect
  <2> QED
    BY <2>1, <1>c, <1>9 DEF GuardClears
<1>10. ASSUME Crash PROVE Goal
  <2>1. tasks' = <<>> /\ created' = created
    BY <1>10 DEF Crash
  <2>2. ListOK(<<>>) /\ Ids(<<>>) = {}
    BY EmptySeq, Bounds DEF ListOK, UniqueIds, Ids
  <2> QED
    BY <2>1, <2>2, <1>a
<1>11. ASSUME Start PROVE Goal
  BY <1>11, <1>a DEF Start
<1>12. ASSUME RetryDelete \/ AbandonRemoval \/ Announce \/ Stop \/ Skip PROVE Goal
  BY <1>12, <1>b DEF RetryDelete, AbandonRemoval, Announce, Stop, Skip
<1>13. ASSUME DeletePersisted \/ DeleteAcknowledged \/ DeleteTimesOut PROVE Goal
  BY <1>13, <1>b DEF DeletePersisted, DeleteAcknowledged, DeleteTimesOut
<1>14. ASSUME ExpiryAcknowledged \/ ExpiryTimesOut \/ RemovalFlushed PROVE Goal
  BY <1>14, <1>b DEF ExpiryAcknowledged, ExpiryTimesOut, RemovalFlushed
<1>15. ASSUME AskSkips \/ QueryEnded \/ UnitInactive \/ SpawnCancelled PROVE Goal
  BY <1>15, <1>b DEF AskSkips, QueryEnded, UnitInactive, SpawnCancelled
<1>16. ASSUME NEW c \in Children,
              Admit(c) \/ Refuse(c) \/ ChildEnds(c, "completed") \/ ChildEnds(c, "failed")
       PROVE  Goal
  BY <1>16, <1>b DEF Admit, Refuse, ChildEnds
<1>17. ASSUME CoordinatorGone \/ Wire \/ ToolSave \/ Cancel \/ WriterStep \/ BridgeStep PROVE Goal
  BY <1>17, <1>b DEF CoordinatorGone, Wire, ToolSave, Cancel, WriterStep, BridgeStep
<1>18. ASSUME NEW id \in Tasks, FallsDue(id) \/ Expires(id) PROVE Goal
  BY <1>18, <1>b DEF FallsDue, Expires
<1>19. ASSUME NEW i \in 1..Len(tasks), ExpireBlocked(i) \/ FireTask(i) PROVE Goal
  BY <1>19, <1>b DEF ExpireBlocked, FireTask
<1> QED
  BY <1>1, <1>2, <1>3, <1>4, <1>5, <1>6, <1>7, <1>8, <1>9, <1>10, <1>11, <1>12, <1>13, <1>14,
     <1>15, <1>16, <1>17, <1>18, <1>19
     DEF Next, Commands, Timer, Carries, Coordinator, Environment

LEMMA ListsStep ==
    ASSUME TypeInv, Next
    PROVE  ListsOK'
<1>1. ListOK(tasks') /\ Ids(tasks') \subseteq created' /\ created \subseteq created'
  BY TasksStep
<1>2. FileOK /\ \A l \in Lists : ListOK(l) /\ Ids(l) \subseteq created
  BY DEF TypeInv, ListsOK
<1>3. PersistStep /\ tasks' \in Seq(Task)
  BY <1>1, NextPersists DEF ListOK
<1>4. FileOK' /\ \A l \in Lists' : l \in Lists \/ l = tasks'
  BY <1>2, <1>3, PersistEffect
<1>5. \A l \in Lists' : ListOK(l) /\ Ids(l) \subseteq created'
  BY <1>1, <1>2, <1>4
<1> QED
  BY <1>4, <1>5 DEF ListsOK, ListOK, Ids, UniqueIds

\* Killed is a total function of the records.
LEMMA KilledOK ==
    ASSUME ChildrenOK
    PROVE  /\ Killed \in [Children -> Record]
           /\ \A c \in Children :
                /\ Killed[c].st \notin {"sent", "live"}
                /\ Killed[c].st \in {child[c].st, "dead"}
                /\ Killed[c].task = child[c].task /\ Killed[c].prompt = child[c].prompt
                /\ Killed[c].same = child[c].same /\ Killed[c].len = child[c].len
<1>1. \A c \in Children : child[c] \in Record
  BY DEF ChildrenOK
<1>2. ASSUME NEW c \in Children
      PROVE  LET r == [child[c] EXCEPT !.st = IF @ \in {"sent", "live"} THEN "dead" ELSE @] IN
             /\ r \in Record /\ r.st \notin {"sent", "live"} /\ r.st \in {child[c].st, "dead"}
             /\ r.task = child[c].task /\ r.prompt = child[c].prompt
             /\ r.same = child[c].same /\ r.len = child[c].len
  BY <1>1 DEF Record
<1> QED
  BY <1>2 DEF Killed

LEMMA ChildrenStep ==
    ASSUME TypeInv, Next
    PROVE  ChildrenOK'
<1>0. ChildrenOK /\ ActorOK /\ ListsOK
  BY DEF TypeInv
<1>a. \A c \in Children : child[c] \in Record
  BY <1>0 DEF ChildrenOK
<1> USE DEF Aside, cvars
<1>1. ASSUME NEW c \in Children, Launch(c) PROVE ChildrenOK'
  <2>1. job \in Job
    BY <1>0, <1>1 DEF Launch, ActorOK, JobOK, JobPcs
  <2>2. job.t.id \in Tasks /\ job.t.prompt \in Prompts /\ job.t.anchor \in Children \cup {None}
    BY <2>1 DEF Job, Task
  <2> DEFINE from == IF StartsFresh THEN None ELSE job.t.anchor
             len == IF from = None THEN 1 ELSE child[from].len + 1
             same == from = None \/ child[from].prompt = job.t.prompt
             st == IF coord # "closed" THEN "sent" ELSE "unsent"
             r == [st |-> st, task |-> job.t.id, prompt |-> job.t.prompt,
                   same |-> same, len |-> len]
  <2>3. child' = [child EXCEPT ![c] = r]
    BY <1>1 DEF Launch
  <2>4. len \in Nat
    <3>1. CASE from = None
      BY <3>1
    <3>2. CASE from # None
      <4>1. from \in Children
        BY <3>2, <2>2
      <4>2. child[from].len \in Nat
        BY <4>1, <1>a DEF Record
      <4> HIDE DEF from
      <4> QED
        BY <3>2, <4>2
    <3> QED
      BY <3>1, <3>2
  <2>5. same \in BOOLEAN /\ st \in {"sent", "unsent"}
    OBVIOUS
  <2> HIDE DEF len, same, st
  <2>6. r \in Record
    BY <2>2, <2>4, <2>5 DEF Record
  <2> HIDE DEF r
  <2> QED
    BY <2>3, <2>6, <1>0 DEF ChildrenOK
<1>2. ASSUME NEW c \in Children, NEW s \in {"live", "refused", "completed", "failed"},
             child' = [child EXCEPT ![c].st = s]
      PROVE  ChildrenOK'
  <2>1. [child[c] EXCEPT !.st = s] \in Record
    BY <1>a DEF Record
  <2> QED
    BY <1>2, <2>1, <1>0 DEF ChildrenOK
<1>3. ASSUME NEW c \in Children,
             Admit(c) \/ Refuse(c) \/ ChildEnds(c, "completed") \/ ChildEnds(c, "failed")
      PROVE  ChildrenOK'
  BY <1>3, <1>2 DEF Admit, Refuse, ChildEnds
<1>4. ASSUME CoordinatorGone \/ Crash PROVE ChildrenOK'
  <2>1. child' = Killed
    BY <1>4 DEF CoordinatorGone, Crash
  <2> QED
    BY <2>1, <1>0, KilledOK DEF ChildrenOK
<1>b. ASSUME UNCHANGED child PROVE ChildrenOK'
  BY <1>b, <1>0 DEF ChildrenOK
<1>5. ASSUME NEW id \in Tasks, NEW p \in Prompts, NEW b \in BOOLEAN, Create(id, p, b) \/ Update(id, p, b)
      PROVE  ChildrenOK'
  BY <1>5, <1>b DEF Create, Update
<1>6. ASSUME NEW id \in Tasks, Delete(id) \/ FallsDue(id) \/ Expires(id) PROVE ChildrenOK'
  BY <1>6, <1>b DEF Delete, FallsDue, Expires
<1>7. ASSUME NEW i \in 1..Len(tasks), ExpireBlocked(i) \/ ExpireTask(i) \/ FireTask(i)
      PROVE  ChildrenOK'
  BY <1>7, <1>b DEF ExpireBlocked, ExpireTask, FireTask
<1>8. ASSUME RetryDelete \/ AbandonRemoval \/ Announce \/ Stop \/ Skip PROVE ChildrenOK'
  BY <1>8, <1>b DEF RetryDelete, AbandonRemoval, Announce, Stop, Skip
<1>9. ASSUME DeletePersisted \/ DeleteAcknowledged \/ DeleteTimesOut PROVE ChildrenOK'
  BY <1>9, <1>b DEF DeletePersisted, DeleteAcknowledged, DeleteTimesOut
<1>10. ASSUME ExpiryPersisted \/ ExpiryAcknowledged \/ ExpiryTimesOut \/ RemovalFlushed PROVE ChildrenOK'
  BY <1>10, <1>b DEF ExpiryPersisted, ExpiryAcknowledged, ExpiryTimesOut, RemovalFlushed
<1>11. ASSUME AskSkips \/ QueryEnded \/ UnitInactive PROVE ChildrenOK'
  BY <1>11, <1>b DEF AskSkips, QueryEnded, UnitInactive
<1>12. ASSUME SpawnRefused \/ SpawnCancelled \/ Spawned PROVE ChildrenOK'
  BY <1>12, <1>b DEF SpawnRefused, SpawnCancelled, Spawned
<1>13. ASSUME NEW c \in Children, GuardClears(c) PROVE ChildrenOK'
  BY <1>13, <1>b DEF GuardClears
<1>14. ASSUME Wire \/ ToolSave \/ Cancel \/ Start \/ WriterStep \/ BridgeStep PROVE ChildrenOK'
  BY <1>14, <1>b DEF Wire, ToolSave, Cancel, Start, WriterStep, BridgeStep
<1> QED
  BY <1>1, <1>3, <1>4, <1>5, <1>6, <1>7, <1>8, <1>9, <1>10, <1>11, <1>12, <1>13, <1>14
     DEF Next, Commands, Timer, Carries, Coordinator, Environment

LEMMA FireOK ==
    ASSUME ListsOK, SetsOK, NEW i \in 1..Len(tasks), NEW n \in {1, 2}, n = 2 => MaxRev >= 2
    PROVE  LET j == Fire(i, n) IN
           /\ j \in Job /\ ResOK(j.res) /\ clock = Expected(j.res) /\ j.res.left = n
           /\ j.t = tasks[i] /\ j.i = i /\ j.prev = "none" /\ j.c = None
<1>1. ListOK(tasks) /\ Len(tasks) \in Nat /\ Len(tasks) <= MaxTasks /\ clock \in Version
  BY TasksOK DEF SetsOK
<1>2. tasks[i] \in Task /\ i \in 1..MaxTasks
  BY <1>1, EntriesOK, Bounds
<1>3. ResOK(Reserve(n)) /\ clock = Expected(Reserve(n)) /\ Reserve(n).left = n
  BY <1>1, ReserveOK
<1>4. Reserve(n) \in Reservation
  BY <1>3 DEF ResOK
<1> QED
  BY <1>2, <1>3, <1>4 DEF Fire, Job

LEMMA ActorStep ==
    ASSUME TypeInv, Next
    PROVE  ActorOK'
<1>0. ListsOK /\ SetsOK /\ ChildrenOK /\ ActorOK
  BY DEF TypeInv
<1>a. /\ ListOK(tasks) /\ Ids(tasks) \subseteq created /\ Len(tasks) \in Nat /\ Len(tasks) <= MaxTasks
      /\ clock \in Version /\ created \subseteq created'
  BY <1>0, TasksOK, TasksStep DEF SetsOK
<1> USE DEF Aside, Idle, avars, hvars
<1>b. ASSUME UNCHANGED <<clock, pending, pc, job>>, Ids(tasks') = Ids(tasks), Len(tasks') = Len(tasks)
      PROVE  ActorOK'
  BY <1>0, <1>a, <1>b DEF ActorOK, JobOK, PendingOK
\* The operation ends.
<1>c. ASSUME pc' \in {"idle", "start"}, job' = None, pending' = None
      PROVE  ActorOK'
  BY <1>c DEF ActorOK, PCs, JobPcs
\* The job goes on.
<1>d. ASSUME pc \in JobPcs, pc' \in JobPcs, pc' # "expFlush", UNCHANGED <<clock, job, pending>>,
             pc' \in GonePcs => pc \in GonePcs, pc' \in FirePcs => pc \in FirePcs,
             Ids(tasks') = Ids(tasks), pc' # "register"
      PROVE  ActorOK'
  BY <1>0, <1>a, <1>d DEF ActorOK, JobOK, PCs, JobPcs, GonePcs
<1>1. ASSUME NEW id \in Tasks, NEW p \in Prompts, NEW b \in BOOLEAN, Create(id, p, b) \/ Update(id, p, b)
      PROVE  ActorOK'
  <2>1. pc' = "idle" /\ job' = None /\ pending' = None
    BY <1>1, <1>0 DEF Create, Update, ActorOK, JobPcs
  <2> QED
    BY <2>1, <1>c
<1>2. ASSUME NEW id \in Tasks, Delete(id) PROVE ActorOK'
  <2>1. id \notin Ids(tasks') /\ id \in Ids(tasks)
    BY <1>0, <1>2, DeleteEffect
  <2>2. /\ pc = "idle" /\ pc' = "delFlush" /\ job' = job /\ clock' = clock /\ created' = created
        /\ pending' = [id |-> id, res |-> Reserve(1)]
    BY <1>2 DEF Delete, BeginBarrier
  <2>3. job = None
    BY <2>2, <1>0 DEF ActorOK, JobPcs
  <2>4. ResOK(Reserve(1)) /\ clock = Expected(Reserve(1)) /\ Reserve(1) \in Reservation
    BY <1>a, ReserveOK DEF ResOK
  <2>5. /\ pending' \in [id : Tasks, res : Reservation] /\ pending'.id = id /\ pending'.res = Reserve(1)
    BY <2>2, <2>4
  <2>6. PendingOK'
    BY <2>1, <2>2, <2>4, <2>5, <1>a DEF PendingOK, ResOK, Expected
  <2> QED
    BY <2>2, <2>3, <2>6 DEF ActorOK, PCs, JobPcs
<1>3. ASSUME RetryDelete PROVE ActorOK'
  BY <1>3, <1>0 DEF RetryDelete, BeginBarrier, ActorOK, PendingOK, PCs, JobPcs
<1>4. ASSUME AbandonRemoval PROVE ActorOK'
  BY <1>4, <1>0 DEF AbandonRemoval, ActorOK, PCs, JobPcs
<1>5. ASSUME DeletePersisted \/ DeleteTimesOut PROVE ActorOK'
  BY <1>5, <1>0 DEF DeletePersisted, DeleteTimesOut, ActorOK, PendingOK, PCs, JobPcs
<1>6. ASSUME DeleteAcknowledged PROVE ActorOK'
  BY <1>6, <1>0 DEF DeleteAcknowledged, ActorOK, PendingOK, PCs, JobPcs
<1>7. ASSUME NEW i \in 1..Len(tasks), ExpireBlocked(i) PROVE ActorOK'
  BY <1>7, <1>b DEF ExpireBlocked
<1>8. ASSUME NEW i \in 1..Len(tasks), ExpireTask(i) PROVE ActorOK'
  <2>1. tasks[i].id \notin Ids(tasks') /\ Len(tasks') = Len(tasks) - 1 /\ tasks[i].id \in Ids(tasks)
    BY <1>0, <1>8, ExpireEffect
  <2>2. /\ job' = Fire(i, 1) /\ pc' \in {"expFlush", "rmFlush"} /\ pending' = pending
        /\ pending = None /\ clock' = clock /\ created' = created
    BY <1>8 DEF ExpireTask, Selected
  <2>3. /\ job' \in Job /\ ResOK(job'.res) /\ clock = Expected(job'.res)
        /\ job'.t = tasks[i] /\ job'.i = i
    BY <1>0, <2>2, FireOK
  <2>4. JobOK'
    BY <2>1, <2>2, <2>3, <1>a, Bounds DEF JobOK, ResOK, Expected, FirePcs, GonePcs
  <2> QED
    BY <2>2, <2>4 DEF ActorOK, PCs, JobPcs
<1>9. ASSUME NEW i \in 1..Len(tasks), FireTask(i) PROVE ActorOK'
  <2> DEFINE n == IF Recurring(tasks[i].id) THEN 1 ELSE 2
  <2>1. /\ job' = Fire(i, n) /\ pc' \in {"skip", "launch", "query"} /\ pending' = pending
        /\ pending = None /\ clock' = clock /\ created' = created /\ tasks' = tasks
    BY <1>9 DEF FireTask, Selected
  <2>2. n \in {1, 2} /\ (n = 2 => MaxRev >= 2) /\ (tasks[i].id \in OneShots => n = 2)
    BY Bounds DEF Recurring
  <2> HIDE DEF n
  <2>3. /\ job' \in Job /\ ResOK(job'.res) /\ clock = Expected(job'.res) /\ job'.res.left = n
        /\ job'.t = tasks[i]
    BY <1>0, <2>1, <2>2, FireOK
  <2>4. tasks[i].id \in Ids(tasks)
    BY IdsOfEntries
  <2>5. JobOK'
    BY <2>1, <2>2, <2>3, <2>4, <1>a DEF JobOK, ResOK, Expected, FirePcs, GonePcs
  <2> QED
    BY <2>1, <2>5 DEF ActorOK, PCs, JobPcs
<1>10. ASSUME ExpiryPersisted PROVE ActorOK'
  <2>0. pc = "expFlush" /\ pending = None /\ pending' = pending
    BY <1>10, <1>0 DEF ExpiryPersisted, ActorOK, JobPcs
  <2>1. CASE pc' = "expAck" /\ UNCHANGED <<tasks, job>>
    BY <2>0, <2>1, <1>10, <1>d DEF ExpiryPersisted, JobPcs, GonePcs, FirePcs
  <2>2. CASE Done
    BY <2>0, <2>2, <1>c DEF Done
  <2> QED
    BY <1>10, <2>1, <2>2 DEF ExpiryPersisted
<1>11. ASSUME ExpiryAcknowledged \/ ExpiryTimesOut \/ RemovalFlushed \/ Skip PROVE ActorOK'
  <2>1. pc \in JobPcs /\ pending' = pending
    BY <1>11 DEF ExpiryAcknowledged, ExpiryTimesOut, RemovalFlushed, Skip, JobPcs
  <2>2. pending = None
    BY <2>1, <1>0 DEF ActorOK
  <2> QED
    BY <1>11, <1>c, <2>1, <2>2 DEF ExpiryAcknowledged, ExpiryTimesOut, RemovalFlushed, Skip, Done
<1>12. ASSUME AskSkips \/ UnitInactive \/ SpawnCancelled PROVE ActorOK'
  BY <1>12, <1>d DEF AskSkips, UnitInactive, SpawnCancelled, JobPcs, FirePcs, GonePcs
<1>13. ASSUME QueryEnded PROVE ActorOK'
  <2>1. /\ pc = "query" /\ pc' = "unit" /\ pending' = pending /\ clock' = clock
        /\ created' = created /\ tasks' = tasks
    BY <1>13 DEF QueryEnded
  <2>2. PICK s \in StatusOf(job.t.anchor) \ {"live"} : job' = [job EXCEPT !.prev = s]
    BY <1>13 DEF QueryEnded
  <2>3. s \in {"completed", "failed", "unknown"}
    BY <2>2 DEF StatusOf
  <2>4. JobOK /\ pending = None
    BY <2>1, <1>0 DEF ActorOK, JobPcs
  <2>5. /\ job' \in Job /\ job'.res = job.res /\ job'.t = job.t
    BY <2>2, <2>3, <2>4 DEF JobOK, Job
  <2>6. JobOK'
    BY <2>1, <2>4, <2>5 DEF JobOK, ResOK, Expected, FirePcs, GonePcs
  <2> QED
    BY <2>1, <2>4, <2>6 DEF ActorOK, PCs, JobPcs
<1>14. ASSUME NEW c \in Children, Launch(c) PROVE ActorOK'
  <2>1. /\ pc = "launch" /\ pc' = "register" /\ pending' = pending /\ clock' = clock
        /\ created' = created /\ job' = [job EXCEPT !.c = c]
    BY <1>14 DEF Launch
  <2>2. Ids(tasks') = Ids(tasks)
    BY <1>14, <1>0, LaunchEffect
  <2>4. JobOK /\ pending = None
    BY <2>1, <1>0 DEF ActorOK, JobPcs
  <2>5. /\ job' \in Job /\ job'.res = job.res /\ job'.t = job.t /\ job'.c = c
    BY <2>1, <2>4 DEF JobOK, Job
  <2>6. JobOK'
    BY <2>1, <2>2, <2>4, <2>5 DEF JobOK, ResOK, Expected, FirePcs, GonePcs
  <2> QED
    BY <2>1, <2>4, <2>6 DEF ActorOK, PCs, JobPcs
<1>15. ASSUME SpawnRefused PROVE ActorOK'
  <2>1. Ids(tasks') = Ids(tasks)
    BY <1>15, <1>0, RestoreEffect
  <2> QED
    BY <2>1, <1>15, <1>d DEF SpawnRefused, JobPcs, FirePcs, GonePcs
<1>16. ASSUME Spawned PROVE ActorOK'
  <2>0. pc = "register" /\ pending' = pending /\ clock' = job.res.next /\ created' = created
    BY <1>16 DEF Spawned, Commit
  <2>1. JobOK /\ pending = None
    BY <2>0, <1>0 DEF ActorOK, JobPcs
  <2>2. CASE Recurring(job.t.id)
    BY <2>0, <2>1, <2>2, <1>16, <1>c DEF Spawned, Done
  <2>3. CASE ~Recurring(job.t.id)
    <3>1. job.t.id \notin Ids(tasks')
      BY <1>0, <1>16, <2>3, OneShotEffect
    <3>2. pc' = "rmFlush" /\ job' = [job EXCEPT !.res = Spent(job.res)]
      BY <1>16, <2>3 DEF Spawned
    <3>3. job.res.left = 2
      BY <2>0, <2>1, <2>3 DEF JobOK, FirePcs, Recurring
    <3>4. ResOK(Spent(job.res)) /\ Expected(Spent(job.res)) = job.res.next
      BY <3>3, <2>1, ResNext DEF JobOK
    <3>5. Spent(job.res) \in Reservation
      BY <3>4 DEF ResOK
    <3>6. /\ job' \in Job /\ job'.res = Spent(job.res) /\ job'.t = job.t
      BY <3>2, <3>5, <2>1 DEF JobOK, Job
    <3>7. ResOK(job'.res) /\ clock' = Expected(job'.res)
      BY <3>4, <3>6, <2>0
    <3>8. JobOK'
      BY <3>1, <3>2, <3>6, <3>7, <2>0, <2>1 DEF JobOK, ResOK, Expected, FirePcs
    <3> QED
      BY <3>2, <3>8, <2>0, <2>1 DEF ActorOK, PCs, JobPcs
  <2> QED
    BY <2>2, <2>3
<1>17. ASSUME NEW c \in Children, GuardClears(c) PROVE ActorOK'
  BY <1>17, <1>0, <1>b, GuardEffect DEF GuardClears
<1>18. ASSUME NEW c \in Children,
              Admit(c) \/ Refuse(c) \/ ChildEnds(c, "completed") \/ ChildEnds(c, "failed")
       PROVE  ActorOK'
  BY <1>18, <1>b DEF Admit, Refuse, ChildEnds
<1>19. ASSUME CoordinatorGone \/ Wire \/ ToolSave \/ Cancel \/ WriterStep \/ BridgeStep PROVE ActorOK'
  BY <1>19, <1>b DEF CoordinatorGone, Wire, ToolSave, Cancel, WriterStep, BridgeStep
<1>20. ASSUME NEW id \in Tasks, FallsDue(id) \/ Expires(id) PROVE ActorOK'
  BY <1>20, <1>b DEF FallsDue, Expires
<1>21. ASSUME Crash PROVE ActorOK'
  BY <1>21 DEF Crash, ActorOK, PCs, JobPcs
<1>22. ASSUME Start PROVE ActorOK'
  BY <1>22, <1>0, <1>c DEF Start, ActorOK, JobPcs
<1>23. ASSUME Announce PROVE ActorOK'
  BY <1>23, <1>0 DEF Announce, ActorOK, PendingOK, PCs, JobPcs
<1>24. ASSUME Stop PROVE ActorOK'
  BY <1>24, <1>0 DEF Stop, ActorOK, PendingOK, PCs, JobPcs
<1> QED
  BY <1>1, <1>2, <1>3, <1>4, <1>5, <1>6, <1>7, <1>8, <1>9, <1>10, <1>11, <1>12, <1>13, <1>14,
     <1>15, <1>16, <1>17, <1>18, <1>19, <1>20, <1>21, <1>22, <1>23, <1>24
     DEF Next, Commands, Timer, Carries, Coordinator, Environment

LEMMA SetsStep ==
    ASSUME TypeInv, Next
    PROVE  SetsOK'
<1>0. ListsOK /\ SetsOK /\ ChildrenOK /\ ActorOK
  BY DEF TypeInv
<1>a. /\ ListOK(tasks) /\ Ids(tasks) \subseteq Tasks /\ Ids(disk) \subseteq Tasks
      /\ created' \subseteq Tasks /\ Len(tasks) \in Nat /\ Len(tasks) <= MaxTasks
      /\ \A i \in 1..Len(tasks) : tasks[i].id \in Tasks
  <2>1. ListOK(tasks) /\ ListOK(disk) /\ Len(tasks) \in Nat /\ Len(tasks) <= MaxTasks
    BY <1>0, TasksOK
  <2>2. \A i \in 1..Len(tasks) : tasks[i] \in Task
    BY <2>1, EntriesOK
  <2> QED
    BY <2>1, <2>2, EntriesOK, TasksStep DEF Task
<1> USE DEF Aside, Idle, avars, hvars, cvars, svars
<1>b. /\ Reserve(1).next \in Version
      /\ pc \in JobPcs => job.res.next \in Version /\ job \in Job /\ job.t.id \in Tasks
      /\ pc \in {"delFlush", "delAck"} => pending.res.next \in Version
  <2>1. Reserve(1).next \in Version
    BY <1>0, ReserveOK, ResNext DEF SetsOK
  <2>2. pc \in JobPcs => job.res.next \in Version /\ job \in Job /\ job.t.id \in Tasks
    BY <1>0, ResNext DEF ActorOK, JobOK, Job, Task
  <2>3. pc \in {"delFlush", "delAck"} => pending.res.next \in Version
    BY <1>0, ResNext DEF ActorOK, PendingOK
  <2> QED
    BY <2>1, <2>2, <2>3
<1>1. ASSUME NEW id \in Tasks, NEW p \in Prompts, NEW b \in BOOLEAN, Create(id, p, b) \/ Update(id, p, b)
      PROVE  SetsOK'
  BY <1>1, <1>0, <1>a, <1>b DEF Create, Update, Commit, SetsOK
<1>2. ASSUME NEW id \in Tasks, Delete(id) \/ FallsDue(id) \/ Expires(id) PROVE SetsOK'
  BY <1>2, <1>0, <1>a DEF Delete, FallsDue, Expires, SetsOK
<1>3. ASSUME NEW i \in 1..Len(tasks), ExpireBlocked(i) \/ ExpireTask(i) \/ FireTask(i)
      PROVE  SetsOK'
  BY <1>3, <1>0, <1>a DEF ExpireBlocked, ExpireTask, FireTask, SetsOK
<1>4. ASSUME RetryDelete \/ AbandonRemoval \/ Announce \/ Skip PROVE SetsOK'
  BY <1>4, <1>0 DEF RetryDelete, AbandonRemoval, Announce, Skip, SetsOK
<1>5. ASSUME DeletePersisted \/ DeleteAcknowledged \/ DeleteTimesOut PROVE SetsOK'
  BY <1>5, <1>0, <1>b DEF DeletePersisted, DeleteAcknowledged, DeleteTimesOut, Commit, SetsOK
<1>6. ASSUME ExpiryPersisted \/ ExpiryAcknowledged \/ ExpiryTimesOut \/ RemovalFlushed PROVE SetsOK'
  BY <1>6, <1>0, <1>b
     DEF ExpiryPersisted, ExpiryAcknowledged, ExpiryTimesOut, RemovalFlushed, Commit, SetsOK, JobPcs
<1>7. ASSUME AskSkips \/ QueryEnded \/ UnitInactive PROVE SetsOK'
  BY <1>7, <1>0 DEF AskSkips, QueryEnded, UnitInactive, SetsOK
<1>8. ASSUME SpawnRefused \/ SpawnCancelled PROVE SetsOK'
  BY <1>8, <1>0 DEF SpawnRefused, SpawnCancelled, SetsOK
<1>9. ASSUME Spawned PROVE SetsOK'
  <2>1. pc = "register" /\ job.c \in Children
    BY <1>9, <1>0 DEF Spawned, ActorOK, JobOK, JobPcs
  <2>2. guards' \subseteq Children
    BY <1>9, <1>0, <2>1 DEF Spawned, SetsOK
  <2>3. clock' \in Version
    BY <1>9, <1>b, <2>1 DEF Spawned, Commit, JobPcs
  <2> QED
    BY <1>9, <1>0, <2>2, <2>3 DEF Spawned, SetsOK
<1>10. ASSUME NEW c \in Children, Launch(c) \/ GuardClears(c) PROVE SetsOK'
  BY <1>10, <1>0 DEF Launch, GuardClears, SetsOK
<1>11. ASSUME NEW c \in Children,
              Admit(c) \/ Refuse(c) \/ ChildEnds(c, "completed") \/ ChildEnds(c, "failed")
       PROVE  SetsOK'
  BY <1>11, <1>0 DEF Admit, Refuse, ChildEnds, SetsOK, Recurring
<1>12. ASSUME CoordinatorGone \/ Wire \/ Cancel \/ WriterStep \/ BridgeStep PROVE SetsOK'
  BY <1>12, <1>0 DEF CoordinatorGone, Wire, Cancel, WriterStep, BridgeStep, SetsOK
<1>13. ASSUME ToolSave PROVE SetsOK'
  BY <1>13, <1>0, Bounds DEF ToolSave, SetsOK
<1>14. ASSUME Crash PROVE SetsOK'
  <2>1. ends' \in 0..MaxEnds /\ clock' \in Version
    BY <1>14, <1>0, Bounds DEF Crash, SetsOK, Version
  <2> QED
    BY <2>1, <1>14, <1>0 DEF Crash, SetsOK
<1>15. ASSUME Start PROVE SetsOK'
  BY <1>15, <1>0, <1>a DEF Start, SetsOK
<1>16. ASSUME Stop PROVE SetsOK'
  <2>1. clock' \in Version
    <3>1. CASE tasks = <<>>
      BY <3>1, <1>16, <1>0 DEF Stop, SetsOK
    <3>2. CASE tasks # <<>>
      <4> DEFINE n == Len(tasks)
      <4>1. n \in Nat /\ n >= 1 /\ n <= MaxRev /\ clock \in Nat
        BY <3>2, <1>a, <1>0, Bounds, EmptySeq DEF ListOK, SetsOK, Version
      <4>2. clock' = Reserve(n).next + n - 1
        BY <3>2, <1>16 DEF Stop
      <4>3. Reserve(n).next = IF clock + n > MaxRev THEN 1 ELSE clock + 1
        BY DEF Reserve
      <4> HIDE DEF n
      <4> QED
        BY <4>1, <4>2, <4>3, Bounds DEF Version
    <3> QED
      BY <3>1, <3>2
  <2> QED
    BY <2>1, <1>16, <1>0 DEF Stop, SetsOK
<1> QED
  BY <1>1, <1>2, <1>3, <1>4, <1>5, <1>6, <1>7, <1>8, <1>9, <1>10, <1>11, <1>12, <1>13, <1>14,
     <1>15, <1>16
     DEF Next, Commands, Timer, Carries, Coordinator, Environment

LEMMA HistoryStep ==
    ASSUME TypeInv, Next
    PROVE  HistoryOK'
<1>0. ListsOK /\ SetsOK /\ ActorOK /\ HistoryOK /\ created \subseteq created'
  BY TasksStep DEF TypeInv
<1> USE DEF Aside, Idle, avars, hvars, cvars, svars
<1>a. ASSUME UNCHANGED <<gone, told>>, pc' \in {"delAck", "expAck"} => UNCHANGED <<pc, pending, job>>
      PROVE  HistoryOK'
  BY <1>0, <1>a DEF HistoryOK
<1>1. ASSUME NEW id \in Tasks, NEW p \in Prompts, NEW b \in BOOLEAN, Create(id, p, b) \/ Update(id, p, b)
      PROVE  HistoryOK'
  BY <1>1, <1>a DEF Create, Update
<1>2. ASSUME NEW id \in Tasks, Delete(id) \/ FallsDue(id) \/ Expires(id) PROVE HistoryOK'
  BY <1>2, <1>a DEF Delete, BeginBarrier, FallsDue, Expires
<1>3. ASSUME NEW i \in 1..Len(tasks), ExpireBlocked(i) \/ ExpireTask(i) PROVE HistoryOK'
  BY <1>3, <1>a DEF ExpireBlocked, ExpireTask
<1>4. ASSUME NEW i \in 1..Len(tasks), FireTask(i) PROVE HistoryOK'
  <2>1. pc' \in {"skip", "launch", "query"}
    BY <1>4 DEF FireTask
  <2> QED
    BY <2>1, <1>4, <1>a DEF FireTask
<1>5. ASSUME RetryDelete \/ AbandonRemoval \/ Announce \/ Skip \/ Stop PROVE HistoryOK'
  BY <1>5, <1>a DEF RetryDelete, BeginBarrier, AbandonRemoval, Announce, Skip, Done, Stop
<1>6. ASSUME DeletePersisted PROVE HistoryOK'
  <2>1. pending.id \in created
    BY <1>6, <1>0 DEF DeletePersisted, ActorOK, PendingOK
  <2> QED
    BY <2>1, <1>6, <1>0 DEF DeletePersisted, HistoryOK
<1>7. ASSUME DeleteAcknowledged PROVE HistoryOK'
  BY <1>7, <1>0 DEF DeleteAcknowledged, HistoryOK
<1>8. ASSUME DeleteTimesOut \/ ExpiryTimesOut PROVE HistoryOK'
  BY <1>8, <1>a DEF DeleteTimesOut, ExpiryTimesOut, Done
<1>9. ASSUME ExpiryPersisted PROVE HistoryOK'
  <2>1. job.t.id \in created
    BY <1>9, <1>0 DEF ExpiryPersisted, ActorOK, JobOK, JobPcs
  <2> QED
    BY <2>1, <1>9, <1>0 DEF ExpiryPersisted, HistoryOK, Done
<1>10. ASSUME ExpiryAcknowledged PROVE HistoryOK'
  BY <1>10, <1>0 DEF ExpiryAcknowledged, HistoryOK, Done
<1>11. ASSUME RemovalFlushed PROVE HistoryOK'
  <2>1. job.t.id \in created
    BY <1>11, <1>0 DEF RemovalFlushed, ActorOK, JobOK, JobPcs
  <2> QED
    BY <2>1, <1>11, <1>0 DEF RemovalFlushed, HistoryOK, Done
<1>12. ASSUME AskSkips \/ QueryEnded \/ UnitInactive PROVE HistoryOK'
  BY <1>12, <1>a DEF AskSkips, QueryEnded, UnitInactive
<1>13. ASSUME SpawnRefused \/ SpawnCancelled \/ Spawned PROVE HistoryOK'
  BY <1>13, <1>a DEF SpawnRefused, SpawnCancelled, Spawned, Done
<1>14. ASSUME NEW c \in Children, Launch(c) \/ GuardClears(c) PROVE HistoryOK'
  BY <1>14, <1>a DEF Launch, GuardClears
<1>15. ASSUME NEW c \in Children,
              Admit(c) \/ Refuse(c) \/ ChildEnds(c, "completed") \/ ChildEnds(c, "failed")
       PROVE  HistoryOK'
  BY <1>15, <1>a DEF Admit, Refuse, ChildEnds
<1>16. ASSUME CoordinatorGone \/ Wire \/ ToolSave \/ Cancel \/ WriterStep \/ BridgeStep PROVE HistoryOK'
  BY <1>16, <1>a DEF CoordinatorGone, Wire, ToolSave, Cancel, WriterStep, BridgeStep
<1>17. ASSUME Crash \/ Start PROVE HistoryOK'
  BY <1>17, <1>a DEF Crash, Start
<1> QED
  BY <1>1, <1>2, <1>3, <1>4, <1>5, <1>6, <1>7, <1>8, <1>9, <1>10, <1>11, <1>12, <1>13, <1>14,
     <1>15, <1>16, <1>17
     DEF Next, Commands, Timer, Carries, Coordinator, Environment

----------------------------------------------------------------------------
(* What a step does to the notifications.                                  *)

LEMMA NotesOfProps ==
    ASSUME NEW op \in {"show", "hide"}, NEW list, ListOK(list)
    PROVE  /\ NotesOf(op, list) \in Seq(Note) /\ Len(NotesOf(op, list)) = Len(list)
           /\ \A i \in 1..Len(list) : NotesOf(op, list)[i] = N(op, list[i].id)
<1>1. Len(list) \in Nat /\ \A i \in 1..Len(list) : list[i] \in Task
  BY EntriesOK
<1>2. \A i \in 1..Len(list) : N(op, list[i].id) \in Note
  BY <1>1 DEF N, Note, Task
<1>3. NotesOf(op, list) \in [1..Len(list) -> Note]
  BY <1>2 DEF NotesOf
<1> QED
  BY <1>1, <1>3, FunctionIsSeq DEF NotesOf

LEMMA SendProps ==
    ASSUME BridgeTypeOK, NEW ns \in Seq(Note), Send(ns)
    PROVE  /\ notes' \in Seq(Note)
           /\ ~open => notes' = notes
           /\ open => /\ Len(notes') = Len(notes) + Len(ns)
                      /\ \A i \in 1..Len(notes) : notes'[i] = notes[i]
                      /\ \A i \in 1..Len(ns) : notes'[Len(notes) + i] = ns[i]
                      /\ \A i \in 1..Len(notes') :
                            i \in 1..Len(notes) \/ \E j \in 1..Len(ns) : i = Len(notes) + j
<1>1. notes \in Seq(Note) /\ Len(notes) \in Nat /\ Len(ns) \in Nat
  BY LenProperties DEF BridgeTypeOK
<1>2. CASE ~open
  BY <1>1, <1>2 DEF Send
<1>3. CASE open
  <2>1. notes' = notes \o ns
    BY <1>3 DEF Send
  <2>2. /\ notes' \in Seq(Note) /\ Len(notes') = Len(notes) + Len(ns)
        /\ \A i \in 1..(Len(notes) + Len(ns)) :
              notes'[i] = IF i <= Len(notes) THEN notes[i] ELSE ns[i - Len(notes)]
    BY <2>1, <1>1, ConcatProperties
  <2>3. \A i \in 1..Len(notes) : notes'[i] = notes[i]
    BY <2>2, <1>1
  <2>4. ASSUME NEW i \in 1..Len(ns) PROVE notes'[Len(notes) + i] = ns[i]
    <3>1. /\ Len(notes) + i \in 1..(Len(notes) + Len(ns)) /\ ~(Len(notes) + i <= Len(notes))
          /\ (Len(notes) + i) - Len(notes) = i
      BY <1>1
    <3> QED
      BY <3>1, <2>2
  <2>5. ASSUME NEW i \in 1..Len(notes')
        PROVE  i \in 1..Len(notes) \/ \E j \in 1..Len(ns) : i = Len(notes) + j
    <3>1. CASE i <= Len(notes)
      BY <3>1, <1>1, <2>2
    <3>2. CASE ~(i <= Len(notes))
      <4>1. i - Len(notes) \in 1..Len(ns) /\ i = Len(notes) + (i - Len(notes))
        BY <3>2, <1>1, <2>2
      <4> QED
        BY <4>1
    <3> QED
      BY <3>1, <3>2
  <2> QED
    BY <1>3, <2>2, <2>3, <2>4, <2>5
<1> QED
  BY <1>2, <1>3

LEMMA OneNote ==
    ASSUME NEW op \in {"show", "fire", "hide", "tomb"}, NEW id \in Tasks, NEW w \in BOOLEAN
    PROVE  LET n == [op |-> op, id |-> id, waited |-> w] IN
           <<n>> \in Seq(Note) /\ Len(<<n>>) = 1 /\ <<n>>[1] = n /\ n \in Note
<1> DEFINE n == [op |-> op, id |-> id, waited |-> w]
<1>1. n \in Note
  BY DEF Note
<1> HIDE DEF n
<1>2. <<n>> \in Seq(Note) /\ Len(<<n>>) = 1 /\ <<n>>[1] = n
  BY <1>1
<1> QED
  BY <1>1, <1>2 DEF n

BridgeMove ==
    \/ Quiet \/ StopAwaiting \/ Deliver \/ BridgeCloses \/ BridgeCrash
    \/ \E ns \in Seq(Note) : Tell(ns)
    \/ \E id \in Tasks : Publish(id)
    \/ open' = Bridged /\ UNCHANGED <<notes, view, receipt>>

LEMMA DeliverProps ==
    ASSUME BridgeTypeOK, notes # <<>>, notes' = Tail(notes)
    PROVE  /\ notes' \in Seq(Note) /\ Len(notes') = Len(notes) - 1 /\ Len(notes) >= 1
           /\ Len(notes) \in Nat
           /\ Head(notes) = notes[1] /\ Head(notes) \in Note
           /\ \A i \in 1..Len(notes') : notes'[i] = notes[i + 1]
<1>1. notes \in Seq(Note) /\ Len(notes) \in Nat
  BY LenProperties DEF BridgeTypeOK
<1>2. Len(notes) >= 1
  BY <1>1, EmptySeq
<1>3. Head(notes) = notes[1]
  BY <1>1, <1>2
<1> QED
  BY <1>1, <1>2, <1>3, HeadTailProperties

LEMMA BridgeEffect ==
    ASSUME BridgeTypeOK, BridgeMove
    PROVE  BridgeTypeOK'
<1>0. /\ notes \in Seq(Note) /\ open \in BOOLEAN /\ view \subseteq Tasks
      /\ receipt \in {"none", "ok", "err"} /\ Len(notes) \in Nat
  BY LenProperties DEF BridgeTypeOK
<1>1. CASE Quiet
  BY <1>1, <1>0 DEF Quiet, bvars, BridgeTypeOK
<1>2. CASE StopAwaiting
  <2> DEFINE C == [i \in 1..Len(notes) |-> [notes[i] EXCEPT !.waited = FALSE]]
  <2>1. \A i \in 1..Len(notes) : notes[i] \in Note
    BY <1>0, ElementOfSeq
  <2>2. \A i \in 1..Len(notes) : C[i] \in Note
    BY <2>1 DEF Note
  <2>3. C \in [1..Len(notes) -> Note]
    BY <2>2
  <2>4. C \in Seq(Note)
    BY <2>3, <1>0, FunctionIsSeq
  <2>5. notes' = C
    BY <1>2 DEF StopAwaiting
  <2> HIDE DEF C
  <2> QED
    BY <2>4, <2>5, <1>2, <1>0 DEF StopAwaiting, BridgeTypeOK
<1>3. CASE Deliver
  <2>1. notes' \in Seq(Note) /\ Head(notes) \in Note
    BY <1>3, DeliverProps DEF Deliver
  <2>2. Head(notes).id \in Tasks /\ Head(notes).op \in {"show", "fire", "hide", "tomb"}
    BY <2>1 DEF Note
  <2>3. Shown(Head(notes)) \subseteq Tasks
    BY <2>2, <1>0 DEF Shown
  <2> HIDE DEF Shown
  <2>4. view' \subseteq Tasks
    BY <2>3, <1>3, <1>0 DEF Deliver
  <2>5. receipt' \in {"none", "ok", "err"}
    BY <1>3, <1>0 DEF Deliver, Acknowledge
  <2> QED
    BY <2>1, <2>4, <2>5, <1>3, <1>0 DEF Deliver, BridgeTypeOK
<1>4. CASE BridgeCloses
  <2>1. notes' \in Seq(Note)
    BY <1>4, EmptySeq DEF BridgeCloses
  <2> QED
    BY <2>1, <1>4, <1>0 DEF BridgeCloses, BridgeTypeOK
<1>5. CASE BridgeCrash
  <2>1. notes' \in Seq(Note)
    BY <1>5, EmptySeq DEF BridgeCrash
  <2> QED
    BY <2>1, <1>5, <1>0 DEF BridgeCrash, BridgeTypeOK
<1>6. ASSUME NEW ns \in Seq(Note), Tell(ns) PROVE BridgeTypeOK'
  <2>1. notes' \in Seq(Note)
    BY <1>6, SendProps DEF Tell
  <2> QED
    BY <2>1, <1>6, <1>0 DEF Tell, BridgeTypeOK
<1>7. ASSUME NEW id \in Tasks, Publish(id) PROVE BridgeTypeOK'
  <2> DEFINE n == [op |-> "tomb", id |-> id, waited |-> TRUE]
  <2>1. <<n>> \in Seq(Note)
    BY OneNote
  <2>2. Send(<<n>>)
    BY <1>7 DEF Publish
  <2> HIDE DEF n
  <2>3. notes' \in Seq(Note)
    BY <2>1, <2>2, SendProps
  <2> QED
    BY <2>3, <1>7, <1>0 DEF Publish, BridgeTypeOK
<1>8. CASE open' = Bridged /\ UNCHANGED <<notes, view, receipt>>
  BY <1>8, <1>0, Bounds DEF BridgeTypeOK
<1> QED
  BY <1>1, <1>2, <1>3, <1>4, <1>5, <1>6, <1>7, <1>8 DEF BridgeMove

\* Every step uses the bridge as its interface allows.
LEMMA NextTells ==
    ASSUME TypeInv, Next
    PROVE  BridgeMove
<1>0. ListsOK /\ SetsOK /\ ActorOK /\ ListOK(tasks)
  BY TasksOK DEF TypeInv
<1>a. \A op \in {"show", "fire", "hide"}, id \in Tasks : <<N(op, id)>> \in Seq(Note)
  BY OneNote DEF N
<1>b. ASSUME NEW op \in {"show", "fire", "hide"}, NEW id \in Tasks, Tell(<<N(op, id)>>) PROVE BridgeMove
  BY <1>a, <1>b DEF BridgeMove
<1>c. pc \in JobPcs => job.t.id \in Tasks
  BY <1>0 DEF ActorOK, JobOK, Job, Task
<1> USE DEF Aside, Idle
<1>1. ASSUME NEW id \in Tasks, NEW p \in Prompts, NEW b \in BOOLEAN, Create(id, p, b) \/ Update(id, p, b)
      PROVE  BridgeMove
  BY <1>1, <1>b DEF Create, Update
<1>2. ASSUME NEW id \in Tasks, Delete(id) \/ FallsDue(id) \/ Expires(id) PROVE BridgeMove
  BY <1>2 DEF Delete, FallsDue, Expires, BridgeMove
<1>3. ASSUME NEW i \in 1..Len(tasks), ExpireBlocked(i) \/ ExpireTask(i) \/ FireTask(i)
      PROVE  BridgeMove
  BY <1>3 DEF ExpireBlocked, ExpireTask, FireTask, BridgeMove
<1>4. ASSUME RetryDelete \/ AbandonRemoval \/ DeleteAcknowledged \/ ExpiryAcknowledged PROVE BridgeMove
  BY <1>4 DEF RetryDelete, AbandonRemoval, DeleteAcknowledged, ExpiryAcknowledged, BridgeMove
<1>5. ASSUME Skip \/ RemovalFlushed \/ Spawned PROVE BridgeMove
  <2>1. pc \in JobPcs /\ \E op \in {"show", "fire", "hide"} : Tell(<<N(op, job.t.id)>>)
    BY <1>5 DEF Skip, RemovalFlushed, Spawned, JobPcs
  <2> QED
    BY <2>1, <1>b, <1>c
<1>6. ASSUME Announce PROVE BridgeMove
  <2> DEFINE K == {i \in 1..Len(tasks) : Recurring(tasks[i].id) \/ tasks[i].id \notin due}
             l == Retain(tasks, K)
  <2>1. Tell(NotesOf("show", l))
    BY <1>6 DEF Announce
  <2>2. K \subseteq 1..Len(tasks)
    OBVIOUS
  <2> HIDE DEF K
  <2>3. ListOK(l)
    BY <2>2, <1>0, RetainOK
  <2> HIDE DEF l
  <2>4. NotesOf("show", l) \in Seq(Note)
    BY <2>3, NotesOfProps
  <2> QED
    BY <2>1, <2>4 DEF BridgeMove
<1>7. ASSUME Stop PROVE BridgeMove
  <2>1. NotesOf("hide", tasks) \in Seq(Note)
    BY <1>0, NotesOfProps
  <2> QED
    BY <1>7, <2>1 DEF Stop, BridgeMove
<1>8. ASSUME DeletePersisted PROVE BridgeMove
  <2>1. pending.id \in Tasks
    BY <1>8, <1>0 DEF DeletePersisted, ActorOK, PendingOK
  <2> QED
    BY <2>1, <1>8 DEF DeletePersisted, BridgeMove
<1>9. ASSUME ExpiryPersisted PROVE BridgeMove
  <2>1. job.t.id \in Tasks
    BY <1>9, <1>c DEF ExpiryPersisted, JobPcs
  <2> QED
    BY <2>1, <1>9 DEF ExpiryPersisted, BridgeMove
<1>10. ASSUME DeleteTimesOut \/ ExpiryTimesOut PROVE BridgeMove
  BY <1>10 DEF DeleteTimesOut, ExpiryTimesOut, GiveUp, BridgeMove
<1>11. ASSUME AskSkips \/ QueryEnded \/ UnitInactive \/ SpawnRefused \/ SpawnCancelled PROVE BridgeMove
  BY <1>11 DEF AskSkips, QueryEnded, UnitInactive, SpawnRefused, SpawnCancelled, BridgeMove
<1>12. ASSUME NEW c \in Children, Launch(c) \/ GuardClears(c) \/ Admit(c) \/ Refuse(c)
                                     \/ ChildEnds(c, "completed") \/ ChildEnds(c, "failed")
       PROVE  BridgeMove
  BY <1>12 DEF Launch, GuardClears, Admit, Refuse, ChildEnds, BridgeMove
<1>13. ASSUME CoordinatorGone \/ Wire \/ ToolSave \/ Cancel \/ Crash \/ Start PROVE BridgeMove
  BY <1>13 DEF CoordinatorGone, Wire, ToolSave, Cancel, Crash, Start, BridgeMove
<1>14. ASSUME WriterStep \/ BridgeStep PROVE BridgeMove
  BY <1>14 DEF WriterStep, BridgeStep, BridgeMove
<1> QED
  BY <1>1, <1>2, <1>3, <1>4, <1>5, <1>6, <1>7, <1>8, <1>9, <1>10, <1>11, <1>12, <1>13, <1>14
     DEF Next, Commands, Timer, Carries, Coordinator, Environment

LEMMA TypeInvInit == Init => TypeInv
<1> SUFFICES ASSUME Init PROVE TypeInv
  OBVIOUS
<1>1. /\ Legacy \in Seq(Task) /\ Len(Legacy) <= MaxTasks /\ UniqueIds(Legacy)
  BY SchedulerAssumption
<1>2. ListOK(Legacy) /\ ListOK(<<>>) /\ Ids(<<>>) = {}
  BY <1>1, EmptySeq, Bounds DEF ListOK, UniqueIds, Ids
<1>3. Ids(Legacy) \subseteq Tasks
  BY <1>2, EntriesOK
<1>4. FileOK
  BY <1>1, EmptySeq DEF Init, FileOK
<1>5. \A l \in Lists : l = <<>> \/ l = Legacy
  <2>1. Len(chan) = 0
    BY EmptySeq DEF Init
  <2> QED
    BY <2>1 DEF Init, Lists
<1>6. ListsOK
  BY <1>2, <1>4, <1>5 DEF ListsOK, Init
<1>7. BridgeTypeOK
  BY EmptySeq DEF Init, BridgeTypeOK
<1>8. SetsOK
  <2>1. 0 \in Version /\ 0 \in 0..MaxSaves /\ 0 \in 0..MaxEnds
    BY Bounds DEF Version
  <2> QED
    BY <2>1, <1>3 DEF Init, SetsOK
<1>9. ChildrenOK
  BY DEF Init, ChildrenOK, Record
<1>10. ActorOK /\ HistoryOK
  BY DEF Init, ActorOK, HistoryOK, PCs, JobPcs
<1> QED
  BY <1>6, <1>7, <1>8, <1>9, <1>10 DEF TypeInv

LEMMA TypeInvStep == TypeInv /\ [Next]_vars => TypeInv'
<1> SUFFICES ASSUME TypeInv, [Next]_vars PROVE TypeInv'
  OBVIOUS
<1>1. CASE Next
  <2>1. BridgeTypeOK'
    BY <1>1, NextTells, BridgeEffect DEF TypeInv
  <2> QED
    BY <1>1, <2>1, ListsStep, SetsStep, ChildrenStep, ActorStep, HistoryStep DEF TypeInv
<1>2. CASE UNCHANGED vars
  <2> USE <1>2 DEF vars, avars, cvars, hvars, svars, pvars, bvars
  <2>1. ListsOK'
    BY DEF TypeInv, ListsOK, FileOK, Lists
  <2>2. BridgeTypeOK' /\ SetsOK' /\ ChildrenOK' /\ HistoryOK'
    BY DEF TypeInv, BridgeTypeOK, SetsOK, ChildrenOK, HistoryOK
  <2>3. ActorOK'
    BY DEF TypeInv, ActorOK, JobOK, PendingOK
  <2> QED
    BY <2>1, <2>2, <2>3 DEF TypeInv
<1> QED
  BY <1>1, <1>2

LEMMA TypeInvAlways == Spec => []TypeInv
BY TypeInvInit, TypeInvStep, PTL DEF Spec

\* The clock is where every open reservation found it: commit_next's assertion
\* never fails and no committed revision overflows, whatever operations,
\* timeouts, retries and crashes come between a reservation and its commit.
THEOREM SchedulerReservationFresh == Spec => []ReservationFresh
<1>1. TypeInv => ReservationFresh
  <2> SUFFICES ASSUME TypeInv PROVE ReservationFresh
    OBVIOUS
  <2>1. ASSUME pending # None, pc # "stopped" PROVE clock = Expected(pending.res)
    BY <2>1 DEF TypeInv, ActorOK, PendingOK
  <2>2. ASSUME job # None PROVE clock = Expected(job.res) /\ job.res.next <= MaxRev
    BY <2>2, ResNext DEF TypeInv, ActorOK, JobOK
  <2> QED
    BY <2>1, <2>2 DEF ReservationFresh
<1> QED
  BY <1>1, TypeInvAlways, PTL

\* The scheduler's saves, flushes, abandoned waits and crashes are a use of
\* the writer that keeps its promise: no older list is ever put back over a
\* newer one.
THEOREM SchedulerImplementsRegister ==
    ASSUME Snapshot = Seq(Task)
    PROVE  Spec => ImplementsRegister
<1>1. Init => PersistInit
  BY SchedulerAssumption DEF Init, PersistInit
<1>2. TypeInv /\ TypeInv' /\ [Next]_vars => [PersistNext]_pvars
  <2> SUFFICES ASSUME TypeInv, TypeInv', [Next]_vars PROVE [PersistNext]_pvars
    OBVIOUS
  <2>1. CASE Next
    <3>1. PersistStep
      BY <2>1, NextPersists
    <3>2. tasks' \in Snapshot
      BY <2>1, TasksStep DEF ListOK
    <3> QED
      BY <3>1, <3>2 DEF PersistStep, PersistNext
  <2>2. CASE UNCHANGED vars
    BY <2>2 DEF vars
  <2> QED
    BY <2>1, <2>2
<1>3. Spec => PersistSpec
  BY <1>1, <1>2, TypeInvAlways, PTL DEF Spec, PersistSpec
<1> QED
  BY <1>3, PersistImplementsRegister, PTL

----------------------------------------------------------------------------
(* The iterations of a loop: transcripts are continued only for the prompt *)
(* they began with and no longer than LOOP_FRESH_CHAIN_EVERY, two          *)
(* iterations of a task never run at once, and a one-shot is handed to the *)
(* coordinator once.                                                       *)

(* Frames: what a step does to the children and to the entries of the      *)
(* list.                                                                   *)

Alive == {"sent", "live"}
Usable == {"sent", "live", "completed"}
Began == {"live", "completed", "failed"}

\* A step that does not launch c again leaves its record, but for a status
\* that only moves on.
Ages(c) ==
    /\ child'[c].task = child[c].task /\ child'[c].prompt = child[c].prompt
    /\ child'[c].same = child[c].same /\ child'[c].len = child[c].len
    /\ child'[c].st \in Usable => child[c].st \in Usable
    /\ child'[c].st \in Alive => child[c].st \in Alive
    /\ child'[c].st = "sent" => child[c].st = "sent"
    /\ child[c].st = "completed" => child'[c].st = "completed"
    /\ child[c].st \in Began => child'[c].st \in Began \/ CoordinatorGone \/ Crash

LEMMA ChildFrame ==
    ASSUME TypeInv, Next, NEW c \in Children
    PROVE  Ages(c) \/ Launch(c)
<1>0. ChildrenOK
  BY DEF TypeInv
<1>a. child \in [Children -> Record] /\ \A d \in Children : child[d] \in Record
  BY <1>0 DEF ChildrenOK
<1>b. ASSUME UNCHANGED child PROVE Ages(c)
  BY <1>b DEF Ages
<1> USE DEF Aside, cvars
<1>1. ASSUME NEW d \in Children, Launch(d) PROVE Ages(c) \/ Launch(c)
  <2>1. CASE d = c
    BY <1>1, <2>1
  <2>2. CASE d # c
    <3>1. child'[c] = child[c]
      BY <1>1, <1>a, <2>2 DEF Launch
    <3> QED
      BY <3>1 DEF Ages
  <2> QED
    BY <2>1, <2>2
<1>2. ASSUME NEW d \in Children, NEW s \in {"live", "refused", "completed", "failed"},
             child' = [child EXCEPT ![d].st = s],
             s = "live" => child[d].st = "sent", s = "completed" => child[d].st = "live",
             s = "refused" => child[d].st = "sent", child[d].st # "completed"
      PROVE  Ages(c)
  <2>1. CASE d = c
    <3>1. child'[c] = [child[c] EXCEPT !.st = s]
      BY <1>2, <1>a, <2>1
    <3>2. /\ child'[c].st = s /\ child'[c].task = child[c].task /\ child'[c].prompt = child[c].prompt
          /\ child'[c].same = child[c].same /\ child'[c].len = child[c].len
      BY <3>1, <1>a DEF Record
    <3> QED
      BY <3>2, <1>2, <2>1 DEF Ages, Usable, Alive, Began
  <2>2. CASE d # c
    <3>1. child'[c] = child[c]
      BY <1>2, <1>a, <2>2
    <3> QED
      BY <3>1 DEF Ages
  <2> QED
    BY <2>1, <2>2
<1>3. ASSUME NEW d \in Children,
             Admit(d) \/ Refuse(d) \/ ChildEnds(d, "completed") \/ ChildEnds(d, "failed")
      PROVE  Ages(c)
  BY <1>3, <1>2 DEF Admit, Refuse, ChildEnds, Sent
<1>4. ASSUME CoordinatorGone \/ Crash PROVE Ages(c)
  <2>1. child' = Killed
    BY <1>4 DEF CoordinatorGone, Crash
  <2>2. /\ Killed[c].task = child[c].task /\ Killed[c].prompt = child[c].prompt
        /\ Killed[c].same = child[c].same /\ Killed[c].len = child[c].len
        /\ Killed[c].st \notin {"sent", "live"} /\ Killed[c].st \in {child[c].st, "dead"}
    BY <1>0, KilledOK
  <2>3. child[c].st = "completed" => Killed[c].st = "completed"
    BY <1>a DEF Killed, Record
  <2> QED
    BY <1>4, <2>1, <2>2, <2>3 DEF Ages, Usable, Alive, Began
<1>5. ASSUME NEW id \in Tasks, NEW p \in Prompts, NEW b \in BOOLEAN, Create(id, p, b) \/ Update(id, p, b)
      PROVE  Ages(c)
  BY <1>5, <1>b DEF Create, Update
<1>6. ASSUME NEW id \in Tasks, Delete(id) \/ FallsDue(id) \/ Expires(id) PROVE Ages(c)
  BY <1>6, <1>b DEF Delete, FallsDue, Expires
<1>7. ASSUME NEW i \in 1..Len(tasks), ExpireBlocked(i) \/ ExpireTask(i) \/ FireTask(i)
      PROVE  Ages(c)
  BY <1>7, <1>b DEF ExpireBlocked, ExpireTask, FireTask
<1>8. ASSUME RetryDelete \/ AbandonRemoval \/ Announce \/ Stop \/ Skip PROVE Ages(c)
  BY <1>8, <1>b DEF RetryDelete, AbandonRemoval, Announce, Stop, Skip
<1>9. ASSUME DeletePersisted \/ DeleteAcknowledged \/ DeleteTimesOut PROVE Ages(c)
  BY <1>9, <1>b DEF DeletePersisted, DeleteAcknowledged, DeleteTimesOut
<1>10. ASSUME ExpiryPersisted \/ ExpiryAcknowledged \/ ExpiryTimesOut \/ RemovalFlushed PROVE Ages(c)
  BY <1>10, <1>b DEF ExpiryPersisted, ExpiryAcknowledged, ExpiryTimesOut, RemovalFlushed
<1>11. ASSUME AskSkips \/ QueryEnded \/ UnitInactive PROVE Ages(c)
  BY <1>11, <1>b DEF AskSkips, QueryEnded, UnitInactive
<1>12. ASSUME SpawnRefused \/ SpawnCancelled \/ Spawned PROVE Ages(c)
  BY <1>12, <1>b DEF SpawnRefused, SpawnCancelled, Spawned
<1>13. ASSUME NEW d \in Children, GuardClears(d) PROVE Ages(c)
  BY <1>13, <1>b DEF GuardClears
<1>14. ASSUME Wire \/ ToolSave \/ Cancel \/ Start \/ WriterStep \/ BridgeStep PROVE Ages(c)
  BY <1>14, <1>b DEF Wire, ToolSave, Cancel, Start, WriterStep, BridgeStep
<1> QED
  BY <1>1, <1>3, <1>4, <1>5, <1>6, <1>7, <1>8, <1>9, <1>10, <1>11, <1>12, <1>13, <1>14
     DEF Next, Commands, Timer, Carries, Coordinator, Environment

\* Where an entry of the list comes from.
Kept(t) == t \in Entries(tasks)
Made(t) == \E id \in Tasks, p \in Prompts, b \in BOOLEAN : Create(id, p, b) /\ t = NewTask(id, p)
Edited(t) ==
    \E id \in Tasks, p \in Prompts, b \in BOOLEAN :
        Update(id, p, b) /\ \E s \in Entries(tasks) : t = Updated(s, p)
Reinserted(t) == ExpiryPersisted /\ t = job.t
Started(t) ==
    \E c \in Children :
        /\ Launch(c)
        /\ \E s \in Entries(tasks) : s.id = job.t.id /\ t = Anchored(s, c)
Undone(t) == SpawnRefused /\ \E s \in Entries(tasks) : s.id = job.t.id /\ t = PutBack(s)
Unanchored(t) ==
    \E c \in Children :
        /\ GuardClears(c)
        /\ \E s \in Entries(tasks) : s.anchor = c /\ t = Cleared(s)
Loaded(t) == Start /\ t \in Entries(disk)

LEMMA EntryFrame ==
    ASSUME TypeInv, Next, NEW t \in Entries(tasks')
    PROVE  \/ Kept(t) \/ Made(t) \/ Edited(t) \/ Reinserted(t)
           \/ Started(t) \/ Undone(t) \/ Unanchored(t) \/ Loaded(t)
<1> DEFINE Goal == \/ Kept(t) \/ Made(t) \/ Edited(t) \/ Reinserted(t)
                   \/ Started(t) \/ Undone(t) \/ Unanchored(t) \/ Loaded(t)
<1>0. ListsOK /\ SetsOK /\ ActorOK
  BY DEF TypeInv
<1>b. ASSUME UNCHANGED tasks PROVE Kept(t)
  BY <1>b DEF Kept
<1> USE DEF Aside, Idle, avars
<1>1. ASSUME NEW id \in Tasks, NEW p \in Prompts, NEW b \in BOOLEAN, Create(id, p, b) PROVE Goal
  <2>1. Entries(tasks') \subseteq Entries(tasks) \cup {NewTask(id, p)}
    BY <1>0, <1>1, CreateEffect
  <2> QED
    BY <1>1, <2>1 DEF Kept, Made
<1>2. ASSUME NEW id \in Tasks, NEW p \in Prompts, NEW b \in BOOLEAN, Update(id, p, b) PROVE Goal
  <2>1. t \in Entries(tasks) \/ \E s \in Entries(tasks) : t = Updated(s, p)
    BY <1>0, <1>2, UpdateEffect
  <2> QED
    BY <1>2, <2>1 DEF Kept, Edited
<1>3. ASSUME NEW id \in Tasks, Delete(id) PROVE Goal
  BY <1>3, <1>0, DeleteEffect DEF Kept
<1>4. ASSUME NEW i \in 1..Len(tasks), ExpireTask(i) PROVE Goal
  BY <1>4, <1>0, ExpireEffect DEF Kept
<1>5. ASSUME ExpiryPersisted PROVE Goal
  <2>1. CASE UNCHANGED tasks
    BY <2>1, <1>b
  <2>2. CASE tasks' = InsertAt(tasks, job.i, job.t)
    <3>1. pc = "expFlush"
      BY <1>5 DEF ExpiryPersisted
    <3>2. Entries(tasks') \subseteq Entries(tasks) \cup {job.t}
      BY <1>0, <2>2, <3>1, ReinsertEffect
    <3> QED
      BY <3>2, <1>5 DEF Kept, Reinserted
  <2> QED
    BY <1>5, <2>1, <2>2 DEF ExpiryPersisted
<1>6. ASSUME NEW c \in Children, Launch(c) PROVE Goal
  BY <1>0, <1>6, LaunchEffect DEF Started, Kept
<1>7. ASSUME SpawnRefused PROVE Goal
  BY <1>7, <1>0, RestoreEffect DEF Undone, Kept
<1>8. ASSUME Spawned PROVE Goal
  <2>1. CASE Recurring(job.t.id)
    BY <2>1, <1>8, <1>b DEF Spawned
  <2>2. CASE ~Recurring(job.t.id)
    BY <2>2, <1>8, <1>0, OneShotEffect DEF Kept
  <2> QED
    BY <2>1, <2>2
<1>9. ASSUME NEW c \in Children, GuardClears(c) PROVE Goal
  <2>1. \E s \in Entries(tasks) : (s.anchor # c /\ t = s) \/ (s.anchor = c /\ t = Cleared(s))
    BY <1>9, <1>0, GuardEffect
  <2> QED
    BY <1>9, <2>1 DEF Unanchored, Kept
<1>10. ASSUME Crash PROVE Goal
  <2>1. tasks' = <<>> /\ Entries(<<>>) = {}
    BY <1>10, EmptySeq DEF Crash, Entries
  <2> QED
    BY <2>1
<1>11. ASSUME Start PROVE Goal
  BY <1>11 DEF Start, Loaded
<1>12. ASSUME RetryDelete \/ AbandonRemoval \/ Announce \/ Stop \/ Skip PROVE Goal
  BY <1>12, <1>b DEF RetryDelete, AbandonRemoval, Announce, Stop, Skip
<1>13. ASSUME DeletePersisted \/ DeleteAcknowledged \/ DeleteTimesOut PROVE Goal
  BY <1>13, <1>b DEF DeletePersisted, DeleteAcknowledged, DeleteTimesOut
<1>14. ASSUME ExpiryAcknowledged \/ ExpiryTimesOut \/ RemovalFlushed PROVE Goal
  BY <1>14, <1>b DEF ExpiryAcknowledged, ExpiryTimesOut, RemovalFlushed
<1>15. ASSUME AskSkips \/ QueryEnded \/ UnitInactive \/ SpawnCancelled PROVE Goal
  BY <1>15, <1>b DEF AskSkips, QueryEnded, UnitInactive, SpawnCancelled
<1>16. ASSUME NEW c \in Children,
              Admit(c) \/ Refuse(c) \/ ChildEnds(c, "completed") \/ ChildEnds(c, "failed")
       PROVE  Goal
  BY <1>16, <1>b DEF Admit, Refuse, ChildEnds
<1>17. ASSUME CoordinatorGone \/ Wire \/ ToolSave \/ Cancel \/ WriterStep \/ BridgeStep PROVE Goal
  BY <1>17, <1>b DEF CoordinatorGone, Wire, ToolSave, Cancel, WriterStep, BridgeStep
<1>18. ASSUME NEW id \in Tasks, FallsDue(id) \/ Expires(id) PROVE Goal
  BY <1>18, <1>b DEF FallsDue, Expires
<1>19. ASSUME NEW i \in 1..Len(tasks), ExpireBlocked(i) \/ FireTask(i) PROVE Goal
  BY <1>19, <1>b DEF ExpireBlocked, FireTask
<1> QED
  BY <1>1, <1>2, <1>3, <1>4, <1>5, <1>6, <1>7, <1>8, <1>9, <1>10, <1>11, <1>12, <1>13, <1>14,
     <1>15, <1>16, <1>17, <1>18, <1>19
     DEF Next, Commands, Timer, Carries, Coordinator, Environment

\* The ids of the list.
LEMMA IdsFrame ==
    ASSUME TypeInv, Next, NEW id \in Ids(tasks')
    PROVE  \/ id \in Ids(tasks)
           \/ \E p \in Prompts, b \in BOOLEAN : Create(id, p, b)
           \/ ExpiryPersisted /\ id = job.t.id
           \/ Start /\ id \in Ids(disk)
<1>1. PICK t \in Entries(tasks') : t.id = id
  BY IdsOfEntries
<1>2. \A s \in Entries(tasks) : s \in Task /\ s.id \in Ids(tasks)
  BY EntriesOK, TasksOK, IdsOfEntries DEF TypeInv
<1>3. CASE Kept(t)
  BY <1>1, <1>2, <1>3 DEF Kept
<1>4. CASE Made(t)
  BY <1>1, <1>4 DEF Made, NewTask
<1>5. CASE Edited(t)
  <2>1. PICK p \in Prompts, s \in Entries(tasks) : t = Updated(s, p)
    BY <1>5 DEF Edited
  <2>2. t.id = s.id
    BY <2>1, <1>2 DEF Updated, Task
  <2> QED
    BY <2>2, <1>1, <1>2
<1>6. CASE Reinserted(t)
  BY <1>1, <1>6 DEF Reinserted
<1>7. CASE Started(t)
  <2>1. PICK c \in Children, s \in Entries(tasks) : t = Anchored(s, c)
    BY <1>7 DEF Started
  <2>2. t.id = s.id
    BY <2>1, <1>2 DEF Anchored, Task
  <2> QED
    BY <2>2, <1>1, <1>2
<1>8. CASE Undone(t)
  <2>1. PICK s \in Entries(tasks) : t = PutBack(s)
    BY <1>8 DEF Undone
  <2>2. t.id = s.id
    BY <2>1, <1>2 DEF PutBack, Task
  <2> QED
    BY <2>2, <1>1, <1>2
<1>9. CASE Unanchored(t)
  <2>1. PICK s \in Entries(tasks) : t = Cleared(s)
    BY <1>9 DEF Unanchored
  <2>2. t.id = s.id
    BY <2>1, <1>2 DEF Cleared, Task
  <2> QED
    BY <2>2, <1>1, <1>2
<1>10. CASE Loaded(t)
  BY <1>1, <1>10, IdsOfEntries DEF Loaded
<1> QED
  BY <1>3, <1>4, <1>5, <1>6, <1>7, <1>8, <1>9, <1>10, EntryFrame

\* Where the actor's job comes from.
Begins ==
    \E i \in 1..Len(tasks) :
        /\ ExpireTask(i) \/ FireTask(i)
        /\ pc = "idle" /\ job'.t = tasks[i] /\ job'.prev = "none"
Continues ==
    /\ pc \in JobPcs /\ job'.t = job.t
    /\ pc' \in FirePcs => pc \in FirePcs
    /\ pc' = "expFlush" => pc = "expFlush"
    /\ pc' = "skip" => pc \in FirePcs \cup {"skip"}
    /\ pc' = "query" => pc = "query"
    /\ pc' = "unit" => pc = "unit" \/ QueryEnded
    /\ pc' = "launch" => pc = "launch" \/ UnitInactive
    /\ pc' = "register" => pc = "register" \/ \E c \in Children : Launch(c)
    /\ job'.prev = job.prev \/ QueryEnded
    /\ job'.c = job.c \/ \E c \in Children : Launch(c)

LEMMA JobFrame ==
    ASSUME TypeInv, Next, pc' \in JobPcs
    PROVE  Begins \/ Continues
<1>0. ListsOK /\ SetsOK /\ ActorOK
  BY DEF TypeInv
<1>a. pc \in JobPcs => job \in Job
  BY <1>0 DEF ActorOK, JobOK
<1> USE DEF Aside, Idle, avars
<1>b. ASSUME UNCHANGED <<pc, job>> PROVE Continues
  BY <1>b DEF Continues
<1>c. ASSUME NEW i \in 1..Len(tasks), NEW n \in {1, 2}, n = 2 => MaxRev >= 2
      PROVE  Fire(i, n).t = tasks[i] /\ Fire(i, n).prev = "none"
  BY DEF Fire
<1>1. ASSUME NEW id \in Tasks, NEW p \in Prompts, NEW b \in BOOLEAN, Create(id, p, b) \/ Update(id, p, b)
      PROVE  Continues
  BY <1>1, <1>b DEF Create, Update
<1>2. ASSUME NEW id \in Tasks, Delete(id) \/ FallsDue(id) \/ Expires(id) PROVE Continues
  BY <1>2, <1>b DEF Delete, BeginBarrier, FallsDue, Expires, JobPcs
<1>3. ASSUME NEW i \in 1..Len(tasks), ExpireBlocked(i) \/ ExpireTask(i) \/ FireTask(i)
      PROVE  Begins \/ Continues
  <2>1. CASE ExpireBlocked(i)
    BY <2>1, <1>b DEF ExpireBlocked
  <2>2. CASE ExpireTask(i)
    <3>1. pc = "idle" /\ job'.t = tasks[i] /\ job'.prev = "none"
      BY <2>2 DEF ExpireTask, Selected, Fire
    <3> QED
      BY <3>1, <2>2 DEF Begins
  <2>3. CASE FireTask(i)
    <3>1. pc = "idle" /\ job'.t = tasks[i] /\ job'.prev = "none"
      BY <2>3 DEF FireTask, Selected, Fire
    <3> QED
      BY <3>1, <2>3 DEF Begins
  <2> QED
    BY <1>3, <2>1, <2>2, <2>3
<1>4. ASSUME RetryDelete \/ AbandonRemoval \/ Announce \/ Stop \/ Skip PROVE Continues
  BY <1>4 DEF RetryDelete, BeginBarrier, AbandonRemoval, Announce, Stop, Skip, Done, JobPcs
<1>5. ASSUME DeletePersisted \/ DeleteAcknowledged \/ DeleteTimesOut PROVE Continues
  BY <1>5 DEF DeletePersisted, DeleteAcknowledged, DeleteTimesOut, JobPcs
<1>6. ASSUME ExpiryPersisted \/ ExpiryAcknowledged \/ ExpiryTimesOut \/ RemovalFlushed PROVE Continues
  BY <1>6 DEF ExpiryPersisted, ExpiryAcknowledged, ExpiryTimesOut, RemovalFlushed, Done,
              JobPcs, FirePcs, Continues
<1>7. ASSUME AskSkips \/ UnitInactive PROVE Continues
  BY <1>7 DEF AskSkips, UnitInactive, Continues, JobPcs, FirePcs
<1>8. ASSUME QueryEnded PROVE Continues
  <2>1. pc = "query" /\ pc' = "unit" /\ job \in Job
    BY <1>8, <1>a DEF QueryEnded, JobPcs
  <2>2. job'.t = job.t /\ job'.c = job.c
    BY <2>1, <1>8 DEF QueryEnded, Job
  <2> QED
    BY <2>1, <2>2, <1>8 DEF Continues, JobPcs, FirePcs
<1>9. ASSUME NEW c \in Children, Launch(c) PROVE Continues
  <2>1. pc = "launch" /\ pc' = "register" /\ job' = [job EXCEPT !.c = c] /\ job \in Job
    BY <1>9, <1>a DEF Launch, JobPcs
  <2>2. job'.t = job.t /\ job'.prev = job.prev
    BY <2>1 DEF Job
  <2> QED
    BY <2>1, <2>2, <1>9 DEF Continues, JobPcs, FirePcs
<1>10. ASSUME SpawnRefused \/ SpawnCancelled PROVE Continues
  BY <1>10 DEF SpawnRefused, SpawnCancelled, Continues, JobPcs, FirePcs
<1>11. ASSUME Spawned PROVE Continues
  <2>1. CASE Recurring(job.t.id)
    BY <1>11, <2>1 DEF Spawned, Done, JobPcs
  <2>2. CASE ~Recurring(job.t.id)
    <3>1. pc = "register" /\ pc' = "rmFlush" /\ job' = [job EXCEPT !.res = Spent(job.res)] /\ job \in Job
      BY <1>11, <2>2, <1>a DEF Spawned, JobPcs
    <3>2. job'.t = job.t /\ job'.prev = job.prev /\ job'.c = job.c
      BY <3>1 DEF Job
    <3> QED
      BY <3>1, <3>2 DEF Continues, JobPcs, FirePcs
  <2> QED
    BY <2>1, <2>2
<1>12. ASSUME NEW c \in Children, GuardClears(c) \/ Admit(c) \/ Refuse(c)
                                     \/ ChildEnds(c, "completed") \/ ChildEnds(c, "failed")
       PROVE  Continues
  BY <1>12, <1>b DEF GuardClears, Admit, Refuse, ChildEnds
<1>13. ASSUME CoordinatorGone \/ Wire \/ ToolSave \/ Cancel \/ WriterStep \/ BridgeStep PROVE Continues
  BY <1>13, <1>b DEF CoordinatorGone, Wire, ToolSave, Cancel, WriterStep, BridgeStep
<1>14. ASSUME Crash \/ Start PROVE Continues
  BY <1>14 DEF Crash, Start, JobPcs
<1> QED
  BY <1>1, <1>2, <1>3, <1>4, <1>5, <1>6, <1>7, <1>8, <1>9, <1>10, <1>11, <1>12, <1>13, <1>14
     DEF Next, Commands, Timer, Carries, Coordinator, Environment

----------------------------------------------------------------------------
(* Transcripts.                                                            *)

\* The anchor of a task that has no reset pending, if it can still be
\* resumed, has the task's prompt and is no longer than the task counts.
ChainOf(t) ==
    t.anchor # None /\ ~t.reset /\ child[t.anchor].st \in Usable
        => child[t.anchor].prompt = t.prompt /\ child[t.anchor].len <= t.iters

ChainInv ==
    /\ \A l \in Lists : \A t \in Entries(l) : ChainOf(t)
    /\ pc \in JobPcs => ChainOf(job.t)
    /\ pc \in FirePcs => \A t \in Entries(tasks) : t.id = job.t.id => t.prompt = job.t.prompt
    /\ pc = "query" => job.t.anchor # None
    /\ pc \in FirePcs /\ job.prev = "completed" =>
          job.t.anchor # None /\ child[job.t.anchor].st = "completed"
    /\ ChainSound

LEMMA ListTypes ==
    ASSUME TypeInv
    PROVE  /\ \A l \in Lists : ListOK(l) /\ Entries(l) \subseteq Task
           /\ ListOK(tasks) /\ Entries(tasks) \subseteq Task /\ tasks \in Lists /\ disk \in Lists
           /\ \A s, t \in Entries(tasks) : s.id = t.id => s = t
           /\ \A t \in Task : t.anchor \in Children \cup {None} /\ t.iters \in Nat
                              /\ t.id \in Tasks /\ t.prompt \in Prompts
           /\ pc \in JobPcs => job \in Job /\ job.t \in Task /\ job # None
<1>1. \A l \in Lists : ListOK(l)
  BY DEF TypeInv, ListsOK
<1>2. tasks \in Lists /\ disk \in Lists
  BY DEF Lists
<1>3. \A t \in Task : t.anchor \in Children \cup {None} /\ t.iters \in Nat
                              /\ t.id \in Tasks /\ t.prompt \in Prompts
  BY Bounds DEF Task
<1>4. pc \in JobPcs => job \in Job /\ job.t \in Task /\ job # None
  BY NoneAssumption DEF TypeInv, ActorOK, JobOK, Job
<1> QED
  BY <1>1, <1>2, <1>3, <1>4, EntriesOK

\* What Free says of an anchor.
LEMMA FreeAnchors ==
    ASSUME TypeInv, NEW c \in Children, Launch(c)
    PROVE  /\ \A l \in Lists : \A t \in Entries(l) : t.anchor # c
           /\ c # job.t.anchor /\ c # job.c /\ child[c].st \notin Alive /\ c \notin guards
           /\ pc = "launch" /\ job \in Job
<1>1. pc = "launch" /\ Free(c)
  BY DEF Launch
<1>2. job # None /\ job \in Job
  BY <1>1, ListTypes DEF JobPcs
<1> QED
  BY <1>1, <1>2 DEF Free, Entries, Alive

\* A task whose anchor is not launched again keeps its chain.
LEMMA ChainKept ==
    ASSUME TypeInv, Next, NEW t \in Task, ChainOf(t),
           \A c \in Children : Launch(c) => t.anchor # c
    PROVE  ChainOf(t)'
<1>1. CASE t.anchor = None
  BY <1>1 DEF ChainOf
<1>2. CASE t.anchor # None
  <2>1. t.anchor \in Children
    BY <1>2, ListTypes
  <2>2. Ages(t.anchor)
    BY <2>1, ChildFrame
  <2> QED
    BY <2>2 DEF ChainOf, Ages
<1> QED
  BY <1>1, <1>2

\* The record of a new iteration.
LEMMA LaunchedRecord ==
    ASSUME TypeInv, ChainInv, NEW c \in Children, Launch(c)
    PROVE  /\ child'[c].prompt = job.t.prompt /\ child'[c].task = job.t.id
           /\ child'[c].same /\ child'[c].len <= FreshEvery
           /\ child'[c].len <= (IF StartsFresh THEN 1 ELSE job.t.iters + 1)
           /\ child'[c].st = IF coord # "closed" THEN "sent" ELSE "unsent"
           /\ \A d \in Children : d # c => child'[d] = child[d]
<1> DEFINE from == IF StartsFresh THEN None ELSE job.t.anchor
           len == IF from = None THEN 1 ELSE child[from].len + 1
           same == from = None \/ child[from].prompt = job.t.prompt
           st == IF coord # "closed" THEN "sent" ELSE "unsent"
           r == [st |-> st, task |-> job.t.id, prompt |-> job.t.prompt,
                 same |-> same, len |-> len]
<1>1. child' = [child EXCEPT ![c] = r]
  BY DEF Launch
<1>2. child \in [Children -> Record]
  BY DEF TypeInv, ChildrenOK
<1>3. pc = "launch" /\ pc \in JobPcs /\ pc \in FirePcs
  BY DEF Launch, JobPcs, FirePcs
<1>4. job \in Job /\ job.t \in Task /\ job.t.iters \in Nat /\ job.t.anchor \in Children \cup {None}
  BY <1>3, ListTypes
<1>5. same /\ len <= FreshEvery /\ len <= (IF StartsFresh THEN 1 ELSE job.t.iters + 1)
  <2>1. CASE StartsFresh
    <3>1. from = None
      BY <2>1
    <3> HIDE DEF from
    <3> QED
      BY <3>1, <2>1, Bounds
  <2>2. CASE ~StartsFresh
    <3>1. job.prev = "completed" /\ ~job.t.reset /\ job.t.iters < FreshEvery
      BY <2>2, <1>4, Bounds DEF StartsFresh
    <3>2. job.t.anchor # None /\ child[job.t.anchor].st = "completed"
      BY <3>1, <1>3 DEF ChainInv
    <3>3. child[job.t.anchor].prompt = job.t.prompt /\ child[job.t.anchor].len <= job.t.iters
      BY <3>1, <3>2, <1>3 DEF ChainInv, ChainOf, Usable
    <3>4. child[job.t.anchor].len \in Nat
      BY <3>2, <1>2, <1>4 DEF Record
    <3>5. from = job.t.anchor
      BY <2>2
    <3> HIDE DEF from
    <3> QED
      BY <2>2, <3>1, <3>2, <3>3, <3>4, <3>5, <1>4, Bounds
  <2> QED
    BY <2>1, <2>2
<1>6. child'[c] = r /\ \A d \in Children : d # c => child'[d] = child[d]
  <2> HIDE DEF r
  <2> QED
    BY <1>1, <1>2
<1> HIDE DEF same, len
<1> QED
  BY <1>5, <1>6

LEMMA ChainTasks ==
    ASSUME TypeInv, ChainInv, Next, NEW t \in Entries(tasks')
    PROVE  ChainOf(t)'
<1>0. \A l \in Lists : \A s \in Entries(l) : s \in Task /\ ChainOf(s)
  BY ListTypes DEF ChainInv
<1>a. ASSUME NEW s \in Task, NEW l \in Lists, s \in Entries(l) PROVE ChainOf(s)'
  <2>1. ASSUME NEW c \in Children, Launch(c) PROVE s.anchor # c
    BY <1>a, <2>1, FreeAnchors
  <2> QED
    BY <2>1, <1>0, <1>a, ChainKept
<1>b. ASSUME UNCHANGED child, NEW s \in Task, ChainOf(s) PROVE ChainOf(s)'
  BY <1>b DEF ChainOf
<1> USE DEF Aside, cvars
<1>1. CASE Kept(t)
  BY <1>1, <1>0, <1>a, ListTypes DEF Kept
<1>2. CASE Made(t)
  BY <1>2 DEF Made, NewTask, ChainOf
<1>3. CASE Edited(t)
  <2>1. PICK p \in Prompts, s \in Entries(tasks) : UNCHANGED child /\ t = Updated(s, p)
    BY <1>3 DEF Edited, Update
  <2>2. s \in Task /\ ChainOf(s)'
    BY <1>0, <1>a, ListTypes
  <2>3. CASE p = s.prompt
    <3>1. t.prompt = s.prompt /\ t.anchor = s.anchor /\ t.iters = s.iters /\ (~t.reset => ~s.reset)
      BY <2>1, <2>2, <2>3 DEF Updated, Task
    <3> QED
      BY <3>1, <2>2 DEF ChainOf
  <2>4. CASE p # s.prompt
    <3>1. t.reset
      BY <2>1, <2>2, <2>4 DEF Updated, Task
    <3> QED
      BY <3>1 DEF ChainOf
  <2> QED
    BY <2>3, <2>4
<1>4. CASE Reinserted(t)
  <2>1. pc = "expFlush" /\ UNCHANGED child /\ t = job.t
    BY <1>4 DEF Reinserted, ExpiryPersisted
  <2>2. ChainOf(job.t) /\ job.t \in Task
    BY <2>1, ListTypes DEF ChainInv, JobPcs
  <2> QED
    BY <2>1, <2>2, <1>b
<1>5. CASE Started(t)
  <2>1. PICK c \in Children, s \in Entries(tasks) :
            Launch(c) /\ s.id = job.t.id /\ t = Anchored(s, c)
    BY <1>5 DEF Started
  <2>2. pc = "launch" /\ s \in Task
    BY <2>1, ListTypes DEF Launch
  <2>3. s.prompt = job.t.prompt
    BY <2>1, <2>2 DEF ChainInv, FirePcs
  <2>4. t.anchor = c /\ t.prompt = s.prompt /\ t.iters = IF StartsFresh THEN 1 ELSE job.t.iters + 1
    BY <2>1, <2>2 DEF Anchored, Task
  <2>5. /\ child'[c].prompt = job.t.prompt
        /\ child'[c].len <= (IF StartsFresh THEN 1 ELSE job.t.iters + 1)
    BY <2>1, LaunchedRecord
  <2> QED
    BY <2>3, <2>4, <2>5 DEF ChainOf
<1>6. CASE Undone(t)
  <2>1. PICK s \in Entries(tasks) : SpawnRefused /\ s.id = job.t.id /\ t = PutBack(s)
    BY <1>6 DEF Undone
  <2>2. pc = "register" /\ UNCHANGED child /\ s \in Task
    BY <2>1, ListTypes DEF SpawnRefused
  <2>3. s.prompt = job.t.prompt /\ ChainOf(job.t) /\ job.t \in Task
    BY <2>1, <2>2, ListTypes DEF ChainInv, FirePcs, JobPcs
  <2>4. /\ t.anchor = job.t.anchor /\ t.prompt = s.prompt /\ t.iters = job.t.iters
        /\ t.reset = job.t.reset
    BY <2>1, <2>2, <2>3 DEF PutBack, Task
  <2> QED
    BY <2>2, <2>3, <2>4 DEF ChainOf
<1>7. CASE Unanchored(t)
  <2>1. PICK s \in Entries(tasks) : t = Cleared(s)
    BY <1>7 DEF Unanchored
  <2>2. s \in Task
    BY ListTypes
  <2>3. t.anchor = None
    BY <2>1, <2>2 DEF Cleared, Task
  <2> QED
    BY <2>3 DEF ChainOf
<1>8. CASE Loaded(t)
  BY <1>8, <1>0, <1>a, ListTypes DEF Loaded
<1> QED
  BY <1>1, <1>2, <1>3, <1>4, <1>5, <1>6, <1>7, <1>8, EntryFrame

\* Every list there is after a step was there before it, or is the actor's.
LEMMA ListsNext ==
    ASSUME TypeInv, Next
    PROVE  \A l \in Lists' : l \in Lists \/ l = tasks'
<1>1. TypeInv'
  BY TypeInvStep
<1>2. FileOK /\ tasks' \in Seq(Task)
  BY <1>1, TasksOK DEF TypeInv, ListsOK, Lists, ListOK
<1> QED
  BY <1>2, NextPersists, PersistEffect

\* While a fire is under way its task keeps its prompt.
LEMMA PromptKept ==
    ASSUME TypeInv, ChainInv, Next, pc' \in FirePcs,
           NEW t \in Entries(tasks'), t.id = job'.t.id
    PROVE  t.prompt = job'.t.prompt
<1>0. pc' \in JobPcs
  BY DEF JobPcs, FirePcs
<1>1. CASE Begins
  <2>1. PICK i \in 1..Len(tasks) : (ExpireTask(i) \/ FireTask(i)) /\ job'.t = tasks[i]
    BY <1>1 DEF Begins
  <2>2. CASE ExpireTask(i)
    BY <2>2 DEF ExpireTask, FirePcs
  <2>3. CASE FireTask(i)
    <3>1. tasks' = tasks /\ tasks[i] \in Entries(tasks)
      BY <2>3 DEF FireTask, Entries
    <3> QED
      BY <3>1, <2>1, ListTypes
  <2> QED
    BY <2>1, <2>2, <2>3
<1>2. CASE Continues
  <2>1. pc \in FirePcs /\ job'.t = job.t
    BY <1>2 DEF Continues
  <2>2. \A s \in Entries(tasks) : s \in Task /\ (s.id = job.t.id => s.prompt = job.t.prompt)
    BY <2>1, ListTypes DEF ChainInv
  <2>3. CASE Kept(t)
    BY <2>1, <2>2, <2>3 DEF Kept
  <2>4. CASE Made(t) \/ Edited(t) \/ Reinserted(t) \/ Loaded(t)
    BY <2>1, <2>4 DEF Made, Edited, Reinserted, Loaded, Create, Update, Idle, ExpiryPersisted,
                      Start, FirePcs
  <2>5. CASE Started(t)
    <3>1. PICK s \in Entries(tasks), c \in Children : t = Anchored(s, c) /\ s.id = job.t.id
      BY <2>5 DEF Started
    <3>2. t.prompt = s.prompt
      BY <3>1, <2>2 DEF Anchored, Task
    <3> QED
      BY <3>1, <3>2, <2>1, <2>2
  <2>6. CASE Undone(t)
    <3>1. PICK s \in Entries(tasks) : t = PutBack(s) /\ s.id = job.t.id
      BY <2>6 DEF Undone
    <3>2. t.prompt = s.prompt
      BY <3>1, <2>2 DEF PutBack, Task
    <3> QED
      BY <3>1, <3>2, <2>1, <2>2
  <2>7. CASE Unanchored(t)
    <3>1. PICK s \in Entries(tasks) : t = Cleared(s)
      BY <2>7 DEF Unanchored
    <3>2. t.prompt = s.prompt /\ t.id = s.id
      BY <3>1, <2>2 DEF Cleared, Task
    <3> QED
      BY <3>2, <2>1, <2>2
  <2> QED
    BY <2>3, <2>4, <2>5, <2>6, <2>7, EntryFrame
<1> QED
  BY <1>0, <1>1, <1>2, JobFrame

LEMMA ChainJob ==
    ASSUME TypeInv, ChainInv, Next, pc' \in JobPcs
    PROVE  /\ ChainOf(job.t)'
           /\ pc' = "query" => job'.t.anchor # None
           /\ pc' \in FirePcs /\ job'.prev = "completed" =>
                 job'.t.anchor # None /\ child'[job'.t.anchor].st = "completed"
<1>0. \A l \in Lists : \A s \in Entries(l) : s \in Task /\ ChainOf(s)
  BY ListTypes DEF ChainInv
<1>1. CASE Begins
  <2>1. PICK i \in 1..Len(tasks) :
            (ExpireTask(i) \/ FireTask(i)) /\ job'.t = tasks[i] /\ job'.prev = "none"
    BY <1>1 DEF Begins
  <2>2. child' = child /\ (pc' = "query" => tasks[i].anchor # None)
    BY <2>1 DEF ExpireTask, FireTask, Aside, cvars
  <2>3. ChainOf(tasks[i])
    <3>1. tasks[i] \in Entries(tasks) /\ tasks \in Lists
      BY ListTypes DEF Entries
    <3> QED
      BY <3>1, <1>0
  <2>4. ChainOf(job.t)'
    BY <2>1, <2>2, <2>3 DEF ChainOf
  <2> QED
    BY <2>1, <2>2, <2>4
<1>2. CASE Continues
  <2>1. pc \in JobPcs /\ job'.t = job.t /\ job \in Job /\ job.t \in Task
    BY <1>2, ListTypes DEF Continues
  <2>2. ChainOf(job.t)'
    <3>1. ASSUME NEW c \in Children, Launch(c) PROVE job.t.anchor # c
      BY <3>1, FreeAnchors
    <3> DEFINE u == job.t
    <3>2. ChainOf(u) /\ u \in Task /\ \A c \in Children : Launch(c) => u.anchor # c
      BY <3>1, <2>1 DEF ChainInv
    <3>3. u.anchor = None \/ Ages(u.anchor)
      <4>1. CASE u.anchor # None
        <5>1. u.anchor \in Children
          BY <4>1, <3>2, ListTypes
        <5> QED
          BY <5>1, <3>2, ChildFrame
      <4> QED
        BY <4>1
    <3> QED
      BY <3>2, <3>3, <2>1 DEF ChainOf, Ages
  <2>3. pc' = "query" => job'.t.anchor # None
    BY <1>2, <2>1 DEF Continues, ChainInv
  <2>4. ASSUME pc' \in FirePcs, job'.prev = "completed"
        PROVE  job'.t.anchor # None /\ child'[job'.t.anchor].st = "completed"
    <3>1. CASE QueryEnded
      <4>1. job.t.anchor # None /\ child' = child
        BY <3>1 DEF QueryEnded, Aside, cvars, ChainInv
      <4>2. PICK s \in StatusOf(job.t.anchor) \ {"live"} : job' = [job EXCEPT !.prev = s]
        BY <3>1 DEF QueryEnded
      <4>3. s = "completed"
        BY <4>2, <2>4, <2>1 DEF Job
      <4>4. child[job.t.anchor].st = "completed"
        BY <4>2, <4>3 DEF StatusOf
      <4> QED
        BY <4>1, <4>4, <2>1
    <3>2. CASE ~QueryEnded
      <4>1. job.prev = "completed" /\ pc \in FirePcs
        BY <3>2, <2>4, <1>2 DEF Continues
      <4>2. job.t.anchor # None /\ child[job.t.anchor].st = "completed" /\ job.t.anchor \in Children
        BY <4>1, <2>1, ListTypes DEF ChainInv
      <4>3. ~Launch(job.t.anchor)
        BY <4>2, FreeAnchors
      <4>4. Ages(job.t.anchor)
        BY <4>2, <4>3, ChildFrame
      <4> QED
        BY <4>2, <4>4, <2>1 DEF Ages
    <3> QED
      BY <3>1, <3>2
  <2> QED
    BY <2>2, <2>3, <2>4
<1> QED
  BY <1>1, <1>2, JobFrame

LEMMA ChainInvInit == Init => ChainInv
<1> SUFFICES ASSUME Init PROVE ChainInv
  OBVIOUS
<1>1. pc \notin JobPcs /\ pc \notin FirePcs /\ pc # "query"
  BY DEF Init, JobPcs, FirePcs
<1>2. \A c \in Children : child[c].st = "none" /\ child[c].same /\ child[c].len = 0
  BY DEF Init
<1>3. \A l \in Lists : \A t \in Entries(l) : ChainOf(t)
  BY <1>2, TypeInvInit, ListTypes DEF ChainOf, Usable
<1> QED
  BY <1>1, <1>2, <1>3, Bounds DEF ChainInv, ChainSound

LEMMA ChainInvStep == TypeInv /\ ChainInv /\ [Next]_vars => ChainInv'
<1> SUFFICES ASSUME TypeInv, ChainInv, [Next]_vars PROVE ChainInv'
  OBVIOUS
<1>1. CASE UNCHANGED vars
  BY <1>1 DEF vars, avars, cvars, pvars, ChainInv, ChainSound, ChainOf, Lists, Entries
<1>2. CASE Next
  <2>1. ASSUME NEW l \in Lists', NEW t \in Entries(l) PROVE ChainOf(t)'
    <3>1. CASE l = tasks'
      BY <1>2, <2>1, <3>1, ChainTasks
    <3>2. CASE l \in Lists
      <4>1. t \in Task /\ ChainOf(t)
        BY <3>2, ListTypes DEF ChainInv
      <4>2. \A c \in Children : Launch(c) => t.anchor # c
        <5>1. ASSUME NEW c \in Children, Launch(c) PROVE t.anchor # c
          BY <5>1, <3>2, FreeAnchors
        <5> QED
          BY <5>1
      <4> QED
        BY <1>2, <4>1, <4>2, ChainKept
    <3> QED
      BY <1>2, <3>1, <3>2, ListsNext
  <2>2. \A l \in Lists' : \A t \in Entries(l)' : ChainOf(t)'
    BY <2>1 DEF Entries
  <2>3. ChainSound'
    <3>1. ASSUME NEW c \in Children PROVE child'[c].same /\ child'[c].len <= FreshEvery
      <4>1. CASE Launch(c)
        BY <4>1, LaunchedRecord
      <4>2. CASE Ages(c)
        BY <4>2 DEF Ages, ChainInv, ChainSound
      <4> QED
        BY <1>2, <4>1, <4>2, ChildFrame
    <3> QED
      BY <3>1 DEF ChainSound
  <2>4. pc' \in FirePcs => \A t \in Entries(tasks') : t.id = job'.t.id => t.prompt = job'.t.prompt
    BY <1>2, PromptKept
  <2>5. pc' \in JobPcs => /\ ChainOf(job.t)'
                          /\ pc' = "query" => job'.t.anchor # None
                          /\ pc' \in FirePcs /\ job'.prev = "completed" =>
                               job'.t.anchor # None /\ child'[job'.t.anchor].st = "completed"
    BY <1>2, ChainJob
  <2>6. FirePcs \subseteq JobPcs /\ "query" \in JobPcs
    BY DEF FirePcs, JobPcs
  <2> QED
    BY <2>2, <2>3, <2>4, <2>5, <2>6 DEF ChainInv, Entries
<1> QED
  BY <1>1, <1>2

LEMMA ChainInvAlways == Spec => []ChainInv
<1> QED
  BY ChainInvInit, ChainInvStep, TypeInvAlways, PTL DEF Spec

(***************************************************************************)
(* fire_as_loop_subagent resumes the previous iteration only when it has   *)
(* the task's prompt, and no transcript is longer than                     *)
(* LOOP_FRESH_CHAIN_EVERY: whatever updates, refusals that put the anchor  *)
(* back, guards that clear it, crashes and reloads happen in between, for  *)
(* any number of tasks, prompts and iterations.                            *)
(***************************************************************************)
THEOREM SchedulerChainSound == Spec => []ChainSound
<1>1. ChainInv => ChainSound
  BY DEF ChainInv
<1> QED
  BY <1>1, ChainInvAlways, PTL

(***************************************************************************)
(* Every variable of the scheduler stays in its type: the lists never      *)
(* exceed what serialize can return, a reservation never leaves u64, and   *)
(* the records of the children keep the bound on their transcripts.        *)
(***************************************************************************)
THEOREM SchedulerTypeCorrect ==
    ASSUME Snapshot = Seq(Task)
    PROVE  Spec => []SchedulerTypeOK
<1>1. TypeInv /\ ChainInv => SchedulerTypeOK
  <2> SUFFICES ASSUME TypeInv, ChainInv PROVE SchedulerTypeOK
    OBVIOUS
  <2>1. PersistTypeOK /\ tasks \in Snapshot
    <3>1. Cmd = Command
      BY DEF Cmd, Command
    <3> QED
      BY <3>1, TasksOK DEF TypeInv, ListsOK, FileOK, PersistTypeOK
  <2>2. child \in [Children -> Child]
    <3>1. ASSUME NEW c \in Children PROVE child[c] \in Child
      <4>1. child[c] \in Record /\ child[c].len <= FreshEvery
        BY DEF TypeInv, ChildrenOK, ChainInv, ChainSound
      <4> QED
        BY <4>1, Bounds DEF Record, Child
    <3> QED
      BY <3>1 DEF TypeInv, ChildrenOK
  <2>3. /\ pending = None \/ pending \in [id : Tasks, res : Reservation]
        /\ pc \in PCs /\ (job = None \/ job \in Job)
    BY DEF TypeInv, ActorOK, PendingOK, JobOK
  <2>4. told \subseteq gone /\ gone \subseteq Tasks
    BY DEF TypeInv, HistoryOK, SetsOK
  <2> QED
    BY <2>1, <2>2, <2>3, <2>4 DEF SchedulerTypeOK, TypeInv, SetsOK, PCs
<1> QED
  BY <1>1, TypeInvAlways, ChainInvAlways, PTL

----------------------------------------------------------------------------
(* Overlap.                                                                *)

\* The rest of what a step may do.
ControlMoves ==
    /\ pc' = "down" => pc = "down" \/ Crash
    /\ coord = "closed" => coord' = "closed" \/ Crash
    /\ coord' = "closed" => coord = "closed" \/ CoordinatorGone
    /\ cancelled => cancelled' \/ Crash
    /\ ran' = ran \/ Crash \/ \E d \in Children : Admit(d)
    /\ \A id \in Tasks : id \in expired' => id \in expired \/ Recurring(id)

LEMMA ControlFrame ==
    ASSUME TypeInv, Next
    PROVE  ControlMoves
<1>a. cancelled \in BOOLEAN
  BY DEF TypeInv, SetsOK
<1> USE <1>a DEF Aside, Idle, avars, cvars, hvars, svars
<1>b. ASSUME pc' # "down" \/ pc' = pc, UNCHANGED <<coord, cancelled, ran, expired>>
      PROVE  ControlMoves
  BY <1>b DEF ControlMoves
<1>1. ASSUME NEW id \in Tasks, NEW p \in Prompts, NEW b \in BOOLEAN, Create(id, p, b) \/ Update(id, p, b)
      PROVE  ControlMoves
  BY <1>1, <1>b DEF Create, Update
<1>2. ASSUME NEW id \in Tasks, Delete(id) \/ FallsDue(id) PROVE ControlMoves
  BY <1>2, <1>b DEF Delete, BeginBarrier, FallsDue
<1>3. ASSUME NEW id \in Tasks, Expires(id) PROVE ControlMoves
  BY <1>3 DEF Expires, ControlMoves
<1>4. ASSUME NEW i \in 1..Len(tasks), ExpireBlocked(i) \/ ExpireTask(i) PROVE ControlMoves
  BY <1>4, <1>b DEF ExpireBlocked, ExpireTask
<1>5. ASSUME NEW i \in 1..Len(tasks), FireTask(i) PROVE ControlMoves
  BY <1>5, <1>b DEF FireTask
<1>6. ASSUME RetryDelete \/ AbandonRemoval \/ Announce \/ Stop \/ Skip PROVE ControlMoves
  BY <1>6, <1>b DEF RetryDelete, BeginBarrier, AbandonRemoval, Announce, Stop, Skip, Done
<1>7. ASSUME DeletePersisted \/ DeleteAcknowledged \/ DeleteTimesOut PROVE ControlMoves
  BY <1>7, <1>b DEF DeletePersisted, DeleteAcknowledged, DeleteTimesOut
<1>8. ASSUME ExpiryPersisted \/ ExpiryAcknowledged \/ ExpiryTimesOut \/ RemovalFlushed
      PROVE  ControlMoves
  BY <1>8, <1>b DEF ExpiryPersisted, ExpiryAcknowledged, ExpiryTimesOut, RemovalFlushed, Done
<1>9. ASSUME AskSkips \/ QueryEnded \/ UnitInactive PROVE ControlMoves
  BY <1>9, <1>b DEF AskSkips, QueryEnded, UnitInactive
<1>10. ASSUME NEW c \in Children, Launch(c) PROVE ControlMoves
  BY <1>10, <1>b DEF Launch
<1>11. ASSUME SpawnRefused \/ SpawnCancelled \/ Spawned PROVE ControlMoves
  BY <1>11, <1>b DEF SpawnRefused, SpawnCancelled, Spawned, Done
<1>12. ASSUME NEW c \in Children, GuardClears(c) \/ Refuse(c)
                                     \/ ChildEnds(c, "completed") \/ ChildEnds(c, "failed")
       PROVE  ControlMoves
  BY <1>12, <1>b DEF GuardClears, Refuse, ChildEnds
<1>13. ASSUME NEW c \in Children, Admit(c) PROVE ControlMoves
  <2>1. UNCHANGED <<pc, coord, cancelled, expired>>
    BY <1>13 DEF Admit
  <2> QED
    BY <1>13, <2>1 DEF ControlMoves
<1>14. ASSUME CoordinatorGone \/ Wire \/ Crash PROVE ControlMoves
  <2>1. UNCHANGED expired
    BY <1>14 DEF CoordinatorGone, Wire, Crash
  <2>2. CASE Crash
    BY <2>1, <2>2 DEF ControlMoves, Crash
  <2>3. CASE CoordinatorGone \/ Wire
    BY <2>1, <2>3 DEF ControlMoves, CoordinatorGone, Wire
  <2> QED
    BY <1>14, <2>2, <2>3
<1>15. ASSUME ToolSave \/ WriterStep \/ BridgeStep \/ Start PROVE ControlMoves
  BY <1>15, <1>b DEF ToolSave, WriterStep, BridgeStep, Start
<1>16. ASSUME Cancel PROVE ControlMoves
  BY <1>16 DEF Cancel, ControlMoves
<1> QED
  BY <1>1, <1>2, <1>3, <1>4, <1>5, <1>6, <1>7, <1>8, <1>9, <1>10, <1>11, <1>12, <1>13, <1>14,
     <1>15, <1>16
     DEF Next, Commands, Timer, Carries, Coordinator, Environment

\* A child of task id that may be in its first run.
Runs(c, id) == child[c].st \in Alive /\ child[c].task = id
WillRun(c, id) == child'[c].st \in Alive /\ child'[c].task = id

\* The anchor of a listed task leads to the child of it that runs; so a task
\* with no anchor, or one whose unit is inactive, has none.
OverlapInv ==
    /\ pc = "down" => \A c \in Children : child[c].st \notin Alive
    /\ \A c \in Children : child[c].st \in Alive => child[c].task \in created
    /\ \A t \in Entries(tasks) : \A c \in Children : Runs(c, t.id) => t.anchor = c
    /\ pc = "launch" => \A c \in Children : ~Runs(c, job.t.id)
    /\ pc = "register" => \A c \in Children : Runs(c, job.t.id) => c = job.c
    /\ pc = "expFlush" => \A c \in Children : Runs(c, job.t.id) => c = job.t.anchor
    /\ NoOverlap

LEMMA RunsFrame ==
    ASSUME TypeInv, ChainInv, Next, NEW c \in Children, NEW id, WillRun(c, id)
    PROVE  Runs(c, id) \/ (Launch(c) /\ coord # "closed" /\ id = job.t.id)
<1>1. CASE Launch(c)
  <2>1. child'[c].task = job.t.id /\ child'[c].st = IF coord # "closed" THEN "sent" ELSE "unsent"
    BY <1>1, LaunchedRecord
  <2> QED
    BY <1>1, <2>1 DEF Runs, WillRun, Alive
<1>2. CASE Ages(c)
  BY <1>2 DEF Ages, Runs, WillRun
<1> QED
  BY <1>1, <1>2, ChildFrame

\* A step that launches nothing adds no child that runs.
LEMMA NoneNew ==
    ASSUME TypeInv, ChainInv, Next, \A c \in Children : ~Launch(c)
    PROVE  \A c \in Children : \A id : WillRun(c, id) => Runs(c, id)
BY RunsFrame

LEMMA OverlapTasks ==
    ASSUME TypeInv, ChainInv, OverlapInv, Next,
           NEW t \in Entries(tasks'), NEW c \in Children, WillRun(c, t.id)
    PROVE  t.anchor = c
<1>0. \A s \in Entries(tasks) : s \in Task /\ \A d \in Children : Runs(d, s.id) => s.anchor = d
  BY ListTypes DEF OverlapInv
<1>1. CASE \E d \in Children : Launch(d)
  <2>1. PICK d \in Children : Launch(d)
    BY <1>1
  <2>2. PICK s \in Entries(tasks) :
            /\ s.id = job.t.id
            /\ t = Anchored(s, d) \/ (t \in Entries(tasks) /\ t.id # job.t.id)
    BY <2>1, LaunchEffect DEF TypeInv
  <2>3. CASE t = Anchored(s, d)
    <3>1. t.id = job.t.id /\ t.anchor = d
      BY <2>2, <2>3, <1>0 DEF Anchored, Task
    <3>2. ~Runs(c, t.id)
      BY <3>1, <2>1 DEF OverlapInv, Launch
    <3>3. Launch(c)
      BY <3>2, RunsFrame
    <3>4. job' = [job EXCEPT !.c = d] /\ job' = [job EXCEPT !.c = c] /\ job \in Job
      BY <2>1, <3>3, FreeAnchors DEF Launch
    <3>5. c = d
      BY <3>4 DEF Job
    <3> QED
      BY <3>1, <3>5
  <2>4. CASE t \in Entries(tasks) /\ t.id # job.t.id
    <3>1. Runs(c, t.id)
      BY <2>4, RunsFrame
    <3> QED
      BY <3>1, <2>4, <1>0
  <2> QED
    BY <2>2, <2>3, <2>4
<1>2. CASE \A d \in Children : ~Launch(d)
  <2>1. Runs(c, t.id)
    BY <1>2, NoneNew
  <2>2. CASE Kept(t)
    BY <2>1, <2>2, <1>0 DEF Kept
  <2>3. CASE Made(t)
    <3>1. t.id \notin created
      BY <2>3 DEF Made, Create, NewTask
    <3> QED
      BY <3>1, <2>1 DEF OverlapInv, Runs, WillRun
  <2>4. CASE Edited(t)
    <3>1. PICK p \in Prompts, s \in Entries(tasks) : t = Updated(s, p)
      BY <2>4 DEF Edited
    <3>2. t.id = s.id /\ t.anchor = s.anchor
      BY <3>1, <1>0 DEF Updated, Task
    <3> QED
      BY <3>2, <2>1, <1>0
  <2>5. CASE Reinserted(t)
    <3>1. pc = "expFlush" /\ t = job.t
      BY <2>5 DEF Reinserted, ExpiryPersisted
    <3> QED
      BY <3>1, <2>1 DEF OverlapInv
  <2>6. CASE Started(t)
    BY <1>2, <2>6 DEF Started
  <2>7. CASE Undone(t)
    <3>1. PICK s \in Entries(tasks) : SpawnRefused /\ s.id = job.t.id /\ t = PutBack(s)
      BY <2>7 DEF Undone
    <3>2. t.id = job.t.id
      BY <3>1, <1>0 DEF PutBack, Task
    <3>3. c = job.c /\ child[job.c].st \notin Alive
      BY <3>1, <3>2, <2>1 DEF OverlapInv, SpawnRefused, Refused, Alive
    <3> QED
      BY <3>3, <2>1 DEF Runs, WillRun
  <2>8. CASE Unanchored(t)
    <3>1. PICK d \in Children, s \in Entries(tasks) :
              GuardClears(d) /\ s.anchor = d /\ t = Cleared(s)
      BY <2>8 DEF Unanchored
    <3>2. t.id = s.id /\ child[d].st \notin Alive
      BY <3>1, <1>0 DEF Cleared, Task, GuardClears, Alive
    <3>3. s.anchor = c
      BY <3>2, <2>1, <1>0
    <3> QED
      BY <3>1, <3>2, <3>3, <2>1 DEF Runs, WillRun
  <2>9. CASE Loaded(t)
    BY <2>9, <2>1 DEF Loaded, Start, OverlapInv, Runs, WillRun
  <2> QED
    BY <2>2, <2>3, <2>4, <2>5, <2>6, <2>7, <2>8, <2>9, EntryFrame
<1> QED
  BY <1>1, <1>2

LEMMA OverlapJob ==
    ASSUME TypeInv, ChainInv, OverlapInv, Next, NEW c \in Children, WillRun(c, job'.t.id)
    PROVE  /\ pc' # "launch"
           /\ pc' = "register" => c = job'.c
           /\ pc' = "expFlush" => c = job'.t.anchor
<1> SUFFICES ASSUME pc' \in {"launch", "register", "expFlush"}
             PROVE  /\ pc' # "launch"
                    /\ pc' = "register" => c = job'.c
                    /\ pc' = "expFlush" => c = job'.t.anchor
  OBVIOUS
<1>0. pc' \in JobPcs
  BY DEF JobPcs
<1>1. CASE Begins
  <2>1. PICK i \in 1..Len(tasks) : (ExpireTask(i) \/ FireTask(i)) /\ job'.t = tasks[i]
    BY <1>1 DEF Begins
  <2>2. child' = child /\ tasks[i] \in Entries(tasks)
    BY <2>1 DEF ExpireTask, FireTask, Aside, cvars, Entries
  <2>3. tasks[i].anchor = c
    BY <2>1, <2>2 DEF OverlapInv, Runs, WillRun
  <2>4. pc' = "launch" => tasks[i].anchor = None
    BY <2>1 DEF ExpireTask, FireTask
  <2>5. pc' # "register"
    BY <2>1 DEF ExpireTask, FireTask
  <2>6. None \notin Children
    BY Bounds
  <2> QED
    BY <2>1, <2>3, <2>4, <2>5, <2>6
<1>2. CASE Continues
  <2>0. pc \in JobPcs /\ job'.t = job.t /\ job \in Job
    BY <1>2, ListTypes DEF Continues
  <2>1. CASE Launch(c)
    <3>1. job' = [job EXCEPT !.c = c] /\ pc' = "register"
      BY <2>1 DEF Launch
    <3>2. job'.c = c
      BY <3>1, <2>0 DEF Job
    <3> QED
      BY <3>1, <3>2
  <2>2. CASE ~Launch(c)
    <3>1. Runs(c, job.t.id)
      BY <2>0, <2>2, RunsFrame
    <3>2. pc # "launch"
      BY <3>1 DEF OverlapInv
    <3>3. \A d \in Children : ~Launch(d)
      BY <3>2 DEF Launch
    <3>4. pc' # "launch"
      <4>1. CASE UnitInactive
        <5>1. Sent = {} /\ FALSE \in UnitActive(job.t.id)
          BY <4>1 DEF UnitInactive, Answers
        <5>2. ~(child[c].task = job.t.id /\ child[c].st = "live")
          BY <5>1 DEF UnitActive
        <5>3. child[c].st # "sent"
          BY <5>1 DEF Sent
        <5> QED
          BY <5>2, <5>3, <3>1 DEF Runs, WillRun, Alive
      <4>2. CASE ~UnitInactive
        BY <4>2, <3>2, <1>2 DEF Continues
      <4> QED
        BY <4>1, <4>2
    <3>5. pc' = "register" => c = job'.c
      BY <3>1, <3>3, <1>2 DEF Continues, OverlapInv
    <3>6. pc' = "expFlush" => c = job'.t.anchor
      BY <3>1, <2>0, <1>2 DEF Continues, OverlapInv
    <3> QED
      BY <3>4, <3>5, <3>6
  <2> QED
    BY <2>1, <2>2
<1> QED
  BY <1>0, <1>1, <1>2, JobFrame

LEMMA OverlapInvInit == Init => OverlapInv
<1> SUFFICES ASSUME Init PROVE OverlapInv
  OBVIOUS
<1>1. pc = "down" /\ \A c \in Children : child[c].st \notin Alive
  BY DEF Init, Alive
<1>2. NoOverlap
  BY <1>1 DEF NoOverlap, Alive
<1> QED
  BY <1>1, <1>2 DEF OverlapInv, Runs, WillRun

LEMMA OverlapInvStep == TypeInv /\ ChainInv /\ OverlapInv /\ [Next]_vars => OverlapInv'
<1> SUFFICES ASSUME TypeInv, ChainInv, OverlapInv, [Next]_vars PROVE OverlapInv'
  OBVIOUS
<1>1. CASE UNCHANGED vars
  BY <1>1 DEF vars, avars, cvars, hvars, OverlapInv, NoOverlap, Runs, Entries
<1>2. CASE Next
  <2>1. pc' = "down" => \A c \in Children : child'[c].st \notin Alive
    <3>1. CASE Crash
      <4>1. child' = Killed
        BY <3>1 DEF Crash
      <4> QED
        BY <4>1, KilledOK DEF TypeInv, Alive
    <3>2. CASE pc = "down"
      <4>1. \A c \in Children : ~Launch(c)
        BY <3>2 DEF Launch
      <4>2. \A c \in Children : Ages(c)
        BY <1>2, <4>1, ChildFrame
      <4> QED
        BY <3>2, <4>2 DEF OverlapInv, Ages
    <3> QED
      BY <1>2, <3>1, <3>2, ControlFrame DEF ControlMoves
  <2>2. ASSUME NEW c \in Children, child'[c].st \in Alive PROVE child'[c].task \in created'
    <3>1. created \subseteq created'
      BY <1>2, TasksStep
    <3>2. CASE Launch(c)
      <4>1. child'[c].task = job.t.id /\ pc = "launch"
        BY <3>2, LaunchedRecord DEF Launch
      <4>2. job.t.id \in created
        BY <4>1 DEF TypeInv, ActorOK, JobOK, JobPcs
      <4> QED
        BY <3>1, <4>1, <4>2
    <3>3. CASE Ages(c)
      BY <3>1, <3>3, <2>2 DEF Ages, OverlapInv
    <3> QED
      BY <1>2, <3>2, <3>3, ChildFrame
  <2>3. \A t \in Entries(tasks') : \A c \in Children : WillRun(c, t.id) => t.anchor = c
    BY <1>2, OverlapTasks
  <2>4. \A c \in Children :
            WillRun(c, job'.t.id) => /\ pc' # "launch"
                                     /\ pc' = "register" => c = job'.c
                                     /\ pc' = "expFlush" => c = job'.t.anchor
    BY <1>2, OverlapJob
  <2>5. NoOverlap'
    <3> SUFFICES ASSUME NEW c \in Children, NEW d \in Children, c # d,
                        child'[c].task = child'[d].task,
                        child'[c].st \in Alive, child'[d].st \in Alive
                 PROVE  FALSE
      BY DEF NoOverlap, Alive
    <3> DEFINE id == child'[c].task
    <3>1. WillRun(c, id) /\ WillRun(d, id)
      BY DEF Runs, WillRun
    <3>2. ASSUME NEW x \in Children, NEW y \in Children, x # y, Launch(x),
                 WillRun(x, id), WillRun(y, id)
          PROVE  FALSE
      <4>1. child'[x].task = job.t.id /\ child'[y] = child[y] /\ pc = "launch"
        BY <3>2, LaunchedRecord DEF Launch
      <4>2. Runs(y, job.t.id)
        BY <3>2, <4>1 DEF Runs, WillRun
      <4> QED
        BY <4>1, <4>2 DEF OverlapInv
    <3>3. ~Launch(c) /\ ~Launch(d)
      BY <3>1, <3>2
    <3>4. Ages(c) /\ Ages(d)
      BY <1>2, <3>3, ChildFrame
    <3> QED
      BY <3>4 DEF Ages, OverlapInv, NoOverlap, Alive
  <2>6. (\A c \in Children : child[c].st \in Alive => child[c].task \in created)'
    BY <2>2 DEF Alive
  <2>7. (\A t \in Entries(tasks) : \A c \in Children : Runs(c, t.id) => t.anchor = c)'
    BY <2>3 DEF Entries, Runs, WillRun, Alive
  <2>8. /\ (pc = "launch" => \A c \in Children : ~Runs(c, job.t.id))'
        /\ (pc = "register" => \A c \in Children : Runs(c, job.t.id) => c = job.c)'
        /\ (pc = "expFlush" => \A c \in Children : Runs(c, job.t.id) => c = job.t.anchor)'
    BY <2>4 DEF Runs, WillRun, Alive
  <2>9. (pc = "down" => \A c \in Children : child[c].st \notin Alive)'
    BY <2>1 DEF Alive
  <2> QED
    BY <2>5, <2>6, <2>7, <2>8, <2>9 DEF OverlapInv
<1> QED
  BY <1>1, <1>2

LEMMA OverlapInvAlways == Spec => []OverlapInv
BY OverlapInvInit, OverlapInvStep, TypeInvAlways, ChainInvAlways, PTL DEF Spec

(***************************************************************************)
(* Two iterations of one task are never in their first run at once: fire   *)
(* asks the coordinator about the anchor only, and the anchor leads to the *)
(* iteration that runs through every update, expiry that is put back,      *)
(* refused spawn, guard and restart.                                       *)
(***************************************************************************)
THEOREM SchedulerNoOverlap == Spec => []NoOverlap
<1>1. OverlapInv => NoOverlap
  BY DEF OverlapInv
<1> QED
  BY <1>1, OverlapInvAlways, PTL

----------------------------------------------------------------------------
(* One-shots.                                                              *)

\* A one-shot that was admitted is listed no longer than its registration
\* takes, unless nothing can be handed over any more; one that is handed
\* over and not yet admitted is being registered, or the actor ends.
OneShotInv ==
    /\ pc = "down" => ran = {}
    /\ coord = "closed" => Sent = {}
    /\ \A id \in OneShots : id \notin expired /\ (pc = "expFlush" => job.t.id # id)
    /\ \A id \in Ids(tasks) \cap ran :
          (pc = "register" /\ job.t.id = id) \/ coord = "closed" \/ cancelled
    /\ \A c \in Sent : child[c].task \in OneShots \cap Ids(tasks) =>
          (pc = "register" /\ job.c = c) \/ cancelled
    /\ pc \in {"query", "unit", "launch"} /\ job.t.id \in OneShots =>
          /\ job.t.id \notin ran \/ coord = "closed"
          /\ \A c \in Sent : child[c].task # job.t.id
    /\ pc = "register" =>
          /\ child[job.c].task = job.t.id
          /\ job.t.id \in ran => child[job.c].st \in Began \/ coord = "closed"
    /\ OneShotOnce

\* The ids of the one-shots in the list.
LEMMA OneShotIds ==
    ASSUME TypeInv, OneShotInv, Next, NEW id \in OneShots, id \in Ids(tasks')
    PROVE  id \in Ids(tasks) \/ Start
<1>1. \A p \in Prompts, b \in BOOLEAN : ~Create(id, p, b)
  BY DEF Create, Recurring
<1>2. ~(ExpiryPersisted /\ id = job.t.id)
  BY DEF ExpiryPersisted, OneShotInv
<1> QED
  BY <1>1, <1>2, IdsFrame

\* What leaves the registration of a fire, and how.
LEMMA RegisterEnds ==
    ASSUME TypeInv, Next, pc = "register", pc' # "register"
    PROVE  SpawnRefused \/ SpawnCancelled \/ Spawned \/ Crash
<1> USE DEF Aside, Idle, avars, cvars
<1>1. ASSUME NEW id \in Tasks, NEW p \in Prompts, NEW b \in BOOLEAN, Create(id, p, b) \/ Update(id, p, b)
      PROVE  FALSE
  BY <1>1 DEF Create, Update
<1>2. ASSUME NEW id \in Tasks, Delete(id) \/ FallsDue(id) \/ Expires(id) PROVE FALSE
  BY <1>2 DEF Delete, FallsDue, Expires
<1>3. ASSUME NEW i \in 1..Len(tasks), ExpireBlocked(i) \/ ExpireTask(i) \/ FireTask(i) PROVE FALSE
  BY <1>3 DEF ExpireBlocked, ExpireTask, FireTask, Selected
<1>4. ASSUME RetryDelete \/ AbandonRemoval \/ Announce \/ Stop \/ Skip PROVE FALSE
  BY <1>4 DEF RetryDelete, AbandonRemoval, Announce, Stop, Skip
<1>5. ASSUME DeletePersisted \/ DeleteAcknowledged \/ DeleteTimesOut PROVE FALSE
  BY <1>5 DEF DeletePersisted, DeleteAcknowledged, DeleteTimesOut
<1>6. ASSUME ExpiryPersisted \/ ExpiryAcknowledged \/ ExpiryTimesOut \/ RemovalFlushed PROVE FALSE
  BY <1>6 DEF ExpiryPersisted, ExpiryAcknowledged, ExpiryTimesOut, RemovalFlushed
<1>7. ASSUME AskSkips \/ QueryEnded \/ UnitInactive PROVE FALSE
  BY <1>7 DEF AskSkips, QueryEnded, UnitInactive
<1>8. ASSUME NEW c \in Children, Launch(c) \/ GuardClears(c) \/ Admit(c) \/ Refuse(c)
                                    \/ ChildEnds(c, "completed") \/ ChildEnds(c, "failed")
      PROVE  FALSE
  BY <1>8 DEF Launch, GuardClears, Admit, Refuse, ChildEnds
<1>9. ASSUME CoordinatorGone \/ Wire \/ ToolSave \/ Cancel \/ Start \/ WriterStep \/ BridgeStep
      PROVE  FALSE
  BY <1>9 DEF CoordinatorGone, Wire, ToolSave, Cancel, Start, WriterStep, BridgeStep
<1> QED
  BY <1>1, <1>2, <1>3, <1>4, <1>5, <1>6, <1>7, <1>8, <1>9
     DEF Next, Commands, Timer, Carries, Coordinator, Environment

LEMMA SentFrame ==
    ASSUME TypeInv, ChainInv, Next, NEW c \in Children, child'[c].st = "sent"
    PROVE  \/ c \in Sent /\ child'[c].task = child[c].task /\ ~Launch(c)
           \/ Launch(c) /\ coord # "closed" /\ child'[c].task = job.t.id
<1>1. CASE Launch(c)
  BY <1>1, LaunchedRecord
<1>2. CASE Ages(c) /\ ~Launch(c)
  BY <1>2 DEF Ages, Sent
<1> QED
  BY <1>1, <1>2, ChildFrame

LEMMA RanFrame ==
    ASSUME TypeInv, Next, NEW id \in ran'
    PROVE  /\ ~Crash /\ id \in OneShots
           /\ id \in ran \/ \E d \in Sent : Admit(d) /\ child[d].task = id
<1>1. ~Crash
  BY DEF Crash
<1>2. id \in OneShots
  BY TypeInvStep DEF TypeInv, SetsOK
<1>3. id \in ran \/ \E d \in Sent : Admit(d) /\ child[d].task = id
  <2>1. CASE ran' = ran
    BY <2>1
  <2>2. ASSUME NEW d \in Children, Admit(d) PROVE id \in ran \/ (d \in Sent /\ child[d].task = id)
    BY <2>2 DEF Admit
  <2> QED
    BY <1>1, <2>1, <2>2, ControlFrame DEF ControlMoves
<1> QED
  BY <1>1, <1>2, <1>3

LEMMA RegisterKept ==
    ASSUME TypeInv, Next, pc = "register", pc' = "register"
    PROVE  job'.t = job.t /\ job'.c = job.c
<1>1. ~Begins /\ \A c \in Children : ~Launch(c)
  BY DEF Begins, Launch
<1>2. ~QueryEnded
  BY DEF QueryEnded
<1>3. Continues
  BY <1>1, JobFrame DEF JobPcs
<1> QED
  BY <1>1, <1>2, <1>3 DEF Continues

\* An admitted one-shot that is still listed.
LEMMA OneShotListed ==
    ASSUME TypeInv, OverlapInv, OneShotInv, Next, NEW id \in Ids(tasks') \cap ran'
    PROVE  (pc' = "register" /\ job'.t.id = id) \/ coord' = "closed" \/ cancelled'
<1>1. ~Crash /\ id \in OneShots
  BY RanFrame
<1>2. id \in Ids(tasks)
  <2>1. CASE Start
    <3>1. ran' = {}
      BY <2>1 DEF Start, Aside, cvars, OneShotInv
    <3> QED
      BY <3>1
  <2> QED
    BY <2>1, <1>1, OneShotIds
<1>3. CASE id \in ran
  <2>1. (pc = "register" /\ job.t.id = id) \/ coord = "closed" \/ cancelled
    BY <1>2, <1>3 DEF OneShotInv
  <2>2. CASE coord = "closed" \/ cancelled
    BY <2>2, <1>1, ControlFrame DEF ControlMoves
  <2>3. CASE pc = "register" /\ job.t.id = id /\ pc' = "register"
    BY <2>3, RegisterKept
  <2>4. CASE pc = "register" /\ job.t.id = id /\ pc' # "register"
    <3>1. CASE SpawnRefused
      <4>1. coord = "closed"
        BY <2>4, <3>1, <1>3 DEF OneShotInv, SpawnRefused, Refused, Began
      <4> QED
        BY <4>1, <2>2
    <3>2. CASE SpawnCancelled
      BY <3>2, <2>2 DEF SpawnCancelled
    <3>3. CASE Spawned
      BY <3>3, <2>4, <1>1, OneShotEffect DEF Recurring, TypeInv
    <3> QED
      BY <1>1, <2>4, <3>1, <3>2, <3>3, RegisterEnds
  <2> QED
    BY <2>1, <2>2, <2>3, <2>4
<1>4. CASE \E d \in Sent : Admit(d) /\ child[d].task = id
  <2>1. PICK d \in Sent : Admit(d) /\ child[d].task = id
    BY <1>4
  <2>2. (pc = "register" /\ job.c = d) \/ cancelled
    BY <2>1, <1>1, <1>2 DEF OneShotInv
  <2>3. pc = "register" /\ job.c = d => job.t.id = id
    BY <2>1 DEF OneShotInv
  <2>4. UNCHANGED <<pc, job, cancelled>>
    BY <2>1 DEF Admit, avars, svars
  <2> QED
    BY <2>2, <2>3, <2>4
<1> QED
  BY <1>3, <1>4, RanFrame

\* A one-shot handed over, not yet admitted, that is still listed.
LEMMA OneShotSent ==
    ASSUME TypeInv, ChainInv, OverlapInv, OneShotInv, Next, NEW c \in Children,
           child'[c].st = "sent", child'[c].task \in OneShots \cap Ids(tasks')
    PROVE  (pc' = "register" /\ job'.c = c) \/ cancelled'
<1> DEFINE id == child'[c].task
<1>1. CASE Launch(c) /\ coord # "closed"
  <2>1. pc' = "register" /\ job' = [job EXCEPT !.c = c] /\ job \in Job
    BY <1>1, FreeAnchors DEF Launch
  <2> QED
    BY <2>1 DEF Job
<1>2. CASE c \in Sent /\ id = child[c].task
  <2>1. child[c].st \in Alive
    BY <1>2 DEF Sent, Alive
  <2>2. ~Start
    BY <2>1 DEF Start, OverlapInv
  <2>3. id \in Ids(tasks)
    BY <2>2, OneShotIds
  <2>4. ~Crash
    <3>1. Crash => child' = Killed
      BY DEF Crash
    <3> QED
      BY <3>1, KilledOK DEF TypeInv
  <2>5. CASE cancelled
    BY <2>4, <2>5, ControlFrame DEF ControlMoves
  <2>6. CASE pc = "register" /\ job.c = c /\ pc' = "register"
    BY <2>6, RegisterKept
  <2>7. CASE pc = "register" /\ job.c = c /\ pc' # "register"
    <3>1. ~SpawnRefused
      BY <2>7, <1>2 DEF SpawnRefused, Refused, Sent
    <3>2. CASE SpawnCancelled
      BY <3>2, <2>5 DEF SpawnCancelled
    <3>3. CASE Spawned
      <4>1. job.t.id = id
        BY <1>2, <2>7 DEF OneShotInv
      <4> QED
        BY <4>1, <3>3, OneShotEffect DEF Recurring, TypeInv
    <3> QED
      BY <2>4, <2>7, <3>1, <3>2, <3>3, RegisterEnds
  <2>8. (pc = "register" /\ job.c = c) \/ cancelled
    BY <1>2, <2>3 DEF OneShotInv
  <2> QED
    BY <2>5, <2>6, <2>7, <2>8
<1> QED
  BY <1>1, <1>2, SentFrame

\* A one-shot that is about to be handed over.
LEMMA OneShotAsking ==
    ASSUME TypeInv, ChainInv, OverlapInv, OneShotInv, Next,
           pc' \in {"query", "unit", "launch"}, job'.t.id \in OneShots
    PROVE  /\ job'.t.id \notin ran' \/ coord' = "closed"
           /\ \A c \in Children : child'[c].st = "sent" => child'[c].task # job'.t.id
<1>1. CASE Begins
  <2>1. PICK i \in 1..Len(tasks) : (ExpireTask(i) \/ FireTask(i)) /\ job'.t = tasks[i]
    BY <1>1 DEF Begins
  <2>2. pc = "idle" /\ ~cancelled /\ UNCHANGED <<child, ran, coord>>
    BY <2>1 DEF ExpireTask, FireTask, Selected, Idle, Aside, cvars
  <2>3. tasks[i].id \in Ids(tasks)
    BY DEF Ids
  <2> QED
    BY <2>1, <2>2, <2>3 DEF OneShotInv, Sent
<1>2. CASE Continues
  <2>1. pc \in {"query", "unit", "launch"} /\ job'.t = job.t
    <3>1. pc' \in FirePcs
      BY DEF FirePcs
    <3> QED
      BY <1>2, <3>1 DEF Continues, QueryEnded, UnitInactive
  <2>2. /\ job.t.id \notin ran \/ coord = "closed"
        /\ \A c \in Sent : child[c].task # job.t.id
    BY <2>1 DEF OneShotInv
  <2>3. ~Crash /\ \A c \in Children : ~Launch(c)
    <3>1. ~Crash
      BY DEF Crash
    <3>2. \A c \in Children : ~Launch(c)
      BY DEF Launch
    <3> QED
      BY <3>1, <3>2
  <2>4. job.t.id \in ran' => job.t.id \in ran
    BY <2>2, RanFrame
  <2>5. coord = "closed" => coord' = "closed"
    BY <2>3, ControlFrame DEF ControlMoves
  <2>6. ASSUME NEW c \in Children, child'[c].st = "sent" PROVE child'[c].task # job.t.id
    BY <2>2, <2>3, <2>6, SentFrame
  <2> QED
    BY <2>1, <2>2, <2>4, <2>5, <2>6
<1> QED
  BY <1>1, <1>2, JobFrame DEF JobPcs

\* A one-shot that is being registered.
LEMMA OneShotRegisters ==
    ASSUME TypeInv, ChainInv, OverlapInv, OneShotInv, Next, pc' = "register"
    PROVE  /\ child'[job'.c].task = job'.t.id
           /\ job'.t.id \in ran' => child'[job'.c].st \in Began \/ coord' = "closed"
<1>0. ~Begins
  BY DEF Begins, ExpireTask, FireTask
<1>1. Continues
  BY <1>0, JobFrame DEF JobPcs
<1>2. ASSUME NEW c \in Children, Launch(c)
      PROVE  /\ child'[job'.c].task = job'.t.id
             /\ job'.t.id \in ran' => child'[job'.c].st \in Began \/ coord' = "closed"
  <2>1. pc = "launch" /\ coord' = coord /\ ran' = ran /\ job' = [job EXCEPT !.c = c] /\ job \in Job
    BY <1>2, FreeAnchors DEF Launch
  <2>2. job'.c = c /\ job'.t = job.t
    BY <2>1 DEF Job
  <2>3. child'[c].task = job.t.id
    BY <1>2, LaunchedRecord
  <2>4. job.t.id \notin ran' \/ coord' = "closed"
    <3>1. job.t.id \in ran' => job.t.id \in OneShots
      BY RanFrame
    <3> QED
      BY <2>1, <3>1 DEF OneShotInv
  <2> QED
    BY <2>2, <2>3, <2>4
<1>3. CASE pc = "register" /\ \A c \in Children : ~Launch(c)
  <2>1. job'.t = job.t /\ job'.c = job.c /\ job.c \in Children
    BY <1>3, RegisterKept DEF TypeInv, ActorOK, JobOK, JobPcs
  <2>2. Ages(job.c)
    BY <2>1, <1>3, ChildFrame
  <2>3. child'[job.c].task = job.t.id
    BY <2>2, <1>3 DEF Ages, OneShotInv
  <2>4. ASSUME job.t.id \in ran, job.t.id \in ran' PROVE child'[job.c].st \in Began \/ coord' = "closed"
    <3>1. ~Crash
      BY <2>4, RanFrame
    <3>2. child[job.c].st \in Began \/ coord = "closed"
      BY <1>3, <2>4 DEF OneShotInv
    <3>3. CoordinatorGone => coord' = "closed"
      BY DEF CoordinatorGone
    <3>4. coord = "closed" => coord' = "closed"
      BY <3>1, ControlFrame DEF ControlMoves
    <3> QED
      BY <2>2, <3>1, <3>2, <3>3, <3>4 DEF Ages
  <2>5. ASSUME NEW d \in Sent, Admit(d), child[d].task = job.t.id PROVE child'[job.c].st \in Began
    <3>1. d \in Children /\ child[d].st = "sent"
      BY DEF Sent
    <3>2. Runs(d, job.t.id)
      BY <3>1, <2>5 DEF Runs, Alive
    <3>3. d = job.c
      BY <3>1, <3>2, <1>3 DEF OverlapInv
    <3>4. child' = [child EXCEPT ![d].st = "live"] /\ child \in [Children -> Record]
      BY <2>5 DEF Admit, TypeInv, ChildrenOK
    <3>5. child'[d].st = "live"
      BY <3>1, <3>4 DEF Record
    <3> QED
      BY <3>3, <3>5 DEF Began
  <2> QED
    BY <2>1, <2>3, <2>4, <2>5, RanFrame
<1> QED
  BY <1>1, <1>2, <1>3 DEF Continues

LEMMA OneShotOnceStep ==
    ASSUME TypeInv, ChainInv, OverlapInv, OneShotInv, Next, NEW c \in Children,
           child'[c].st = "sent"
    PROVE  child'[c].task \notin ran'
<1> SUFFICES ASSUME child'[c].task \in ran' PROVE FALSE
  OBVIOUS
<1>1. CASE Launch(c) /\ coord # "closed" /\ child'[c].task = job.t.id
  <2>1. pc = "launch" /\ ran' = ran
    BY <1>1 DEF Launch
  <2>2. job.t.id \in OneShots
    BY <1>1, RanFrame
  <2> QED
    BY <1>1, <2>1, <2>2 DEF OneShotInv
<1>2. CASE c \in Sent /\ child'[c].task = child[c].task
  <2>1. child[c].task \notin ran
    BY <1>2 DEF OneShotInv, OneShotOnce
  <2>2. PICK d \in Sent : Admit(d) /\ child[d].task = child[c].task
    BY <1>2, <2>1, RanFrame
  <2>3. d \in Children /\ child[d].st = "sent" /\ child[c].st = "sent"
    BY <1>2 DEF Sent
  <2>4. d = c
    BY <2>2, <2>3 DEF OverlapInv, NoOverlap
  <2>5. child' = [child EXCEPT ![c].st = "live"] /\ child \in [Children -> Record]
    BY <2>2, <2>4 DEF Admit, TypeInv, ChildrenOK
  <2>6. child'[c].st = "live"
    BY <2>5 DEF Record
  <2> QED
    BY <2>6
<1> QED
  BY <1>1, <1>2, SentFrame

LEMMA OneShotInvInit == Init => OneShotInv
<1> SUFFICES ASSUME Init PROVE OneShotInv
  OBVIOUS
<1>1. /\ pc = "down" /\ ran = {} /\ coord = "unwired" /\ expired = {}
      /\ \A c \in Children : child[c].st = "none"
  BY DEF Init
<1>2. Sent = {}
  BY <1>1 DEF Sent
<1> QED
  BY <1>1, <1>2 DEF OneShotInv, OneShotOnce

LEMMA OneShotInvStep == TypeInv /\ ChainInv /\ OverlapInv /\ OneShotInv /\ [Next]_vars => OneShotInv'
<1> SUFFICES ASSUME TypeInv, ChainInv, OverlapInv, OneShotInv, [Next]_vars PROVE OneShotInv'
  OBVIOUS
<1>1. CASE UNCHANGED vars
  BY <1>1 DEF vars, avars, cvars, hvars, svars, OneShotInv, OneShotOnce, Sent, Ids
<1>2. CASE Next
  <2>0. Sent' = {c \in Children : child'[c].st = "sent"}
    BY DEF Sent
  <2>1. (pc = "down" => ran = {})'
    <3>1. CASE Crash
      BY <3>1 DEF Crash
    <3>2. CASE pc = "down" /\ ~Crash
      <4>1. Sent = {}
        BY <3>2 DEF OverlapInv, Sent, Alive
      <4>2. \A id \in ran' : id \in ran
        BY <1>2, <4>1, RanFrame
      <4> QED
        BY <3>2, <4>2 DEF OneShotInv
    <3> QED
      BY <1>2, <3>1, <3>2, ControlFrame DEF ControlMoves
  <2>2. (coord = "closed" => Sent = {})'
    <3>1. CASE CoordinatorGone
      <4>1. child' = Killed
        BY <3>1 DEF CoordinatorGone
      <4> QED
        BY <4>1, <2>0, KilledOK DEF TypeInv
    <3>2. CASE coord = "closed"
      <4>1. \A c \in Children : child'[c].st # "sent"
        BY <1>2, <3>2, SentFrame DEF OneShotInv
      <4> QED
        BY <4>1, <2>0
    <3> QED
      BY <1>2, <3>1, <3>2, ControlFrame DEF ControlMoves
  <2>3. (\A id \in OneShots : id \notin expired /\ (pc = "expFlush" => job.t.id # id))'
    <3>1. ASSUME NEW id \in OneShots PROVE id \notin expired'
      <4>1. expired' \subseteq Tasks
        BY <1>2, TypeInvStep DEF TypeInv, SetsOK
      <4> QED
        BY <1>2, <4>1, ControlFrame DEF ControlMoves, OneShotInv, Recurring
    <3>2. ASSUME NEW id \in OneShots, pc' = "expFlush" PROVE job'.t.id # id
      <4>1. CASE Begins
        <5>1. PICK i \in 1..Len(tasks) : (ExpireTask(i) \/ FireTask(i)) /\ job'.t = tasks[i]
          BY <4>1 DEF Begins
        <5>2. tasks[i].id \in expired
          BY <5>1, <3>2 DEF ExpireTask, FireTask
        <5> QED
          BY <5>1, <5>2 DEF OneShotInv
      <4>2. CASE Continues
        BY <4>2, <3>2 DEF Continues, OneShotInv
      <4> QED
        BY <1>2, <3>2, <4>1, <4>2, JobFrame DEF JobPcs
    <3> QED
      BY <3>1, <3>2
  <2>4. (\A id \in Ids(tasks) \cap ran :
            (pc = "register" /\ job.t.id = id) \/ coord = "closed" \/ cancelled)'
    BY <1>2, OneShotListed DEF Ids
  <2>5. (\A c \in Sent : child[c].task \in OneShots \cap Ids(tasks) =>
            (pc = "register" /\ job.c = c) \/ cancelled)'
    BY <1>2, <2>0, OneShotSent DEF Ids
  <2>6. (pc \in {"query", "unit", "launch"} /\ job.t.id \in OneShots =>
            /\ job.t.id \notin ran \/ coord = "closed"
            /\ \A c \in Sent : child[c].task # job.t.id)'
    BY <1>2, <2>0, OneShotAsking
  <2>7. (pc = "register" =>
            /\ child[job.c].task = job.t.id
            /\ job.t.id \in ran => child[job.c].st \in Began \/ coord = "closed")'
    BY <1>2, OneShotRegisters DEF Began
  <2>8. OneShotOnce'
    BY <1>2, <2>0, OneShotOnceStep DEF OneShotOnce
  <2> QED
    BY <2>1, <2>2, <2>3, <2>4, <2>5, <2>6, <2>7, <2>8 DEF OneShotInv
<1> QED
  BY <1>1, <1>2

LEMMA OneShotInvAlways == Spec => []OneShotInv
BY OneShotInvInit, OneShotInvStep, TypeInvAlways, ChainInvAlways, OverlapInvAlways, PTL DEF Spec

(***************************************************************************)
(* A one-shot is handed to the coordinator at most once in the life of a   *)
(* process: a registration that times out counts as started and takes the  *)
(* task off the list, and one that is put back was refused before it ran   *)
(* or has no coordinator left to run it.                                   *)
(***************************************************************************)
THEOREM SchedulerOneShotOnce == Spec => []OneShotOnce
<1>1. OneShotInv => OneShotOnce
  BY DEF OneShotInv
<1> QED
  BY <1>1, OneShotInvAlways, PTL
============================================================================
