--------------------- MODULE ResourcesPersistenceProofs ---------------------
(***************************************************************************)
(* The writer of the state file implements SnapshotRegister, for every set *)
(* of snapshots and any number of commands in flight.                      *)
(***************************************************************************)
EXTENDS ResourcesPersistence, SequenceTheorems, TLAPS

Snaps(c) == [i \in 1..Len(c) |-> c[i].snap]
First(h) == IF h = NoSnapshot THEN <<>> ELSE <<h>>

Of(h, c) == First(h) \o Snaps(c)

LEMMA IssuedSplit == Issued = Of(held, chan) /\ Issued' = Of(held', chan')
BY DEF Issued, First, Snaps, Of

\* A function over 1..n is a sequence of length n.
LEMMA FunctionIsSeq ==
    ASSUME NEW S, NEW n \in Nat, NEW f \in [1..n -> S]
    PROVE  f \in Seq(S) /\ Len(f) = n
<1>1. f \in Seq(S)
  BY SeqDef
<1>2. Len(f) \in Nat /\ DOMAIN f = 1..Len(f) /\ DOMAIN f = 1..n
  BY <1>1, LenProperties
<1>3. 1..Len(f) = 1..n
  BY <1>2
<1>4. n <= Len(f)
  <2>1. CASE n = 0
    BY <1>2, <2>1
  <2>2. CASE n > 0
    <3>1. n \in 1..n
      BY <2>2
    <3>2. n \in 1..Len(f)
      BY <3>1, <1>3, Zenon
    <3> QED
      BY <3>2, <1>2
  <2> QED
    BY <2>1, <2>2
<1>5. Len(f) <= n
  <2>1. CASE Len(f) = 0
    BY <1>2, <2>1
  <2>2. CASE Len(f) > 0
    <3>1. Len(f) \in 1..Len(f)
      BY <2>2, <1>2
    <3>2. Len(f) \in 1..n
      BY <3>1, <1>3, Zenon
    <3> QED
      BY <3>2, <1>2
  <2> QED
    BY <1>2, <2>1, <2>2
<1> QED
  BY <1>1, <1>2, <1>4, <1>5

LEMMA SnapsType ==
    ASSUME NEW c \in Seq(Command)
    PROVE  /\ Snaps(c) \in Seq(Snapshot) /\ Len(Snaps(c)) = Len(c)
           /\ \A i \in 1..Len(c) : Snaps(c)[i] = c[i].snap
<1>1. Len(c) \in Nat /\ c \in [1..Len(c) -> Command]
  BY LenProperties
<1>2. \A i \in 1..Len(c) : c[i].snap \in Snapshot
  BY <1>1 DEF Command
<1>3. Snaps(c) \in [1..Len(c) -> Snapshot]
  BY <1>2 DEF Snaps
<1>4. Snaps(c) \in Seq(Snapshot) /\ Len(Snaps(c)) = Len(c)
  BY <1>1, <1>3, FunctionIsSeq
<1> QED
  BY <1>4 DEF Snaps

LEMMA FirstType ==
    ASSUME NEW h \in Snapshot \cup {NoSnapshot}
    PROVE  /\ First(h) \in Seq(Snapshot)
           /\ h = NoSnapshot => First(h) = <<>> /\ Len(First(h)) = 0
           /\ h # NoSnapshot => Len(First(h)) = 1 /\ First(h)[1] = h
BY DEF First

LEMMA Joined ==
    ASSUME NEW s \in Seq(Snapshot), NEW t \in Seq(Snapshot), NEW u, u = s \o t
    PROVE  /\ u \in Seq(Snapshot) /\ Len(u) = Len(s) + Len(t)
           /\ \A i \in 1..(Len(s) + Len(t)) :
                 u[i] = IF i <= Len(s) THEN s[i] ELSE t[i - Len(s)]
BY ConcatProperties

\* Issued is the held snapshot, if there is one, and then the channel.
LEMMA OfType ==
    ASSUME NEW h \in Snapshot \cup {NoSnapshot}, NEW c \in Seq(Command)
    PROVE  /\ Of(h, c) \in Seq(Snapshot) /\ Len(c) \in Nat /\ Len(First(h)) \in {0, 1}
           /\ Len(Of(h, c)) = Len(First(h)) + Len(c)
           /\ \A i \in 1..(Len(First(h)) + Len(c)) :
                 Of(h, c)[i] = IF i <= Len(First(h)) THEN h ELSE c[i - Len(First(h))].snap
<1>1. /\ First(h) \in Seq(Snapshot) /\ Len(First(h)) \in {0, 1}
      /\ Len(First(h)) = 1 => First(h)[1] = h
  BY FirstType
<1>2. /\ Snaps(c) \in Seq(Snapshot) /\ Len(Snaps(c)) = Len(c)
      /\ \A i \in 1..Len(c) : Snaps(c)[i] = c[i].snap
      /\ Len(c) \in Nat
  BY SnapsType, LenProperties
<1>3. /\ Of(h, c) \in Seq(Snapshot)
      /\ Len(Of(h, c)) = Len(First(h)) + Len(Snaps(c))
      /\ \A i \in 1..(Len(First(h)) + Len(Snaps(c))) :
            Of(h, c)[i] = IF i <= Len(First(h)) THEN First(h)[i] ELSE Snaps(c)[i - Len(First(h))]
  <2>1. Of(h, c) = First(h) \o Snaps(c)
    BY DEF Of
  <2> QED
    BY <1>1, <1>2, <2>1, Joined
<1>4. ASSUME NEW i \in 1..(Len(First(h)) + Len(c))
      PROVE  Of(h, c)[i] = IF i <= Len(First(h)) THEN h ELSE c[i - Len(First(h))].snap
  <2>1. CASE i <= Len(First(h))
    BY <1>1, <1>2, <1>3, <2>1
  <2>2. CASE ~(i <= Len(First(h)))
    <3>1. i - Len(First(h)) \in 1..Len(c)
      BY <1>1, <1>2, <2>2
    <3> QED
      BY <1>1, <1>2, <1>3, <2>2, <3>1
  <2> QED
    BY <2>1, <2>2
<1> QED
  BY <1>1, <1>2, <1>3, <1>4

LEMMA OfHeld ==
    ASSUME NEW h \in Snapshot, NEW c \in Seq(Command)
    PROVE  /\ Of(h, c) \in Seq(Snapshot) /\ Len(c) \in Nat /\ Len(Of(h, c)) = 1 + Len(c)
           /\ \A i \in 1..(1 + Len(c)) : Of(h, c)[i] = IF i <= 1 THEN h ELSE c[i - 1].snap
<1> DEFINE n == Len(First(h))
           s == Of(h, c)
<1>1. n = 1
  BY FirstType, NoSnapshotAssumption
<1>2. /\ s \in Seq(Snapshot) /\ Len(c) \in Nat /\ Len(s) = n + Len(c)
      /\ \A i \in 1..(n + Len(c)) : s[i] = IF i <= n THEN h ELSE c[i - n].snap
  BY OfType
<1> HIDE DEF n, s
<1>3. /\ s \in Seq(Snapshot) /\ Len(c) \in Nat /\ Len(s) = 1 + Len(c)
      /\ \A i \in 1..(1 + Len(c)) : s[i] = IF i <= 1 THEN h ELSE c[i - 1].snap
  BY <1>1, <1>2
<1> QED
  BY <1>3 DEF s

LEMMA OfNone ==
    ASSUME NEW c \in Seq(Command)
    PROVE  /\ Of(NoSnapshot, c) \in Seq(Snapshot) /\ Len(c) \in Nat
           /\ Len(Of(NoSnapshot, c)) = Len(c)
           /\ \A i \in 1..Len(c) : Of(NoSnapshot, c)[i] = c[i].snap
<1> DEFINE n == Len(First(NoSnapshot))
           s == Of(NoSnapshot, c)
<1>1. n = 0
  BY FirstType
<1>2. /\ s \in Seq(Snapshot) /\ Len(c) \in Nat /\ Len(s) = n + Len(c)
      /\ \A i \in 1..(n + Len(c)) : s[i] = IF i <= n THEN NoSnapshot ELSE c[i - n].snap
  BY OfType
<1> HIDE DEF n, s
<1>3. /\ s \in Seq(Snapshot) /\ Len(c) \in Nat /\ Len(s) = Len(c)
      /\ \A i \in 1..Len(c) : s[i] = c[i].snap
  BY <1>1, <1>2
<1> QED
  BY <1>3 DEF s

\* Two sequences are equal if one drops the first n of the other.
LEMMA DropIsSubSeq ==
    ASSUME NEW s \in Seq(Snapshot), NEW t \in Seq(Snapshot), NEW n \in 0..Len(s),
           Len(t) = Len(s) - n, \A i \in 1..Len(t) : t[i] = s[i + n]
    PROVE  t = SubSeq(s, n + 1, Len(s))
<1>1. Len(s) \in Nat /\ Len(t) \in Nat /\ n \in Nat
  BY LenProperties
<1>2. \A i \in (n + 1)..Len(s) : s[i] \in Snapshot
  BY <1>1, ElementOfSeq
<1>3. /\ SubSeq(s, n + 1, Len(s)) \in Seq(Snapshot)
      /\ Len(SubSeq(s, n + 1, Len(s))) = Len(s) - n
      /\ \A i \in 1..(Len(s) - n) : SubSeq(s, n + 1, Len(s))[i] = s[n + i]
  BY <1>1, <1>2, SubSeqProperties
<1> QED
  BY <1>1, <1>3, SeqEqual

\* A command is queued behind what was issued.
LEMMA OfAppend ==
    ASSUME NEW h \in Snapshot \cup {NoSnapshot}, NEW c \in Seq(Command), NEW e \in Command
    PROVE  /\ Append(c, e) \in Seq(Command)
           /\ Len(Of(h, Append(c, e))) = Len(Of(h, c)) + 1
           /\ SubSeq(Of(h, Append(c, e)), 1, Len(Of(h, c))) = Of(h, c)
<1> DEFINE d == Append(c, e)
           s == Of(h, c)
           t == Of(h, d)
<1>1. d \in Seq(Command) /\ Len(d) = Len(c) + 1 /\ \A i \in 1..Len(c) : d[i] = c[i]
  BY AppendProperties
<1> HIDE DEF d
<1>2. /\ s \in Seq(Snapshot) /\ Len(c) \in Nat /\ Len(First(h)) \in {0, 1}
      /\ Len(s) = Len(First(h)) + Len(c)
      /\ \A i \in 1..(Len(First(h)) + Len(c)) :
            s[i] = IF i <= Len(First(h)) THEN h ELSE c[i - Len(First(h))].snap
  BY OfType
<1>3. /\ t \in Seq(Snapshot) /\ Len(t) = Len(First(h)) + Len(d)
      /\ \A i \in 1..(Len(First(h)) + Len(d)) :
            t[i] = IF i <= Len(First(h)) THEN h ELSE d[i - Len(First(h))].snap
  BY <1>1, OfType
<1> HIDE DEF s, t
<1>4. \A i \in 1..Len(s) : t[i] = s[i]
  <2> TAKE i \in 1..Len(s)
  <2>1. CASE i <= Len(First(h))
    BY <1>1, <1>2, <1>3, <2>1
  <2>2. CASE ~(i <= Len(First(h)))
    <3>1. i - Len(First(h)) \in 1..Len(c)
      BY <1>2, <2>2
    <3>2. d[i - Len(First(h))] = c[i - Len(First(h))]
      BY <1>1, <3>1
    <3>3. t[i] = d[i - Len(First(h))].snap /\ s[i] = c[i - Len(First(h))].snap
      BY <1>1, <1>2, <1>3, <2>2
    <3> QED
      BY <3>2, <3>3
  <2> QED
    BY <2>1, <2>2
<1>5. \A i \in 1..Len(s) : t[i] \in Snapshot
  BY <1>1, <1>2, <1>3, ElementOfSeq
<1>6. /\ SubSeq(t, 1, Len(s)) \in Seq(Snapshot) /\ Len(SubSeq(t, 1, Len(s))) = Len(s)
      /\ \A i \in 1..Len(s) : SubSeq(t, 1, Len(s))[i] = t[i]
  BY <1>2, <1>5, SubSeqProperties
<1>7. SubSeq(t, 1, Len(s)) = s
  BY <1>2, <1>4, <1>6, SeqEqual
<1> QED
  BY <1>1, <1>2, <1>3, <1>7 DEF d, s, t

\* Taking the first command: a save makes it the held snapshot, a flush drops
\* the held one with it.
LEMMA OfTail ==
    ASSUME NEW h \in Snapshot \cup {NoSnapshot}, NEW c \in Seq(Command), c # <<>>
    PROVE  /\ Tail(c) \in Seq(Command) /\ Head(c) \in Command /\ Head(c).snap \in Snapshot
           /\ Len(First(h)) + 1 \in 1..Len(Of(h, c))
           /\ Of(h, c)[Len(First(h)) + 1] = Head(c).snap
           /\ Of(Head(c).snap, Tail(c)) = SubSeq(Of(h, c), Len(First(h)) + 1, Len(Of(h, c)))
           /\ Of(NoSnapshot, Tail(c)) = SubSeq(Of(h, c), Len(First(h)) + 2, Len(Of(h, c)))
<1> DEFINE n == Len(First(h))
           d == Tail(c)
           x == Head(c).snap
           s == Of(h, c)
           t == Of(x, d)
           u == Of(NoSnapshot, d)
<1>1. /\ Head(c) \in Command /\ d \in Seq(Command) /\ Len(d) = Len(c) - 1
      /\ \A i \in 1..Len(d) : d[i] = c[i + 1]
  BY HeadTailProperties
<1>2. x \in Snapshot /\ x # NoSnapshot
  BY <1>1, NoSnapshotAssumption DEF Command
<1>3. Len(c) \in Nat /\ Len(c) > 0 /\ x = c[1].snap
  BY EmptySeq, LenProperties
<1> HIDE DEF d, x
<1>4. /\ s \in Seq(Snapshot) /\ n \in {0, 1} /\ Len(s) = n + Len(c)
      /\ \A i \in 1..(n + Len(c)) : s[i] = IF i <= n THEN h ELSE c[i - n].snap
  BY OfType
<1>5. /\ t \in Seq(Snapshot) /\ Len(t) = 1 + Len(d)
      /\ \A i \in 1..(1 + Len(d)) : t[i] = IF i <= 1 THEN x ELSE d[i - 1].snap
  BY <1>1, <1>2, OfHeld
<1>6. /\ u \in Seq(Snapshot) /\ Len(u) = Len(d)
      /\ \A i \in 1..Len(d) : u[i] = d[i].snap
  BY <1>1, OfNone
<1> HIDE DEF n, s, t, u
<1>7. n + 1 \in 1..Len(s) /\ s[n + 1] = x
  BY <1>3, <1>4
<1>8. t = SubSeq(s, n + 1, Len(s))
  <2>1. \A i \in 1..Len(t) : t[i] = s[i + n]
    <3> TAKE i \in 1..Len(t)
    <3>1. s[i + n] = c[i].snap
      <4>1. i + n \in 1..(n + Len(c)) /\ ~(i + n <= n) /\ (i + n) - n = i
        BY <1>1, <1>3, <1>4, <1>5
      <4> QED
        BY <1>4, <4>1
    <3>2. CASE i = 1
      BY <1>1, <1>3, <1>5, <3>1, <3>2
    <3>3. CASE i # 1
      <4>1. i - 1 \in 1..Len(d) /\ (i - 1) + 1 = i
        BY <1>1, <1>3, <1>5, <3>3
      <4>2. d[i - 1] = c[i]
        BY <1>1, <4>1
      <4>3. t[i] = d[i - 1].snap
        BY <1>1, <1>3, <1>5, <3>3
      <4> QED
        BY <3>1, <4>2, <4>3
    <3> QED
      BY <3>2, <3>3
  <2>2. n \in 0..Len(s) /\ Len(t) = Len(s) - n
    BY <1>1, <1>3, <1>4, <1>5
  <2> QED
    BY <1>4, <1>5, <2>1, <2>2, DropIsSubSeq
<1>9. u = SubSeq(s, n + 2, Len(s))
  <2> DEFINE m == n + 1
  <2>1. \A i \in 1..Len(u) : u[i] = s[i + m]
    <3> TAKE i \in 1..Len(u)
    <3>1. s[i + m] = c[i + 1].snap
      BY <1>1, <1>3, <1>4, <1>6
    <3>2. u[i] = d[i].snap /\ d[i] = c[i + 1]
      BY <1>1, <1>3, <1>6
    <3> QED
      BY <3>1, <3>2
  <2>2. m \in 0..Len(s) /\ Len(u) = Len(s) - m /\ m + 1 = n + 2
    BY <1>1, <1>3, <1>4, <1>6
  <2> HIDE DEF m
  <2>3. u = SubSeq(s, m + 1, Len(s))
    BY <1>4, <1>6, <2>1, <2>2, DropIsSubSeq
  <2> QED
    BY <2>2, <2>3
<1> QED
  BY <1>1, <1>2, <1>7, <1>8, <1>9 DEF d, x, n, s, t, u

LEMMA OfWritten ==
    ASSUME NEW h \in Snapshot, NEW c \in Seq(Command)
    PROVE  /\ 1 \in 1..Len(Of(h, c)) /\ Of(h, c)[1] = h
           /\ Of(NoSnapshot, c) = SubSeq(Of(h, c), 2, Len(Of(h, c)))
<1> DEFINE s == Of(h, c)
           u == Of(NoSnapshot, c)
<1>2. /\ s \in Seq(Snapshot) /\ Len(c) \in Nat /\ Len(s) = 1 + Len(c)
      /\ \A i \in 1..(1 + Len(c)) : s[i] = IF i <= 1 THEN h ELSE c[i - 1].snap
  BY OfHeld
<1>3. /\ u \in Seq(Snapshot) /\ Len(u) = Len(c)
      /\ \A i \in 1..Len(c) : u[i] = c[i].snap
  BY OfNone
<1> HIDE DEF s, u
<1>4. \A i \in 1..Len(u) : u[i] = s[i + 1]
  BY <1>2, <1>3
<1>5. u = SubSeq(s, 2, Len(s))
  <2> DEFINE m == 1
  <2>1. /\ m \in 0..Len(s) /\ Len(u) = Len(s) - m /\ m + 1 = 2
        /\ \A i \in 1..Len(u) : u[i] = s[i + m]
    BY <1>2, <1>3, <1>4
  <2> HIDE DEF m
  <2>2. u = SubSeq(s, m + 1, Len(s))
    BY <1>2, <1>3, <2>1, DropIsSubSeq
  <2> QED
    BY <2>1, <2>2
<1> QED
  BY <1>2, <1>5 DEF s, u

\* A caller that stops waiting leaves its snapshot where it is.
LEMMA OfUnwaited ==
    ASSUME NEW h \in Snapshot \cup {NoSnapshot}, NEW c \in Seq(Command)
    PROVE  LET d == [i \in 1..Len(c) |-> [c[i] EXCEPT !.waited = FALSE]] IN
           d \in Seq(Command) /\ Of(h, d) = Of(h, c)
<1> DEFINE d == [i \in 1..Len(c) |-> [c[i] EXCEPT !.waited = FALSE]]
<1>1. Len(c) \in Nat /\ \A i \in 1..Len(c) : c[i] \in Command
  BY LenProperties, ElementOfSeq
<1>2. \A i \in 1..Len(c) : d[i] \in Command /\ d[i].snap = c[i].snap
  BY <1>1 DEF Command
<1>3. d \in [1..Len(c) -> Command]
  BY <1>2
<1>4. d \in Seq(Command) /\ Len(d) = Len(c)
  BY <1>1, <1>3, FunctionIsSeq
<1>5. Snaps(d) = Snaps(c)
  <2> HIDE DEF d
  <2> QED
    BY <1>2, <1>4 DEF Snaps
<1> QED
  BY <1>4, <1>5 DEF Of

----------------------------------------------------------------------------
\* The commands, the held snapshot, the file and the answer stay typed: a
\* command stays a command when its caller stops waiting.
THEOREM PersistTypeCorrect == PersistSpec => []PersistTypeOK
<1>1. PersistInit => PersistTypeOK
  BY EmptySeq DEF PersistInit, PersistTypeOK
<1>2. PersistTypeOK /\ [PersistNext]_pvars => PersistTypeOK'
  <2> SUFFICES ASSUME PersistTypeOK, [PersistNext]_pvars PROVE PersistTypeOK'
    OBVIOUS
  <2>1. chan \in Seq(Command) /\ held \in Snapshot \cup {NoSnapshot} /\ disk \in Snapshot
    BY DEF PersistTypeOK
  <2>2. ASSUME NEW op \in {"Save", "SaveAndFlush"}, NEW s \in Snapshot, Enqueue(op, s)
        PROVE  chan' \in Seq(Command)
    BY <2>1, <2>2, AppendProperties DEF Enqueue, Command
  <2>3. ASSUME NEW s \in Snapshot, Save(s) \/ SaveAndFlush(s)
        PROVE  PersistTypeOK'
    BY <2>2, <2>3 DEF Save, SaveAndFlush, PersistTypeOK
  <2>4. CASE StopWaiting
    BY <2>1, <2>4, OfUnwaited DEF StopWaiting, PersistTypeOK
  <2>5. CASE RecvSave
    BY <2>1, <2>5, OfTail DEF RecvSave, PersistTypeOK
  <2>6. ASSUME NEW landed \in BOOLEAN, NEW ok \in BOOLEAN, RecvSaveAndFlush(landed, ok)
        PROVE  PersistTypeOK'
    BY <2>1, <2>6, OfTail DEF RecvSaveAndFlush, PersistTypeOK
  <2>7. ASSUME NEW landed \in BOOLEAN, WriteHeld(landed)
        PROVE  PersistTypeOK'
    BY <2>7 DEF WriteHeld, PersistTypeOK
  <2>8. CASE WriterCrash
    BY <2>8, EmptySeq DEF WriterCrash, PersistTypeOK
  <2>9. CASE UNCHANGED pvars
    BY <2>9 DEF pvars, PersistTypeOK
  <2> QED
    BY <2>3, <2>4, <2>5, <2>6, <2>7, <2>8, <2>9 DEF PersistNext, Writer
<1> QED
  BY <1>1, <1>2, PTL DEF PersistSpec

\* A step of the writer or of a caller is a step of the register, or changes
\* neither the file, nor what may still reach it, nor the answer.
LEMMA StepImplementsRegister ==
    ASSUME PersistTypeOK, [PersistNext]_pvars
    PROVE  [Register!Next]_<<disk, Issued, reply>>
<1> DEFINE s == Of(held, chan)
           t == Of(held', chan')
           n == Len(First(held))
<1>1. /\ chan \in Seq(Command) /\ held \in Snapshot \cup {NoSnapshot} /\ disk \in Snapshot
      /\ reply \in {"none", "ok", "err"}
  BY DEF PersistTypeOK
<1>2. Issued = s /\ Issued' = t
  BY IssuedSplit
<1>3. ASSUME NEW x \in Snapshot, Save(x) \/ SaveAndFlush(x)
      PROVE  Register!Next
  <2>1. PICK e \in Command : chan' = Append(chan, e)
    BY <1>3 DEF Save, SaveAndFlush, Enqueue, Command
  <2>2. Len(t) = Len(s) + 1 /\ SubSeq(t, 1, Len(s)) = s
    BY <1>1, <1>3, <2>1, OfAppend DEF Save, SaveAndFlush
  <2>3. Register!Issue
    BY <1>2, <1>3, <2>2 DEF Save, SaveAndFlush, Register!Issue
  <2> QED
    BY <2>3 DEF Register!Next
<1>4. CASE StopWaiting
  <2>1. t = s
    BY <1>1, <1>4, OfUnwaited DEF StopWaiting
  <2>2. Register!Lose
    BY <1>2, <1>4, <2>1 DEF StopWaiting, Register!Lose
  <2> QED
    BY <2>2 DEF Register!Next
<1>5. CASE RecvSave
  <2>1. t = SubSeq(s, n + 1, Len(s)) /\ n \in {0, 1} /\ n + 1 \in 1..Len(s)
    BY <1>1, <1>5, OfTail, OfType DEF RecvSave
  <2>2. s \in Seq(Snapshot) /\ Len(s) \in Nat
    BY <1>1, OfType, LenProperties
  <2>3. CASE n = 0
    <3>1. t = SubSeq(s, 1, Len(s))
      BY <2>1, <2>3
    <3>2. t = s
      BY <2>2, <3>1, SubSeqFull
    <3> QED
      BY <1>2, <1>5, <3>2 DEF RecvSave
  <2>4. CASE n = 1
    <3>1. Register!Consider(1)
      BY <1>2, <1>5, <2>1, <2>4 DEF RecvSave, Register!Consider
    <3>2. 1 \in 1..Len(Issued)
      BY <1>2, <2>1, <2>2
    <3> QED
      BY <3>1, <3>2 DEF Register!Next
  <2> QED
    BY <2>1, <2>3, <2>4
<1>6. ASSUME NEW landed \in BOOLEAN, NEW ok \in BOOLEAN, RecvSaveAndFlush(landed, ok)
      PROVE  Register!Next
  <2>1. /\ t = SubSeq(s, n + 2, Len(s)) /\ n \in {0, 1} /\ n + 1 \in 1..Len(s)
        /\ s[n + 1] = Head(chan).snap
    BY <1>1, <1>6, OfTail, OfType DEF RecvSaveAndFlush
  <2> DEFINE k == n + 1
  <2>2. t = SubSeq(s, k + 1, Len(s)) /\ k \in 1..Len(s) /\ s[k] = Head(chan).snap
    BY <2>1
  <2> HIDE DEF s, t, k
  <2>3. Issued' = SubSeq(Issued, k + 1, Len(Issued))
    BY <1>2, <2>2
  <2>4. disk' \in {disk, Issued[k]} /\ (ok => disk' = Issued[k])
    BY <1>2, <1>6, <2>2 DEF RecvSaveAndFlush
  <2>5. reply' \in {reply, "err"} \cup (IF disk' = Issued[k] THEN {"ok"} ELSE {})
    BY <1>6, <2>4 DEF RecvSaveAndFlush
  <2>6. Register!Consider(k)
    BY <2>3, <2>4, <2>5 DEF Register!Consider
  <2> QED
    BY <1>2, <2>2, <2>6 DEF Register!Next
<1>7. ASSUME NEW landed \in BOOLEAN, WriteHeld(landed)
      PROVE  Register!Next
  <2>1. held \in Snapshot
    BY <1>1, <1>7 DEF WriteHeld
  <2>2. t = SubSeq(s, 2, Len(s)) /\ 1 \in 1..Len(s) /\ s[1] = held
    BY <1>1, <1>7, <2>1, OfWritten DEF WriteHeld
  <2>3. Register!Consider(1)
    BY <1>2, <1>7, <2>2 DEF WriteHeld, Register!Consider
  <2> QED
    BY <1>2, <2>2, <2>3 DEF Register!Next
<1>8. CASE WriterCrash
  <2>1. held' = NoSnapshot /\ chan' = <<>>
    BY <1>8 DEF WriterCrash
  <2>2. t = <<>>
    <3>1. Of(NoSnapshot, <<>>) \in Seq(Snapshot) /\ Len(Of(NoSnapshot, <<>>)) = 0
      BY OfNone, EmptySeq
    <3> QED
      BY <2>1, <3>1, EmptySeq
  <2>3. Register!Lose
    BY <1>2, <1>8, <2>2 DEF WriterCrash, Register!Lose
  <2> QED
    BY <2>3 DEF Register!Next
<1>9. CASE UNCHANGED pvars
  BY <1>2, <1>9 DEF pvars
<1> QED
  BY <1>3, <1>4, <1>5, <1>6, <1>7, <1>8, <1>9 DEF PersistNext, Writer

\* The debounced writer implements the register: no interleaving of saves,
\* flushes, failed writes, abandoned waits and crashes stores an older
\* snapshot over a newer one or acknowledges one that is not stored.
THEOREM PersistImplementsRegister == PersistSpec => ImplementsRegister
<1>1. PersistInit => Register!Init
  <2> SUFFICES ASSUME PersistInit PROVE Register!Init
    OBVIOUS
  <2>1. Of(NoSnapshot, <<>>) \in Seq(Snapshot) /\ Len(Of(NoSnapshot, <<>>)) = 0
    BY OfNone, EmptySeq
  <2>2. Issued = <<>>
    BY <2>1, IssuedSplit, EmptySeq DEF PersistInit
  <2> QED
    BY <2>2 DEF PersistInit, Register!Init
<1>2. PersistTypeOK /\ [PersistNext]_pvars => [Register!Next]_<<disk, Issued, reply>>
  BY StepImplementsRegister
<1> QED
  BY <1>1, <1>2, PersistTypeCorrect, PTL DEF PersistSpec, ImplementsRegister, Register!Spec
============================================================================
