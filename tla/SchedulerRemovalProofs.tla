----------------------- MODULE SchedulerRemovalProofs -----------------------
(***************************************************************************)
(* The removal of a task: a durability barrier through the state file and  *)
(* then through the session log, and what the tasks pane shows meanwhile.  *)
(***************************************************************************)
EXTENDS SchedulerProofs

----------------------------------------------------------------------------
(* The state file.                                                         *)

\* The actor awaits the writer, or the bridge; the task it removes.
FlushPcs == {"delFlush", "expFlush", "rmFlush"}
AckPcs == {"delAck", "expAck"}
Removed == IF pc \in {"delFlush", "delAck"} THEN pending.id ELSE job.t.id

NoneWaited(s) == \A k \in 1..Len(s) : ~s[k].waited
OneWaited(s) == \A j, k \in 1..Len(s) : s[j].waited /\ s[k].waited => j = k

\* From the awaited flush on, no snapshot has x.
FileBarrier(ch, x) ==
    \A k \in 1..Len(ch) : ch[k].waited => \A j \in k..Len(ch) : x \notin Ids(ch[j].snap)

FlushInv ==
    /\ OneWaited(chan)
    /\ reply # "none" \/ pc \notin FlushPcs => NoneWaited(chan)
    /\ pc \in FlushPcs => FileBarrier(chan, Removed)
    /\ pc \in FlushPcs /\ reply = "ok" => \A l \in Lists : Removed \notin Ids(l)

\* What a step does to the barrier.
FlushGoesOn ==
    /\ UNCHANGED pvars
    /\ pc' \in FlushPcs => pc \in FlushPcs /\ Removed' = Removed
    /\ pc \in FlushPcs /\ pc' \notin FlushPcs => reply # "none"
FlushBegins == SaveAndFlush(tasks') /\ pc \notin FlushPcs /\ pc' \in FlushPcs
FlushBeside == (Save(tasks') \/ Writer) /\ UNCHANGED avars
FlushEnds == (StopWaiting \/ WriterCrash) /\ pc' \notin FlushPcs

LEMMA FlushFrame ==
    ASSUME TypeInv, Next
    PROVE  FlushGoesOn \/ FlushBegins \/ FlushBeside \/ FlushEnds
<1> DEFINE Goal == FlushGoesOn \/ FlushBegins \/ FlushBeside \/ FlushEnds
<1> USE DEF Aside, Idle, avars, Done, Removed, FlushPcs
<1>a. ASSUME UNCHANGED <<pc, job, pending, pvars>> PROVE FlushGoesOn
  BY <1>a DEF FlushGoesOn
<1>b. ASSUME UNCHANGED pvars, pc \notin FlushPcs, pc' \notin FlushPcs PROVE FlushGoesOn
  BY <1>b DEF FlushGoesOn
<1>1. ASSUME NEW id \in Tasks, NEW p \in Prompts, NEW b \in BOOLEAN, Create(id, p, b) \/ Update(id, p, b)
      PROVE  Goal
  BY <1>1, <1>a DEF Create, Update
<1>2. ASSUME NEW id \in Tasks, Delete(id) PROVE Goal
  BY <1>2 DEF Delete, BeginBarrier, FlushBegins
<1>3. ASSUME NEW id \in Tasks, FallsDue(id) \/ Expires(id) PROVE Goal
  BY <1>3, <1>a DEF FallsDue, Expires
<1>4. ASSUME RetryDelete PROVE Goal
  BY <1>4 DEF RetryDelete, BeginBarrier, FlushBegins
<1>5. ASSUME AbandonRemoval \/ Announce \/ Stop \/ Skip PROVE Goal
  BY <1>5, <1>b DEF AbandonRemoval, Announce, Stop, Skip
<1>6. ASSUME NEW i \in 1..Len(tasks), ExpireBlocked(i) PROVE Goal
  BY <1>6, <1>a DEF ExpireBlocked
<1>7. ASSUME NEW i \in 1..Len(tasks), ExpireTask(i) PROVE Goal
  BY <1>7 DEF ExpireTask, Selected, FlushBegins
<1>8. ASSUME NEW i \in 1..Len(tasks), FireTask(i) PROVE Goal
  BY <1>8, <1>b DEF FireTask, Selected
<1>9. ASSUME DeletePersisted PROVE Goal
  BY <1>9 DEF DeletePersisted, FlushGoesOn
<1>10. ASSUME DeleteAcknowledged \/ ExpiryAcknowledged PROVE Goal
  BY <1>10, <1>b DEF DeleteAcknowledged, ExpiryAcknowledged
<1>11. ASSUME DeleteTimesOut \/ ExpiryTimesOut PROVE Goal
  <2>1. pc' \notin FlushPcs
    BY <1>11 DEF DeleteTimesOut, ExpiryTimesOut
  <2>2. CASE pc \in FlushPcs
    BY <1>11, <2>1, <2>2 DEF DeleteTimesOut, ExpiryTimesOut, GiveUp, FlushEnds
  <2>3. CASE pc \notin FlushPcs
    BY <1>11, <2>1, <2>3, <1>b DEF DeleteTimesOut, ExpiryTimesOut, GiveUp
  <2> QED
    BY <2>2, <2>3
<1>12. ASSUME ExpiryPersisted PROVE Goal
  BY <1>12 DEF ExpiryPersisted, FlushGoesOn
<1>13. ASSUME RemovalFlushed PROVE Goal
  BY <1>13 DEF RemovalFlushed, FlushGoesOn, FlushEnds
<1>14. ASSUME AskSkips \/ QueryEnded \/ UnitInactive PROVE Goal
  BY <1>14, <1>b DEF AskSkips, QueryEnded, UnitInactive
<1>15. ASSUME NEW c \in Children, Launch(c) PROVE Goal
  BY <1>15, <1>b DEF Launch
<1>16. ASSUME SpawnRefused \/ SpawnCancelled PROVE Goal
  BY <1>16, <1>b DEF SpawnRefused, SpawnCancelled
<1>17. ASSUME Spawned PROVE Goal
  <2>1. CASE Recurring(job.t.id)
    BY <1>17, <2>1, <1>b DEF Spawned
  <2>2. CASE ~Recurring(job.t.id)
    BY <1>17, <2>2 DEF Spawned, FlushBegins
  <2> QED
    BY <2>1, <2>2
<1>18. ASSUME NEW c \in Children, GuardClears(c) \/ Admit(c) \/ Refuse(c)
                                     \/ ChildEnds(c, "completed") \/ ChildEnds(c, "failed")
       PROVE  Goal
  BY <1>18, <1>a DEF GuardClears, Admit, Refuse, ChildEnds
<1>19. ASSUME CoordinatorGone \/ Wire \/ Cancel \/ BridgeStep PROVE Goal
  BY <1>19, <1>a DEF CoordinatorGone, Wire, Cancel, BridgeStep
<1>20. ASSUME ToolSave \/ WriterStep PROVE Goal
  BY <1>20 DEF ToolSave, WriterStep, FlushBeside
<1>21. ASSUME Crash PROVE Goal
  BY <1>21 DEF Crash, FlushEnds
<1>22. ASSUME Start PROVE Goal
  BY <1>22, <1>b DEF Start
<1> QED
  BY <1>1, <1>2, <1>3, <1>4, <1>5, <1>6, <1>7, <1>8, <1>9, <1>10, <1>11, <1>12, <1>13, <1>14,
     <1>15, <1>16, <1>17, <1>18, <1>19, <1>20, <1>21, <1>22
     DEF Next, Commands, Timer, Carries, Coordinator, Environment

\* The task that is being removed is off the list.
RemovedIsOff == pc \in FlushPcs \cup AckPcs => Removed \notin Ids(tasks) /\ Removed \in Tasks

LEMMA RemovedOff == TypeInv => RemovedIsOff
<1> SUFFICES ASSUME TypeInv, pc \in FlushPcs \cup AckPcs
             PROVE  Removed \notin Ids(tasks) /\ Removed \in Tasks
  BY DEF RemovedIsOff
<1>1. ActorOK
  BY DEF TypeInv
<1>2. CASE pc \in {"delFlush", "delAck"}
  BY <1>1, <1>2 DEF ActorOK, PendingOK, Removed
<1>3. CASE pc \in {"expFlush", "rmFlush", "expAck"}
  <2>1. JobOK /\ pc \in GonePcs
    BY <1>1, <1>3 DEF ActorOK, JobPcs, GonePcs
  <2>2. job.t.id \in Tasks
    BY <2>1 DEF JobOK, Job, Task
  <2> QED
    BY <1>3, <2>1, <2>2 DEF JobOK, Removed
<1> QED
  BY <1>2, <1>3 DEF FlushPcs, AckPcs

\* A command appended to the channel.
LEMMA ChanAppend ==
    ASSUME FileOK, NEW e, chan' = Append(chan, e), e \in Cmd
    PROVE  /\ Len(chan) \in Nat /\ Len(chan') = Len(chan) + 1
           /\ \A i \in 1..Len(chan) : chan'[i] = chan[i]
           /\ chan'[Len(chan) + 1] = e
           /\ \A i \in 1..Len(chan') : i \in 1..Len(chan) \/ i = Len(chan) + 1
<1>1. chan \in Seq(Cmd) /\ Len(chan) \in Nat
  BY LenProperties DEF FileOK
<1>2. /\ Len(chan') = Len(chan) + 1
      /\ \A i \in 1..Len(chan) : chan'[i] = chan[i]
      /\ chan'[Len(chan) + 1] = e
  BY <1>1, AppendProperties
<1> QED
  BY <1>1, <1>2

LEMMA ChanTail ==
    ASSUME FileOK, chan # <<>>, chan' = Tail(chan)
    PROVE  /\ Len(chan) \in Nat /\ Len(chan) >= 1 /\ Len(chan') = Len(chan) - 1
           /\ Head(chan) = chan[1]
           /\ \A i \in 1..Len(chan') : chan'[i] = chan[i + 1] /\ i + 1 \in 1..Len(chan)
<1>1. chan \in Seq(Cmd) /\ Len(chan) \in Nat
  BY LenProperties DEF FileOK
<1>2. Len(chan) >= 1 /\ Head(chan) = chan[1]
  BY <1>1, EmptySeq
<1>3. Len(chan') = Len(chan) - 1 /\ \A i \in 1..Len(chan') : chan'[i] = chan[i + 1]
  BY <1>1, HeadTailProperties
<1> QED
  BY <1>1, <1>2, <1>3

\* The channel loses its head: what is behind it stays behind the barrier.
LEMMA BarrierTail ==
    ASSUME FileOK, chan # <<>>, chan' = Tail(chan)
    PROVE  /\ OneWaited(chan) => OneWaited(chan') /\ (chan[1].waited => NoneWaited(chan'))
           /\ NoneWaited(chan) => NoneWaited(chan')
           /\ \A x : FileBarrier(chan, x) => FileBarrier(chan', x)
<1>1. /\ Len(chan) \in Nat /\ Len(chan) >= 1 /\ Len(chan') = Len(chan) - 1
      /\ \A i \in 1..Len(chan') : chan'[i] = chan[i + 1] /\ i + 1 \in 1..Len(chan)
  BY ChanTail
<1>2. NoneWaited(chan) => NoneWaited(chan')
  BY <1>1 DEF NoneWaited
<1>3. ASSUME OneWaited(chan) PROVE OneWaited(chan') /\ (chan[1].waited => NoneWaited(chan'))
  <2>1. ASSUME NEW j \in 1..Len(chan'), NEW k \in 1..Len(chan'), chan'[j].waited, chan'[k].waited
        PROVE  j = k
    <3>1. chan[j + 1].waited /\ chan[k + 1].waited /\ j + 1 \in 1..Len(chan) /\ k + 1 \in 1..Len(chan)
      BY <1>1, <2>1
    <3>2. j + 1 = k + 1
      BY <3>1, <1>3 DEF OneWaited
    <3> QED
      BY <3>2, <1>1
  <2>2. ASSUME chan[1].waited, NEW k \in 1..Len(chan') PROVE ~chan'[k].waited
    <3>1. k + 1 \in 1..Len(chan) /\ 1 \in 1..Len(chan) /\ k + 1 # 1 /\ chan'[k] = chan[k + 1]
      BY <1>1
    <3> QED
      BY <3>1, <2>2, <1>3 DEF OneWaited
  <2> QED
    BY <2>1, <2>2 DEF OneWaited, NoneWaited
<1>4. ASSUME NEW x, FileBarrier(chan, x) PROVE FileBarrier(chan', x)
  <2> SUFFICES ASSUME NEW k \in 1..Len(chan'), chan'[k].waited, NEW j \in k..Len(chan')
               PROVE  x \notin Ids(chan'[j].snap)
    BY DEF FileBarrier
  <2>1. k + 1 \in 1..Len(chan) /\ chan[k + 1].waited
    BY <1>1
  <2>2. j \in 1..Len(chan') /\ j + 1 \in (k + 1)..Len(chan)
    BY <1>1
  <2>3. x \notin Ids(chan[j + 1].snap)
    BY <2>1, <2>2, <1>4 DEF FileBarrier
  <2> QED
    BY <2>2, <2>3, <1>1
<1> QED
  BY <1>2, <1>3, <1>4

LEMMA FlushInvInit == Init => FlushInv
<1> SUFFICES ASSUME Init PROVE FlushInv
  OBVIOUS
<1>1. Len(chan) = 0 /\ pc \notin FlushPcs
  BY EmptySeq DEF Init, FlushPcs
<1> QED
  BY <1>1 DEF FlushInv, OneWaited, NoneWaited

\* The writer takes the flush that is awaited: from then on no list has the
\* task.
LEMMA FlushTaken ==
    ASSUME TypeInv, FlushInv, pc \in FlushPcs, NEW landed \in BOOLEAN, NEW ok \in BOOLEAN,
           RecvSaveAndFlush(landed, ok), Head(chan).waited, ok, UNCHANGED avars
    PROVE  \A l \in Lists' : Removed \notin Ids(l)
<1>1. /\ Len(chan) \in Nat /\ Len(chan) >= 1 /\ Len(chan') = Len(chan) - 1
      /\ Head(chan) = chan[1]
      /\ \A i \in 1..Len(chan') : chan'[i] = chan[i + 1] /\ i + 1 \in 1..Len(chan)
  BY ChanTail DEF RecvSaveAndFlush, TypeInv, ListsOK
<1>2. 1 \in 1..Len(chan) /\ chan[1].waited
  BY <1>1
<1>3. \A j \in 1..Len(chan) : Removed \notin Ids(chan[j].snap)
  BY <1>2 DEF FlushInv, FileBarrier
<1>4. Removed \notin Ids(tasks)
  BY RemovedOff DEF RemovedIsOff
<1>5. tasks' = tasks /\ disk' = chan[1].snap /\ held' = NoSnapshot
  BY <1>1 DEF RecvSaveAndFlush, avars
<1>6. \A i \in 1..Len(chan') : Removed \notin Ids(chan'[i].snap)
  BY <1>1, <1>3
<1>7. Removed \notin Ids(disk')
  BY <1>5, <1>2, <1>3
<1> QED
  BY <1>4, <1>5, <1>6, <1>7 DEF Lists

LEMMA FlushInvStep == TypeInv /\ FlushInv /\ [Next]_vars => FlushInv'
<1> SUFFICES ASSUME TypeInv, FlushInv, [Next]_vars PROVE FlushInv'
  OBVIOUS
<1>1. CASE UNCHANGED vars
  BY <1>1 DEF vars, avars, pvars, FlushInv, Lists, Removed, FileBarrier, OneWaited, NoneWaited, Ids
<1>2. CASE Next
  <2>a. FileOK /\ TypeInv'
    BY TypeInvStep DEF TypeInv, ListsOK
  <2>b. \A l \in Lists' : l \in Lists \/ l = tasks'
    BY <1>2, ListsNext
  <2>c. pc' \in FlushPcs => Removed' \notin Ids(tasks')
    <3>1. RemovedIsOff'
      BY <2>a, RemovedOff, PTL
    <3> QED
      BY <3>1 DEF RemovedIsOff, Ids, FlushPcs, AckPcs
  \* The invariant of the next state, with its parts written out.
  <2> DEFINE ch == chan'
             rm == Removed'
             Parts == /\ OneWaited(ch)
                      /\ reply' # "none" \/ pc' \notin FlushPcs => NoneWaited(ch)
                      /\ pc' \in FlushPcs => FileBarrier(ch, rm)
                      /\ pc' \in FlushPcs /\ reply' = "ok" => \A l \in Lists' : rm \notin Ids(l)
  <2>d. Parts => FlushInv'
    BY DEF FlushInv, OneWaited, NoneWaited, FileBarrier, FlushPcs, Ids
  <2>1. CASE FlushGoesOn
    <3>1. ch = chan /\ reply' = reply
      BY <2>1 DEF FlushGoesOn, pvars
    <3>2. pc' \in FlushPcs => pc \in FlushPcs /\ rm = Removed
      BY <2>1 DEF FlushGoesOn
    <3>3. pc \in FlushPcs /\ pc' \notin FlushPcs => reply # "none"
      BY <2>1 DEF FlushGoesOn
    <3> HIDE DEF ch, rm
    <3>4. OneWaited(ch) /\ (pc' \in FlushPcs => FileBarrier(ch, rm))
      BY <3>1, <3>2 DEF FlushInv
    <3>5. reply' # "none" \/ pc' \notin FlushPcs => NoneWaited(ch)
      BY <3>1, <3>2, <3>3 DEF FlushInv
    <3>6. pc' \in FlushPcs /\ reply' = "ok" => \A l \in Lists' : rm \notin Ids(l)
      BY <3>1, <3>2, <2>b, <2>c DEF FlushInv, rm
    <3> QED
      BY <3>4, <3>5, <3>6, <2>d
  <2>2. CASE FlushBegins
    <3> DEFINE e == [op |-> "SaveAndFlush", snap |-> tasks', waited |-> TRUE]
    <3>1. chan' = Append(chan, e) /\ reply' = "none" /\ pc' \in FlushPcs /\ NoneWaited(chan)
      BY <2>2 DEF FlushBegins, SaveAndFlush, Enqueue, FlushInv
    <3>2. e \in Cmd /\ e.snap = tasks'
      <4>1. tasks' \in Seq(Task)
        BY <2>a, TasksOK DEF TypeInv, ListsOK, Lists, ListOK
      <4> QED
        BY <4>1 DEF Cmd
    <3> HIDE DEF e
    <3>3. /\ Len(chan) \in Nat /\ Len(ch) = Len(chan) + 1
          /\ \A i \in 1..Len(chan) : ch[i] = chan[i]
          /\ ch[Len(chan) + 1] = e
          /\ \A i \in 1..Len(ch) : i \in 1..Len(chan) \/ i = Len(chan) + 1
      BY <3>1, <3>2, <2>a, ChanAppend
    <3> HIDE DEF ch, rm
    <3>4. \A i \in 1..Len(ch) : ch[i].waited => i = Len(chan) + 1
      BY <3>1, <3>3 DEF NoneWaited
    <3>5. OneWaited(ch)
      BY <3>4 DEF OneWaited
    <3>6. FileBarrier(ch, rm)
      <4> SUFFICES ASSUME NEW k \in 1..Len(ch), ch[k].waited, NEW j \in k..Len(ch)
                   PROVE  rm \notin Ids(ch[j].snap)
        BY DEF FileBarrier
      <4>1. j = Len(chan) + 1
        BY <3>3, <3>4
      <4> QED
        BY <4>1, <3>1, <3>2, <3>3, <2>c DEF rm
    <3> QED
      BY <3>1, <3>5, <3>6, <2>d
  <2>3. CASE FlushBeside
    <3>0. /\ pc' = pc /\ rm = Removed /\ tasks' = tasks
          /\ (pc \in FlushPcs => Removed \notin Ids(tasks))
      BY <2>3, RemovedOff DEF RemovedIsOff, FlushBeside, avars, Removed
    <3>1. CASE Save(tasks')
      <4> DEFINE e == [op |-> "Save", snap |-> tasks', waited |-> FALSE]
      <4>1. chan' = Append(chan, e) /\ reply' = reply
        BY <3>1 DEF Save, Enqueue
      <4>2. e \in Cmd /\ e.snap = tasks' /\ ~e.waited
        <5>1. tasks' \in Seq(Task)
          BY <2>a, TasksOK DEF TypeInv, ListsOK, Lists, ListOK
        <5> QED
          BY <5>1 DEF Cmd
      <4> HIDE DEF e
      <4>3. /\ Len(chan) \in Nat /\ Len(ch) = Len(chan) + 1
            /\ \A i \in 1..Len(chan) : ch[i] = chan[i]
            /\ ch[Len(chan) + 1] = e
            /\ \A i \in 1..Len(ch) : i \in 1..Len(chan) \/ i = Len(chan) + 1
        BY <4>1, <4>2, <2>a, ChanAppend
      <4> HIDE DEF ch, rm
      <4>4. \A i \in 1..Len(ch) : ch[i].waited => i \in 1..Len(chan) /\ chan[i].waited
        BY <4>2, <4>3
      <4>5. OneWaited(ch) /\ (NoneWaited(chan) => NoneWaited(ch))
        BY <4>4 DEF FlushInv, OneWaited, NoneWaited
      <4>6. ASSUME pc \in FlushPcs PROVE FileBarrier(ch, rm)
        <5> SUFFICES ASSUME NEW k \in 1..Len(ch), ch[k].waited, NEW j \in k..Len(ch)
                     PROVE  rm \notin Ids(ch[j].snap)
          BY DEF FileBarrier
        <5>1. k \in 1..Len(chan) /\ chan[k].waited
          BY <4>4
        <5>2. CASE j \in k..Len(chan)
          <6>1. j \in 1..Len(chan) /\ rm \notin Ids(chan[j].snap)
            BY <5>1, <5>2, <4>3, <4>6, <3>0 DEF FlushInv, FileBarrier
          <6> QED
            BY <6>1, <4>3
        <5>3. CASE j = Len(chan) + 1
          BY <5>3, <4>2, <4>3, <4>6, <3>0
        <5> QED
          BY <5>1, <5>2, <5>3, <4>3
      <4>7. pc' \in FlushPcs /\ reply' = "ok" => \A l \in Lists' : rm \notin Ids(l)
        BY <3>0, <4>1, <2>b DEF FlushInv
      <4> QED
        BY <3>0, <4>1, <4>5, <4>6, <4>7, <2>d DEF FlushInv
    <3>2. CASE RecvSave
      <4>1. chan # <<>> /\ chan' = Tail(chan) /\ reply' = reply
        BY <3>2 DEF RecvSave
      <4>2. /\ OneWaited(ch) /\ (NoneWaited(chan) => NoneWaited(ch))
            /\ (FileBarrier(chan, Removed) => FileBarrier(ch, Removed))
        BY <4>1, <2>a, BarrierTail DEF FlushInv
      <4> HIDE DEF ch, rm
      <4>3. pc' \in FlushPcs /\ reply' = "ok" => \A l \in Lists' : rm \notin Ids(l)
        BY <3>0, <4>1, <2>b DEF FlushInv
      <4> QED
        BY <3>0, <4>1, <4>2, <4>3, <2>d DEF FlushInv
    <3>3. ASSUME NEW landed \in BOOLEAN, NEW ok \in BOOLEAN, RecvSaveAndFlush(landed, ok)
          PROVE  FlushInv'
      <4>1. /\ chan # <<>> /\ chan' = Tail(chan)
            /\ reply' = IF Head(chan).waited THEN (IF ok THEN "ok" ELSE "err") ELSE reply
        BY <3>3 DEF RecvSaveAndFlush
      <4>2. /\ OneWaited(ch) /\ (chan[1].waited => NoneWaited(ch))
            /\ (NoneWaited(chan) => NoneWaited(ch))
            /\ (FileBarrier(chan, Removed) => FileBarrier(ch, Removed))
        BY <4>1, <2>a, BarrierTail DEF FlushInv
      <4>3. Head(chan) = chan[1]
        BY <4>1, <2>a, ChanTail
      <4>4. CASE Head(chan).waited
        <5>1. pc' \in FlushPcs /\ reply' = "ok" => \A l \in Lists' : rm \notin Ids(l)
          <6>1. reply' = "ok" => ok
            BY <4>1, <4>4
          <6>2. UNCHANGED avars
            BY <2>3 DEF FlushBeside
          <6>3. ASSUME pc' \in FlushPcs, reply' = "ok" PROVE \A l \in Lists' : Removed \notin Ids(l)
            BY <6>1, <6>2, <6>3, <3>0, <3>3, <4>4, FlushTaken
          <6> QED
            BY <6>3, <3>0
        <5> HIDE DEF ch, rm
        <5> QED
          BY <3>0, <4>2, <4>3, <4>4, <5>1, <2>d DEF FlushInv
      <4>5. CASE ~Head(chan).waited
        <5>0. reply' = reply
          BY <4>1, <4>5
        <5> HIDE DEF ch, rm
        <5>1. pc' \in FlushPcs /\ reply' = "ok" => \A l \in Lists' : rm \notin Ids(l)
          BY <3>0, <5>0, <2>b DEF FlushInv
        <5> QED
          BY <3>0, <5>0, <4>2, <5>1, <2>d DEF FlushInv
      <4> QED
        BY <4>4, <4>5
    <3>4. ASSUME NEW landed \in BOOLEAN, WriteHeld(landed) PROVE FlushInv'
      <4>1. ch = chan /\ reply' = reply
        BY <3>4 DEF WriteHeld
      <4> HIDE DEF ch, rm
      <4>3. pc' \in FlushPcs /\ reply' = "ok" => \A l \in Lists' : rm \notin Ids(l)
        BY <3>0, <4>1, <2>b DEF FlushInv
      <4> QED
        BY <3>0, <4>1, <4>3, <2>d DEF FlushInv
    <3> QED
      BY <2>3, <3>1, <3>2, <3>3, <3>4 DEF FlushBeside, Writer
  <2>4. CASE FlushEnds
    <3>1. pc' \notin FlushPcs
      BY <2>4 DEF FlushEnds
    <3>2. NoneWaited(ch)
      <4>1. CASE StopWaiting
        <5>0. chan \in Seq(Cmd) /\ Len(chan) \in Nat
          BY <2>a, LenProperties DEF FileOK
        <5>1. chan' = [i \in 1..Len(chan) |-> [chan[i] EXCEPT !.waited = FALSE]]
          BY <4>1 DEF StopWaiting
        <5>2. \A i \in 1..Len(chan) : chan[i] \in Cmd
          BY <5>0, ElementOfSeq
        <5>3. \A i \in 1..Len(chan) : ~chan'[i].waited
          BY <5>1, <5>2 DEF Cmd
        <5>4. Len(chan') = Len(chan)
          BY <5>0, <5>1
        <5> QED
          BY <5>3, <5>4 DEF NoneWaited
      <4>2. CASE WriterCrash
        <5>1. Len(chan') = 0
          BY <4>2, EmptySeq DEF WriterCrash
        <5> QED
          BY <5>1 DEF NoneWaited
      <4> QED
        BY <2>4, <4>1, <4>2 DEF FlushEnds
    <3> HIDE DEF ch, rm
    <3>3. OneWaited(ch)
      BY <3>2 DEF OneWaited, NoneWaited
    <3> QED
      BY <3>1, <3>2, <3>3, <2>d
  <2> QED
    BY <1>2, <2>1, <2>2, <2>3, <2>4, FlushFrame
<1> QED
  BY <1>1, <1>2

LEMMA FlushInvAlways == Spec => []FlushInv
BY FlushInvInit, FlushInvStep, TypeInvAlways, PTL DEF Spec

----------------------------------------------------------------------------
(* Removed tasks and the lists.                                            *)

GoneMoves ==
    \/ gone' = gone
    \/ /\ pc \in FlushPcs /\ reply = "ok" /\ gone' = gone \cup {Removed}
       /\ tasks' = tasks /\ pc' \notin {"expFlush", "skip"}

LEMMA GoneFrame ==
    ASSUME TypeInv, Next
    PROVE  GoneMoves
<1> USE DEF Aside, hvars
<1>a. ASSUME UNCHANGED gone PROVE GoneMoves
  BY <1>a DEF GoneMoves
<1>1. ASSUME NEW id \in Tasks, NEW p \in Prompts, NEW b \in BOOLEAN, Create(id, p, b) \/ Update(id, p, b)
      PROVE  GoneMoves
  BY <1>1, <1>a DEF Create, Update
<1>2. ASSUME NEW id \in Tasks, Delete(id) \/ FallsDue(id) \/ Expires(id) PROVE GoneMoves
  BY <1>2, <1>a DEF Delete, FallsDue, Expires
<1>3. ASSUME NEW i \in 1..Len(tasks), ExpireBlocked(i) \/ ExpireTask(i) \/ FireTask(i) PROVE GoneMoves
  BY <1>3, <1>a DEF ExpireBlocked, ExpireTask, FireTask
<1>4. ASSUME RetryDelete \/ AbandonRemoval \/ Announce \/ Stop \/ Skip PROVE GoneMoves
  BY <1>4, <1>a DEF RetryDelete, AbandonRemoval, Announce, Stop, Skip
<1>5. ASSUME DeletePersisted PROVE GoneMoves
  BY <1>5 DEF DeletePersisted, GoneMoves, FlushPcs, Removed
<1>6. ASSUME ExpiryPersisted PROVE GoneMoves
  BY <1>6 DEF ExpiryPersisted, GoneMoves, FlushPcs, Removed
<1>7. ASSUME RemovalFlushed PROVE GoneMoves
  BY <1>7 DEF RemovalFlushed, GoneMoves, FlushPcs, Removed, Done
<1>8. ASSUME DeleteAcknowledged \/ DeleteTimesOut \/ ExpiryAcknowledged \/ ExpiryTimesOut PROVE GoneMoves
  BY <1>8, <1>a DEF DeleteAcknowledged, DeleteTimesOut, ExpiryAcknowledged, ExpiryTimesOut
<1>9. ASSUME AskSkips \/ QueryEnded \/ UnitInactive PROVE GoneMoves
  BY <1>9, <1>a DEF AskSkips, QueryEnded, UnitInactive
<1>10. ASSUME SpawnRefused \/ SpawnCancelled \/ Spawned PROVE GoneMoves
  BY <1>10, <1>a DEF SpawnRefused, SpawnCancelled, Spawned
<1>11. ASSUME NEW c \in Children, Launch(c) \/ GuardClears(c) \/ Admit(c) \/ Refuse(c)
                                     \/ ChildEnds(c, "completed") \/ ChildEnds(c, "failed")
       PROVE  GoneMoves
  BY <1>11, <1>a DEF Launch, GuardClears, Admit, Refuse, ChildEnds
<1>12. ASSUME CoordinatorGone \/ Wire \/ ToolSave \/ Cancel \/ Crash \/ Start PROVE GoneMoves
  BY <1>12, <1>a DEF CoordinatorGone, Wire, ToolSave, Cancel, Crash, Start
<1>13. ASSUME WriterStep \/ BridgeStep PROVE GoneMoves
  BY <1>13, <1>a DEF WriterStep, BridgeStep
<1> QED
  BY <1>1, <1>2, <1>3, <1>4, <1>5, <1>6, <1>7, <1>8, <1>9, <1>10, <1>11, <1>12, <1>13
     DEF Next, Commands, Timer, Carries, Coordinator, Environment

\* No list has a removed task, and neither has what the actor could put back
\* on the list or show again.
GoneInv ==
    /\ \A l \in Lists : Ids(l) \cap gone = {}
    /\ pc \in {"expFlush", "skip"} => job.t.id \notin gone

LEMMA GoneInvInit == Init => GoneInv
BY DEF Init, GoneInv

LEMMA GoneInvStep == TypeInv /\ FlushInv /\ GoneInv /\ [Next]_vars => GoneInv'
<1> SUFFICES ASSUME TypeInv, FlushInv, GoneInv, [Next]_vars PROVE GoneInv'
  OBVIOUS
<1>1. CASE UNCHANGED vars
  BY <1>1 DEF vars, avars, pvars, hvars, GoneInv, Lists, Ids
<1>2. CASE Next
  <2>0. GoneMoves
    BY <1>2, GoneFrame
  <2>1. ASSUME NEW l \in Lists, NEW id \in Ids(l) PROVE id \notin gone'
    <3>1. id \notin gone
      BY <2>1 DEF GoneInv
    <3>2. pc \in FlushPcs /\ reply = "ok" => Removed # id
      BY <2>1 DEF FlushInv
    <3> QED
      BY <2>0, <3>1, <3>2 DEF GoneMoves
  <2>2. tasks \in Lists /\ disk \in Lists
    BY DEF Lists
  <2>3. ASSUME NEW id \in Ids(tasks') PROVE id \notin gone'
    <3>1. CASE id \in Ids(tasks)
      BY <3>1, <2>1, <2>2
    <3>2. CASE \E p \in Prompts, b \in BOOLEAN : Create(id, p, b)
      <4>1. id \notin created /\ gone' = gone
        BY <3>2 DEF Create
      <4> QED
        BY <4>1 DEF TypeInv, HistoryOK
    <3>3. CASE ExpiryPersisted /\ id = job.t.id
      <4>1. CASE reply = "ok"
        <5>1. tasks' = tasks
          BY <4>1, <3>3 DEF ExpiryPersisted
        <5> QED
          BY <5>1, <3>1, <2>3
      <4>2. CASE reply # "ok"
        BY <4>2, <3>3 DEF ExpiryPersisted, GoneInv
      <4> QED
        BY <4>1, <4>2
    <3>4. CASE Start /\ id \in Ids(disk)
      BY <3>4, <2>1, <2>2
    <3> QED
      BY <1>2, <2>3, <3>1, <3>2, <3>3, <3>4, IdsFrame
  <2>4. ASSUME NEW l \in Lists', NEW id \in Ids(l) PROVE id \notin gone'
    BY <1>2, <2>1, <2>3, <2>4, ListsNext
  <2>5. ASSUME pc' \in {"expFlush", "skip"} PROVE job'.t.id \notin gone'
    <3>1. gone' = gone
      BY <2>0, <2>5 DEF GoneMoves
    <3>2. CASE Begins
      <4>1. PICK i \in 1..Len(tasks) : job'.t = tasks[i]
        BY <3>2 DEF Begins
      <4>2. tasks[i].id \in Ids(tasks)
        BY DEF Ids
      <4> QED
        BY <4>1, <4>2, <2>1, <2>2
    <3>3. CASE Continues
      <4>1. job'.t = job.t /\ pc \in FirePcs \cup {"skip", "expFlush"}
        BY <3>3, <2>5 DEF Continues
      <4>2. CASE pc \in FirePcs
        <5>1. job.t.id \in Ids(tasks)
          BY <4>2 DEF TypeInv, ActorOK, JobOK, JobPcs, FirePcs
        <5> QED
          BY <5>1, <4>1, <2>1, <2>2
      <4>3. CASE pc \in {"skip", "expFlush"}
        BY <4>1, <4>3, <3>1 DEF GoneInv
      <4> QED
        BY <4>1, <4>2, <4>3
    <3> QED
      BY <1>2, <2>5, <3>2, <3>3, JobFrame DEF JobPcs
  <2>6. (\A l \in Lists : Ids(l) \cap gone = {})'
    BY <2>4 DEF Ids
  <2> QED
    BY <2>5, <2>6 DEF GoneInv
<1> QED
  BY <1>1, <1>2

LEMMA GoneInvAlways == Spec => []GoneInv
BY GoneInvInit, GoneInvStep, FlushInvAlways, TypeInvAlways, PTL DEF Spec

----------------------------------------------------------------------------
(* The session log.                                                        *)

Removes == {"hide", "tomb"}
Shows == {"show", "fire"}

OnlyRemoves(ns, x) == \A k \in 1..Len(ns) : ns[k].id = x => ns[k].op \in Removes

\* From the awaited tombstone of x on, nothing shows x.
LogBarrier(ns, x) ==
    \A k \in 1..Len(ns) : ns[k].waited =>
        /\ ns[k].op \in Removes /\ ns[k].id = x
        /\ \A j \in k..Len(ns) : ns[j].id = x => ns[j].op \in Removes

AckInv ==
    /\ OneWaited(notes)
    /\ receipt # "none" \/ pc \notin AckPcs => NoneWaited(notes)
    /\ pc \in AckPcs => LogBarrier(notes, Removed)
    /\ pc \in AckPcs /\ receipt = "ok" => Removed \notin view /\ OnlyRemoves(notes, Removed)
    /\ told \cap view = {}
    /\ \A x \in told : OnlyRemoves(notes, x)

\* What a step does to the log and its barrier.
AckGoesOn ==
    /\ Quiet
    /\ pc' \in AckPcs => pc \in AckPcs /\ Removed' = Removed
    /\ pc \in AckPcs /\ pc' \notin AckPcs => receipt # "none"
    /\ \/ told' = told
       \/ told' = told \cup {Removed} /\ pc \in AckPcs /\ receipt = "ok" /\ pc' \notin AckPcs
Says(ns) ==
    /\ Tell(ns) /\ told' = told /\ pc \notin AckPcs /\ pc' \notin AckPcs \cup {"expFlush"}
    /\ \A i \in 1..Len(ns) :
          /\ ~ns[i].waited
          /\ ns[i].op \in Shows => ns[i].id \notin gone
          /\ ns[i].op \in Removes /\ pc' # "stopped" => ns[i].id \notin Ids(tasks')
AckBegins ==
    /\ Publish(Removed) /\ told' = told /\ Removed' = Removed
    /\ pc \in FlushPcs /\ pc' \in AckPcs /\ tasks' = tasks
AckBeside == (Deliver \/ BridgeCloses) /\ UNCHANGED <<avars, hvars>>
AckEnds == (StopAwaiting \/ BridgeCrash) /\ told' = told /\ pc' \notin AckPcs \cup {"expFlush"}
LogOpens == UNCHANGED <<notes, view, receipt, told>> /\ pc = "down" /\ pc' = "start"

LEMMA NFields ==
    ASSUME NEW op, NEW id
    PROVE  N(op, id).op = op /\ N(op, id).id = id /\ ~N(op, id).waited
BY DEF N

LEMMA SaysOne ==
    ASSUME NEW op \in {"show", "fire", "hide"}, NEW id \in Tasks,
           Tell(<<N(op, id)>>), told' = told, pc \notin AckPcs, pc' \notin AckPcs \cup {"expFlush"},
           op \in Shows => id \notin gone,
           op \in Removes /\ pc' # "stopped" => id \notin Ids(tasks')
    PROVE  \E ns \in Seq(Note) : Says(ns)
<1> DEFINE n == [op |-> op, id |-> id, waited |-> FALSE]
<1>1. <<n>> \in Seq(Note) /\ Len(<<n>>) = 1 /\ <<n>>[1] = n
  BY OneNote
<1>2. n.op = op /\ n.id = id /\ n.waited = FALSE /\ Tell(<<n>>)
  BY DEF N
<1> HIDE DEF n
<1>3. Says(<<n>>)
  BY <1>1, <1>2 DEF Says
<1> QED
  BY <1>1, <1>3

LEMMA AckFrame ==
    ASSUME TypeInv, GoneInv, Next
    PROVE  \/ AckGoesOn \/ AckBegins \/ AckBeside \/ AckEnds \/ LogOpens
           \/ \E ns \in Seq(Note) : Says(ns)
<1> DEFINE Goal == \/ AckGoesOn \/ AckBegins \/ AckBeside \/ AckEnds \/ LogOpens
                   \/ \E ns \in Seq(Note) : Says(ns)
<1>0. ListsOK /\ SetsOK /\ ActorOK /\ ListOK(tasks) /\ HistoryOK
  BY TasksOK DEF TypeInv
<1>j. pc \in JobPcs => job.t.id \in Tasks
  BY <1>0 DEF ActorOK, JobOK, Job, Task
<1>g. \A id \in Ids(tasks) : id \notin gone
  BY DEF GoneInv, Lists
<1> USE DEF Aside, Idle, avars, hvars, Done, AckPcs
<1>a. ASSUME Quiet, UNCHANGED <<pc, job, pending, told>> PROVE AckGoesOn
  BY <1>a DEF AckGoesOn, Removed
<1>b. ASSUME Quiet, UNCHANGED told, pc \notin AckPcs, pc' \notin AckPcs PROVE AckGoesOn
  BY <1>b DEF AckGoesOn
<1>1. ASSUME NEW id \in Tasks, NEW p \in Prompts, NEW b \in BOOLEAN, Create(id, p, b) \/ Update(id, p, b)
      PROVE  Goal
  <2>1. Tell(<<N("show", id)>>) /\ told' = told /\ pc = "idle" /\ pc' = pc
    BY <1>1 DEF Create, Update
  <2>2. id \notin gone
    BY <1>1, <1>0, <1>g DEF Create, Update, HistoryOK
  <2> QED
    BY <2>1, <2>2, SaysOne DEF Removes
<1>2. ASSUME NEW id \in Tasks, Delete(id) PROVE Goal
  BY <1>2, <1>b DEF Delete, BeginBarrier
<1>3. ASSUME NEW id \in Tasks, FallsDue(id) \/ Expires(id) PROVE Goal
  BY <1>3, <1>a DEF FallsDue, Expires
<1>4. ASSUME NEW i \in 1..Len(tasks), ExpireBlocked(i) \/ ExpireTask(i) \/ FireTask(i) PROVE Goal
  BY <1>4, <1>b DEF ExpireBlocked, ExpireTask, FireTask, Selected
<1>5. ASSUME RetryDelete \/ AbandonRemoval PROVE Goal
  BY <1>5, <1>b DEF RetryDelete, AbandonRemoval, BeginBarrier
<1>6. ASSUME Skip PROVE Goal
  <2>1. Tell(<<N("show", job.t.id)>>) /\ told' = told /\ pc = "skip" /\ pc' = "idle"
    BY <1>6 DEF Skip
  <2>2. job.t.id \notin gone /\ job.t.id \in Tasks
    BY <2>1, <1>j DEF GoneInv, JobPcs
  <2> QED
    BY <2>1, <2>2, SaysOne DEF Removes
<1>7. ASSUME RemovalFlushed PROVE Goal
  <2>1. Tell(<<N("hide", job.t.id)>>) /\ told' = told /\ pc = "rmFlush" /\ pc' = "idle" /\ tasks' = tasks
    BY <1>7 DEF RemovalFlushed
  <2>2. job.t.id \notin Ids(tasks) /\ job.t.id \in Tasks
    BY <2>1, <1>0, <1>j DEF ActorOK, JobOK, JobPcs, GonePcs
  <2> QED
    BY <2>1, <2>2, SaysOne DEF Shows
<1>8. ASSUME Spawned PROVE Goal
  <2>1. Tell(<<N("fire", job.t.id)>>) /\ told' = told /\ pc = "register" /\ pc' \in {"idle", "rmFlush"}
    BY <1>8 DEF Spawned
  <2>2. job.t.id \notin gone /\ job.t.id \in Tasks
    BY <2>1, <1>0, <1>g, <1>j DEF ActorOK, JobOK, JobPcs, FirePcs
  <2> QED
    BY <2>1, <2>2, SaysOne DEF Removes
<1>9. ASSUME Announce PROVE Goal
  <2> DEFINE K == {i \in 1..Len(tasks) : Recurring(tasks[i].id) \/ tasks[i].id \notin due}
             l == Retain(tasks, K)
             ns == NotesOf("show", l)
  <2>1. Tell(ns) /\ told' = told /\ pc = "start" /\ pc' = "idle"
    BY <1>9 DEF Announce
  <2>2. K \subseteq 1..Len(tasks)
    OBVIOUS
  <2> HIDE DEF K
  <2>3. ListOK(l) /\ Ids(l) \subseteq Ids(tasks)
    BY <2>2, <1>0, RetainOK
  <2> HIDE DEF l
  <2>4. /\ ns \in Seq(Note) /\ Len(ns) = Len(l)
        /\ \A i \in 1..Len(l) : ns[i] = N("show", l[i].id)
    BY <2>3, NotesOfProps
  <2> HIDE DEF ns
  <2>5. \A i \in 1..Len(ns) : /\ ns[i].op = "show" /\ ns[i].id = l[i].id /\ ~ns[i].waited
                              /\ l[i].id \in Ids(l)
    BY <2>4, NFields DEF Ids
  <2>6. Says(ns)
    BY <2>1, <2>3, <2>5, <1>g DEF Says, Removes
  <2> QED
    BY <2>4, <2>6
<1>10. ASSUME Stop PROVE Goal
  <2> DEFINE ns == NotesOf("hide", tasks)
  <2>1. Tell(ns) /\ told' = told /\ pc = "idle" /\ pc' = "stopped"
    BY <1>10 DEF Stop
  <2>4. /\ ns \in Seq(Note) /\ Len(ns) = Len(tasks)
        /\ \A i \in 1..Len(tasks) : ns[i] = N("hide", tasks[i].id)
    BY <1>0, NotesOfProps
  <2> HIDE DEF ns
  <2>5. \A i \in 1..Len(ns) : ns[i].op = "hide" /\ ~ns[i].waited
    BY <2>4, NFields
  <2>6. Says(ns)
    BY <2>1, <2>5 DEF Says, Shows
  <2> QED
    BY <2>4, <2>6
<1>11. ASSUME DeletePersisted PROVE Goal
  <2>1. CASE reply = "ok"
    BY <1>11, <2>1 DEF DeletePersisted, AckBegins, Removed, FlushPcs
  <2>2. CASE reply # "ok"
    BY <1>11, <2>2, <1>b DEF DeletePersisted
  <2> QED
    BY <2>1, <2>2
<1>12. ASSUME ExpiryPersisted PROVE Goal
  <2>1. CASE reply = "ok"
    BY <1>12, <2>1 DEF ExpiryPersisted, AckBegins, Removed, FlushPcs
  <2>2. CASE reply # "ok"
    BY <1>12, <2>2, <1>b DEF ExpiryPersisted
  <2> QED
    BY <2>1, <2>2
<1>13. ASSUME DeleteAcknowledged PROVE Goal
  BY <1>13 DEF DeleteAcknowledged, AckGoesOn, Removed
<1>14. ASSUME ExpiryAcknowledged PROVE Goal
  BY <1>14 DEF ExpiryAcknowledged, AckGoesOn, Removed
<1>15. ASSUME DeleteTimesOut \/ ExpiryTimesOut PROVE Goal
  <2>1. pc' = "idle" /\ told' = told
    BY <1>15 DEF DeleteTimesOut, ExpiryTimesOut
  <2>2. CASE pc \in {"delFlush", "expFlush"}
    BY <1>15, <2>1, <2>2, <1>b DEF DeleteTimesOut, ExpiryTimesOut, GiveUp
  <2>3. CASE pc \in AckPcs
    BY <1>15, <2>1, <2>3 DEF DeleteTimesOut, ExpiryTimesOut, GiveUp, AckEnds
  <2> QED
    BY <1>15, <2>2, <2>3 DEF DeleteTimesOut, ExpiryTimesOut
<1>16. ASSUME AskSkips \/ QueryEnded \/ UnitInactive \/ SpawnRefused \/ SpawnCancelled PROVE Goal
  BY <1>16, <1>b DEF AskSkips, QueryEnded, UnitInactive, SpawnRefused, SpawnCancelled
<1>17. ASSUME NEW c \in Children, Launch(c) PROVE Goal
  BY <1>17, <1>b DEF Launch
<1>18. ASSUME NEW c \in Children, GuardClears(c) \/ Admit(c) \/ Refuse(c)
                                     \/ ChildEnds(c, "completed") \/ ChildEnds(c, "failed")
       PROVE  Goal
  BY <1>18, <1>a DEF GuardClears, Admit, Refuse, ChildEnds
<1>19. ASSUME CoordinatorGone \/ Wire \/ ToolSave \/ Cancel \/ WriterStep PROVE Goal
  BY <1>19, <1>a DEF CoordinatorGone, Wire, ToolSave, Cancel, WriterStep
<1>20. ASSUME Crash PROVE Goal
  BY <1>20 DEF Crash, AckEnds
<1>21. ASSUME Start PROVE Goal
  BY <1>21 DEF Start, LogOpens
<1>22. ASSUME BridgeStep PROVE Goal
  BY <1>22 DEF BridgeStep, AckBeside
<1> QED
  BY <1>1, <1>2, <1>3, <1>4, <1>5, <1>6, <1>7, <1>8, <1>9, <1>10, <1>11, <1>12, <1>13, <1>14,
     <1>15, <1>16, <1>17, <1>18, <1>19, <1>20, <1>21, <1>22
     DEF Next, Commands, Timer, Carries, Coordinator, Environment

LEMMA NotesTail ==
    ASSUME BridgeTypeOK, notes # <<>>, notes' = Tail(notes)
    PROVE  /\ OneWaited(notes) => OneWaited(notes') /\ (notes[1].waited => NoneWaited(notes'))
           /\ NoneWaited(notes) => NoneWaited(notes')
           /\ \A x : LogBarrier(notes, x) =>
                 /\ LogBarrier(notes', x)
                 /\ notes[1].waited => /\ notes[1].op \in Removes /\ notes[1].id = x
                                       /\ OnlyRemoves(notes', x)
           /\ \A x : OnlyRemoves(notes, x) =>
                 OnlyRemoves(notes', x) /\ (notes[1].id = x => notes[1].op \in Removes)
<1>1. /\ Len(notes) \in Nat /\ Len(notes) >= 1 /\ Len(notes') = Len(notes) - 1
      /\ \A i \in 1..Len(notes') : notes'[i] = notes[i + 1]
  BY DeliverProps
<1>0. 1 \in 1..Len(notes) /\ \A i \in 1..Len(notes') : i + 1 \in 1..Len(notes)
  BY <1>1
<1>2. NoneWaited(notes) => NoneWaited(notes')
  BY <1>0, <1>1 DEF NoneWaited
<1>3. ASSUME OneWaited(notes) PROVE OneWaited(notes') /\ (notes[1].waited => NoneWaited(notes'))
  <2>1. ASSUME NEW j \in 1..Len(notes'), NEW k \in 1..Len(notes'), notes'[j].waited, notes'[k].waited
        PROVE  j = k
    <3>1. /\ notes[j + 1].waited /\ notes[k + 1].waited
          /\ j + 1 \in 1..Len(notes) /\ k + 1 \in 1..Len(notes)
      BY <1>0, <1>1, <2>1
    <3>2. j + 1 = k + 1
      BY <3>1, <1>3 DEF OneWaited
    <3> QED
      BY <3>2, <1>1
  <2>2. ASSUME notes[1].waited, NEW k \in 1..Len(notes') PROVE ~notes'[k].waited
    <3>1. k + 1 \in 1..Len(notes) /\ k + 1 # 1 /\ notes'[k] = notes[k + 1]
      BY <1>0, <1>1
    <3> QED
      BY <3>1, <1>0, <2>2, <1>3 DEF OneWaited
  <2> QED
    BY <2>1, <2>2 DEF OneWaited, NoneWaited
<1>4. ASSUME NEW x, LogBarrier(notes, x)
      PROVE  /\ LogBarrier(notes', x)
             /\ notes[1].waited => /\ notes[1].op \in Removes /\ notes[1].id = x
                                   /\ OnlyRemoves(notes', x)
  <2>1. ASSUME NEW k \in 1..Len(notes'), notes'[k].waited
        PROVE  /\ notes'[k].op \in Removes /\ notes'[k].id = x
               /\ \A j \in k..Len(notes') : notes'[j].id = x => notes'[j].op \in Removes
    <3>1. /\ k + 1 \in 1..Len(notes) /\ notes'[k] = notes[k + 1]
          /\ \A j \in k..Len(notes') : j + 1 \in (k + 1)..Len(notes) /\ notes'[j] = notes[j + 1]
      BY <1>0, <1>1
    <3>2. /\ notes[k + 1].op \in Removes /\ notes[k + 1].id = x
          /\ \A j \in (k + 1)..Len(notes) : notes[j].id = x => notes[j].op \in Removes
      BY <3>1, <2>1, <1>4 DEF LogBarrier
    <3> QED
      BY <3>1, <3>2
  <2>2. ASSUME notes[1].waited
        PROVE  /\ notes[1].op \in Removes /\ notes[1].id = x
               /\ OnlyRemoves(notes', x)
    <3>1. /\ notes[1].op \in Removes /\ notes[1].id = x
          /\ \A j \in 1..Len(notes) : notes[j].id = x => notes[j].op \in Removes
      BY <1>0, <2>2, <1>4 DEF LogBarrier
    <3> QED
      BY <3>1, <1>0, <1>1 DEF OnlyRemoves
  <2> QED
    BY <2>1, <2>2 DEF LogBarrier
<1>5. ASSUME NEW x, OnlyRemoves(notes, x)
      PROVE  OnlyRemoves(notes', x) /\ (notes[1].id = x => notes[1].op \in Removes)
  BY <1>0, <1>1, <1>5 DEF OnlyRemoves
<1> QED
  BY <1>2, <1>3, <1>4, <1>5

\* What the bridge makes of the notification it takes.
LEMMA DeliverView ==
    ASSUME BridgeTypeOK, Deliver
    PROVE  LET n == notes[1] IN
           /\ view' \subseteq view \cup {n.id} /\ view \ {n.id} \subseteq view'
           /\ n.op \in Removes => view' \subseteq view
           /\ n.op \in Removes /\ n.waited /\ receipt' = "ok" => n.id \notin view'
           /\ n.op \in Shows => view \subseteq view' /\ (Recurring(n.id) => n.id \in view')
           /\ IF n.waited THEN receipt' # "none" ELSE receipt' = receipt
<1> DEFINE n == notes[1]
<1>1. notes # <<>> /\ notes' = Tail(notes)
  BY DEF Deliver
<1>2. Head(notes) = n /\ n \in Note
  BY <1>1, DeliverProps
<1>3. n.op \in {"show", "fire", "hide", "tomb"}
  BY <1>2 DEF Note
<1>4. \/ view' = Shown(n) /\ Acknowledge(n, "ok")
      \/ n.op \in {"hide", "tomb"} /\ view' \in {view, Shown(n)} /\ Acknowledge(n, "err")
  BY <1>2 DEF Deliver
<1> HIDE DEF n
<1>5. /\ n.op = "show" => Shown(n) = view \cup {n.id}
      /\ n.op = "fire" => Shown(n) = IF n.id \in OneShots THEN view ELSE view \cup {n.id}
      /\ n.op \in {"hide", "tomb"} => Shown(n) = view \ {n.id}
  BY <1>3 DEF Shown
<1>6. CASE view' = Shown(n) /\ Acknowledge(n, "ok")
  <2>1. CASE n.op \in Shows
    BY <1>5, <1>6, <2>1 DEF Shows, Removes, Acknowledge, Recurring, n
  <2>2. CASE n.op \in Removes
    BY <1>5, <1>6, <2>2 DEF Shows, Removes, Acknowledge, n
  <2> QED
    BY <1>3, <2>1, <2>2 DEF Shows, Removes
<1>7. CASE n.op \in {"hide", "tomb"} /\ view' \in {view, Shown(n)} /\ Acknowledge(n, "err")
  BY <1>5, <1>7 DEF Shows, Removes, Acknowledge, n
<1> QED
  BY <1>4, <1>6, <1>7

\* What is added to the log's channel.
LEMMA SendsMore ==
    ASSUME BridgeTypeOK, NEW ns \in Seq(Note), Send(ns)
    PROVE  \A i \in 1..Len(notes') :
              \/ i \in 1..Len(notes) /\ notes'[i] = notes[i]
              \/ open /\ ~(i \in 1..Len(notes)) /\ \E j \in 1..Len(ns) : i = Len(notes) + j /\ notes'[i] = ns[j]
<1>0. Len(notes) \in Nat /\ Len(ns) \in Nat
  BY LenProperties DEF BridgeTypeOK
<1>1. CASE open
  <2>1. /\ \A i \in 1..Len(notes) : notes'[i] = notes[i]
        /\ \A i \in 1..Len(ns) : notes'[Len(notes) + i] = ns[i]
        /\ \A i \in 1..Len(notes') :
              i \in 1..Len(notes) \/ \E j \in 1..Len(ns) : i = Len(notes) + j
    BY <1>1, SendProps
  <2> SUFFICES ASSUME NEW i \in 1..Len(notes')
               PROVE  \/ i \in 1..Len(notes) /\ notes'[i] = notes[i]
                      \/ /\ open /\ ~(i \in 1..Len(notes))
                         /\ \E j \in 1..Len(ns) : i = Len(notes) + j /\ notes'[i] = ns[j]
    OBVIOUS
  <2>2. CASE i \in 1..Len(notes)
    BY <2>1, <2>2
  <2>3. CASE ~(i \in 1..Len(notes))
    <3>1. PICK j \in 1..Len(ns) : i = Len(notes) + j
      BY <2>1, <2>3
    <3>2. notes'[i] = ns[j]
      BY <3>1, <2>1
    <3> QED
      BY <3>1, <3>2, <2>3, <1>1
  <2> QED
    BY <2>2, <2>3
<1>2. CASE ~open
  BY <1>2, SendProps
<1> QED
  BY <1>1, <1>2

LEMMA AckInvInit == Init => AckInv
<1> SUFFICES ASSUME Init PROVE AckInv
  OBVIOUS
<1>1. Len(notes) = 0 /\ pc \notin AckPcs /\ told = {}
  BY EmptySeq DEF Init, AckPcs
<1> QED
  BY <1>1 DEF AckInv, OneWaited, NoneWaited

LEMMA AckInvStep == TypeInv /\ GoneInv /\ AckInv /\ [Next]_vars => AckInv'
<1> SUFFICES ASSUME TypeInv, GoneInv, AckInv, [Next]_vars PROVE AckInv'
  OBVIOUS
<1>0. BridgeTypeOK /\ told \subseteq gone /\ (pc \in AckPcs => Removed \in gone)
  BY DEF TypeInv, HistoryOK, AckPcs, Removed
<1>n. notes \in Seq(Note) /\ Len(notes) \in Nat
  BY <1>0, LenProperties DEF BridgeTypeOK
<1>1. CASE UNCHANGED vars
  BY <1>1 DEF vars, avars, bvars, hvars, AckInv, Removed, LogBarrier, OneWaited, NoneWaited, OnlyRemoves
<1>2. CASE Next
  <2> DEFINE ns == notes'
             rm == Removed'
             Parts == /\ OneWaited(ns)
                      /\ receipt' # "none" \/ pc' \notin AckPcs => NoneWaited(ns)
                      /\ pc' \in AckPcs => LogBarrier(ns, rm)
                      /\ pc' \in AckPcs /\ receipt' = "ok" => rm \notin view' /\ OnlyRemoves(ns, rm)
                      /\ told' \cap view' = {}
                      /\ \A x \in told' : OnlyRemoves(ns, x)
  <2>d. Parts => AckInv'
    BY DEF AckInv, OneWaited, NoneWaited, LogBarrier, OnlyRemoves, AckPcs, Removes
  <2>e. NoneWaited(ns) => OneWaited(ns) /\ LogBarrier(ns, rm)
    BY DEF NoneWaited, OneWaited, LogBarrier
  <2>1. CASE AckGoesOn
    <3>1. ns = notes /\ view' = view /\ receipt' = receipt
      BY <2>1 DEF AckGoesOn, Quiet, bvars
    <3>2. /\ pc' \in AckPcs => pc \in AckPcs /\ rm = Removed
          /\ pc \in AckPcs /\ pc' \notin AckPcs => receipt # "none"
          /\ \/ told' = told
             \/ told' = told \cup {Removed} /\ pc \in AckPcs /\ receipt = "ok"
      BY <2>1 DEF AckGoesOn
    <3> HIDE DEF ns, rm
    <3>3. told' \cap view' = {} /\ \A x \in told' : OnlyRemoves(ns, x)
      BY <3>1, <3>2 DEF AckInv
    <3>4. receipt' # "none" \/ pc' \notin AckPcs => NoneWaited(ns)
      BY <3>1, <3>2 DEF AckInv
    <3> QED
      BY <3>1, <3>2, <3>3, <3>4, <2>d DEF AckInv
  <2>2. ASSUME NEW m \in Seq(Note), Says(m) PROVE AckInv'
    <3>1. Send(m) /\ view' = view /\ told' = told /\ pc \notin AckPcs /\ pc' \notin AckPcs
      BY <2>2 DEF Says, Tell
    <3>2. \A i \in 1..Len(ns) : \/ i \in 1..Len(notes) /\ ns[i] = notes[i]
                                \/ \E j \in 1..Len(m) : ns[i] = m[j]
      BY <3>1, <1>0, SendsMore
    <3>3. \A j \in 1..Len(m) : ~m[j].waited /\ (m[j].op \in Shows => m[j].id \notin gone)
      BY <2>2 DEF Says
    <3>4. \A j \in 1..Len(m) : m[j].op \in Shows \cup Removes
      <4>1. \A j \in 1..Len(m) : m[j] \in Note
        BY ElementOfSeq
      <4> QED
        BY <4>1 DEF Note, Shows, Removes
    <3> HIDE DEF ns, rm
    <3>5. NoneWaited(ns)
      BY <3>1, <3>2, <3>3 DEF AckInv, NoneWaited
    <3>6. ASSUME NEW x \in told, NEW k \in 1..Len(ns), ns[k].id = x PROVE ns[k].op \in Removes
      <4>1. CASE k \in 1..Len(notes) /\ ns[k] = notes[k]
        BY <4>1, <3>6 DEF AckInv, OnlyRemoves
      <4>2. CASE \E j \in 1..Len(m) : ns[k] = m[j]
        BY <4>2, <3>3, <3>4, <3>6, <1>0
      <4> QED
        BY <3>2, <4>1, <4>2
    <3>7. \A x \in told : OnlyRemoves(ns, x)
      BY <3>6 DEF OnlyRemoves
    <3>8. told \cap view = {}
      BY DEF AckInv
    <3> QED
      BY <3>1, <3>5, <3>7, <3>8, <2>d, <2>e
  <2>3. CASE AckBegins
    <3> DEFINE n == [op |-> "tomb", id |-> Removed, waited |-> TRUE]
    <3>1. /\ Send(<<n>>) /\ view' = view /\ told' = told /\ rm = Removed /\ pc \notin AckPcs
          /\ receipt' = (IF open THEN "none" ELSE "err") /\ pc \in FlushPcs
      BY <2>3 DEF AckBegins, Publish, AckPcs, FlushPcs
    <3>2. Removed \in Tasks
      BY <3>1, RemovedOff DEF RemovedIsOff
    <3>3. <<n>> \in Seq(Note) /\ Len(<<n>>) = 1 /\ <<n>>[1] = n
      BY <3>2, OneNote
    <3>4. n.op = "tomb" /\ n.id = Removed /\ n.waited
      OBVIOUS
    <3> HIDE DEF n
    <3>5. \A i \in 1..Len(ns) : \/ i \in 1..Len(notes) /\ ns[i] = notes[i]
                                \/ open /\ i = Len(notes) + 1 /\ ns[i] = n
      <4>1. \A i \in 1..Len(notes') :
              \/ i \in 1..Len(notes) /\ notes'[i] = notes[i]
              \/ open /\ ~(i \in 1..Len(notes)) /\ \E j \in 1..Len(<<n>>) : i = Len(notes) + j /\ notes'[i] = <<n>>[j]
        BY <3>1, <3>3, <1>0, SendsMore
      <4>2. \A j \in 1..Len(<<n>>) : j = 1
        BY <3>3
      <4> QED
        BY <4>1, <4>2, <3>3
    <3>6. Len(ns) <= Len(notes) + 1 /\ Len(ns) \in Nat
      <4>1. notes' \in Seq(Note)
        BY <3>1, <3>3, <1>0, SendProps
      <4>2. Len(notes') \in Nat
        BY <4>1, LenProperties
      <4>3. ~open => notes' = notes
        BY <3>1, <3>3, <1>0, SendProps
      <4>4. open => Len(notes') = Len(notes) + Len(<<n>>)
        BY <3>1, <3>3, <1>0, SendProps
      <4> QED
        BY <4>2, <4>3, <4>4, <3>3, <1>n
    <3> HIDE DEF ns, rm
    <3>7. NoneWaited(notes)
      BY <3>1 DEF AckInv
    <3>8. \A i \in 1..Len(ns) : ns[i].waited => open /\ i = Len(notes) + 1 /\ ns[i] = n
      BY <3>5, <3>7 DEF NoneWaited
    <3>9. OneWaited(ns)
      BY <3>8 DEF OneWaited
    <3>10. receipt' # "none" => NoneWaited(ns)
      BY <3>1, <3>8 DEF NoneWaited
    <3>11. LogBarrier(ns, rm)
      <4> SUFFICES ASSUME NEW k \in 1..Len(ns), ns[k].waited
                   PROVE  /\ ns[k].op \in Removes /\ ns[k].id = rm
                          /\ \A j \in k..Len(ns) : ns[j].id = rm => ns[j].op \in Removes
        BY DEF LogBarrier
      <4>1. k = Len(notes) + 1 /\ ns[k] = n
        BY <3>8
      <4>2. \A j \in k..Len(ns) : j = k
        BY <4>1, <3>6, <1>n
      <4> QED
        BY <4>1, <4>2, <3>1, <3>4 DEF Removes
    <3>12. ASSUME NEW x \in told PROVE OnlyRemoves(ns, x)
      BY <3>4, <3>5 DEF OnlyRemoves, AckInv, Removes
    <3>13. receipt' # "ok" /\ told' \cap view' = {} /\ pc' \in AckPcs
      BY <3>1, <2>3 DEF AckInv, AckBegins
    <3> QED
      BY <3>1, <3>9, <3>10, <3>11, <3>12, <3>13, <2>d
  <2>4. CASE AckBeside /\ Deliver
    <3>1. pc' = pc /\ rm = Removed /\ told' = told
      BY <2>4 DEF AckBeside, avars, hvars, Removed
    <3>2. notes # <<>> /\ notes' = Tail(notes)
      BY <2>4 DEF Deliver
    <3>3. /\ OneWaited(ns) /\ (notes[1].waited => NoneWaited(ns))
          /\ NoneWaited(notes) => NoneWaited(ns) /\ ~notes[1].waited
          /\ LogBarrier(notes, Removed) =>
                 /\ LogBarrier(ns, Removed)
                 /\ notes[1].waited => /\ notes[1].op \in Removes /\ notes[1].id = Removed
                                       /\ OnlyRemoves(ns, Removed)
          /\ \A x : OnlyRemoves(notes, x) =>
                 OnlyRemoves(ns, x) /\ (notes[1].id = x => notes[1].op \in Removes)
      <4>1. NoneWaited(notes) => ~notes[1].waited
        <5>1. 1 \in 1..Len(notes)
          BY <3>2, <1>0, DeliverProps
        <5> QED
          BY <5>1 DEF NoneWaited
      <4> QED
        BY <3>2, <1>0, <4>1, NotesTail DEF AckInv
    <3> DEFINE n == notes[1]
    <3>4. /\ view' \subseteq view \cup {n.id}
          /\ n.op \in Removes => view' \subseteq view
          /\ n.op \in Removes /\ n.waited /\ receipt' = "ok" => n.id \notin view'
          /\ IF n.waited THEN receipt' # "none" ELSE receipt' = receipt
      BY <2>4, <1>0, DeliverView
    <3> HIDE DEF ns, rm
    <3>5. told' \cap view' = {}
      <4> SUFFICES ASSUME NEW x \in told, x \in view' PROVE FALSE
        BY <3>1
      <4>1. x \notin view /\ OnlyRemoves(notes, x)
        BY DEF AckInv
      <4>2. n.id = x
        BY <4>1, <3>4
      <4>3. n.op \in Removes
        BY <4>1, <4>2, <3>3
      <4> QED
        BY <4>1, <4>3, <3>4
    <3>6. \A x \in told' : OnlyRemoves(ns, x)
      BY <3>1, <3>3 DEF AckInv
    <3>7. receipt' # "none" \/ pc' \notin AckPcs => NoneWaited(ns)
      BY <3>1, <3>3, <3>4 DEF AckInv
    <3>8. pc' \in AckPcs => LogBarrier(ns, rm)
      BY <3>1, <3>3 DEF AckInv
    <3>9. ASSUME pc' \in AckPcs, receipt' = "ok" PROVE rm \notin view' /\ OnlyRemoves(ns, rm)
      <4>1. LogBarrier(notes, Removed)
        BY <3>1, <3>9 DEF AckInv
      <4>2. CASE n.waited
        BY <4>1, <4>2, <3>1, <3>3, <3>4, <3>9
      <4>3. CASE ~n.waited
        <5>1. Removed \notin view /\ OnlyRemoves(notes, Removed)
          BY <4>3, <3>1, <3>4, <3>9 DEF AckInv
        <5>2. n.id = Removed => n.op \in Removes
          BY <5>1, <3>3
        <5> QED
          BY <5>1, <5>2, <3>1, <3>3, <3>4
      <4> QED
        BY <4>2, <4>3
    <3> QED
      BY <3>3, <3>5, <3>6, <3>7, <3>8, <3>9, <2>d
  <2>5. CASE AckBeside /\ BridgeCloses
    <3>1. pc' = pc /\ rm = Removed /\ told' = told /\ view' = view
      BY <2>5 DEF AckBeside, avars, hvars, Removed, BridgeCloses
    <3>2. Len(ns) = 0
      BY <2>5, EmptySeq DEF BridgeCloses
    <3>3. receipt' = "ok" => receipt = "ok"
      BY <2>5 DEF BridgeCloses
    <3> HIDE DEF ns, rm
    <3>4. NoneWaited(ns) /\ \A x : OnlyRemoves(ns, x)
      BY <3>2 DEF NoneWaited, OnlyRemoves
    <3>5. pc' \in AckPcs /\ receipt' = "ok" => rm \notin view'
      BY <3>1, <3>3 DEF AckInv
    <3>6. told' \cap view' = {}
      BY <3>1 DEF AckInv
    <3> QED
      BY <3>4, <3>5, <3>6, <2>d, <2>e
  <2>6. CASE AckEnds
    <3>1. pc' \notin AckPcs /\ told' = told /\ view' = view
      BY <2>6 DEF AckEnds, StopAwaiting, BridgeCrash
    <3>2. NoneWaited(ns) /\ \A x \in told : OnlyRemoves(ns, x)
      <4>1. CASE StopAwaiting
        <5>1. notes' = [i \in 1..Len(notes) |-> [notes[i] EXCEPT !.waited = FALSE]]
          BY <4>1 DEF StopAwaiting
        <5>2. \A i \in 1..Len(notes) : notes[i] \in Note
          BY <1>n, ElementOfSeq
        <5>3. \A i \in 1..Len(notes) : /\ ~notes'[i].waited /\ notes'[i].op = notes[i].op
                                       /\ notes'[i].id = notes[i].id
          BY <5>1, <5>2 DEF Note
        <5>4. Len(notes') = Len(notes)
          BY <1>n, <5>1
        <5> QED
          BY <5>3, <5>4 DEF NoneWaited, OnlyRemoves, AckInv
      <4>2. CASE BridgeCrash
        <5>1. Len(notes') = 0
          BY <4>2, EmptySeq DEF BridgeCrash
        <5> QED
          BY <5>1 DEF NoneWaited, OnlyRemoves
      <4> QED
        BY <2>6, <4>1, <4>2 DEF AckEnds
    <3> HIDE DEF ns, rm
    <3>3. told \cap view = {}
      BY DEF AckInv
    <3> QED
      BY <3>1, <3>2, <3>3, <2>d, <2>e
  <2>7. CASE LogOpens
    <3>1. ns = notes /\ told' = told /\ view' = view /\ pc \notin AckPcs /\ pc' \notin AckPcs
      BY <2>7 DEF LogOpens, AckPcs
    <3> HIDE DEF ns, rm
    <3> QED
      BY <3>1, <2>d DEF AckInv
  <2> QED
    BY <1>2, <2>1, <2>2, <2>3, <2>4, <2>5, <2>6, <2>7, AckFrame DEF AckBeside
<1> QED
  BY <1>1, <1>2

LEMMA AckInvAlways == Spec => []AckInv
BY AckInvInit, AckInvStep, GoneInvAlways, TypeInvAlways, PTL DEF Spec

(***************************************************************************)
(* A removal that persist_resources reported durable is final: no snapshot *)
(* in flight, held back or on disk brings the task back, whatever tool     *)
(* calls save meanwhile, whatever times out and whenever the process ends; *)
(* and once ScheduledTaskRemoved was acknowledged nothing the bridge still *)
(* has to deliver shows it again.                                          *)
(***************************************************************************)
THEOREM SchedulerGoneForGood == Spec => []GoneForGood
<1>1. GoneInv /\ AckInv => GoneForGood
  BY DEF GoneInv, AckInv, GoneForGood, OnlyRemoves, Removes
<1> QED
  BY <1>1, GoneInvAlways, AckInvAlways, PTL

----------------------------------------------------------------------------
(* What the tasks pane shows.                                              *)

OnlyShows(ns, x) == \A k \in 1..Len(ns) : ns[k].id = x => ns[k].op \in Shows

\* From some notification about x on, all of those about x show it.
Announced(ns, x) ==
    \E k \in 1..Len(ns) : /\ ns[k].id = x
                          /\ \A j \in k..Len(ns) : ns[j].id = x => ns[j].op \in Shows

\* The pane has x once the bridge has caught up.
WillShow(ns, shown, x) == Announced(ns, x) \/ (x \in shown /\ OnlyShows(ns, x))

Off == {"down", "start", "stopped"}

\* The tasks that may fire: those of the list, and the one that an expiry
\* puts back when its removal is not committed.
Watched == Ids(tasks) \cup {x \in {job.t.id} : pc = "expFlush"}

ShowInv ==
    pc \notin Off /\ open => \A x \in Watched : Recurring(x) => WillShow(notes, view, x)

\* More notifications, none of which hides x.
LEMMA WillShowMore ==
    ASSUME BridgeTypeOK, open, NEW m \in Seq(Note), Send(m), NEW x, NEW shown,
           WillShow(notes, shown, x), OnlyShows(m, x)
    PROVE  WillShow(notes', shown, x)
<1>0. Len(notes) \in Nat /\ Len(notes') \in Nat /\ Len(m) \in Nat
  <2>1. notes' \in Seq(Note)
    BY SendProps
  <2> QED
    BY <2>1, LenProperties DEF BridgeTypeOK
<1>1. /\ Len(notes') = Len(notes) + Len(m)
      /\ \A i \in 1..Len(notes) : notes'[i] = notes[i]
  BY SendProps
<1>2. \A i \in 1..Len(notes') :
         \/ i \in 1..Len(notes) /\ notes'[i] = notes[i]
         \/ \E j \in 1..Len(m) : notes'[i] = m[j]
  BY SendsMore
<1>3. CASE Announced(notes, x)
  <2>1. PICK k \in 1..Len(notes) : /\ notes[k].id = x
                                   /\ \A j \in k..Len(notes) : notes[j].id = x => notes[j].op \in Shows
    BY <1>3 DEF Announced
  <2>2. k \in 1..Len(notes') /\ notes'[k].id = x
    BY <2>1, <1>0, <1>1
  <2>3. ASSUME NEW j \in k..Len(notes'), notes'[j].id = x PROVE notes'[j].op \in Shows
    <3>0. j \in 1..Len(notes')
      BY <1>0, <2>3
    <3>1. CASE j \in 1..Len(notes) /\ notes'[j] = notes[j]
      <4>1. j \in k..Len(notes)
        BY <3>1, <1>0, <2>3
      <4> QED
        BY <4>1, <3>1, <2>1, <2>3
    <3>2. CASE \E i \in 1..Len(m) : notes'[j] = m[i]
      BY <3>2, <2>3 DEF OnlyShows
    <3> QED
      BY <3>0, <3>1, <3>2, <1>2
  <2> QED
    BY <2>2, <2>3 DEF WillShow, Announced
<1>4. CASE x \in shown /\ OnlyShows(notes, x)
  <2>1. OnlyShows(notes', x)
    BY <1>2, <1>4 DEF OnlyShows
  <2> QED
    BY <2>1, <1>4 DEF WillShow
<1> QED
  BY <1>3, <1>4 DEF WillShow

\* A notification shows x, and none after it hides it.
LEMMA WillShowNew ==
    ASSUME BridgeTypeOK, open, NEW m \in Seq(Note), Send(m), NEW x, NEW shown,
           OnlyShows(m, x), NEW i \in 1..Len(m), m[i].id = x
    PROVE  WillShow(notes', shown, x)
<1>0. Len(notes) \in Nat /\ Len(notes') \in Nat /\ Len(m) \in Nat
  <2>1. notes' \in Seq(Note)
    BY SendProps
  <2> QED
    BY <2>1, LenProperties DEF BridgeTypeOK
<1>1. /\ Len(notes') = Len(notes) + Len(m)
      /\ notes'[Len(notes) + i] = m[i]
  BY SendProps
<1>2. \A j \in 1..Len(notes') :
         \/ j \in 1..Len(notes)
         \/ \E n \in 1..Len(m) : notes'[j] = m[n]
  BY SendsMore
<1> DEFINE k == Len(notes) + i
<1>3. k \in 1..Len(notes') /\ notes'[k].id = x /\ k > Len(notes)
  BY <1>0, <1>1
<1>4. ASSUME NEW j \in k..Len(notes'), notes'[j].id = x PROVE notes'[j].op \in Shows
  <2>1. j \in 1..Len(notes') /\ ~(j \in 1..Len(notes))
    BY <1>0, <1>3
  <2>2. PICK n \in 1..Len(m) : notes'[j] = m[n]
    BY <2>1, <1>2
  <2> QED
    BY <2>2, <1>4 DEF OnlyShows
<1> HIDE DEF k
<1> QED
  BY <1>3, <1>4 DEF WillShow, Announced

\* The bridge takes a notification.
LEMMA WillShowDeliver ==
    ASSUME BridgeTypeOK, Deliver, NEW x, Recurring(x), WillShow(notes, view, x)
    PROVE  WillShow(notes', view', x)
<1>1. notes # <<>> /\ notes' = Tail(notes)
  BY DEF Deliver
<1>2. /\ Len(notes) \in Nat /\ Len(notes) >= 1 /\ Len(notes') = Len(notes) - 1
      /\ \A i \in 1..Len(notes') : notes'[i] = notes[i + 1]
  BY <1>1, DeliverProps
<1>3. /\ view \ {notes[1].id} \subseteq view'
      /\ notes[1].op \in Shows => view \subseteq view' /\ (Recurring(notes[1].id) => notes[1].id \in view')
  BY DeliverView
<1>4. 1 \in 1..Len(notes) /\ \A i \in 1..Len(notes') : i + 1 \in 1..Len(notes)
  BY <1>2
<1>5. CASE Announced(notes, x)
  <2>1. PICK k \in 1..Len(notes) : /\ notes[k].id = x
                                   /\ \A j \in k..Len(notes) : notes[j].id = x => notes[j].op \in Shows
    BY <1>5 DEF Announced
  <2>2. CASE k = 1
    <3>1. notes[1].op \in Shows /\ notes[1].id = x
      BY <2>1, <2>2, <1>4
    <3>2. x \in view'
      BY <3>1, <1>3
    <3>3. OnlyShows(notes', x)
      BY <2>1, <2>2, <1>2, <1>4 DEF OnlyShows
    <3> QED
      BY <3>2, <3>3 DEF WillShow
  <2>3. CASE k # 1
    <3>1. k - 1 \in 1..Len(notes') /\ notes'[k - 1] = notes[k]
      BY <2>3, <1>2
    <3>2. ASSUME NEW j \in (k - 1)..Len(notes'), notes'[j].id = x PROVE notes'[j].op \in Shows
      <4>1. j \in 1..Len(notes') /\ j + 1 \in k..Len(notes) /\ notes'[j] = notes[j + 1]
        BY <3>1, <1>2
      <4> QED
        BY <4>1, <3>2, <2>1
    <3> QED
      BY <3>1, <3>2, <2>1 DEF WillShow, Announced
  <2> QED
    BY <2>2, <2>3
<1>6. CASE x \in view /\ OnlyShows(notes, x)
  <2>1. x \in view'
    BY <1>3, <1>4, <1>6 DEF OnlyShows
  <2>2. OnlyShows(notes', x)
    BY <1>2, <1>4, <1>6 DEF OnlyShows
  <2> QED
    BY <2>1, <2>2 DEF WillShow
<1> QED
  BY <1>5, <1>6 DEF WillShow

\* A producer gives up.
LEMMA WillShowGivenUp ==
    ASSUME BridgeTypeOK, StopAwaiting, NEW x, WillShow(notes, view, x)
    PROVE  WillShow(notes', view', x)
<1>1. \A i \in 1..Len(notes) : notes[i] \in Note
  BY ElementOfSeq DEF BridgeTypeOK
<1>2. Len(notes) \in Nat /\ notes' = [i \in 1..Len(notes) |-> [notes[i] EXCEPT !.waited = FALSE]]
  BY LenProperties DEF BridgeTypeOK, StopAwaiting
<1>3. \A i \in 1..Len(notes) : notes'[i].id = notes[i].id /\ notes'[i].op = notes[i].op
  BY <1>1, <1>2 DEF Note
<1>4. Len(notes') = Len(notes)
  BY <1>2
<1>5. view' = view
  BY DEF StopAwaiting
<1>6. \A k \in 1..Len(notes) : \A j \in k..Len(notes) : j \in 1..Len(notes)
  BY <1>2
<1>7. CASE Announced(notes, x)
  <2>1. PICK k \in 1..Len(notes) : /\ notes[k].id = x
                                   /\ \A j \in k..Len(notes) : notes[j].id = x => notes[j].op \in Shows
    BY <1>7 DEF Announced
  <2>2. \A j \in k..Len(notes) : notes'[j].id = x => notes'[j].op \in Shows
    BY <2>1, <1>3, <1>6
  <2> QED
    BY <2>1, <2>2, <1>3, <1>4 DEF WillShow, Announced
<1>8. CASE x \in view /\ OnlyShows(notes, x)
  BY <1>3, <1>4, <1>5, <1>8 DEF WillShow, OnlyShows
<1> QED
  BY <1>7, <1>8 DEF WillShow

\* The actor leaves its start only by announcing the tasks.
LEMMA LeavesOff ==
    ASSUME Next, pc \in Off, pc' \notin Off
    PROVE  Announce
<1> USE DEF Off, Aside, Idle, avars
<1>1. ~\E id \in Tasks, p \in Prompts, b \in BOOLEAN : Create(id, p, b) \/ Update(id, p, b)
  BY DEF Create, Update
<1>2. ~\E id \in Tasks : Delete(id) \/ FallsDue(id) \/ Expires(id)
  BY DEF Delete, FallsDue, Expires
<1>3. ~(RetryDelete \/ AbandonRemoval \/ Stop)
  BY DEF RetryDelete, AbandonRemoval, Stop
<1>4. ~\E i \in 1..Len(tasks) : ExpireBlocked(i) \/ ExpireTask(i) \/ FireTask(i)
  BY DEF ExpireBlocked, ExpireTask, FireTask, Selected
<1>5. ~(DeletePersisted \/ DeleteAcknowledged \/ DeleteTimesOut)
  BY DEF DeletePersisted, DeleteAcknowledged, DeleteTimesOut
<1>6. ~(ExpiryPersisted \/ ExpiryAcknowledged \/ ExpiryTimesOut \/ RemovalFlushed)
  BY DEF ExpiryPersisted, ExpiryAcknowledged, ExpiryTimesOut, RemovalFlushed
<1>7. ~(Skip \/ AskSkips \/ QueryEnded \/ UnitInactive)
  BY DEF Skip, AskSkips, QueryEnded, UnitInactive
<1>8. ~(SpawnRefused \/ SpawnCancelled \/ Spawned \/ \E c \in Children : Launch(c))
  BY DEF SpawnRefused, SpawnCancelled, Spawned, Launch
<1>9. ~\E c \in Children : \/ Admit(c) \/ Refuse(c) \/ GuardClears(c)
                           \/ ChildEnds(c, "completed") \/ ChildEnds(c, "failed")
  BY DEF Admit, Refuse, GuardClears, ChildEnds
<1>10. ~(CoordinatorGone \/ Wire \/ ToolSave \/ Cancel \/ WriterStep \/ BridgeStep)
  BY DEF CoordinatorGone, Wire, ToolSave, Cancel, WriterStep, BridgeStep
<1>11. ~(Crash \/ Start)
  BY DEF Crash, Start
<1> QED
  BY <1>1, <1>2, <1>3, <1>4, <1>5, <1>6, <1>7, <1>8, <1>9, <1>10, <1>11
     DEF Next, Commands, Timer, Carries, Coordinator, Environment

\* Where a task that may fire comes from.
LEMMA WatchFrame ==
    ASSUME TypeInv, Next, NEW x \in Watched', pc' \notin Off
    PROVE  x \in Watched \/ \E p \in Prompts, b \in BOOLEAN : Create(x, p, b)
<1>1. CASE x \in Ids(tasks')
  <2>1. CASE ExpiryPersisted /\ x = job.t.id
    BY <2>1 DEF ExpiryPersisted, Watched
  <2>2. ~Start
    BY DEF Start, Off
  <2> QED
    BY <1>1, <2>1, <2>2, IdsFrame DEF Watched
<1>2. CASE pc' = "expFlush" /\ x = job'.t.id
  <2>1. CASE Begins
    BY <2>1, <1>2 DEF Begins, Watched, Ids
  <2>2. CASE Continues
    BY <2>2, <1>2 DEF Continues, Watched
  <2> QED
    BY <2>1, <2>2, <1>2, JobFrame DEF JobPcs
<1> QED
  BY <1>1, <1>2 DEF Watched, Ids

LEMMA WatchedRecurring ==
    ASSUME TypeInv, GoneInv, ShowInv, Next, pc \notin Off, open, pc' \notin Off, open',
           NEW x \in Watched, x \in Watched', Recurring(x)
    PROVE  WillShow(notes', view', x)
<1>0. BridgeTypeOK /\ WillShow(notes, view, x)
  BY DEF TypeInv, ShowInv
<1>1. CASE AckGoesOn
  BY <1>0, <1>1 DEF AckGoesOn, Quiet, bvars
<1>2. ASSUME NEW m \in Seq(Note), Says(m) PROVE WillShow(notes', view', x)
  <2>1. Send(m) /\ view' = view /\ pc' # "expFlush"
    BY <1>2 DEF Says, Tell
  <2>2. x \in Ids(tasks')
    BY <2>1 DEF Watched, Ids
  <2>3. \A i \in 1..Len(m) : m[i] \in Note
    BY ElementOfSeq
  <2>4. OnlyShows(m, x)
    BY <2>2, <2>3, <1>2 DEF OnlyShows, Says, Off, Note, Shows, Removes
  <2> QED
    BY <2>1, <2>4, <1>0, WillShowMore
<1>3. CASE AckBegins
  <2> DEFINE n == [op |-> "tomb", id |-> Removed, waited |-> TRUE]
  <2>1. Send(<<n>>) /\ view' = view /\ pc \in FlushPcs /\ pc' \in AckPcs /\ tasks' = tasks
    BY <1>3 DEF AckBegins, Publish
  <2>2. Removed \in Tasks /\ Removed \notin Ids(tasks)
    BY <2>1, RemovedOff DEF RemovedIsOff
  <2>3. <<n>> \in Seq(Note) /\ Len(<<n>>) = 1 /\ <<n>>[1] = n
    BY <2>2, OneNote
  <2>4. n.id = Removed
    OBVIOUS
  <2> HIDE DEF n
  <2>5. x \in Ids(tasks)
    BY <2>1 DEF Watched, AckPcs, Ids
  <2>6. OnlyShows(<<n>>, x)
    BY <2>2, <2>3, <2>4, <2>5 DEF OnlyShows
  <2> QED
    BY <2>1, <2>3, <2>6, <1>0, WillShowMore
<1>4. CASE AckBeside
  BY <1>0, <1>4, WillShowDeliver DEF AckBeside, BridgeCloses
<1>5. CASE AckEnds
  BY <1>0, <1>5, WillShowGivenUp DEF AckEnds, BridgeCrash
<1>6. CASE LogOpens
  BY <1>6 DEF LogOpens, Off
<1> QED
  BY <1>1, <1>2, <1>3, <1>4, <1>5, <1>6, AckFrame

\* announce_existing_tasks shows all recurring tasks.
LEMMA AnnouncedAll ==
    ASSUME TypeInv, Announce, open, NEW x \in Ids(tasks), Recurring(x)
    PROVE  WillShow(notes', view', x)
<1>0. BridgeTypeOK /\ ListOK(tasks)
  BY TasksOK DEF TypeInv
<1> DEFINE K == {i \in 1..Len(tasks) : Recurring(tasks[i].id) \/ tasks[i].id \notin due}
           l == Retain(tasks, K)
           m == NotesOf("show", l)
<1>1. Send(m)
  BY DEF Announce, Tell
<1>2. PICK k \in K : tasks[k].id = x
  BY DEF Ids
<1>3. K \subseteq 1..Len(tasks)
  OBVIOUS
<1> HIDE DEF K
<1>4. ListOK(l) /\ HoldsThose(l, tasks, K)
  BY <1>0, <1>3, RetainOK
<1> HIDE DEF l
<1>5. PICK i \in 1..Len(l) : l[i].id = x
  BY <1>2, <1>4 DEF HoldsThose
<1>6. /\ m \in Seq(Note) /\ Len(m) = Len(l)
      /\ \A j \in 1..Len(l) : m[j] = N("show", l[j].id)
  BY <1>4, NotesOfProps
<1> HIDE DEF m
<1>7. OnlyShows(m, x) /\ i \in 1..Len(m) /\ m[i].id = x
  BY <1>5, <1>6, NFields DEF OnlyShows, Shows
<1> QED
  BY <1>0, <1>1, <1>6, <1>7, WillShowNew

LEMMA ShowInvInit == Init => ShowInv
BY DEF Init, ShowInv

LEMMA ShowInvStep == TypeInv /\ GoneInv /\ ShowInv /\ [Next]_vars => ShowInv'
<1> SUFFICES ASSUME TypeInv, GoneInv, ShowInv, [Next]_vars PROVE ShowInv'
  OBVIOUS
<1>1. CASE UNCHANGED vars
  BY <1>1 DEF vars, avars, bvars, ShowInv, Watched, WillShow, Announced, OnlyShows, Off, Ids
<1>2. CASE Next
  <2> SUFFICES ASSUME pc' \notin Off, open', NEW x \in Watched', Recurring(x)
               PROVE  WillShow(notes', view', x)
    BY DEF ShowInv, WillShow, Announced, OnlyShows, Off, Watched, Ids, Recurring, Shows
  <2>0. BridgeTypeOK
    BY DEF TypeInv
  <2>1. open
    <3>1. ASSUME NEW m \in Seq(Note), Says(m) PROVE open
      BY <3>1 DEF Says, Tell
    <3>2. CASE AckGoesOn \/ AckBegins
      BY <3>2 DEF AckGoesOn, Quiet, bvars, AckBegins, Publish
    <3>3. CASE AckBeside
      BY <3>3 DEF AckBeside, Deliver, BridgeCloses
    <3>4. CASE AckEnds
      BY <3>4 DEF AckEnds, StopAwaiting, BridgeCrash
    <3>5. CASE LogOpens
      BY <3>5 DEF LogOpens, Off
    <3> QED
      BY <1>2, <3>1, <3>2, <3>3, <3>4, <3>5, AckFrame
  <2>2. CASE pc \in Off
    <3>1. Announce
      BY <1>2, <2>2, LeavesOff
    <3>2. x \in Ids(tasks)
      BY <3>1 DEF Announce, Watched, Ids
    <3> QED
      BY <2>1, <3>1, <3>2, AnnouncedAll
  <2>3. CASE pc \notin Off /\ x \in Watched
    BY <1>2, <2>1, <2>3, WatchedRecurring
  <2>4. ASSUME NEW p \in Prompts, NEW b \in BOOLEAN, Create(x, p, b)
        PROVE  WillShow(notes', view', x)
    <3> DEFINE n == [op |-> "show", id |-> x, waited |-> FALSE]
    <3>1. Send(<<n>>)
      BY <2>4 DEF Create, Tell, N
    <3>2. x \in Tasks
      <4>1. x \in created'
        BY <2>4 DEF Create
      <4>2. created' \subseteq Tasks
        BY <1>2, TypeInvStep DEF TypeInv, SetsOK
      <4> QED
        BY <4>1, <4>2
    <3>3. <<n>> \in Seq(Note) /\ Len(<<n>>) = 1 /\ <<n>>[1] = n
      BY <3>2, OneNote
    <3>4. n.id = x /\ n.op = "show"
      OBVIOUS
    <3> HIDE DEF n
    <3>5. OnlyShows(<<n>>, x) /\ 1 \in 1..Len(<<n>>)
      BY <3>3, <3>4 DEF OnlyShows, Shows
    <3> QED
      BY <2>0, <2>1, <3>1, <3>3, <3>4, <3>5, WillShowNew
  <2> QED
    BY <1>2, <2>2, <2>3, <2>4, WatchFrame
<1> QED
  BY <1>1, <1>2

LEMMA ShowInvAlways == Spec => []ShowInv
BY ShowInvInit, ShowInvStep, GoneInvAlways, TypeInvAlways, PTL DEF Spec

(***************************************************************************)
(* A recurring task that can fire is in the tasks pane once the bridge has *)
(* caught up: created tasks are announced, a started actor announces those *)
(* of its list, and no notification of a removal is sent for a task that   *)
(* stays in the list or that an expiry puts back.                          *)
(***************************************************************************)
THEOREM SchedulerTasksVisible == Spec => []TasksVisible
<1>1. ShowInv => TasksVisible
  <2> SUFFICES ASSUME ShowInv, pc = "idle", open, notes = <<>>,
                      NEW i \in 1..Len(tasks), Recurring(tasks[i].id)
               PROVE  tasks[i].id \in view
    BY DEF TasksVisible
  <2>1. WillShow(notes, view, tasks[i].id)
    BY DEF ShowInv, Watched, Ids, Off
  <2>2. Len(notes) = 0
    BY EmptySeq
  <2> QED
    BY <2>1, <2>2 DEF WillShow, Announced
<1> QED
  BY <1>1, ShowInvAlways, PTL
============================================================================
