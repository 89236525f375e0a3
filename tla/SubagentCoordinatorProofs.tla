--------------------- MODULE SubagentCoordinatorProofs ---------------------
(***************************************************************************)
(* The coordinator's invariants for every limit and every set of ids,      *)
(* sessions, messages and requests.                                        *)
(*                                                                         *)
(* They are proved together, as one inductive invariant Inv: a finished    *)
(* child leaves one map only because its runner or its held-back output    *)
(* shows which map it is in (NoZombieChild), and an admission ends only    *)
(* for an active child because the counters are exact (InFlightExact) and  *)
(* zero elsewhere (IdleCounts).  Every handler that finishes a child ends  *)
(* in Settle, so the argument is one lemma about Settle (SettleInv), from  *)
(* what the handler hands over (Ready), and one lemma per handler.         *)
(***************************************************************************)
EXTENDS SubagentCoordinator, FiniteSetTheorems, TLAPS

\* The messages in flight to a child, when the messages are where `m` says.
InFlightTo(m, id) == {x \in Msgs : m[x] = "inflight" /\ To(x) = id}

\* Only an active child has messages in flight.
IdleCounts == \A id \in Ids : child[id].inFlight # 0 => id \in active

\* The inductive invariant.
Inv ==
    /\ TypeOK
    /\ OneHome
    /\ DrainsClosed
    /\ ClosedMeansCancelled
    /\ NoZombieChild
    /\ InFlightExact
    /\ IdleCounts

\* What a handler passes to Settle.
Maps(s) ==
    /\ s.queued \subseteq Ids /\ s.pending \subseteq Ids /\ s.active \subseteq Ids
    /\ s.child \in [Ids -> Child]
    /\ s.graph \subseteq Ids
    /\ s.lineage \in [Ids -> [root: Sess, chain: SUBSET Ids]]
    /\ s.call \in [Calls -> CallState]
    /\ s.msg \in [Msgs -> MsgState]
    /\ s.blocked \subseteq Sess /\ s.wants \subseteq Sess

\* A set of ids has a size: there are finitely many ids.
LEMMA CardIds == \A S \in SUBSET Ids : Cardinality(S) \in Nat
<1> SUFFICES ASSUME NEW S \in SUBSET Ids PROVE Cardinality(S) \in Nat
  OBVIOUS
<1>1. IsFiniteSet(S)
  BY IdsAssumption, FS_Subset
<1> QED
  BY <1>1, FS_CardinalityType

\* Some session exists, so the placeholder records are typed.
LEMMA SessionExists == AnySession \in Sess
  BY IdsAssumption DEF AnySession, Sess

\* The record of an id that is not live is a child record.
LEMMA NoChildType == NoChild \in Child
  BY SessionExists DEF NoChild, Child

\* `f` is a later record of the child `e`: cancelled and finalizing are for good.
Keeps(f, e) ==
    /\ f.session = e.session /\ f.run = e.run
    /\ e.token => f.token
    /\ e.finalizing => f.finalizing

Follows(f, e) == Keeps(f, e) /\ f.inFlight = e.inFlight

\* start_child keeps who the child belongs to and its counters.
LEMMA LaunchedType ==
  ASSUME NEW e \in Child
  PROVE  Launched(e) \in Child /\ Follows(Launched(e), e)
  BY DEF Launched, Child, Follows, Keeps

\* A record that stays, with the entries that left no longer ahead of it.
Advanced(e, left) == [e EXCEPT !.ahead = @ \ left]

\* An entry that moves up the queue is otherwise the same.
LEMMA AdvancedType ==
  ASSUME NEW e \in Child, NEW S
  PROVE  Advanced(e, S) \in Child /\ Follows(Advanced(e, S), e)
  BY DEF Child, Advanced, Follows, Keeps

\* What Settle does to the maps when it starts and sweeps these entries and
\* the history then knows these children.
Moves(s, first, started, swept, known) ==
    /\ started \subseteq {id \in s.queued : ~s.child[id].token}
    /\ swept \subseteq {id \in s.queued : s.child[id].token}
    /\ completed \subseteq known
    /\ known \subseteq completed \cup first \cup swept
    /\ queued' = s.queued \ (started \cup swept)
    /\ pending' = s.pending \cup started
    /\ active' = s.active
    /\ child' = [id \in Ids |->
          IF id \in first \cup swept THEN NoChild
          ELSE IF id \in started THEN Launched(s.child[id])
          ELSE Advanced(s.child[id], (first \cup swept) \cup started)]
    /\ runs' = (runs \ first) \cup started
    /\ outputs' = [id \in Ids |-> IF id \in first \cup swept THEN "none" ELSE outputs[id]]
    /\ completed' \subseteq known
    /\ graph' = s.graph \ ((known \cup first \cup swept) \ completed')

\* Every finish_child and queue sweep moves children as Moves says.
LEMMA SettleMoves ==
  ASSUME NEW s, NEW first, NEW ok, NEW sweeps, Settle(s, first, ok, sweeps)
  PROVE  \E started, swept, known : Moves(s, first, started, swept, known)
<1> DEFINE started == IF sweeps THEN Startable(s.queued, s.pending, s.active, s.child) ELSE {}
           swept == IF sweeps THEN {id \in s.queued : s.child[id].token} ELSE {}
           gone == first \cup swept
           completing == {id \in gone : Completes(s.child[id], id \in ok)}
           Precedes(o, id) ==
            \/ o \in first /\ id \notin first
            \/ (o \in first <=> id \in first) /\ o \in s.child[id].ahead
           AgeAt(id) == nextAge + Cardinality({o \in completing : Precedes(o, id)})
           restored == {id \in gone \ completing : Restorable(s.child[id], AgeAt(id))}
           known == completed \cup completing \cup restored
<1>1. started \subseteq {id \in s.queued : ~s.child[id].token}
  BY DEF Startable
<1>2. swept \subseteq {id \in s.queued : s.child[id].token}
  OBVIOUS
<1>3. completed \subseteq known /\ known \subseteq completed \cup first \cup swept
  OBVIOUS
<1>4. /\ queued' = s.queued \ (started \cup swept)
      /\ pending' = s.pending \cup started
      /\ active' = s.active
      /\ runs' = (runs \ first) \cup started
      /\ outputs' = [id \in Ids |-> IF id \in first \cup swept THEN "none" ELSE outputs[id]]
  BY DEF Settle
<1>5. child' = [id \in Ids |->
                  IF id \in first \cup swept THEN NoChild
                  ELSE IF id \in started THEN Launched(s.child[id])
                  ELSE Advanced(s.child[id], (first \cup swept) \cup started)]
  BY DEF Settle, Advanced
<1>6. completed' \subseteq known
  BY DEF Settle, Newest
<1>7. graph' = s.graph \ ((known \cup first \cup swept) \ completed')
  BY DEF Settle
<1> HIDE DEF started, swept, known
<1>8. Moves(s, first, started, swept, known)
  BY <1>1, <1>2, <1>3, <1>4, <1>5, <1>6, <1>7 DEF Moves
<1> QED
  BY <1>8

\* What a handler has established when it calls Settle: Inv for the maps in
\* `s`, out of which it has taken the children in `first`.
Ready(s, first) ==
    /\ Maps(s)
    /\ first \subseteq Ids
    /\ first \cap (s.queued \cup s.pending \cup s.active \cup completed) = {}
    /\ s.queued \cap (s.pending \cup s.active \cup completed) = {}
    /\ s.pending \cap (s.active \cup completed) = {}
    /\ s.active \cap completed = {}
    /\ s.graph = first \cup s.queued \cup s.pending \cup s.active \cup completed
    /\ drains \subseteq s.blocked
    /\ \A x \in s.blocked \cup s.wants : \A id \in s.queued \cup s.pending \cup s.active :
          s.child[id].session = x /\ s.child[id].run = NoRun => s.child[id].token
    /\ s.pending \cup s.active =
          (runs \cup {id \in Ids : outputs[id] # "none"}) \ first
    /\ \A id \in Ids \ first : outputs[id] # "none" =>
          id \in s.active \ runs /\ s.child[id].inFlight > 0 /\ s.child[id].finalizing
    /\ \A id \in Ids :
          /\ s.child[id].inFlight = Cardinality(InFlightTo(s.msg, id))
          /\ s.child[id].inFlight <= MaxInFlight
          /\ s.child[id].inFlight # 0 => id \in s.active

\* A child that finishes, starts or is evicted ends in one map or in none.
LEMMA SettleOneHome ==
  ASSUME NEW s, NEW first, NEW ok, NEW sweeps, Ready(s, first),
         Settle(s, first, ok, sweeps)
  PROVE  OneHome'
<1>1. PICK started, swept, known : Moves(s, first, started, swept, known)
  BY SettleMoves
<1>2. started \subseteq s.queued /\ swept \subseteq s.queued /\ started \cap swept = {}
  BY <1>1 DEF Moves
<1>3. /\ queued' \cap (pending' \cup active' \cup completed') = {}
      /\ pending' \cap (active' \cup completed') = {}
      /\ active' \cap completed' = {}
  BY <1>1, <1>2 DEF Ready, Moves
<1>4. graph' = queued' \cup pending' \cup active' \cup completed'
  BY <1>1, <1>2 DEF Ready, Moves
<1> QED
  BY <1>3, <1>4 DEF OneHome

\* The child records of the ids that stay.
LEMMA SettleChildren ==
  ASSUME NEW s, NEW first, NEW ok, NEW sweeps, Ready(s, first),
         Settle(s, first, ok, sweeps)
  PROVE  /\ child' \in [Ids -> Child]
         /\ \A id \in Ids :
              \/ child'[id] = NoChild /\ id \in first \cup (s.queued \ (queued' \cup pending'))
              \/ Follows(child'[id], s.child[id])
<1>1. PICK started, swept, known : Moves(s, first, started, swept, known)
  BY SettleMoves
<1>2. ASSUME NEW id \in Ids
      PROVE  /\ child'[id] \in Child
             /\ \/ child'[id] = NoChild /\ id \in first \cup (s.queued \ (queued' \cup pending'))
                \/ Follows(child'[id], s.child[id])
  <2>1. s.child[id] \in Child
    BY DEF Ready, Maps
  <2>2. CASE id \in first \cup swept
    <3>1. child'[id] = NoChild
      BY <1>1, <2>2 DEF Moves
    <3>2. id \in first \cup (s.queued \ (queued' \cup pending'))
      BY <1>1, <2>2 DEF Ready, Moves
    <3> QED BY <3>1, <3>2, NoChildType
  <2>3. CASE id \notin first \cup swept /\ id \in started
    <3>1. child'[id] = Launched(s.child[id])
      BY <1>1, <2>3 DEF Moves
    <3> QED BY <2>1, <3>1, LaunchedType
  <2>4. CASE id \notin first \cup swept /\ id \notin started
    <3>1. child'[id] = Advanced(s.child[id], (first \cup swept) \cup started)
      BY <1>1, <2>4 DEF Moves
    <3> QED BY <2>1, <3>1, AdvancedType
  <2> QED BY <2>2, <2>3, <2>4
<1>3. child' = [id \in Ids |-> child'[id]]
  BY <1>1 DEF Moves
<1> QED BY <1>2, <1>3

\* Settle touches no message in flight.
LEMMA SettleMessages ==
  ASSUME NEW s, NEW first, NEW ok, NEW sweeps, Ready(s, first),
         Settle(s, first, ok, sweeps)
  PROVE  /\ msg' \in [Msgs -> MsgState]
         /\ \A m \in Msgs : msg'[m] = "inflight" <=> s.msg[m] = "inflight"
<1>1. PICK S, T : msg' = RejectWakes(RejectParked(s.msg, S), T)
  BY DEF Settle
<1> QED
  BY <1>1 DEF RejectWakes, RejectParked, MsgState, Ready, Maps

\* finish_child keeps every draining session closed and closes only the
\* session whose delete the handler serves.
LEMMA SettleSessions ==
  ASSUME NEW s, NEW first, NEW ok, NEW sweeps, Ready(s, first),
         Settle(s, first, ok, sweeps), drains \subseteq Sess
  PROVE  /\ drains' \subseteq blocked'
         /\ blocked' \subseteq s.blocked \cup s.wants
         /\ blocked' \subseteq Sess
<1>1. PICK cleared, opened : /\ opened \subseteq s.wants
                            /\ blocked' = (s.blocked \ cleared) \cup opened
                            /\ drains' = (drains \ cleared) \cup opened
  BY DEF Settle
<1> QED
  BY <1>1 DEF Ready, Maps

\* The queue sweep starts no child of a closed session.
LEMMA SettleClosed ==
  ASSUME NEW s, NEW first, NEW ok, NEW sweeps, Ready(s, first),
         Settle(s, first, ok, sweeps), drains \subseteq Sess
  PROVE  ClosedMeansCancelled'
<1> SUFFICES ASSUME NEW x \in blocked', NEW id \in Live',
                    child'[id].session = x, child'[id].run = NoRun
             PROVE  child'[id].token
  BY DEF ClosedMeansCancelled
<1>1. PICK started, swept, known : Moves(s, first, started, swept, known)
  BY SettleMoves
<1>2. id \in s.queued \cup s.pending \cup s.active /\ id \in Ids
  BY <1>1 DEF Moves, Live, Ready, Maps
<1>3. id \notin first \cup (s.queued \ (queued' \cup pending'))
  BY <1>1 DEF Moves, Live, Ready
<1>4. /\ s.child[id].session = x /\ s.child[id].run = NoRun
      /\ s.child[id].token => child'[id].token
  BY <1>2, <1>3, SettleChildren DEF Follows, Keeps
<1>5. x \in s.blocked \cup s.wants
  BY SettleSessions
<1> QED
  BY <1>2, <1>4, <1>5 DEF Ready

\* The children that leave have no message in flight.
LEMMA SettleInFlight ==
  ASSUME NEW s, NEW first, NEW ok, NEW sweeps, Ready(s, first),
         Settle(s, first, ok, sweeps)
  PROVE  InFlightExact' /\ IdleCounts'
<1>1. PICK started, swept, known : Moves(s, first, started, swept, known)
  BY SettleMoves
<1> SUFFICES ASSUME NEW id \in Ids
             PROVE  /\ child'[id].inFlight = Cardinality(InFlightTo(msg', id))
                    /\ child'[id].inFlight <= MaxInFlight
                    /\ child'[id].inFlight # 0 => id \in active'
  BY DEF InFlightExact, IdleCounts, InFlightTo
<1>2. InFlightTo(msg', id) = InFlightTo(s.msg, id)
  BY SettleMessages DEF InFlightTo
<1>3. child'[id].inFlight = s.child[id].inFlight
  <2>1. CASE child'[id] = NoChild /\ id \in first \cup (s.queued \ (queued' \cup pending'))
    <3>1. id \notin s.active
      BY <2>1 DEF Ready
    <3>2. child'[id].inFlight = 0
      BY <2>1 DEF NoChild
    <3> QED BY <3>1, <3>2 DEF Ready
  <2> QED BY <2>1, SettleChildren DEF Follows, Keeps
<1>4. active' = s.active
  BY <1>1 DEF Moves
<1> QED
  BY <1>2, <1>3, <1>4 DEF Ready

\* Runner futures and held-back outputs leave with their children.
LEMMA SettleNoZombie ==
  ASSUME NEW s, NEW first, NEW ok, NEW sweeps, Ready(s, first),
         Settle(s, first, ok, sweeps)
  PROVE  NoZombieChild'
<1>1. PICK started, swept, known : Moves(s, first, started, swept, known)
  BY SettleMoves
<1>2. ASSUME NEW id \in Ids
      PROVE  outputs'[id] # "none" <=> id \notin first /\ outputs[id] # "none"
  BY <1>1 DEF Moves, Ready
<1>3. ASSUME NEW id \in Ids, outputs'[id] # "none"
      PROVE  id \in active' \ runs' /\ child'[id].inFlight > 0 /\ child'[id].finalizing
  <2>1. /\ id \in s.active \ runs /\ s.child[id].inFlight > 0 /\ s.child[id].finalizing
        /\ id \notin first
    BY <1>2, <1>3 DEF Ready
  <2>2. Follows(child'[id], s.child[id])
    BY <2>1, SettleChildren DEF Ready
  <2>3. id \in active' \ runs'
    BY <1>1, <2>1 DEF Moves, Ready
  <2> QED BY <2>1, <2>2, <2>3 DEF Follows, Keeps
<1>4. pending' \cup active' = runs' \cup {id \in Ids : outputs'[id] # "none"}
  <2>1. {id \in Ids : outputs'[id] # "none"} = {id \in Ids : outputs[id] # "none"} \ first
    BY <1>2
  <2> QED BY <1>1, <2>1 DEF Moves, Ready
<1> QED BY <1>3, <1>4 DEF NoZombieChild

\* The record of an id that is not completed is a terminal record.
LEMMA NoRecordType == NoRecord \in Record
  BY SessionExists DEF NoRecord, Record

\* The node of an id that is not in the spawn graph is typed.
LEMMA NoLineageType == NoLineage \in [root: Sess, chain: SUBSET Ids]
  BY SessionExists DEF NoLineage

\* finish_child makes a terminal record.
LEMMA TerminalType ==
  ASSUME NEW e \in Child, NEW n \in Nat
  PROVE  Terminal(e, n) \in Record
  BY DEF Terminal, Record, Child

\* Terminal records, ages and presentations stay typed.
LEMMA SettleHistory ==
  ASSUME NEW s, NEW first, NEW ok, NEW sweeps, Ready(s, first), TypeOK,
         Settle(s, first, ok, sweeps)
  PROVE  /\ done' \in [Ids -> Record]
         /\ nextAge' \in Nat \ {0}
         /\ presenting' \subseteq Ids \X Nat
<1> DEFINE swept == IF sweeps THEN {id \in s.queued : s.child[id].token} ELSE {}
           gone == first \cup swept
           completing == {id \in gone : Completes(s.child[id], id \in ok)}
           Precedes(o, id) ==
            \/ o \in first /\ id \notin first
            \/ (o \in first <=> id \in first) /\ o \in s.child[id].ahead
           AgeAt(id) == nextAge + Cardinality({o \in completing : Precedes(o, id)})
           restored == {id \in gone \ completing : Restorable(s.child[id], AgeAt(id))}
           rec == [id \in Ids |->
             IF id \in completing THEN Terminal(s.child[id], AgeAt(id))
             ELSE IF id \in restored THEN CHOOSE r \in s.child[id].wake : TRUE
             ELSE done[id]]
           kept == Newest(completed \cup completing \cup restored, rec)
<1>1. completing \subseteq Ids /\ restored \subseteq Ids
  BY DEF Ready, Maps
<1>2. ASSUME NEW id \in Ids PROVE AgeAt(id) \in Nat
  <2>1. {o \in completing : Precedes(o, id)} \in SUBSET Ids
    BY <1>1
  <2>2. Cardinality({o \in completing : Precedes(o, id)}) \in Nat
    BY <2>1, CardIds
  <2> QED BY <2>2 DEF TypeOK
<1>3. ASSUME NEW id \in Ids PROVE rec[id] \in Record
  <2>1. s.child[id] \in Child
    BY DEF Ready, Maps
  <2>2. CASE id \in completing
    <3> HIDE DEF completing, AgeAt, restored
    <3> QED BY <1>2, <2>1, <2>2, TerminalType
  <2>3. CASE id \notin completing /\ id \in restored
    <3>1. s.child[id].wake # {} /\ s.child[id].wake \subseteq Record
      BY <2>1, <2>3 DEF Completes, Child
    <3>2. (CHOOSE r \in s.child[id].wake : TRUE) \in Record
      BY <3>1
    <3> HIDE DEF completing, AgeAt, restored
    <3> QED BY <2>3, <3>2
  <2>4. CASE id \notin completing /\ id \notin restored
    <3> HIDE DEF completing, AgeAt, restored
    <3> QED BY <2>4 DEF TypeOK
  <2> QED BY <2>2, <2>3, <2>4
<1>4. done' = [id \in Ids |-> IF id \in kept THEN rec[id] ELSE NoRecord]
  BY DEF Settle
<1>5. nextAge' = nextAge + Cardinality(completing)
  BY DEF Settle
<1>6. presenting' = presenting \cup {<<id, AgeAt(id)>> : id \in completing \cap Addressed}
  BY DEF Settle
<1> HIDE DEF completing, AgeAt, rec, kept
<1>7. done' \in [Ids -> Record]
  BY <1>3, <1>4, NoRecordType
<1>8. nextAge' \in Nat \ {0}
  BY <1>1, <1>5, CardIds DEF TypeOK
<1>9. presenting' \subseteq Ids \X Nat
  BY <1>1, <1>2, <1>6 DEF TypeOK
<1> QED BY <1>7, <1>8, <1>9

\* The lineage, the callers and the waiters stay typed.
LEMMA SettleOthers ==
  ASSUME NEW s, NEW first, NEW ok, NEW sweeps, Ready(s, first), TypeOK,
         Settle(s, first, ok, sweeps)
  PROVE  /\ lineage' \in [Ids -> [root: Sess, chain: SUBSET Ids]]
         /\ runs' \subseteq Ids
         /\ outputs' \in [Ids -> Outputs]
         /\ call' \in [Calls -> CallState]
         /\ waiter' \in [Queries -> SUBSET Ids]
         /\ drainWaiters' \subseteq Scope /\ runWaiters' \subseteq Runs
         /\ published' \subseteq Ids \X Nat
<1>1. PICK started, swept, known : Moves(s, first, started, swept, known)
  BY SettleMoves
<1>2. PICK lost : lineage' = [id \in Ids |-> IF id \in lost THEN NoLineage ELSE s.lineage[id]]
  BY DEF Settle
<1>3. PICK left : waiter' = [q \in Queries |-> waiter[q] \ left]
  BY DEF Settle
<1>4. PICK resolved : call' = [k \in Calls |-> IF k \in resolved THEN "final" ELSE s.call[k]]
  <2> DEFINE gone == first \cup (IF sweeps THEN {id \in s.queued : s.child[id].token} ELSE {})
             R == {k \in Calls : s.call[k] = "waiting" /\ \E id \in gone : k \in s.child[id].reply}
  <2>1. call' = [k \in Calls |-> IF k \in R THEN "final" ELSE s.call[k]]
    BY DEF Settle
  <2> QED BY <2>1
<1>5. lineage' \in [Ids -> [root: Sess, chain: SUBSET Ids]]
  BY <1>2, NoLineageType DEF Ready, Maps
<1>6. runs' \subseteq Ids
  BY <1>1 DEF Moves, Ready, Maps, TypeOK
<1>7. outputs' \in [Ids -> Outputs]
  BY <1>1 DEF Moves, TypeOK, Outputs
<1>8. waiter' \in [Queries -> SUBSET Ids]
  BY <1>3 DEF TypeOK
<1>9. call' \in [Calls -> CallState]
  BY <1>4 DEF Ready, Maps, CallState
<1>10. drainWaiters' \subseteq Scope /\ runWaiters' \subseteq Runs
  <2>1. drainWaiters' \subseteq drainWaiters /\ runWaiters' \subseteq runWaiters
    BY DEF Settle
  <2> QED BY <2>1 DEF TypeOK
<1>11. published' \subseteq Ids \X Nat
  BY DEF Settle, TypeOK
<1> QED BY <1>5, <1>6, <1>7, <1>8, <1>9, <1>10, <1>11

\* A handler that ends in Settle keeps the invariant.
LEMMA SettleInv ==
  ASSUME NEW s, NEW first, NEW ok, NEW sweeps, Ready(s, first), TypeOK,
         Settle(s, first, ok, sweeps)
  PROVE  Inv'
<1>0. drains \subseteq Sess
  BY DEF TypeOK
<1>1. PICK started, swept, known : Moves(s, first, started, swept, known)
  BY SettleMoves
<1>2. /\ queued' \subseteq Ids /\ pending' \subseteq Ids /\ active' \subseteq Ids
      /\ completed' \subseteq Ids /\ graph' \subseteq Ids
  BY <1>1 DEF Moves, Ready, Maps, TypeOK
<1>3. drains' \subseteq blocked' /\ blocked' \subseteq Sess
  BY <1>0, SettleSessions
<1>4. TypeOK'
  BY <1>2, <1>3, SettleChildren, SettleMessages, SettleHistory, SettleOthers DEF TypeOK
<1> QED
  BY <1>0, <1>3, <1>4, SettleOneHome, SettleClosed, SettleNoZombie, SettleInFlight DEF Inv, DrainsClosed

----------------------------------------------------------------------------
(* Handlers that end in Settle.                                            *)

\* The record of a child whose token was cancelled.
Cancelled(e) == [e EXCEPT !.token = TRUE]

\* A cancelled child is otherwise the same.
LEMMA CancelledType ==
  ASSUME NEW e \in Child
  PROVE  Cancelled(e) \in Child /\ Follows(Cancelled(e), e) /\ Cancelled(e).token
  BY DEF Child, Cancelled, Follows, Keeps

\* Cancelling tokens changes nothing else.
LEMMA CancelTokensType ==
  ASSUME NEW c \in [Ids -> Child], NEW S
  PROVE  /\ CancelTokens(c, S) \in [Ids -> Child]
         /\ \A id \in Ids : /\ Follows(CancelTokens(c, S)[id], c[id])
                            /\ id \in S => CancelTokens(c, S)[id].token
<1>1. ASSUME NEW id \in Ids
      PROVE  /\ CancelTokens(c, S)[id] \in Child
             /\ Follows(CancelTokens(c, S)[id], c[id])
             /\ id \in S => CancelTokens(c, S)[id].token
  <2>1. c[id] \in Child
    OBVIOUS
  <2>2. CASE id \in S
    <3>1. CancelTokens(c, S)[id] = Cancelled(c[id])
      BY <2>2 DEF CancelTokens, Cancelled
    <3> QED BY <2>1, <3>1, CancelledType
  <2>3. CASE id \notin S
    <3>1. CancelTokens(c, S)[id] = c[id]
      BY <2>3 DEF CancelTokens
    <3> QED BY <2>1, <2>3, <3>1 DEF Follows, Keeps
  <2> QED BY <2>2, <2>3
<1>2. CancelTokens(c, S) = [id \in Ids |-> CancelTokens(c, S)[id]]
  BY DEF CancelTokens
<1> QED BY <1>1, <1>2

\* Answering parked sends leaves the messages in flight alone.
LEMMA RejectParkedType ==
  ASSUME NEW m \in [Msgs -> MsgState], NEW S
  PROVE  /\ RejectParked(m, S) \in [Msgs -> MsgState]
         /\ \A id : InFlightTo(RejectParked(m, S), id) = InFlightTo(m, id)
  BY DEF RejectParked, MsgState, InFlightTo

\* Answering parked wakes leaves the messages in flight alone.
LEMMA RejectWakesType ==
  ASSUME NEW m \in [Msgs -> MsgState], NEW S
  PROVE  /\ RejectWakes(m, S) \in [Msgs -> MsgState]
         /\ \A id : InFlightTo(RejectWakes(m, S), id) = InFlightTo(m, id)
  BY DEF RejectWakes, MsgState, InFlightTo

\* A handler's override of the maps as they are.
Override(s, c, m, B, W) ==
    /\ s = [f \in {"queued", "pending", "active", "child", "graph", "lineage",
                   "call", "msg", "blocked", "wants", "stops"} |-> s[f]]
    /\ s.queued = queued /\ s.pending = pending /\ s.active = active
    /\ s.graph = graph /\ s.lineage = lineage /\ s.call = call
    /\ s.child = c /\ s.msg = m /\ s.blocked = B /\ s.wants = W

\* Cancelling a set of live children, which closes the sessions in W and in
\* B when the set holds every task child of them.
LEMMA CancelChildrenInv ==
  ASSUME Inv,
         NEW M \in [Msgs -> MsgState], \A id : InFlightTo(M, id) = InFlightTo(msg, id),
         NEW B \in SUBSET Sess, blocked \subseteq B,
         NEW W \in SUBSET Sess,
         NEW ids \in SUBSET Live,
         \A x \in (B \ blocked) \cup W : \A id \in Live :
             child[id].session = x /\ child[id].run = NoRun => id \in ids,
         NEW base, Override(base, child, M, B, W), CancelChildren(base, ids)
  PROVE  Inv'
<1> DEFINE c == CancelTokens(child, ids \ queued)
           m == RejectParked(M, ids \cap pending)
           first == ids \cap queued
           mid == [base EXCEPT !.child = CancelTokens(base.child, ids \ queued),
                               !.msg = RejectParked(base.msg, ids \cap pending)]
           s == [mid EXCEPT !.queued = @ \ first]
<1>0. TypeOK
  BY DEF Inv
<1>1. PICK sweeps : Settle(s, first, {}, sweeps)
  BY DEF CancelChildren, RemoveQueued
<1>f. /\ s.queued = queued \ first /\ s.pending = pending /\ s.active = active
      /\ s.child = c /\ s.graph = graph /\ s.lineage = lineage /\ s.call = call
      /\ s.msg = m /\ s.blocked = B /\ s.wants = W
  BY DEF Override
<1> HIDE DEF s
<1>2. /\ c \in [Ids -> Child]
      /\ \A id \in Ids : /\ Follows(c[id], child[id])
                         /\ id \in ids \ queued => c[id].token
  BY <1>0, CancelTokensType DEF TypeOK
<1>3. m \in [Msgs -> MsgState] /\ \A id : InFlightTo(m, id) = InFlightTo(msg, id)
  BY RejectParkedType
<1> HIDE DEF c, m
<1>4. Maps(s)
  BY <1>f, <1>0, <1>2, <1>3 DEF Maps, TypeOK
<1>5. /\ first \subseteq Ids
      /\ first \cap (s.queued \cup s.pending \cup s.active \cup completed) = {}
      /\ s.queued \cap (s.pending \cup s.active \cup completed) = {}
      /\ s.pending \cap (s.active \cup completed) = {}
      /\ s.active \cap completed = {}
      /\ s.graph = first \cup s.queued \cup s.pending \cup s.active \cup completed
      /\ drains \subseteq s.blocked
  BY <1>f, <1>0 DEF Inv, OneHome, DrainsClosed, TypeOK
<1>6. ASSUME NEW x \in s.blocked \cup s.wants, NEW id \in s.queued \cup s.pending \cup s.active,
             s.child[id].session = x, s.child[id].run = NoRun
      PROVE  s.child[id].token
  <2>1. id \in Live /\ id \in Ids /\ (id \in ids => id \in ids \ queued)
    BY <1>f, <1>0 DEF Live, TypeOK, Inv, OneHome
  <2>2. child[id].session = x /\ child[id].run = NoRun
    BY <1>f, <1>2, <1>6, <2>1 DEF Follows, Keeps
  <2>3. id \in ids \/ child[id].token
    BY <1>f, <2>1, <2>2 DEF Inv, ClosedMeansCancelled
  <2> QED BY <1>f, <1>2, <2>1, <2>3 DEF Follows, Keeps
<1>7. ASSUME NEW id \in Ids
      PROVE  /\ s.child[id].inFlight = Cardinality(InFlightTo(s.msg, id))
             /\ s.child[id].inFlight <= MaxInFlight
             /\ s.child[id].inFlight # 0 => id \in s.active
  <2>1. /\ child[id].inFlight = Cardinality(InFlightTo(msg, id))
        /\ child[id].inFlight <= MaxInFlight
        /\ child[id].inFlight # 0 => id \in active
    BY DEF Inv, InFlightExact, IdleCounts, InFlightTo
  <2> QED BY <1>f, <1>2, <1>3, <2>1 DEF Follows, Keeps
<1>8. /\ s.pending \cup s.active =
            (runs \cup {id \in Ids : outputs[id] # "none"}) \ first
      /\ \A id \in Ids \ first : outputs[id] # "none" =>
            id \in s.active \ runs /\ s.child[id].inFlight > 0 /\ s.child[id].finalizing
  BY <1>f, <1>2 DEF Inv, NoZombieChild, OneHome, Follows, Keeps
<1>9. Ready(s, first)
  BY <1>4, <1>5, <1>6, <1>7, <1>8 DEF Ready
<1> HIDE DEF first
<1> QED BY <1>0, <1>1, <1>9, SettleInv

\* cancel_one keeps the invariant.
LEMMA CancelOneInv ==
  ASSUME Inv, NEW id \in Ids, NEW s \in Sess, CancelOne(id, s)
  PROVE  Inv'
<1>1. Override(Now, child, msg, blocked, {})
  BY DEF Override, Now
<1>2. {id} \in SUBSET Live /\ CancelChildren(Now, {id})
  BY DEF CancelOne
<1>3. msg \in [Msgs -> MsgState] /\ blocked \in SUBSET Sess
  BY DEF Inv, TypeOK
<1> QED BY <1>1, <1>2, <1>3, CancelChildrenInv

\* cancel_parent_prompt keeps the invariant.
LEMMA CancelPromptInv ==
  ASSUME Inv, NEW p \in Prompts, NEW s \in Sess, CancelPrompt(p, s)
  PROVE  Inv'
<1> DEFINE ids == {id \in Live : child[id].session = s /\ child[id].prompt = p}
<1>1. Override(Now, child, msg, blocked, {})
  BY DEF Override, Now
<1>2. ids \in SUBSET Live /\ CancelChildren(Now, ids)
  BY DEF CancelPrompt
<1>3. msg \in [Msgs -> MsgState] /\ blocked \in SUBSET Sess
  BY DEF Inv, TypeOK
<1> HIDE DEF ids
<1> QED BY <1>1, <1>2, <1>3, CancelChildrenInv

\* Stop closes a session and cancels every task child of it at once.
LEMMA CancelSessionInv ==
  ASSUME Inv, NEW s \in Sess, CancelSession(s)
  PROVE  Inv'
<1> DEFINE ids == {id \in Live : child[id].session = s /\ child[id].run = NoRun}
           B == blocked \cup {s}
           base == [Now EXCEPT !.blocked = @ \cup {s}, !.stops = {s}]
<1>1. Override(base, child, msg, B, {})
  BY DEF Override, Now
<1>2. ids \in SUBSET Live /\ CancelChildren(base, ids)
  BY DEF CancelSession
<1>3. msg \in [Msgs -> MsgState] /\ \A id : InFlightTo(msg, id) = InFlightTo(msg, id)
  BY DEF Inv, TypeOK
<1>4. B \in SUBSET Sess /\ blocked \subseteq B
  BY DEF Inv, TypeOK
<1>5. \A x \in (B \ blocked) \cup {} : \A id \in Live :
        child[id].session = x /\ child[id].run = NoRun => id \in ids
  OBVIOUS
<1> HIDE DEF ids, B, base
<1> QED BY <1>1, <1>2, <1>3, <1>4, <1>5, CancelChildrenInv

\* A delete closes its session and cancels every child of it at once.
LEMMA TeardownInv ==
  ASSUME Inv, NEW s \in Sess, NEW responder \in BOOLEAN, Teardown(s, responder)
  PROVE  Inv'
<1> DEFINE ids == {id \in Live : child[id].session = s}
           M == RejectWakes(msg, CompletedOf(s))
           W == IF responder THEN {s} ELSE {}
           base == [Now EXCEPT !.msg = RejectWakes(@, CompletedOf(s)),
                               !.wants = IF responder THEN {s} ELSE {}]
<1>1. Override(base, child, M, blocked, W)
  BY DEF Override, Now
<1>2. ids \in SUBSET Live /\ CancelChildren(base, ids)
  BY DEF Teardown
<1>3. M \in [Msgs -> MsgState] /\ \A id : InFlightTo(M, id) = InFlightTo(msg, id)
  BY RejectWakesType DEF Inv, TypeOK
<1>4. W \in SUBSET Sess /\ blocked \in SUBSET Sess
  BY DEF Inv, TypeOK
<1>5. \A x \in (blocked \ blocked) \cup W : \A id \in Live :
        child[id].session = x /\ child[id].run = NoRun => id \in ids
  OBVIOUS
<1> HIDE DEF ids, M, W, base
<1> QED BY <1>1, <1>2, <1>3, <1>4, <1>5, CancelChildrenInv

\* The record of a child whose caller is gone or was handed off.
HandedOff(e, bg) == [e EXCEPT !.reply = {}, !.deadline = FALSE, !.bg = bg]

\* A handed-off child is otherwise the same.
LEMMA HandedOffType ==
  ASSUME NEW e \in Child, NEW b \in BOOLEAN
  PROVE  HandedOff(e, b) \in Child /\ Follows(HandedOff(e, b), e)
  BY DEF Child, HandedOff, Follows, Keeps

\* The record of a workflow's child whose caller is gone.
Disowned(e) == [e EXCEPT !.reply = {}, !.token = TRUE]

\* A workflow child whose caller is gone is cancelled.
LEMMA DisownedType ==
  ASSUME NEW e \in Child
  PROVE  Disowned(e) \in Child /\ Follows(Disowned(e), e)
  BY DEF Child, Disowned, Follows, Keeps

\* reap_abandoned_callers keeps the invariant.
LEMMA ReapInv ==
  ASSUME Inv, Reap
  PROVE  Inv'
<1> DEFINE after == [id \in Ids |->
              IF ~(id \in Live /\ Abandoned(id)) THEN child[id]
              ELSE IF id \in pending \cup active /\ child[id].run # NoRun
              THEN [child[id] EXCEPT !.reply = {}, !.token = TRUE]
              ELSE [child[id] EXCEPT !.reply = {}, !.deadline = FALSE,
                                     !.bg = id \in pending \cup active]]
           first == {id \in queued : child[id].token}
           base == [Now EXCEPT !.child = after]
           s == [base EXCEPT !.queued = @ \ first]
<1>0. TypeOK
  BY DEF Inv
<1>1. PICK sweeps : Settle(s, first, {}, sweeps)
  BY DEF Reap, RemoveQueued
<1>2. ASSUME NEW id \in Ids
      PROVE  /\ after[id] \in Child
             /\ Follows(after[id], child[id])
  <2>1. child[id] \in Child
    BY <1>0 DEF TypeOK
  <2>2. CASE ~(id \in Live /\ Abandoned(id))
    BY <2>1, <2>2 DEF Follows, Keeps
  <2>3. CASE id \in Live /\ Abandoned(id) /\ id \in pending \cup active /\ child[id].run # NoRun
    <3>1. after[id] = Disowned(child[id])
      BY <2>3 DEF Disowned
    <3> QED BY <2>1, <3>1, DisownedType
  <2>4. CASE id \in Live /\ Abandoned(id) /\ ~(id \in pending \cup active /\ child[id].run # NoRun)
    <3> DEFINE b == id \in pending \cup active
    <3>1. after[id] = HandedOff(child[id], b)
      BY <2>4 DEF HandedOff
    <3>2. b \in BOOLEAN
      OBVIOUS
    <3> HIDE DEF b, after
    <3> QED BY <2>1, <3>1, <3>2, HandedOffType
  <2> QED BY <2>2, <2>3, <2>4
<1>3. after \in [Ids -> Child]
  BY <1>2
<1> HIDE DEF after
<1>f. /\ s.queued = queued \ first /\ s.pending = pending /\ s.active = active
      /\ s.child = after /\ s.graph = graph /\ s.lineage = lineage /\ s.call = call
      /\ s.msg = msg /\ s.blocked = blocked /\ s.wants = {}
  BY DEF Now
<1> HIDE DEF s
<1>4. Maps(s)
  BY <1>f, <1>0, <1>3 DEF Maps, TypeOK
<1>5. /\ first \subseteq Ids
      /\ first \cap (s.queued \cup s.pending \cup s.active \cup completed) = {}
      /\ s.queued \cap (s.pending \cup s.active \cup completed) = {}
      /\ s.pending \cap (s.active \cup completed) = {}
      /\ s.active \cap completed = {}
      /\ s.graph = first \cup s.queued \cup s.pending \cup s.active \cup completed
      /\ drains \subseteq s.blocked
  BY <1>f, <1>0 DEF Inv, OneHome, DrainsClosed, TypeOK
<1>6. ASSUME NEW x \in s.blocked \cup s.wants, NEW id \in s.queued \cup s.pending \cup s.active,
             s.child[id].session = x, s.child[id].run = NoRun
      PROVE  s.child[id].token
  <2>1. id \in Live /\ id \in Ids
    BY <1>f, <1>0 DEF Live, TypeOK
  <2>2. child[id].session = x /\ child[id].run = NoRun
    BY <1>f, <1>2, <1>6, <2>1 DEF Follows, Keeps
  <2>3. child[id].token
    BY <1>f, <2>1, <2>2 DEF Inv, ClosedMeansCancelled
  <2> QED BY <1>f, <1>2, <2>1, <2>3 DEF Follows, Keeps
<1>7. ASSUME NEW id \in Ids
      PROVE  /\ s.child[id].inFlight = Cardinality(InFlightTo(s.msg, id))
             /\ s.child[id].inFlight <= MaxInFlight
             /\ s.child[id].inFlight # 0 => id \in s.active
  <2>1. /\ child[id].inFlight = Cardinality(InFlightTo(msg, id))
        /\ child[id].inFlight <= MaxInFlight
        /\ child[id].inFlight # 0 => id \in active
    BY DEF Inv, InFlightExact, IdleCounts, InFlightTo
  <2> QED BY <1>f, <1>2, <2>1 DEF Follows, Keeps
<1>8. /\ s.pending \cup s.active =
            (runs \cup {id \in Ids : outputs[id] # "none"}) \ first
      /\ \A id \in Ids \ first : outputs[id] # "none" =>
            id \in s.active \ runs /\ s.child[id].inFlight > 0 /\ s.child[id].finalizing
  BY <1>f, <1>2 DEF Inv, NoZombieChild, OneHome, Follows, Keeps
<1>9. Ready(s, first)
  BY <1>4, <1>5, <1>6, <1>7, <1>8 DEF Ready
<1> HIDE DEF first
<1> QED BY <1>0, <1>1, <1>9, SettleInv

\* The messages in flight to a child are finitely many.
LEMMA InFlightFinite ==
  ASSUME NEW m, NEW id
  PROVE  IsFiniteSet(InFlightTo(m, id)) /\ Cardinality(InFlightTo(m, id)) \in Nat
<1>1. InFlightTo(m, id) \subseteq Msgs
  BY DEF InFlightTo
<1>2. IsFiniteSet(InFlightTo(m, id))
  BY <1>1, MsgsAssumption, FS_Subset
<1> QED BY <1>2, FS_CardinalityType

\* A running child leaves: its runner ended, or its last admission did.
LEMMA FinishChildInv ==
  ASSUME Inv, NEW id \in pending \cup active,
         NEW c \in [Ids -> Child], NEW m \in [Msgs -> MsgState],
         \A x \in Ids : /\ c[x].session = child[x].session /\ c[x].run = child[x].run
                        /\ c[x].token = child[x].token /\ c[x].finalizing = child[x].finalizing
                        /\ c[x].inFlight = Cardinality(InFlightTo(m, x))
                        /\ c[x].inFlight <= MaxInFlight,
         \A x \in Ids \ {id} : c[x].inFlight = child[x].inFlight,
         c[id].inFlight = 0,
         NEW base, Override(base, c, m, blocked, {}),
         NEW ok, NEW clean, FinishChild(base, id, ok, clean)
  PROVE  Inv'
<1> DEFINE s == [base EXCEPT !.pending = @ \ {id}, !.active = @ \ {id}]
<1>0. TypeOK
  BY DEF Inv
<1>1. PICK good : Settle(s, {id}, good, TRUE)
  BY DEF FinishChild
<1>f. /\ s.queued = queued /\ s.pending = pending \ {id} /\ s.active = active \ {id}
      /\ s.child = c /\ s.graph = graph /\ s.lineage = lineage /\ s.call = call
      /\ s.msg = m /\ s.blocked = blocked /\ s.wants = {}
  BY DEF Override
<1> HIDE DEF s
<1>4. Maps(s)
  BY <1>f, <1>0 DEF Maps, TypeOK
<1>5. /\ {id} \subseteq Ids
      /\ {id} \cap (s.queued \cup s.pending \cup s.active \cup completed) = {}
      /\ s.queued \cap (s.pending \cup s.active \cup completed) = {}
      /\ s.pending \cap (s.active \cup completed) = {}
      /\ s.active \cap completed = {}
      /\ s.graph = {id} \cup s.queued \cup s.pending \cup s.active \cup completed
      /\ drains \subseteq s.blocked
  BY <1>f, <1>0 DEF Inv, OneHome, DrainsClosed, TypeOK
<1>6. ASSUME NEW x \in s.blocked \cup s.wants, NEW y \in s.queued \cup s.pending \cup s.active,
             s.child[y].session = x, s.child[y].run = NoRun
      PROVE  s.child[y].token
  <2>1. y \in Live /\ y \in Ids
    BY <1>f, <1>0 DEF Live, TypeOK
  <2>2. child[y].session = x /\ child[y].run = NoRun
    BY <1>f, <1>6, <2>1
  <2>3. child[y].token
    BY <1>f, <2>1, <2>2 DEF Inv, ClosedMeansCancelled
  <2> QED BY <1>f, <2>1, <2>3
<1>7. ASSUME NEW x \in Ids
      PROVE  /\ s.child[x].inFlight = Cardinality(InFlightTo(s.msg, x))
             /\ s.child[x].inFlight <= MaxInFlight
             /\ s.child[x].inFlight # 0 => x \in s.active
  BY <1>f DEF Inv, IdleCounts
<1>8. /\ s.pending \cup s.active =
            (runs \cup {x \in Ids : outputs[x] # "none"}) \ {id}
      /\ \A x \in Ids \ {id} : outputs[x] # "none" =>
            x \in s.active \ runs /\ s.child[x].inFlight > 0 /\ s.child[x].finalizing
  BY <1>f DEF Inv, NoZombieChild
<1>9. Ready(s, {id})
  BY <1>4, <1>5, <1>6, <1>7, <1>8 DEF Ready
<1> QED BY <1>0, <1>1, <1>9, SettleInv

\* The end of a runner future keeps the invariant.
LEMMA RunEndsInv ==
  ASSUME Inv, NEW id \in Ids, NEW ok \in BOOLEAN, RunEnds(id, ok), ~HoldOutput(id, ok)
  PROVE  Inv'
<1>1. /\ id \in runs /\ (id \in active => child[id].inFlight = 0)
      /\ FinishChild(Now, id, ok, child[id].clean)
  BY DEF RunEnds
<1>2. id \in pending \cup active
  BY <1>1 DEF Inv, NoZombieChild
<1>3. child[id].inFlight = 0
  BY <1>1 DEF Inv, IdleCounts
<1>4. child \in [Ids -> Child] /\ msg \in [Msgs -> MsgState]
  BY DEF Inv, TypeOK
<1>5. \A x \in Ids : /\ child[x].inFlight = Cardinality(InFlightTo(msg, x))
                     /\ child[x].inFlight <= MaxInFlight
  BY DEF Inv, InFlightExact, InFlightTo
<1>6. Override(Now, child, msg, blocked, {})
  BY DEF Override, Now
<1> QED BY <1>1, <1>2, <1>3, <1>4, <1>5, <1>6, FinishChildInv

\* The record of a child after one of its admissions ended.
Settled(e, proven) == [e EXCEPT !.inFlight = @ - 1, !.clean = @ /\ proven]

\* An ended admission is taken off the counter, which was not zero.
LEMMA SettledType ==
  ASSUME NEW e \in Child, e.inFlight # 0, NEW b \in BOOLEAN
  PROVE  /\ Settled(e, b) \in Child
         /\ Settled(e, b).session = e.session
         /\ Settled(e, b).run = e.run
         /\ Settled(e, b).token = e.token
         /\ Settled(e, b).finalizing = e.finalizing
         /\ Settled(e, b).inFlight = e.inFlight - 1
<1> DEFINE n == e.inFlight - 1
           k == e.clean /\ b
<1>1. n \in Nat
  BY DEF Child
<1>2. k \in BOOLEAN
  BY DEF Child
<1>3. Settled(e, b) = [e EXCEPT !.inFlight = n, !.clean = k]
  BY DEF Settled
<1>4. n = e.inFlight - 1
  OBVIOUS
<1> HIDE DEF n, k
<1>5. /\ Settled(e, b) \in Child /\ Settled(e, b).inFlight = n
      /\ Settled(e, b).session = e.session /\ Settled(e, b).run = e.run
      /\ Settled(e, b).token = e.token /\ Settled(e, b).finalizing = e.finalizing
  BY <1>1, <1>2, <1>3 DEF Child
<1> QED BY <1>4, <1>5

\* An answered message is no longer counted.
LEMMA AnsweredCount ==
  ASSUME NEW f \in [Msgs -> MsgState], NEW m \in Msgs, f[m] = "inflight",
         NEW to \in MsgState, to # "inflight"
  PROVE  /\ [f EXCEPT ![m] = to] \in [Msgs -> MsgState]
         /\ \A x : x # To(m) => InFlightTo([f EXCEPT ![m] = to], x) = InFlightTo(f, x)
         /\ Cardinality(InFlightTo([f EXCEPT ![m] = to], To(m)))
               = Cardinality(InFlightTo(f, To(m))) - 1
         /\ Cardinality(InFlightTo(f, To(m))) # 0
<1>1. InFlightTo([f EXCEPT ![m] = to], To(m)) = InFlightTo(f, To(m)) \ {m}
  BY DEF InFlightTo
<1>2. m \in InFlightTo(f, To(m)) /\ IsFiniteSet(InFlightTo(f, To(m)))
  BY InFlightFinite DEF InFlightTo
<1>3. Cardinality(InFlightTo(f, To(m)) \ {m}) = Cardinality(InFlightTo(f, To(m))) - 1
  BY <1>2, FS_RemoveElement
<1>4. Cardinality(InFlightTo(f, To(m))) # 0
  BY <1>2, FS_EmptySet
<1>5. \A x : x # To(m) => InFlightTo([f EXCEPT ![m] = to], x) = InFlightTo(f, x)
  BY DEF InFlightTo
<1>6. [f EXCEPT ![m] = to] \in [Msgs -> MsgState]
  OBVIOUS
<1>7. Cardinality(InFlightTo([f EXCEPT ![m] = to], To(m))) = Cardinality(InFlightTo(f, To(m))) - 1
  BY <1>1, <1>3
<1> QED BY <1>4, <1>5, <1>6, <1>7

\* Every message is addressed to an id.
LEMMA ToType == \A m \in Msgs : To(m) \in Ids
  BY MessageAssumption DEF To

\* finish_active_message keeps the invariant: its checked_sub cannot
\* underflow, and the last admission of a held-back child finishes it.
LEMMA AdmissionDoneInv ==
  ASSUME Inv, NEW m \in Msgs, NEW outcome \in {"accepted", "rejected", "uncertain"},
         AdmissionDone(m, outcome)
  PROVE  Inv'
<1> DEFINE id == To(m)
           after == [child EXCEPT ![id].inFlight = @ - 1,
                                  ![id].clean = @ /\ outcome # "uncertain"]
           proven == outcome # "uncertain"
           last == after[id].inFlight = 0 /\ outputs[id] # "none"
           answered == [msg EXCEPT ![m] = outcome]
<1>0. TypeOK
  BY DEF Inv
<1>1. id \in Ids /\ child[id] \in Child
  BY <1>0, ToType DEF TypeOK
<1>2. msg[m] = "inflight"
  BY DEF AdmissionDone
<1>3. /\ answered \in [Msgs -> MsgState]
      /\ \A x : x # id => InFlightTo(answered, x) = InFlightTo(msg, x)
      /\ Cardinality(InFlightTo(answered, id)) = Cardinality(InFlightTo(msg, id)) - 1
      /\ Cardinality(InFlightTo(msg, id)) # 0
  <2>1. msg \in [Msgs -> MsgState] /\ outcome \in MsgState /\ outcome # "inflight"
    BY <1>0 DEF TypeOK, MsgState
  <2> QED BY <1>2, <2>1, AnsweredCount
<1>4. \A x \in Ids : /\ child[x].inFlight = Cardinality(InFlightTo(msg, x))
                     /\ child[x].inFlight <= MaxInFlight
  BY DEF Inv, InFlightExact, InFlightTo
<1>5. child[id].inFlight # 0 /\ id \in active
  BY <1>1, <1>3, <1>4 DEF Inv, IdleCounts
<1>6. after[id] = Settled(child[id], proven) /\ proven \in BOOLEAN
  BY <1>0, <1>1 DEF Settled, TypeOK
<1>7. \A x \in Ids \ {id} : after[x] = child[x]
  BY <1>0 DEF TypeOK
<1>8. /\ after[id] \in Child /\ after[id].session = child[id].session
      /\ after[id].run = child[id].run /\ after[id].token = child[id].token
      /\ after[id].finalizing = child[id].finalizing
      /\ after[id].inFlight = child[id].inFlight - 1
  <2> HIDE DEF after, proven
  <2> QED BY <1>1, <1>5, <1>6, SettledType
<1>9. after \in [Ids -> Child]
  BY <1>0, <1>7, <1>8 DEF TypeOK
<1> HIDE DEF after, answered
<1>10. \A x \in Ids : /\ after[x].session = child[x].session /\ after[x].run = child[x].run
                      /\ after[x].token = child[x].token
                      /\ after[x].finalizing = child[x].finalizing
  BY <1>7, <1>8
<1>11. ASSUME NEW x \in Ids
       PROVE  /\ after[x].inFlight = Cardinality(InFlightTo(answered, x))
              /\ after[x].inFlight <= MaxInFlight
  <2>1. CASE x = id
    BY <1>1, <1>3, <1>4, <1>8, <2>1, LimitAssumption DEF Child
  <2>2. CASE x # id
    BY <1>3, <1>4, <1>7, <2>2
  <2> QED BY <2>1, <2>2
<1>12. CASE last
  <2> DEFINE base == [Now EXCEPT !.child = after, !.msg = answered]
  <2>1. FinishChild(base, id, outputs[id] = "success", after[id].clean)
    BY <1>12 DEF AdmissionDone, after, answered
  <2>2. Override(base, after, answered, blocked, {})
    BY DEF Override, Now
  <2>3. after[id].inFlight = 0 /\ id \in pending \cup active
    BY <1>5, <1>12
  <2> HIDE DEF base, id
  <2> QED BY <1>3, <1>7, <1>9, <1>10, <1>11, <2>1, <2>2, <2>3, FinishChildInv
<1>13. CASE ~last
  <2>1. /\ child' = after /\ msg' = answered
        /\ UNCHANGED <<queued, pending, active, completed, done, nextAge,
                       graph, lineage, runs, outputs, blocked, drains, call,
                       waiter, drainWaiters, runWaiters, presenting, published>>
    BY <1>13 DEF AdmissionDone, after, answered
  <2>2. TypeOK'
    BY <1>0, <1>3, <1>9, <2>1 DEF TypeOK
  <2>3. OneHome' /\ DrainsClosed'
    BY <2>1 DEF Inv, OneHome, DrainsClosed
  <2>4. ClosedMeansCancelled'
    BY <1>0, <1>10, <2>1 DEF Inv, ClosedMeansCancelled, Live, TypeOK
  <2>5. InFlightExact' /\ IdleCounts'
    <3>1. InFlightExact'
      BY <1>11, <2>1 DEF InFlightExact, InFlightTo
    <3>2. IdleCounts'
      BY <1>5, <1>7, <2>1 DEF Inv, IdleCounts
    <3> QED BY <3>1, <3>2
  <2>6. NoZombieChild'
    <3>1. ASSUME NEW x \in Ids, outputs[x] # "none"
          PROVE  x \in active \ runs /\ after[x].inFlight > 0 /\ after[x].finalizing
      <4>1. x \in active \ runs /\ child[x].inFlight > 0 /\ child[x].finalizing
        BY <3>1 DEF Inv, NoZombieChild
      <4>2. after[x].inFlight \in Nat
        BY <1>9 DEF Child
      <4>3. CASE x = id
        BY <1>10, <1>13, <3>1, <4>1, <4>2, <4>3
      <4>4. CASE x # id
        BY <1>7, <4>1, <4>4
      <4> QED BY <4>3, <4>4
    <3> QED BY <2>1, <3>1 DEF Inv, NoZombieChild
  <2> QED BY <2>2, <2>3, <2>4, <2>5, <2>6 DEF Inv
<1> QED BY <1>12, <1>13

----------------------------------------------------------------------------
(* Spawns.                                                                 *)

\* SpawnedChild as a function of what it reads.
Filled(x, run, r, K) ==
    [NoChild EXCEPT !.session = x, !.run = run, !.prompt = r.prompt,
                    !.background = r.background, !.defbg = r.defbg,
                    !.reply = K, !.deadline = r.awaits /\ ~r.background]

\* A spawn makes a child record.
LEMMA FilledType ==
  ASSUME NEW x \in Sess, NEW run \in Runs \cup {NoRun}, NEW r \in SpawnRequest,
         NEW K \in SUBSET Calls
  PROVE  /\ Filled(x, run, r, K) \in Child
         /\ Filled(x, run, r, K).session = x
         /\ Filled(x, run, r, K).run = run
         /\ Filled(x, run, r, K).inFlight = 0
<1> DEFINE d == r.awaits /\ ~r.background
           p == r.prompt
           b == r.background
           db == r.defbg
<1>1. p \in Prompts \cup {NoPrompt} /\ b \in BOOLEAN /\ db \in BOOLEAN
  BY DEF SpawnRequest
<1>2. d \in BOOLEAN
  OBVIOUS
<1>3. NoChild \in Child /\ NoChild.inFlight = 0
  BY NoChildType DEF NoChild
<1>4. Filled(x, run, r, K) = [NoChild EXCEPT !.session = x, !.run = run, !.prompt = p,
                                !.background = b, !.defbg = db, !.reply = K, !.deadline = d]
  BY DEF Filled
<1> HIDE DEF d, p, b, db
<1> QED BY <1>1, <1>2, <1>3, <1>4 DEF Child

\* handle_spawn makes typed records.
LEMMA SpawnedType ==
  ASSUME TypeOK, NEW k \in Calls
  PROVE  /\ Request[k].id \in Ids
         /\ SpawnedChild(k) \in Child
         /\ SpawnedChild(k).session = SpawnSession(k)
         /\ SpawnedChild(k).run = SpawnRun(k)
         /\ SpawnedChild(k).inFlight = 0
         /\ SpawnLineage(k) \in [root: Sess, chain: SUBSET Ids]
<1> DEFINE r == Request[k]
<1>1. r \in SpawnRequest
  BY RequestAssumption
<1>2. r.id \in Ids /\ r.parent \in Sess /\ r.run \in Runs \cup {NoRun}
  BY <1>1 DEF SpawnRequest
<1>3. Nested(k) => r.parent \in Ids /\ child[r.parent] \in Child
                   /\ lineage[r.parent] \in [root: Sess, chain: SUBSET Ids]
  BY DEF Nested, TypeOK
<1>4. SpawnSession(k) \in Sess /\ SpawnRun(k) \in Runs \cup {NoRun}
  BY <1>2, <1>3 DEF SpawnSession, SpawnRun, Child
<1>5. SpawnLineage(k) \in [root: Sess, chain: SUBSET Ids]
  BY <1>3, <1>4 DEF SpawnLineage
<1>6. SpawnedChild(k) = Filled(SpawnSession(k), SpawnRun(k), r, {k})
  BY DEF SpawnedChild, Filled
<1>7. {k} \in SUBSET Calls
  OBVIOUS
<1> HIDE DEF r
<1>8. /\ SpawnedChild(k) \in Child
      /\ SpawnedChild(k).session = SpawnSession(k)
      /\ SpawnedChild(k).run = SpawnRun(k)
      /\ SpawnedChild(k).inFlight = 0
  BY <1>1, <1>4, <1>6, <1>7, FilledType
<1> QED BY <1>2, <1>5, <1>8 DEF r

\* An id that is not live has no message in flight and no output held back.
LEMMA NotLive ==
  ASSUME Inv, NEW id \in Ids, id \notin active
  PROVE  /\ InFlightTo(msg, id) = {}
         /\ outputs[id] = "none"
<1>1. child[id].inFlight = 0 /\ child[id].inFlight = Cardinality(InFlightTo(msg, id))
  BY DEF Inv, IdleCounts, InFlightExact, InFlightTo
<1>2. InFlightTo(msg, id) = {}
  BY <1>1, InFlightFinite, FS_EmptySet
<1>3. outputs[id] = "none"
  BY DEF Inv, NoZombieChild
<1> QED BY <1>2, <1>3

\* A spawn refused at the limit is finished at once.
LEMMA SpawnOverLimitInv ==
  ASSUME Inv, NEW k \in Calls, SpawnOverLimit(k)
  PROVE  Inv'
<1> DEFINE id == Request[k].id
           s == [Now EXCEPT !.call[k] = "waiting",
                            !.child[id] = SpawnedChild(k),
                            !.graph = @ \cup {id},
                            !.lineage[id] = SpawnLineage(k)]
<1>0. TypeOK
  BY DEF Inv
<1>1. Settle(s, {id}, {}, TRUE)
  BY DEF SpawnOverLimit
<1>2. /\ id \in Ids /\ SpawnedChild(k) \in Child /\ SpawnedChild(k).inFlight = 0
      /\ SpawnLineage(k) \in [root: Sess, chain: SUBSET Ids]
  BY <1>0, SpawnedType
<1>3. id \notin Live /\ id \notin completed
  BY DEF SpawnOverLimit, SpawnRefused
<1>f. /\ s.queued = queued /\ s.pending = pending /\ s.active = active
      /\ s.child = [child EXCEPT ![id] = SpawnedChild(k)]
      /\ s.graph = graph \cup {id}
      /\ s.lineage = [lineage EXCEPT ![id] = SpawnLineage(k)]
      /\ s.call = [call EXCEPT ![k] = "waiting"]
      /\ s.msg = msg /\ s.blocked = blocked /\ s.wants = {}
  BY DEF Now
<1> HIDE DEF s, id
<1>4. Maps(s)
  BY <1>f, <1>0, <1>2 DEF Maps, TypeOK, CallState
<1>5. /\ {id} \subseteq Ids
      /\ {id} \cap (s.queued \cup s.pending \cup s.active \cup completed) = {}
      /\ s.queued \cap (s.pending \cup s.active \cup completed) = {}
      /\ s.pending \cap (s.active \cup completed) = {}
      /\ s.active \cap completed = {}
      /\ s.graph = {id} \cup s.queued \cup s.pending \cup s.active \cup completed
      /\ drains \subseteq s.blocked
  BY <1>f, <1>2, <1>3 DEF Inv, OneHome, DrainsClosed, Live
<1>6. \A y \in Ids \ {id} : s.child[y] = child[y]
  BY <1>f, <1>0 DEF TypeOK
<1>7. ASSUME NEW x \in s.blocked \cup s.wants, NEW y \in s.queued \cup s.pending \cup s.active,
             s.child[y].session = x, s.child[y].run = NoRun
      PROVE  s.child[y].token
  <2>1. y \in Live /\ y \in Ids \ {id}
    BY <1>f, <1>0, <1>3 DEF Live, TypeOK
  <2> QED BY <1>f, <1>6, <1>7, <2>1 DEF Inv, ClosedMeansCancelled
<1>8. ASSUME NEW x \in Ids
      PROVE  /\ s.child[x].inFlight = Cardinality(InFlightTo(s.msg, x))
             /\ s.child[x].inFlight <= MaxInFlight
             /\ s.child[x].inFlight # 0 => x \in s.active
  <2>1. CASE x = id
    <3>1. s.child[x].inFlight = 0
      BY <1>f, <1>0, <1>2, <2>1 DEF TypeOK
    <3>2. Cardinality(InFlightTo(msg, x)) = 0
      BY <1>3, <2>1, NotLive, FS_EmptySet DEF Live
    <3> QED BY <1>f, <3>1, <3>2, LimitAssumption
  <2>2. CASE x # id
    BY <1>f, <1>6, <2>2 DEF Inv, IdleCounts, InFlightExact, InFlightTo
  <2> QED BY <2>1, <2>2
<1>9. /\ s.pending \cup s.active =
            (runs \cup {x \in Ids : outputs[x] # "none"}) \ {id}
      /\ \A x \in Ids \ {id} : outputs[x] # "none" =>
            x \in s.active \ runs /\ s.child[x].inFlight > 0 /\ s.child[x].finalizing
  BY <1>f, <1>3, <1>6 DEF Inv, NoZombieChild, Live
<1>10. Ready(s, {id})
  BY <1>4, <1>5, <1>7, <1>8, <1>9 DEF Ready
<1> QED BY <1>0, <1>1, <1>10, SettleInv

\* A new record in the queue or the pending map.
LEMMA NewEntryInv ==
  ASSUME Inv, TypeOK', NEW id \in Ids, id \notin Live, NEW e,
         e.inFlight = 0, e.run = NoRun => e.session \notin blocked,
         child' = [child EXCEPT ![id] = e],
         \/ queued' = queued \cup {id} /\ pending' = pending /\ runs' = runs
         \/ queued' = queued /\ pending' = pending \cup {id} /\ runs' = runs \cup {id},
         completed' = completed \ {id}, graph' = graph \cup {id},
         UNCHANGED <<active, outputs, blocked, drains>>,
         \A x : InFlightTo(msg', x) = InFlightTo(msg, x)
  PROVE  Inv'
<1>0. child \in [Ids -> Child] /\ queued \cup pending \cup active \subseteq Ids
  BY DEF Inv, TypeOK
<1>1. child'[id] = e /\ \A x \in Ids \ {id} : child'[x] = child[x]
  BY <1>0
<1>2. OneHome' /\ DrainsClosed'
  BY DEF Inv, OneHome, DrainsClosed, Live
<1>3. ClosedMeansCancelled'
  <2> SUFFICES ASSUME NEW x \in blocked', NEW y \in Live',
                      child'[y].session = x, child'[y].run = NoRun
               PROVE  child'[y].token
    BY DEF ClosedMeansCancelled
  <2>1. y # id
    BY <1>1
  <2>2. y \in Live /\ y \in Ids
    BY <1>0, <2>1 DEF Live
  <2> QED BY <1>1, <2>1, <2>2 DEF Inv, ClosedMeansCancelled
<1>4. ASSUME NEW x \in Ids
      PROVE  /\ child'[x].inFlight = Cardinality(InFlightTo(msg', x))
             /\ child'[x].inFlight <= MaxInFlight
             /\ child'[x].inFlight # 0 => x \in active'
  <2>1. CASE x = id
    <3>1. Cardinality(InFlightTo(msg, x)) = 0
      BY <2>1, NotLive, FS_EmptySet DEF Live
    <3> QED BY <1>1, <2>1, <3>1, LimitAssumption
  <2>2. CASE x # id
    BY <1>1, <2>2 DEF Inv, IdleCounts, InFlightExact, InFlightTo
  <2> QED BY <2>1, <2>2
<1>5. InFlightExact' /\ IdleCounts'
  BY <1>4 DEF InFlightExact, IdleCounts, InFlightTo
<1>6. NoZombieChild'
  <2>1. outputs[id] = "none"
    BY NotLive DEF Live
  <2> QED BY <1>1, <2>1 DEF Inv, NoZombieChild
<1> QED BY <1>2, <1>3, <1>5, <1>6 DEF Inv

\* A spawn that starts keeps the invariant.
LEMMA SpawnStartInv ==
  ASSUME Inv, NEW k \in Calls, SpawnStart(k)
  PROVE  Inv'
<1> DEFINE id == Request[k].id
           e == Launched(SpawnedChild(k))
<1>0. TypeOK
  BY DEF Inv
<1>1. /\ id \in Ids /\ SpawnedChild(k) \in Child
      /\ SpawnedChild(k).session = SpawnSession(k) /\ SpawnedChild(k).run = SpawnRun(k)
      /\ SpawnedChild(k).inFlight = 0
      /\ SpawnLineage(k) \in [root: Sess, chain: SUBSET Ids]
  BY <1>0, SpawnedType
<1>2. /\ e \in Child /\ e.session = SpawnSession(k) /\ e.run = SpawnRun(k)
      /\ e.inFlight = 0
  BY <1>1, LaunchedType DEF Follows, Keeps
<1>3. /\ id \notin Live /\ id \notin completed
      /\ e.run = NoRun => e.session \notin blocked
  BY <1>2 DEF SpawnStart, SpawnRefused
<1>4. /\ child' = [child EXCEPT ![id] = e]
      /\ queued' = queued /\ pending' = pending \cup {id} /\ runs' = runs \cup {id}
      /\ graph' = graph \cup {id} /\ lineage' = [lineage EXCEPT ![id] = SpawnLineage(k)]
      /\ call' = [call EXCEPT ![k] = "waiting"]
      /\ drainWaiters' \subseteq drainWaiters
      /\ UNCHANGED <<active, completed, done, nextAge, outputs, blocked, drains, waiter,
                     runWaiters, msg, presenting, published>>
  BY DEF SpawnStart, ResolveDrainWaiters
<1> HIDE DEF id, e
<1>5. TypeOK'
  BY <1>0, <1>1, <1>2, <1>4 DEF TypeOK, CallState
<1>6. completed' = completed \ {id}
  BY <1>3, <1>4
<1> QED BY <1>1, <1>2, <1>3, <1>4, <1>5, <1>6, NewEntryInv

\* An entry that joins the queue behind the ones in it.
Behind(e, q) == [e EXCEPT !.ahead = q]

\* A queue entry is otherwise the same record.
LEMMA BehindType ==
  ASSUME NEW e \in Child, NEW q \in SUBSET Ids
  PROVE  Behind(e, q) \in Child /\ Follows(Behind(e, q), e)
  BY DEF Child, Behind, Follows, Keeps

\* A spawn that queues keeps the invariant.
LEMMA SpawnEnqueueInv ==
  ASSUME Inv, NEW k \in Calls, SpawnEnqueue(k)
  PROVE  Inv'
<1> DEFINE id == Request[k].id
           e == Behind(SpawnedChild(k), queued)
<1>0. TypeOK /\ queued \in SUBSET Ids
  BY DEF Inv, TypeOK
<1>1. /\ id \in Ids /\ SpawnedChild(k) \in Child
      /\ SpawnedChild(k).session = SpawnSession(k) /\ SpawnedChild(k).run = SpawnRun(k)
      /\ SpawnedChild(k).inFlight = 0
      /\ SpawnLineage(k) \in [root: Sess, chain: SUBSET Ids]
  BY <1>0, SpawnedType
<1>2. /\ e \in Child /\ e.session = SpawnSession(k) /\ e.run = SpawnRun(k)
      /\ e.inFlight = 0
  BY <1>0, <1>1, BehindType DEF Follows, Keeps
<1>3. /\ id \notin Live /\ id \notin completed
      /\ e.run = NoRun => e.session \notin blocked
  BY <1>2 DEF SpawnEnqueue, SpawnRefused
<1>4. /\ child' = [child EXCEPT ![id] = e]
      /\ queued' = queued \cup {id} /\ pending' = pending /\ runs' = runs
      /\ graph' = graph \cup {id} /\ lineage' = [lineage EXCEPT ![id] = SpawnLineage(k)]
      /\ call' = [call EXCEPT ![k] = "waiting"]
      /\ drainWaiters' \subseteq drainWaiters
      /\ UNCHANGED <<active, completed, done, nextAge, outputs, blocked, drains, waiter,
                     runWaiters, msg, presenting, published>>
  BY DEF SpawnEnqueue, ResolveDrainWaiters, Behind
<1> HIDE DEF id, e
<1>5. TypeOK'
  BY <1>0, <1>1, <1>2, <1>4 DEF TypeOK, CallState
<1>6. completed' = completed \ {id}
  BY <1>3, <1>4
<1> QED BY <1>1, <1>2, <1>3, <1>4, <1>5, <1>6, NewEntryInv

----------------------------------------------------------------------------
(* Steps that move no child between the maps.                              *)

\* A step that leaves the maps alone, and records and messages in flight as
\* they were or later, keeps the invariant.
LEMMA QuietInv ==
  ASSUME Inv, TypeOK',
         UNCHANGED <<queued, pending, active, completed, graph, runs, outputs>>,
         blocked' \subseteq blocked, drains' \subseteq blocked',
         \A id \in Ids : Follows(child'[id], child[id]),
         \A id : InFlightTo(msg', id) = InFlightTo(msg, id)
  PROVE  Inv'
<1>1. OneHome' /\ DrainsClosed'
  BY DEF Inv, OneHome, DrainsClosed
<1>2. ClosedMeansCancelled'
  <2> SUFFICES ASSUME NEW x \in blocked', NEW id \in Live',
                      child'[id].session = x, child'[id].run = NoRun
               PROVE  child'[id].token
    BY DEF ClosedMeansCancelled
  <2>1. id \in Live /\ id \in Ids /\ x \in blocked
    BY DEF Live, Inv, TypeOK
  <2>2. Follows(child'[id], child[id])
    BY <2>1
  <2> QED BY <2>1, <2>2 DEF Inv, ClosedMeansCancelled, Follows, Keeps
<1>3. InFlightExact' /\ IdleCounts'
  <2>1. ASSUME NEW id \in Ids
        PROVE  /\ child'[id].inFlight = Cardinality(InFlightTo(msg', id))
               /\ child'[id].inFlight <= MaxInFlight
               /\ child'[id].inFlight # 0 => id \in active'
    <3>1. child'[id].inFlight = child[id].inFlight
      BY DEF Follows, Keeps
    <3>2. /\ child[id].inFlight = Cardinality(InFlightTo(msg, id))
          /\ child[id].inFlight <= MaxInFlight
          /\ child[id].inFlight # 0 => id \in active
      BY DEF Inv, InFlightExact, IdleCounts, InFlightTo
    <3> QED BY <3>1, <3>2
  <2> QED BY <2>1 DEF InFlightExact, IdleCounts, InFlightTo
<1>4. NoZombieChild'
  BY DEF Inv, NoZombieChild, Follows, Keeps
<1> QED BY <1>1, <1>2, <1>3, <1>4 DEF Inv

\* The same with every child record as it was.
LEMMA StillInv ==
  ASSUME Inv, TypeOK',
         UNCHANGED <<queued, pending, active, completed, graph, runs, outputs, child>>,
         blocked' \subseteq blocked, drains' \subseteq blocked',
         \A id : InFlightTo(msg', id) = InFlightTo(msg, id)
  PROVE  Inv'
<1>1. \A id \in Ids : Follows(child'[id], child[id])
  BY DEF Follows, Keeps
<1> QED BY <1>1, QuietInv

\* A spawn in the mailbox, and a refused one, keeps the invariant.
LEMMA CallerInv ==
  ASSUME Inv, NEW k \in Calls, CallSpawn(k) \/ SpawnReject(k)
  PROVE  Inv'
<1>1. /\ UNCHANGED <<queued, pending, active, completed, child, done, nextAge,
                     graph, lineage, runs, outputs, blocked, drains, waiter,
                     drainWaiters, runWaiters, msg, presenting, published>>
      /\ \E x \in CallState : call' = [call EXCEPT ![k] = x]
  BY DEF CallSpawn, SpawnReject, CallState
<1>2. TypeOK'
  BY <1>1 DEF Inv, TypeOK
<1>3. blocked' \subseteq blocked /\ drains' \subseteq blocked'
  BY <1>1 DEF Inv, DrainsClosed
<1> QED BY <1>1, <1>2, <1>3, StillInv

\* A caller that stops waiting keeps the invariant.
LEMMA DropCallerInv ==
  ASSUME Inv, NEW k \in Calls, DropCaller(k)
  PROVE  Inv'
<1>0. child \in [Ids -> Child]
  BY DEF Inv, TypeOK
<1>1. /\ UNCHANGED <<queued, pending, active, completed, done, nextAge,
                     graph, lineage, runs, outputs, blocked, drains, waiter,
                     drainWaiters, runWaiters, msg, presenting, published>>
      /\ call' = [call EXCEPT ![k] = "gone"]
      /\ \E S : child' = CancelTokens(child, S)
  BY DEF DropCaller
<1>2. child' \in [Ids -> Child] /\ \A x \in Ids : Follows(child'[x], child[x])
  BY <1>0, <1>1, CancelTokensType
<1>3. TypeOK'
  BY <1>1, <1>2 DEF Inv, TypeOK, CallState
<1>4. blocked' \subseteq blocked /\ drains' \subseteq blocked'
  BY <1>1 DEF Inv, DrainsClosed
<1> QED BY <1>1, <1>2, <1>3, <1>4, QuietInv

\* A token cancelled out of band keeps the invariant.
LEMMA RevokeTokenInv ==
  ASSUME Inv, NEW id \in Ids, RevokeToken(id)
  PROVE  Inv'
<1>0. child \in [Ids -> Child]
  BY DEF Inv, TypeOK
<1>1. /\ UNCHANGED <<queued, pending, active, completed, done, nextAge,
                     graph, lineage, runs, outputs, blocked, drains, call, waiter,
                     drainWaiters, runWaiters, msg, presenting, published>>
      /\ child' = CancelTokens(child, {id})
  BY DEF RevokeToken
<1>2. child' \in [Ids -> Child] /\ \A x \in Ids : Follows(child'[x], child[x])
  BY <1>0, <1>1, CancelTokensType
<1>3. TypeOK'
  BY <1>1, <1>2 DEF Inv, TypeOK
<1>4. blocked' \subseteq blocked /\ drains' \subseteq blocked'
  BY <1>1 DEF Inv, DrainsClosed
<1> QED BY <1>1, <1>2, <1>3, <1>4, QuietInv

\* cancel_workflow_children keeps the invariant.
LEMMA CancelWorkflowInv ==
  ASSUME Inv, NEW r \in Runs, CancelWorkflow(r)
  PROVE  Inv'
<1>0. child \in [Ids -> Child] /\ msg \in [Msgs -> MsgState]
  BY DEF Inv, TypeOK
<1>1. /\ UNCHANGED <<queued, pending, active, completed, done, nextAge,
                     graph, lineage, runs, outputs, blocked, drains, call, waiter,
                     drainWaiters, presenting, published>>
      /\ runWaiters' = runWaiters \cup {r}
      /\ \E S, T : child' = CancelTokens(child, S) /\ msg' = RejectParked(msg, T)
  BY DEF CancelWorkflow
<1>2. child' \in [Ids -> Child] /\ \A x \in Ids : Follows(child'[x], child[x])
  BY <1>0, <1>1, CancelTokensType
<1>3. msg' \in [Msgs -> MsgState] /\ \A x : InFlightTo(msg', x) = InFlightTo(msg, x)
  BY <1>0, <1>1, RejectParkedType
<1>4. TypeOK'
  BY <1>1, <1>2, <1>3 DEF Inv, TypeOK
<1>5. blocked' \subseteq blocked /\ drains' \subseteq blocked'
  BY <1>1 DEF Inv, DrainsClosed
<1> QED BY <1>1, <1>2, <1>3, <1>4, <1>5, QuietInv

\* Reopening a session, by the next turn or the backstop of a delete, keeps
\* the invariant.
LEMMA OpenSpawnAdmissionInv ==
  ASSUME Inv, NEW s \in Sess, OpenSpawnAdmission(s) \/ TeardownDeadline(s)
  PROVE  Inv'
<1>1. /\ UNCHANGED <<queued, pending, active, completed, child, done, nextAge,
                     graph, lineage, runs, outputs, call, waiter,
                     drainWaiters, runWaiters, msg, presenting, published>>
      /\ blocked' = blocked \ {s} /\ drains' = drains \ {s}
  BY DEF OpenSpawnAdmission, TeardownDeadline
<1>2. TypeOK'
  BY <1>1 DEF Inv, TypeOK
<1>3. blocked' \subseteq blocked /\ drains' \subseteq blocked'
  BY <1>1 DEF Inv, DrainsClosed
<1> QED BY <1>1, <1>2, <1>3, StillInv

\* Blocking reads and their deadlines keep the invariant.
LEMMA WaiterInv ==
  ASSUME Inv, \/ \E q \in Queries, id \in Ids, s \in Sess : Query(q, id, s)
              \/ \E scope \in Scope : WaitPromptDrained(scope)
              \/ \E q \in Queries : WaiterDeadline(q)
  PROVE  Inv'
<1>1. /\ UNCHANGED <<queued, pending, active, completed, child, done, nextAge,
                     graph, lineage, runs, outputs, blocked, drains, call,
                     runWaiters, msg, presenting, published>>
      /\ drainWaiters' \subseteq Scope /\ waiter' \in [Queries -> SUBSET Ids]
  BY DEF Query, WaitPromptDrained, WaiterDeadline, Inv, TypeOK
<1>2. TypeOK'
  BY <1>1 DEF Inv, TypeOK
<1>3. blocked' \subseteq blocked /\ drains' \subseteq blocked'
  BY <1>1 DEF Inv, DrainsClosed
<1> QED BY <1>1, <1>2, <1>3, StillInv

----------------------------------------------------------------------------
(* Runners and messages.                                                   *)

\* A record whose counter of messages in flight was set.
Counted(e, n) == [e EXCEPT !.inFlight = n]
Committed(e, n) == [e EXCEPT !.wake = {}, !.inFlight = n]

\* Setting the counter changes nothing else.
LEMMA CountedType ==
  ASSUME NEW e \in Child, NEW n \in Nat
  PROVE  Counted(e, n) \in Child /\ Keeps(Counted(e, n), e) /\ Counted(e, n).inFlight = n
  BY DEF Child, Counted, Keeps

\* A committed wake is otherwise the same.
LEMMA CommittedType ==
  ASSUME NEW e \in Child, NEW n \in Nat
  PROVE  Committed(e, n) \in Child /\ Keeps(Committed(e, n), e) /\ Committed(e, n).inFlight = n
  BY DEF Child, Committed, Keeps

\* begin_admission lets in no more than the limit.
LEMMA AdmissibleBound ==
  ASSUME Inv, NEW id \in Ids, NEW M \in SUBSET Msgs, NEW A \in Admissible(child[id], M)
  PROVE  /\ A \subseteq M /\ IsFiniteSet(A) /\ Cardinality(A) \in Nat
         /\ child[id].inFlight + Cardinality(A) \in Nat
         /\ child[id].inFlight + Cardinality(A) <= MaxInFlight
<1>1. A \subseteq M
  BY DEF Admissible
<1>2. IsFiniteSet(A) /\ Cardinality(A) \in Nat
  BY <1>1, MsgsAssumption, FS_Subset, FS_CardinalityType
<1>3. child[id].inFlight \in Nat /\ child[id].inFlight <= MaxInFlight
  BY DEF Inv, TypeOK, InFlightExact, Child
<1>4. child[id].inFlight + Cardinality(A) <= MaxInFlight
  <2>1. CASE Refuses(child[id])
    BY <1>3, <2>1, FS_EmptySet, LimitAssumption DEF Admissible
  <2>2. CASE ~Refuses(child[id])
    BY <2>2 DEF Admissible
  <2> QED BY <2>1, <2>2
<1> QED BY <1>1, <1>2, <1>3, <1>4

\* Messages are admitted to a child that is, or becomes, active.
LEMMA AdmitInv ==
  ASSUME Inv, TypeOK', NEW id \in Ids, id \in active',
         NEW A \in SUBSET Msgs,
         \A m \in A : To(m) = id /\ msg[m] # "inflight",
         \A m \in Msgs : msg'[m] = "inflight" <=> m \in A \/ msg[m] = "inflight",
         Keeps(child'[id], child[id]),
         child'[id].inFlight = child[id].inFlight + Cardinality(A),
         child'[id].inFlight <= MaxInFlight,
         \A x \in Ids \ {id} : child'[x] = child[x],
         pending' \cup active' = pending \cup active, pending' \cap active' = {},
         active \subseteq active',
         UNCHANGED <<queued, completed, graph, runs, outputs, blocked, drains>>
  PROVE  Inv'
<1>1. OneHome' /\ DrainsClosed'
  <2>1. pending' \cap completed = {} /\ active' \cap completed = {}
        /\ queued \cap pending' = {} /\ queued \cap active' = {}
        /\ queued \cap completed = {}
    BY DEF Inv, OneHome
  <2>2. graph' = queued' \cup pending' \cup active' \cup completed'
    BY DEF Inv, OneHome
  <2>3. OneHome'
    BY <2>1, <2>2 DEF OneHome
  <2> QED BY <2>3 DEF Inv, DrainsClosed
<1>2. ClosedMeansCancelled'
  <2> SUFFICES ASSUME NEW x \in blocked', NEW y \in Live',
                      child'[y].session = x, child'[y].run = NoRun
               PROVE  child'[y].token
    BY DEF ClosedMeansCancelled
  <2>1. y \in Live /\ y \in Ids /\ x \in blocked
    BY DEF Live, Inv, TypeOK
  <2>2. CASE y = id
    BY <2>1, <2>2 DEF Inv, ClosedMeansCancelled, Keeps
  <2>3. CASE y # id
    BY <2>1, <2>3 DEF Inv, ClosedMeansCancelled
  <2> QED BY <2>2, <2>3
<1>3. ASSUME NEW x \in Ids
      PROVE  /\ child'[x].inFlight = Cardinality(InFlightTo(msg', x))
             /\ child'[x].inFlight <= MaxInFlight
             /\ child'[x].inFlight # 0 => x \in active'
  <2>1. /\ child[x].inFlight = Cardinality(InFlightTo(msg, x))
        /\ child[x].inFlight <= MaxInFlight
        /\ child[x].inFlight # 0 => x \in active
    BY DEF Inv, InFlightExact, IdleCounts, InFlightTo
  <2>2. CASE x = id
    <3>1. InFlightTo(msg', id) = InFlightTo(msg, id) \cup A
      BY DEF InFlightTo
    <3>2. InFlightTo(msg, id) \cap A = {}
      BY DEF InFlightTo
    <3>3. IsFiniteSet(A) /\ IsFiniteSet(InFlightTo(msg, id))
      BY InFlightFinite, MsgsAssumption, FS_Subset
    <3>4. Cardinality(InFlightTo(msg, id) \cup A)
            = Cardinality(InFlightTo(msg, id)) + Cardinality(A) - Cardinality({})
      BY <3>2, <3>3, FS_Union
    <3>5. /\ Cardinality(InFlightTo(msg, id)) \in Nat /\ Cardinality(A) \in Nat
          /\ Cardinality({}) = 0
      BY <3>3, FS_CardinalityType, FS_EmptySet
    <3> QED BY <2>1, <2>2, <3>1, <3>4, <3>5
  <2>3. CASE x # id
    <3>1. InFlightTo(msg', x) = InFlightTo(msg, x)
      BY <2>3 DEF InFlightTo
    <3> QED BY <2>1, <2>3, <3>1
  <2> QED BY <2>2, <2>3
<1>4. InFlightExact' /\ IdleCounts'
  BY <1>3 DEF InFlightExact, IdleCounts, InFlightTo
<1>5. NoZombieChild'
  <2>1. ASSUME NEW x \in Ids, outputs[x] # "none"
        PROVE  x \in active' \ runs /\ child'[x].inFlight > 0 /\ child'[x].finalizing
    <3>1. x \in active \ runs /\ child[x].inFlight > 0 /\ child[x].finalizing
      BY <2>1 DEF Inv, NoZombieChild
    <3>2. Cardinality(A) \in Nat /\ child[x].inFlight \in Nat
      BY MsgsAssumption, FS_Subset, FS_CardinalityType DEF Inv, TypeOK, Child
    <3>3. CASE x = id
      BY <3>1, <3>2, <3>3 DEF Keeps
    <3>4. CASE x # id
      BY <3>1, <3>4
    <3> QED BY <3>3, <3>4
  <2> QED BY <2>1 DEF Inv, NoZombieChild
<1> QED BY <1>1, <1>2, <1>4, <1>5 DEF Inv

\* Started of a cancelled child keeps the invariant.
LEMMA StartedCancelledInv ==
  ASSUME Inv, NEW id \in Ids, StartedCancelled(id)
  PROVE  Inv'
<1>0. msg \in [Msgs -> MsgState]
  BY DEF Inv, TypeOK
<1>1. /\ UNCHANGED <<queued, pending, active, completed, child, done, nextAge,
                     graph, lineage, runs, outputs, blocked, drains, call, waiter,
                     drainWaiters, runWaiters, presenting, published>>
      /\ msg' = RejectParked(msg, {id})
  BY DEF StartedCancelled
<1>2. msg' \in [Msgs -> MsgState] /\ \A x : InFlightTo(msg', x) = InFlightTo(msg, x)
  BY <1>0, <1>1, RejectParkedType
<1>3. TypeOK'
  BY <1>1, <1>2 DEF Inv, TypeOK
<1>4. blocked' \subseteq blocked /\ drains' \subseteq blocked'
  BY <1>1 DEF Inv, DrainsClosed
<1> QED BY <1>1, <1>2, <1>3, <1>4, StillInv

\* admit_spawn_ready_messages puts in flight what it admits and no more.
LEMMA AdmitParkedType ==
  ASSUME msg \in [Msgs -> MsgState], NEW id \in Ids, NEW A \in SUBSET Parked(id),
         AdmitParked(id, A)
  PROVE  /\ msg' \in [Msgs -> MsgState]
         /\ \A m \in A : m \in Msgs /\ To(m) = id /\ msg[m] # "inflight"
         /\ \A m \in Msgs : msg'[m] = "inflight" <=> m \in A \/ msg[m] = "inflight"
  BY DEF AdmitParked, Parked, MsgState

\* A child that becomes active keeps the invariant.
LEMMA StartedActiveInv ==
  ASSUME Inv, NEW id \in Ids, StartedActive(id)
  PROVE  Inv'
<1>0. /\ TypeOK /\ msg \in [Msgs -> MsgState] /\ child \in [Ids -> Child]
      /\ child[id] \in Child
  BY DEF Inv, TypeOK
<1>1. /\ pending' = pending \ {id} /\ active' = active \cup {id}
      /\ id \in pending
      /\ drainWaiters' \subseteq drainWaiters
      /\ UNCHANGED <<queued, completed, done, nextAge, graph, lineage, runs, outputs,
                     blocked, drains, call, waiter, runWaiters, presenting,
                     published>>
  BY DEF StartedActive, ResolveDrainWaiters
<1>2. id \notin active /\ child[id].inFlight = 0
  BY <1>1 DEF Inv, OneHome, IdleCounts
<1>3. /\ pending' \cup active' = pending \cup active /\ pending' \cap active' = {}
      /\ active \subseteq active' /\ id \in active'
  BY <1>1 DEF Inv, OneHome
<1>4. CASE child[id].wake # {}
  <2>1. UNCHANGED <<child, msg>>
    BY <1>4 DEF StartedActive
  <2>2. TypeOK'
    BY <1>0, <1>1, <2>1 DEF TypeOK
  <2>3. child'[id].inFlight = child[id].inFlight + Cardinality({}) /\ child'[id].inFlight <= MaxInFlight
    BY <1>2, <2>1, FS_EmptySet, LimitAssumption
  <2>4. {} \in SUBSET Msgs /\ Keeps(child'[id], child[id])
    BY <2>1 DEF Keeps
  <2>5. \A m \in Msgs : msg'[m] = "inflight" <=> m \in {} \/ msg[m] = "inflight"
    BY <2>1
  <2> QED BY <1>1, <1>3, <2>1, <2>2, <2>3, <2>4, <2>5, AdmitInv
<1>5. CASE child[id].wake = {}
  <2>1. PICK A \in Admissible(child[id], Parked(id)) :
           /\ child' = [child EXCEPT ![id].inFlight = Cardinality(A)]
           /\ AdmitParked(id, A)
    BY <1>5 DEF StartedActive
  <2>2. Parked(id) \in SUBSET Msgs
    BY DEF Parked
  <2>3. /\ A \subseteq Parked(id) /\ Cardinality(A) \in Nat
        /\ child[id].inFlight + Cardinality(A) <= MaxInFlight
    BY <2>2, AdmissibleBound
  <2>4. /\ msg' \in [Msgs -> MsgState]
        /\ \A m \in A : m \in Msgs /\ To(m) = id /\ msg[m] # "inflight"
        /\ \A m \in Msgs : msg'[m] = "inflight" <=> m \in A \/ msg[m] = "inflight"
    BY <1>0, <2>1, <2>3, AdmitParkedType
  <2>5. child'[id] = Counted(child[id], Cardinality(A)) /\ \A x \in Ids \ {id} : child'[x] = child[x]
    BY <1>0, <2>1 DEF Counted
  <2>6. /\ child'[id] \in Child /\ Keeps(child'[id], child[id])
        /\ child'[id].inFlight = Cardinality(A)
    BY <1>0, <2>3, <2>5, CountedType
  <2>7. child' \in [Ids -> Child]
    <3>1. child' = [x \in Ids |-> child'[x]]
      BY <1>0, <2>1
    <3> QED BY <1>0, <2>5, <2>6, <3>1
  <2>8. TypeOK'
    BY <1>0, <1>1, <2>4, <2>7 DEF TypeOK
  <2>9. child'[id].inFlight = child[id].inFlight + Cardinality(A) /\ child'[id].inFlight <= MaxInFlight
    BY <1>2, <2>3, <2>6
  <2>10. A \in SUBSET Msgs
    BY <2>4
  <2> QED BY <1>1, <1>3, <2>4, <2>5, <2>6, <2>8, <2>9, <2>10, AdmitInv
<1> QED BY <1>4, <1>5

\* The record of a child that takes no more messages.
Closed(e) == [e EXCEPT !.finalizing = TRUE]
Aborted(e) == [e EXCEPT !.token = TRUE, !.finalizing = TRUE]

\* A finalizing child is otherwise the same.
LEMMA ClosedType ==
  ASSUME NEW e \in Child
  PROVE  Closed(e) \in Child /\ Follows(Closed(e), e) /\ Closed(e).finalizing
  BY DEF Child, Closed, Follows, Keeps

\* A refused wake is cancelled and finalizing.
LEMMA AbortedType ==
  ASSUME NEW e \in Child
  PROVE  Aborted(e) \in Child /\ Follows(Aborted(e), e)
  BY DEF Child, Aborted, Follows, Keeps

\* Replacing one record.
LEMMA ReplaceType ==
  ASSUME NEW c \in [Ids -> Child], NEW id \in Ids, NEW e \in Child
  PROVE  /\ [c EXCEPT ![id] = e] \in [Ids -> Child]
         /\ [c EXCEPT ![id] = e][id] = e
         /\ \A x \in Ids \ {id} : [c EXCEPT ![id] = e][x] = c[x]
  OBVIOUS

\* SettleDeferredStart keeps the invariant.
LEMMA SettleDeferredStartInv ==
  ASSUME Inv, NEW id \in Ids, NEW committed \in BOOLEAN, SettleDeferredStart(id, committed)
  PROVE  Inv'
<1>0. /\ TypeOK /\ msg \in [Msgs -> MsgState] /\ child \in [Ids -> Child]
      /\ child[id] \in Child
  BY DEF Inv, TypeOK
<1>1. /\ id \in active
      /\ UNCHANGED <<queued, pending, active, completed, done, nextAge, graph,
                     lineage, runs, outputs, blocked, drains, call, waiter,
                     drainWaiters, runWaiters, presenting, published>>
  BY DEF SettleDeferredStart
<1>2. CASE committed
  <2>1. PICK A \in Admissible(child[id], Parked(id)) :
           /\ child' = [child EXCEPT ![id].wake = {}, ![id].inFlight = @ + Cardinality(A)]
           /\ AdmitParked(id, A)
    BY <1>2 DEF SettleDeferredStart
  <2> DEFINE n == child[id].inFlight + Cardinality(A)
  <2>2. Parked(id) \in SUBSET Msgs
    BY DEF Parked
  <2>3. A \subseteq Parked(id) /\ n \in Nat /\ n <= MaxInFlight
    BY <2>2, AdmissibleBound
  <2>4. /\ msg' \in [Msgs -> MsgState]
        /\ \A m \in A : m \in Msgs /\ To(m) = id /\ msg[m] # "inflight"
        /\ \A m \in Msgs : msg'[m] = "inflight" <=> m \in A \/ msg[m] = "inflight"
    BY <1>0, <2>1, <2>3, AdmitParkedType
  <2>5. child' = [child EXCEPT ![id] = Committed(child[id], n)]
    BY <1>0, <2>1 DEF Committed
  <2>6. n = child[id].inFlight + Cardinality(A)
    OBVIOUS
  <2> HIDE DEF n
  <2>7. /\ Committed(child[id], n) \in Child /\ Keeps(Committed(child[id], n), child[id])
        /\ Committed(child[id], n).inFlight = n
    BY <1>0, <2>3, CommittedType
  <2>8. /\ child' \in [Ids -> Child] /\ child'[id] = Committed(child[id], n)
        /\ \A x \in Ids \ {id} : child'[x] = child[x]
    BY <1>0, <2>5, <2>7, ReplaceType
  <2>9. TypeOK'
    BY <1>0, <1>1, <2>4, <2>8 DEF TypeOK
  <2>10. /\ A \in SUBSET Msgs /\ id \in active' /\ Keeps(child'[id], child[id])
         /\ child'[id].inFlight = child[id].inFlight + Cardinality(A)
         /\ child'[id].inFlight <= MaxInFlight
    BY <1>1, <2>3, <2>4, <2>6, <2>7, <2>8
  <2>11. pending' \cup active' = pending \cup active /\ pending' \cap active' = {}
         /\ active \subseteq active'
    BY <1>1 DEF Inv, OneHome
  <2> QED BY <1>1, <2>4, <2>8, <2>9, <2>10, <2>11, AdmitInv
<1>3. CASE ~committed
  <2>1. /\ child' = [child EXCEPT ![id] = Aborted(child[id])]
        /\ msg' = RejectParked(msg, {id})
    BY <1>0, <1>3 DEF SettleDeferredStart, Aborted
  <2>2. Aborted(child[id]) \in Child /\ Follows(Aborted(child[id]), child[id])
    BY <1>0, AbortedType
  <2>3. /\ child' \in [Ids -> Child] /\ child'[id] = Aborted(child[id])
        /\ \A x \in Ids \ {id} : child'[x] = child[x]
    BY <1>0, <2>1, <2>2, ReplaceType
  <2>4. \A x \in Ids : Follows(child'[x], child[x])
    BY <2>2, <2>3 DEF Follows, Keeps
  <2>5. msg' \in [Msgs -> MsgState] /\ \A x : InFlightTo(msg', x) = InFlightTo(msg, x)
    BY <1>0, <2>1, RejectParkedType
  <2>6. TypeOK'
    BY <1>0, <1>1, <2>3, <2>5 DEF TypeOK
  <2>7. blocked' \subseteq blocked /\ drains' \subseteq blocked'
    BY <1>1 DEF Inv, DrainsClosed
  <2> QED BY <1>1, <2>4, <2>5, <2>6, <2>7, QuietInv
<1> QED BY <1>2, <1>3

\* handle_active_message_finalizing keeps the invariant.
LEMMA FinalizingInv ==
  ASSUME Inv, NEW id \in Ids, Finalizing(id)
  PROVE  Inv'
<1>0. /\ TypeOK /\ child \in [Ids -> Child] /\ child[id] \in Child
  BY DEF Inv, TypeOK
<1>1. /\ child' = [child EXCEPT ![id] = Closed(child[id])]
      /\ UNCHANGED <<queued, pending, active, completed, done, nextAge, graph,
                     lineage, runs, outputs, blocked, drains, call, waiter, msg,
                     drainWaiters, runWaiters, presenting, published>>
  BY <1>0 DEF Finalizing, Closed
<1>2. Closed(child[id]) \in Child /\ Follows(Closed(child[id]), child[id])
  BY <1>0, ClosedType
<1>3. /\ child' \in [Ids -> Child] /\ child'[id] = Closed(child[id])
      /\ \A x \in Ids \ {id} : child'[x] = child[x]
  BY <1>0, <1>1, <1>2, ReplaceType
<1>4. \A x \in Ids : Follows(child'[x], child[x])
  BY <1>2, <1>3 DEF Follows, Keeps
<1>5. TypeOK'
  BY <1>0, <1>1, <1>3 DEF TypeOK
<1>6. blocked' \subseteq blocked /\ drains' \subseteq blocked'
  BY <1>1 DEF Inv, DrainsClosed
<1> QED BY <1>1, <1>4, <1>5, <1>6, QuietInv

\* begin_terminalization keeps the invariant: an output is held back only
\* for a child with messages in flight.
LEMMA HoldOutputInv ==
  ASSUME Inv, NEW id \in Ids, NEW ok \in BOOLEAN, HoldOutput(id, ok)
  PROVE  Inv'
<1>0. /\ TypeOK /\ child \in [Ids -> Child] /\ child[id] \in Child
  BY DEF Inv, TypeOK
<1>1. /\ id \in active \cap runs /\ child[id].inFlight > 0
      /\ child' = [child EXCEPT ![id] = Closed(child[id])]
      /\ runs' = runs \ {id}
      /\ UNCHANGED <<queued, pending, active, completed, done, nextAge, graph,
                     lineage, blocked, drains, call, waiter, msg,
                     drainWaiters, runWaiters, presenting, published>>
  BY <1>0 DEF HoldOutput, Closed
<1>2. \E o \in Outputs \ {"none"} : outputs' = [outputs EXCEPT ![id] = o]
  BY DEF HoldOutput, Outputs
<1>3. Closed(child[id]) \in Child /\ Follows(Closed(child[id]), child[id])
      /\ Closed(child[id]).finalizing
  BY <1>0, ClosedType
<1>4. /\ child' \in [Ids -> Child] /\ child'[id] = Closed(child[id])
      /\ \A x \in Ids \ {id} : child'[x] = child[x]
  BY <1>0, <1>1, <1>3, ReplaceType
<1>5. \A x \in Ids : Follows(child'[x], child[x])
  BY <1>3, <1>4 DEF Follows, Keeps
<1>6. TypeOK'
  BY <1>0, <1>1, <1>2, <1>4 DEF TypeOK
<1>7. outputs'[id] # "none" /\ \A x \in Ids \ {id} : outputs'[x] = outputs[x]
  BY <1>0, <1>2 DEF TypeOK
<1>8. OneHome' /\ DrainsClosed'
  BY <1>1 DEF Inv, OneHome, DrainsClosed
<1>9. ClosedMeansCancelled'
  <2> SUFFICES ASSUME NEW x \in blocked', NEW y \in Live',
                      child'[y].session = x, child'[y].run = NoRun
               PROVE  child'[y].token
    BY DEF ClosedMeansCancelled
  <2>1. y \in Live /\ y \in Ids /\ x \in blocked
    BY <1>1 DEF Live, Inv, TypeOK
  <2>2. Follows(child'[y], child[y])
    BY <1>5, <2>1
  <2> QED BY <2>1, <2>2 DEF Inv, ClosedMeansCancelled, Follows, Keeps
<1>10. InFlightExact' /\ IdleCounts'
  BY <1>1, <1>5 DEF Inv, InFlightExact, IdleCounts, Follows, Keeps
<1>11. NoZombieChild'
  <2>1. ASSUME NEW x \in Ids, outputs'[x] # "none"
        PROVE  x \in active \ runs' /\ child'[x].inFlight > 0 /\ child'[x].finalizing
    <3>1. CASE x = id
      BY <1>1, <1>3, <1>4, <3>1 DEF Follows, Keeps
    <3>2. CASE x # id
      BY <1>1, <1>4, <1>7, <2>1, <3>2 DEF Inv, NoZombieChild
    <3> QED BY <3>1, <3>2
  <2>2. pending \cup active = runs' \cup {x \in Ids : outputs'[x] # "none"}
    <3>1. {x \in Ids : outputs'[x] # "none"} = {x \in Ids : outputs[x] # "none"} \cup {id}
      BY <1>7
    <3> QED BY <1>1, <3>1 DEF Inv, NoZombieChild
  <2> QED BY <1>1, <2>1, <2>2 DEF NoZombieChild
<1> QED BY <1>6, <1>8, <1>9, <1>10, <1>11 DEF Inv

\* What Deliver and its callers leave alone.
DeliverFrame ==
    /\ UNCHANGED <<nextAge, graph, lineage, outputs, blocked, drains, call,
                   waiter, drainWaiters, runWaiters, presenting>>
    /\ published' \subseteq published

\* A message that is refused, parked or held for a wake keeps the invariant.
LEMMA DeliverAnsweredInv ==
  ASSUME Inv, NEW id \in Ids, NEW M \in SUBSET Msgs,
         \A m \in M : To(m) = id /\ msg[m] # "inflight",
         DeliverRefused(id, M) \/ DeliverPark(id, M) \/ DeliverHold(id, M), DeliverFrame
  PROVE  Inv'
<1>1. UNCHANGED <<queued, pending, active, completed, child, done, runs>>
  BY DEF DeliverRefused, DeliverPark, DeliverHold
<1>2. \E f \in [Msgs -> MsgState \ {"inflight"}] :
         msg' = [m \in Msgs |-> IF m \in M THEN f[m] ELSE msg[m]]
  <2>1. CASE DeliverRefused(id, M)
    <3>1. [m \in Msgs |-> "rejected"] \in [Msgs -> MsgState \ {"inflight"}]
      BY DEF MsgState
    <3>2. msg' = [m \in Msgs |-> IF m \in M THEN [x \in Msgs |-> "rejected"][m] ELSE msg[m]]
      BY <2>1 DEF DeliverRefused, Route
    <3> QED BY <3>1, <3>2
  <2>2. CASE DeliverPark(id, M) \/ DeliverHold(id, M)
    <3>1. PICK to \in {"parked", "wake"} : Answer(id, M, to)
      BY <2>2 DEF DeliverPark, DeliverHold
    <3> DEFINE f == [m \in Msgs |-> IF m \in Owned(id, M) THEN to ELSE "rejected"]
    <3>2. f \in [Msgs -> MsgState \ {"inflight"}]
      BY DEF MsgState
    <3>3. msg' = [m \in Msgs |-> IF m \in M THEN f[m] ELSE msg[m]]
      BY <3>1 DEF Answer, Owned
    <3> QED BY <3>2, <3>3
  <2> QED BY <2>1, <2>2
<1>3. msg' \in [Msgs -> MsgState]
  BY <1>2 DEF Inv, TypeOK
<1>4. \A x : InFlightTo(msg', x) = InFlightTo(msg, x)
  BY <1>2 DEF InFlightTo
<1>5. TypeOK'
  BY <1>1, <1>3 DEF Inv, TypeOK, DeliverFrame
<1>6. blocked' \subseteq blocked /\ drains' \subseteq blocked'
  BY DEF Inv, DrainsClosed, DeliverFrame
<1> QED BY <1>1, <1>4, <1>5, <1>6, StillInv DEF DeliverFrame

\* A message admitted to an active child is counted.
LEMMA DeliverActiveInv ==
  ASSUME Inv, NEW id \in Ids, NEW M \in SUBSET Msgs,
         \A m \in M : To(m) = id /\ msg[m] # "inflight",
         DeliverActive(id, M), DeliverFrame
  PROVE  Inv'
<1>0. /\ TypeOK /\ msg \in [Msgs -> MsgState] /\ child \in [Ids -> Child]
      /\ child[id] \in Child
  BY DEF Inv, TypeOK
<1>1. /\ id \in active
      /\ UNCHANGED <<queued, pending, active, completed, done, runs>>
  BY DEF DeliverActive
<1>2. PICK A \in Admissible(child[id], Owned(id, M)) :
          /\ child' = [child EXCEPT ![id].inFlight = @ + Cardinality(A)]
          /\ msg' = [m \in Msgs |-> IF m \in A THEN "inflight"
                                    ELSE IF m \in M THEN "rejected" ELSE msg[m]]
  BY DEF DeliverActive
<1> DEFINE n == child[id].inFlight + Cardinality(A)
<1>3. Owned(id, M) \in SUBSET Msgs /\ Owned(id, M) \subseteq M
  BY DEF Owned
<1>4. A \subseteq Owned(id, M) /\ n \in Nat /\ n <= MaxInFlight
  BY <1>3, AdmissibleBound
<1>5. /\ msg' \in [Msgs -> MsgState]
      /\ \A m \in A : m \in Msgs /\ To(m) = id /\ msg[m] # "inflight"
      /\ \A m \in Msgs : msg'[m] = "inflight" <=> m \in A \/ msg[m] = "inflight"
  BY <1>0, <1>2, <1>3, <1>4 DEF MsgState
<1>6. child' = [child EXCEPT ![id] = Counted(child[id], n)]
  BY <1>0, <1>2 DEF Counted
<1>7. n = child[id].inFlight + Cardinality(A)
  OBVIOUS
<1> HIDE DEF n
<1>8. /\ Counted(child[id], n) \in Child /\ Keeps(Counted(child[id], n), child[id])
      /\ Counted(child[id], n).inFlight = n
  BY <1>0, <1>4, CountedType
<1>9. /\ child' \in [Ids -> Child] /\ child'[id] = Counted(child[id], n)
      /\ \A x \in Ids \ {id} : child'[x] = child[x]
  BY <1>0, <1>6, <1>8, ReplaceType
<1>10. TypeOK'
  BY <1>0, <1>1, <1>5, <1>9 DEF TypeOK, DeliverFrame
<1>11. /\ A \in SUBSET Msgs /\ id \in active' /\ Keeps(child'[id], child[id])
       /\ child'[id].inFlight = child[id].inFlight + Cardinality(A)
       /\ child'[id].inFlight <= MaxInFlight
  BY <1>1, <1>4, <1>5, <1>7, <1>8, <1>9
<1>12. pending' \cup active' = pending \cup active /\ pending' \cap active' = {}
       /\ active \subseteq active'
  BY <1>1 DEF Inv, OneHome
<1> QED BY <1>1, <1>5, <1>9, <1>10, <1>11, <1>12, AdmitInv DEF DeliverFrame

\* The record of a woken child.
Woken(x, w) == [NoChild EXCEPT !.session = x, !.background = TRUE, !.wake = w]

\* A wake makes a child record.
LEMMA WokenType ==
  ASSUME NEW x \in Sess, NEW w \in SUBSET Record
  PROVE  /\ Woken(x, w) \in Child /\ Woken(x, w).session = x
         /\ Woken(x, w).run = NoRun /\ Woken(x, w).inFlight = 0
<1>1. NoChild \in Child /\ NoChild.inFlight = 0 /\ NoChild.run = NoRun
  BY NoChildType DEF NoChild
<1> QED BY <1>1 DEF Child, Woken

\* A wake moves a completed child of an open session to one live map.
LEMMA DeliverWakeInv ==
  ASSUME Inv, NEW id \in Ids, NEW M \in SUBSET Msgs,
         \A m \in M : To(m) = id /\ msg[m] # "inflight",
         DeliverWake(id, M), DeliverFrame
  PROVE  Inv'
<1>0. /\ TypeOK /\ msg \in [Msgs -> MsgState] /\ child \in [Ids -> Child]
      /\ done \in [Ids -> Record] /\ queued \in SUBSET Ids
  BY DEF Inv, TypeOK
<1>1. /\ id \in completed /\ Wakeable(id)
      /\ completed' = completed \ {id}
      /\ done' = [done EXCEPT ![id] = NoRecord]
      /\ active' = active
  BY DEF DeliverWake
<1>2. done[id].session \in Sess /\ {done[id]} \in SUBSET Record
  BY <1>0 DEF Record
<1>3. WokenChild(id) = Woken(done[id].session, {done[id]})
  BY DEF WokenChild, Woken
<1>4. /\ WokenChild(id) \in Child /\ WokenChild(id).session = done[id].session
      /\ WokenChild(id).run = NoRun /\ WokenChild(id).inFlight = 0
  BY <1>2, <1>3, WokenType
<1>5. done[id].session \notin blocked
  BY <1>1 DEF Wakeable, Unwakeable
<1>6. id \notin Live /\ id \in graph
  BY <1>1 DEF Inv, OneHome, Live
<1>7. msg' \in [Msgs -> MsgState] /\ \A x : InFlightTo(msg', x) = InFlightTo(msg, x)
  <2>1. PICK first \in Owned(id, M) :
          msg' = [m \in Msgs |-> IF m = first THEN "initial"
                                 ELSE IF m \in Owned(id, M) THEN "parked"
                                 ELSE IF m \in M THEN "rejected" ELSE msg[m]]
    BY DEF DeliverWake
  <2>2. Owned(id, M) \subseteq M
    BY DEF Owned
  <2>3. msg' \in [Msgs -> MsgState]
    BY <1>0, <2>1 DEF MsgState
  <2>4. ASSUME NEW m \in Msgs PROVE msg'[m] = "inflight" <=> msg[m] = "inflight"
    BY <2>1, <2>2
  <2> QED BY <2>3, <2>4 DEF InFlightTo
<1>8. PICK e \in Child :
         /\ e.session = done[id].session /\ e.run = NoRun /\ e.inFlight = 0
         /\ child' = [child EXCEPT ![id] = e]
         /\ \/ queued' = queued \cup {id} /\ pending' = pending /\ runs' = runs
            \/ queued' = queued /\ pending' = pending \cup {id} /\ runs' = runs \cup {id}
  <2>1. CASE ~AtLimit(done[id].session)
    <3>1. /\ child' = [child EXCEPT ![id] = Launched(WokenChild(id))]
          /\ queued' = queued /\ pending' = pending \cup {id} /\ runs' = runs \cup {id}
      BY <2>1 DEF DeliverWake
    <3>2. Launched(WokenChild(id)) \in Child /\ Follows(Launched(WokenChild(id)), WokenChild(id))
      BY <1>4, LaunchedType
    <3> QED BY <1>4, <3>1, <3>2 DEF Follows, Keeps
  <2>2. CASE AtLimit(done[id].session)
    <3>1. /\ child' = [child EXCEPT ![id] = Behind(WokenChild(id), queued)]
          /\ queued' = queued \cup {id} /\ pending' = pending /\ runs' = runs
      BY <2>2 DEF DeliverWake, Behind
    <3>2. /\ Behind(WokenChild(id), queued) \in Child
          /\ Follows(Behind(WokenChild(id), queued), WokenChild(id))
      BY <1>0, <1>4, BehindType
    <3> QED BY <1>4, <3>1, <3>2 DEF Follows, Keeps
  <2> QED BY <2>1, <2>2
<1>9. done' \in [Ids -> Record]
  BY <1>0, <1>1, NoRecordType
<1>10. child' \in [Ids -> Child]
  BY <1>0, <1>8, ReplaceType
<1>11. TypeOK'
  BY <1>0, <1>1, <1>7, <1>8, <1>9, <1>10 DEF TypeOK, DeliverFrame
<1>12. graph' = graph \cup {id}
  BY <1>6 DEF DeliverFrame
<1>13. UNCHANGED <<active, outputs, blocked, drains>>
  BY <1>1 DEF DeliverFrame
<1> QED BY <1>1, <1>5, <1>6, <1>7, <1>8, <1>11, <1>12, <1>13, NewEntryInv

\* handle_send_active_message keeps the invariant.
LEMMA DeliverInv ==
  ASSUME Inv, NEW id \in Ids, NEW M \in SUBSET Msgs,
         \A m \in M : To(m) = id /\ msg[m] # "inflight",
         Deliver(id, M), published' \subseteq published
  PROVE  Inv'
<1>1. DeliverFrame
  BY DEF Deliver, DeliverFrame
<1> QED BY <1>1, DeliverAnsweredInv, DeliverActiveInv, DeliverWakeInv DEF Deliver

\* A message that arrives keeps the invariant.
LEMMA SendActiveMessageInv ==
  ASSUME Inv, NEW m \in Msgs, SendActiveMessage(m)
  PROVE  Inv'
<1>1. To(m) \in Ids /\ {m} \in SUBSET Msgs
  BY ToType
<1>2. \A x \in {m} : To(x) = To(m) /\ msg[x] # "inflight"
  BY DEF SendActiveMessage
<1>3. Deliver(To(m), {m}) /\ published' \subseteq published
  BY DEF SendActiveMessage
<1> QED BY <1>1, <1>2, <1>3, DeliverInv

\* handle_terminal_published keeps the invariant.
LEMMA TerminalPublishedInv ==
  ASSUME Inv, NEW id \in Ids, NEW age, TerminalPublished(id, age)
  PROVE  Inv'
<1>0. TypeOK /\ msg \in [Msgs -> MsgState]
  BY DEF Inv, TypeOK
<1>1. published' \subseteq published
  BY DEF TerminalPublished
<1>2. CASE Deliver(id, WakesOf(id))
  <2>1. WakesOf(id) \in SUBSET Msgs /\ \A m \in WakesOf(id) : To(m) = id /\ msg[m] # "inflight"
    BY DEF WakesOf
  <2> QED BY <1>1, <1>2, <2>1, DeliverInv
<1>3. CASE ~Deliver(id, WakesOf(id))
  <2>1. /\ msg' = RejectWakes(msg, {id})
        /\ UNCHANGED <<queued, pending, active, completed, child, done, runs,
                       nextAge, graph, lineage, outputs, blocked, drains, call,
                       waiter, drainWaiters, runWaiters, presenting>>
    BY <1>3 DEF TerminalPublished
  <2>2. msg' \in [Msgs -> MsgState] /\ \A x : InFlightTo(msg', x) = InFlightTo(msg, x)
    BY <1>0, <2>1, RejectWakesType
  <2>3. TypeOK'
    BY <1>0, <1>1, <2>1, <2>2 DEF TypeOK
  <2>4. blocked' \subseteq blocked /\ drains' \subseteq blocked'
    BY <2>1 DEF Inv, DrainsClosed
  <2> QED BY <2>1, <2>2, <2>3, <2>4, StillInv
<1> QED BY <1>2, <1>3

\* A record the host has published.
Announced(r, b) == [r EXCEPT !.published = b]

\* A published record is otherwise the same.
LEMMA AnnouncedType ==
  ASSUME NEW r \in Record, NEW b \in BOOLEAN
  PROVE  Announced(r, b) \in Record
  BY DEF Record, Announced

\* The host publishing a completion keeps the invariant.
LEMMA PublishInv ==
  ASSUME Inv, NEW id \in Ids, NEW age \in Nat, Publish(id, age)
  PROVE  Inv'
<1>0. TypeOK /\ done \in [Ids -> Record] /\ done[id] \in Record
  BY DEF Inv, TypeOK
<1> DEFINE b == done[id].published \/ (id \in completed /\ done[id].age = age)
<1>1. /\ UNCHANGED <<queued, pending, active, completed, child, nextAge, graph,
                     lineage, runs, outputs, blocked, drains, call, waiter,
                     drainWaiters, runWaiters, msg>>
      /\ presenting' \subseteq presenting /\ published' = published \cup {<<id, age>>}
  BY DEF Publish
<1>2. done' = [done EXCEPT ![id] = Announced(done[id], b)]
  BY <1>0 DEF Publish, Announced
<1>3. b \in BOOLEAN
  OBVIOUS
<1> HIDE DEF b
<1>4. done' \in [Ids -> Record]
  BY <1>0, <1>2, <1>3, AnnouncedType
<1>5. TypeOK'
  BY <1>0, <1>1, <1>4 DEF TypeOK
<1>6. blocked' \subseteq blocked /\ drains' \subseteq blocked'
  BY <1>1 DEF Inv, DrainsClosed
<1> QED BY <1>1, <1>5, <1>6, StillInv

\* Handing a caller off keeps the invariant.
LEMMA ForegroundDeadlineInv ==
  ASSUME Inv, NEW id \in Ids, ForegroundDeadline(id)
  PROVE  Inv'
<1>0. /\ TypeOK /\ child \in [Ids -> Child] /\ child[id] \in Child
      /\ call \in [Calls -> CallState]
  BY DEF Inv, TypeOK
<1> DEFINE b == id \notin queued
           P == {k \in Calls : k \in child[id].reply /\ call[k] = "waiting"}
<1>1. /\ child' = [child EXCEPT ![id] = HandedOff(child[id], b)]
      /\ drainWaiters' \subseteq drainWaiters
      /\ UNCHANGED <<queued, pending, active, completed, done, nextAge, graph, lineage,
                     runs, outputs, blocked, drains, waiter, runWaiters, msg,
                     presenting, published>>
  BY <1>0 DEF ForegroundDeadline, HandedOff, ResolveDrainWaiters
<1>2. b \in BOOLEAN
  OBVIOUS
<1>3. call' = [k \in Calls |-> IF k \in P THEN "interim" ELSE call[k]]
  BY DEF ForegroundDeadline
<1> HIDE DEF b, P
<1>4. call' \in [Calls -> CallState]
  BY <1>0, <1>3 DEF CallState
<1>5. HandedOff(child[id], b) \in Child /\ Follows(HandedOff(child[id], b), child[id])
  BY <1>0, <1>2, HandedOffType
<1>6. /\ child' \in [Ids -> Child] /\ child'[id] = HandedOff(child[id], b)
      /\ \A x \in Ids \ {id} : child'[x] = child[x]
  BY <1>0, <1>1, <1>5, ReplaceType
<1>7. \A x \in Ids : Follows(child'[x], child[x])
  BY <1>5, <1>6 DEF Follows, Keeps
<1>8. TypeOK'
  BY <1>0, <1>1, <1>4, <1>6 DEF TypeOK
<1>9. blocked' \subseteq blocked /\ drains' \subseteq blocked'
  BY <1>1 DEF Inv, DrainsClosed
<1> QED BY <1>1, <1>7, <1>8, <1>9, QuietInv

\* The deadline of a parked send keeps the invariant.
LEMMA ParkedDeadlineInv ==
  ASSUME Inv, NEW m \in Msgs, ParkedDeadline(m)
  PROVE  Inv'
<1>1. /\ UNCHANGED <<queued, pending, active, completed, child, done, nextAge,
                     graph, lineage, runs, outputs, blocked, drains, call, waiter,
                     drainWaiters, runWaiters, presenting, published>>
      /\ msg[m] = "parked" /\ msg' = [msg EXCEPT ![m] = "rejected"]
  BY DEF ParkedDeadline
<1>2. msg' \in [Msgs -> MsgState]
  BY <1>1 DEF Inv, TypeOK, MsgState
<1>3. \A x : InFlightTo(msg', x) = InFlightTo(msg, x)
  BY <1>1 DEF InFlightTo, Inv, TypeOK
<1>4. TypeOK'
  BY <1>1, <1>2 DEF Inv, TypeOK
<1>5. blocked' \subseteq blocked /\ drains' \subseteq blocked'
  BY <1>1 DEF Inv, DrainsClosed
<1> QED BY <1>1, <1>3, <1>4, <1>5, StillInv

----------------------------------------------------------------------------
(* The theorems.                                                           *)

\* The invariant holds of a new coordinator.
LEMMA InitInv ==
  ASSUME Init
  PROVE  Inv
<1>1. TypeOK
  BY NoChildType, NoRecordType, NoLineageType
     DEF Init, TypeOK, Outputs, CallState, MsgState
<1>2. OneHome /\ DrainsClosed /\ ClosedMeansCancelled
  BY DEF Init, OneHome, DrainsClosed, ClosedMeansCancelled
<1>3. NoZombieChild
  BY DEF Init, NoZombieChild
<1>4. ASSUME NEW id \in Ids
      PROVE  /\ child[id].inFlight = 0
             /\ child[id].inFlight = Cardinality({m \in Msgs : msg[m] = "inflight" /\ To(m) = id})
             /\ child[id].inFlight <= MaxInFlight
  <2>1. child[id].inFlight = 0
    BY DEF Init, NoChild
  <2>2. {m \in Msgs : msg[m] = "inflight" /\ To(m) = id} = {}
    BY DEF Init
  <2> QED BY <2>1, <2>2, FS_EmptySet, LimitAssumption
<1>5. InFlightExact /\ IdleCounts
  BY <1>4 DEF InFlightExact, IdleCounts
<1> QED BY <1>1, <1>2, <1>3, <1>5 DEF Inv

\* Every step keeps the invariant.
LEMMA NextInv ==
  ASSUME Inv, Next
  PROVE  Inv'
<1>1. CASE Caller
  BY <1>1, CallerInv, DropCallerInv, RevokeTokenInv DEF Caller
<1>2. CASE Command
  BY <1>2, CallerInv, SpawnStartInv, SpawnEnqueueInv, SpawnOverLimitInv, CancelOneInv,
     CancelPromptInv, CancelSessionInv, OpenSpawnAdmissionInv, CancelWorkflowInv,
     TeardownInv, WaiterInv, SendActiveMessageInv DEF Command, Spawn
<1>3. CASE Reap
  BY <1>3, ReapInv
<1>4. CASE Runner
  <2>1. CASE \E id \in Ids, ok \in BOOLEAN : RunEnds(id, ok)
    <3>1. PICK id \in Ids, ok \in BOOLEAN : RunEnds(id, ok)
      BY <2>1
    <3>2. CASE HoldOutput(id, ok)
      BY <3>2, HoldOutputInv
    <3>3. CASE ~HoldOutput(id, ok)
      BY <3>1, <3>3, RunEndsInv
    <3> QED BY <3>2, <3>3
  <2>2. CASE \E id \in Ids : Started(id) \/ Finalizing(id)
    BY <2>2, StartedCancelledInv, StartedActiveInv, FinalizingInv DEF Started
  <2>3. CASE \E id \in Ids, ok \in BOOLEAN : SettleDeferredStart(id, ok)
    BY <2>3, SettleDeferredStartInv
  <2>4. CASE \E m \in Msgs, outcome \in {"accepted", "rejected", "uncertain"} :
               AdmissionDone(m, outcome)
    BY <2>4, AdmissionDoneInv
  <2> QED BY <1>4, <2>1, <2>2, <2>3, <2>4 DEF Runner
<1>5. CASE Host
  <2>1. ASSUME NEW e \in presenting \cup published
        PROVE  e[1] \in Ids /\ e[2] \in Nat
    BY DEF Inv, TypeOK
  <2> QED BY <1>5, <2>1, PublishInv, TerminalPublishedInv DEF Host
<1>6. CASE Timer
  BY <1>6, ForegroundDeadlineInv, WaiterInv, ParkedDeadlineInv, OpenSpawnAdmissionInv DEF Timer
<1> QED BY <1>1, <1>2, <1>3, <1>4, <1>5, <1>6 DEF Next

\* A step that changes nothing keeps the invariant.
LEMMA StutterInv ==
  ASSUME Inv, UNCHANGED vars
  PROVE  Inv'
  BY DEF Inv, vars, TypeOK, OneHome, DrainsClosed, ClosedMeansCancelled, NoZombieChild,
         InFlightExact, IdleCounts, Live

\* The inductive invariant holds of every run of the coordinator actor.
THEOREM Invariance == Spec => []Inv
<1>1. Init => Inv
  BY InitInv
<1>2. Inv /\ [Next]_vars => Inv'
  BY NextInv, StutterInv
<1> QED BY <1>1, <1>2, PTL DEF Spec

\* The actor's maps, records, counters and mailboxes stay typed.
THEOREM CoordinatorTypeCorrect == Spec => []TypeOK
<1>1. Inv => TypeOK
  BY DEF Inv
<1> QED BY <1>1, Invariance, PTL

\* A child is in one of the four maps only and has a lineage node exactly as
\* long, however spawns, cancels, wakes, restores and evictions interleave.
THEOREM CoordinatorOneHome == Spec => []OneHome
<1>1. Inv => OneHome
  BY DEF Inv
<1> QED BY <1>1, Invariance, PTL

\* Between Stop or delete and the reopening, every task child of the session
\* that is still live is cancelled.
THEOREM CoordinatorClosed == Spec => []ClosedMeansCancelled
<1>1. Inv => ClosedMeansCancelled
  BY DEF Inv
<1> QED BY <1>1, Invariance, PTL

\* A session whose delete is draining is closed.
THEOREM CoordinatorDrains == Spec => []DrainsClosed
<1>1. Inv => DrainsClosed
  BY DEF Inv
<1> QED BY <1>1, Invariance, PTL

\* A pending or active child has a runner future or a held-back output that
\* the end of an admission will finish; nothing else has either.
THEOREM CoordinatorNoZombie == Spec => []NoZombieChild
<1>1. Inv => NoZombieChild
  BY DEF Inv
<1> QED BY <1>1, Invariance, PTL

\* The in-flight counter of a child equals the number of its messages in
\* flight and is within the limit: finish_active_message never underflows it.
THEOREM CoordinatorInFlight == Spec => []InFlightExact
<1>1. Inv => InFlightExact
  BY DEF Inv
<1> QED BY <1>1, Invariance, PTL

============================================================================
