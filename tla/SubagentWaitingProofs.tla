----------------------- MODULE SubagentWaitingProofs -----------------------
(***************************************************************************)
(* Who waits on the coordinator, and for what: no spawn caller, message,   *)
(* query, turn or workflow cancel is left waiting for something that will  *)
(* not come, no session runs more children than its limit, and the queue   *)
(* holds an entry only while it has to and is served in order.             *)
(*                                                                         *)
(* The argument extends Inv of SubagentCoordinatorProofs.  Again every     *)
(* handler that finishes a child ends in Settle: HandOver says what such a *)
(* handler gives to Settle and Effects what Settle makes of it, and each   *)
(* part of the invariant is then one lemma about Settle, one about a new   *)
(* entry and one about the steps that keep the children where they are.    *)
(***************************************************************************)
EXTENDS SubagentCoordinatorProofs, WellFoundedInduction

\* Each spawn caller is held by one live child, the one it asked for.
HeldCallers ==
    /\ \A id \in Ids : \A k \in child[id].reply :
          id \in Live /\ Request[k].id = id /\ call[k] \in {"waiting", "gone"}
    /\ \A id \in Ids : \A k, l \in child[id].reply : k = l
    /\ \A k \in Calls : call[k] = "waiting" => k \in child[Request[k].id].reply

\* What a live child that a message woke is.
WokenChildren ==
    \A id \in Live : child[id].wake # {} =>
        /\ child[id].run = NoRun /\ child[id].reply = {}
        /\ id \in queued => ~child[id].token
        /\ \A r \in child[id].wake : r.published

\* A completion that is not published yet is still being presented.
PresentedOnce ==
    \A id \in completed \cap Addressed :
        ~done[id].published => <<id, done[id].age>> \in presenting

\* The queue is in the order of arrival and holds no workflow's child.
QueueOrder ==
    /\ \A id \in queued : /\ child[id].run = NoRun
                          /\ child[id].ahead \subseteq queued
                          /\ id \notin child[id].ahead
    /\ \A o, id \in queued : o # id => o \in child[id].ahead \/ id \in child[o].ahead
    /\ \A id \in queued : \A o \in child[id].ahead : child[o].ahead \subseteq child[id].ahead

----------------------------------------------------------------------------
(* What a handler hands over to Settle and what comes of it.               *)

\* `f` is the record of the live child `e` as a handler hands it over.
Passed(f, e) ==
    /\ f.session = e.session /\ f.run = e.run
    /\ f.wake = e.wake /\ f.ahead = e.ahead
    /\ e.token => f.token
    /\ f.reply \subseteq e.reply

\* The children in `first` leave, out of the map they are in; the one that is
\* in none is a spawn refused at the limit.  The others keep who they are.
HandOver(s, first, sweeps) ==
    /\ first \subseteq Ids
    /\ s.queued = queued \ first /\ s.pending = pending \ first /\ s.active = active \ first
    /\ s.child \in [Ids -> Child]
    /\ \A id \in Live : Passed(s.child[id], child[id])
    /\ \A id \in queued \ first : s.child[id].token = child[id].token
    /\ \A id \in first \ Live : s.child[id].wake = {}
    /\ ~sweeps => first \subseteq queued
    /\ \A m \in Msgs : s.msg[m] = msg[m] \/ s.msg[m] \in Answered

\* HeldCallers for the maps in `s`.
HeldIn(s, first) ==
    /\ \A id \in Ids : \A k \in s.child[id].reply :
          /\ id \in first \cup s.queued \cup s.pending \cup s.active
          /\ Request[k].id = id /\ s.call[k] \in {"waiting", "gone"}
    /\ \A id \in Ids : \A k, l \in s.child[id].reply : k = l
    /\ \A k \in Calls : s.call[k] = "waiting" => k \in s.child[Request[k].id].reply

\* The children that leave are live ones, or the one is a spawn just taken up.
TakenUp(s, first) ==
    \/ s.call = call /\ first \subseteq Live
    \/ \E k \in Calls : /\ call[k] = "sent" /\ first = {Request[k].id}
                        /\ s.call = [call EXCEPT ![k] = "waiting"]

\* A step that ends in Settle.
SettleStep ==
    \E s, first, ok, sweeps :
        /\ HandOver(s, first, sweeps) /\ HeldIn(s, first) /\ TakenUp(s, first)
        /\ Settle(s, first, ok, sweeps)

\* The record and the presentation of a child that Settle leaves completed.
Recorded(s, gone, completing, id) ==
    \/ id \in completing /\ (id \in Addressed => <<id, done'[id].age>> \in presenting')
    \/ id \in gone \ completing /\ done'[id] \in s.child[id].wake
    \/ id \in completed \ completing /\ done'[id] = done[id]

\* What Settle does to those who wait.
Effects(s, first, sweeps, started, swept, completing) ==
    /\ started = IF sweeps THEN Startable(s.queued, s.pending, s.active, s.child) ELSE {}
    /\ swept = IF sweeps THEN {id \in s.queued : s.child[id].token} ELSE {}
    /\ completing \subseteq first \cup swept
    /\ \A id \in first \cup swept : s.child[id].wake = {} => id \in completing
    /\ queued' = s.queued \ (started \cup swept)
    /\ pending' = s.pending \cup started
    /\ active' = s.active
    /\ child' = [id \in Ids |->
          IF id \in first \cup swept THEN NoChild
          ELSE IF id \in started THEN Launched(s.child[id])
          ELSE Advanced(s.child[id], (first \cup swept) \cup started)]
    /\ call' = [k \in Calls |->
          IF s.call[k] = "waiting" /\ \E id \in first \cup swept : k \in s.child[id].reply
          THEN "final" ELSE s.call[k]]
    /\ waiter' = [q \in Queries |-> waiter[q] \ (first \cup swept)]
    /\ \A m \in Msgs : msg'[m] = s.msg[m] \/ msg'[m] = "rejected"
    /\ \A m \in Msgs : To(m) \in first \cup (swept \cap completing) =>
                           msg'[m] \notin {"parked", "initial"}
    /\ presenting \subseteq presenting' /\ published' = published
    /\ \A id \in completed' : Recorded(s, first \cup swept, completing, id)
    /\ \A x \in drainWaiters' : TurnBlocking(queued', pending', active', child', x) # {}
    /\ runWaiters' = {r \in runWaiters :
          ~RunDrained(r, completing, s.pending \cup started, s.active, s.child)}

\* Settle does what Effects says.
LEMMA SettleEffects ==
  ASSUME TypeOK, NEW s, NEW first, NEW ok, NEW sweeps, HandOver(s, first, sweeps),
         Settle(s, first, ok, sweeps)
  PROVE  \E started, swept, completing : Effects(s, first, sweeps, started, swept, completing)
<1> DEFINE started == IF sweeps THEN Startable(s.queued, s.pending, s.active, s.child) ELSE {}
           swept == IF sweeps THEN {id \in s.queued : s.child[id].token} ELSE {}
           gone == first \cup swept
           completing == {id \in gone : Completes(s.child[id], id \in ok)}
           Precedes(o, id) ==
            \/ o \in first /\ id \notin first
            \/ (o \in first <=> id \in first) /\ o \in s.child[id].ahead
           AgeAt(id) == nextAge + Cardinality({o \in completing : Precedes(o, id)})
           restored == {id \in gone \ completing : Restorable(s.child[id], AgeAt(id))}
           rec == [id \in Ids |->
             IF id \in completing THEN Terminal(s.child[id], AgeAt(id))
             ELSE IF id \in restored THEN CHOOSE r \in s.child[id].wake : TRUE
             ELSE done[id]]
           known == completed \cup completing \cup restored
           kept == Newest(known, rec)
<1>1. /\ queued' = s.queued \ (started \cup swept)
      /\ pending' = s.pending \cup started
      /\ active' = s.active
  BY DEF Settle
<1>2. child' = [id \in Ids |->
                  IF id \in first \cup swept THEN NoChild
                  ELSE IF id \in started THEN Launched(s.child[id])
                  ELSE Advanced(s.child[id], (first \cup swept) \cup started)]
  BY DEF Settle, Advanced
<1>3. /\ call' = [k \in Calls |->
            IF s.call[k] = "waiting" /\ \E id \in first \cup swept : k \in s.child[id].reply
            THEN "final" ELSE s.call[k]]
      /\ waiter' = [q \in Queries |-> waiter[q] \ (first \cup swept)]
  BY DEF Settle
<1>4. /\ presenting' = presenting \cup {<<id, AgeAt(id)>> : id \in completing \cap Addressed}
      /\ published' = published
  BY DEF Settle
<1>5. PICK T : msg' = RejectWakes(RejectParked(s.msg, first \cup (swept \cap completing)), T)
  BY DEF Settle
<1>6. completed' = kept /\ done' = [id \in Ids |-> IF id \in kept THEN rec[id] ELSE NoRecord]
  BY DEF Settle
<1>7. runWaiters' = {r \in runWaiters :
          ~RunDrained(r, completing, s.pending \cup started, s.active, s.child)}
  BY DEF Settle
<1>8. drainWaiters' = {x \in drainWaiters : TurnBlocking(queued', pending', active', child', x) # {}}
  BY DEF Settle
<1>9. /\ completing \subseteq first \cup swept
      /\ \A id \in first \cup swept : s.child[id].wake = {} => id \in completing
  BY DEF Completes
<1>10. kept \subseteq known /\ known \subseteq Ids /\ completing \subseteq Ids
  BY DEF Newest, HandOver, TypeOK
<1>11. ASSUME NEW id \in restored PROVE s.child[id].wake # {}
  BY DEF Completes
<1>12. restored \subseteq gone \ completing
  OBVIOUS
<1>13. started = (IF sweeps THEN Startable(s.queued, s.pending, s.active, s.child) ELSE {})
       /\ swept = (IF sweeps THEN {id \in s.queued : s.child[id].token} ELSE {})
  OBVIOUS
<1>14. \A id \in completing : Terminal(s.child[id], AgeAt(id)).age = AgeAt(id)
  BY DEF Terminal
<1> HIDE DEF started, swept, completing, AgeAt, restored, kept
<1>15. ASSUME NEW id \in completed'
       PROVE  Recorded(s, first \cup swept, completing, id)
  <2>1. id \in kept /\ id \in known /\ id \in Ids /\ done'[id] = rec[id]
    BY <1>6, <1>10
  <2>2. CASE id \in completing
    BY <1>4, <1>14, <2>1, <2>2 DEF Recorded
  <2>3. CASE id \notin completing /\ id \in restored
    <3>1. done'[id] = CHOOSE r \in s.child[id].wake : TRUE
      BY <2>1, <2>3
    <3>2. done'[id] \in s.child[id].wake
      BY <1>11, <2>3, <3>1
    <3> QED BY <1>12, <2>3, <3>2 DEF Recorded
  <2>4. CASE id \notin completing /\ id \notin restored
    BY <2>1, <2>4 DEF Recorded
  <2> QED BY <2>2, <2>3, <2>4
<1> HIDE DEF known, rec, gone
<1>16. /\ \A m \in Msgs : msg'[m] = s.msg[m] \/ msg'[m] = "rejected"
       /\ \A m \in Msgs : To(m) \in first \cup (swept \cap completing) =>
                           msg'[m] \notin {"parked", "initial"}
  BY <1>5 DEF RejectWakes, RejectParked
<1>17. Effects(s, first, sweeps, started, swept, completing)
  BY <1>1, <1>2, <1>3, <1>4, <1>7, <1>8, <1>9, <1>13, <1>15, <1>16 DEF Effects
<1> QED BY <1>17
\* A record that is passed on unchanged.
LEMMA PassedSame == \A e : Passed(e, e)
  BY DEF Passed

\* Cancelling a set of live children ends in Settle.
LEMMA CancelChildrenSettles ==
  ASSUME Inv, HeldCallers, NEW M, \A m \in Msgs : M[m] = msg[m] \/ M[m] \in Answered,
         NEW B, NEW W, NEW ids \in SUBSET Live,
         NEW base, Override(base, child, M, B, W), CancelChildren(base, ids)
  PROVE  SettleStep
<1> DEFINE c == CancelTokens(child, ids \ queued)
           m == RejectParked(M, ids \cap pending)
           first == ids \cap queued
           mid == [base EXCEPT !.child = CancelTokens(base.child, ids \ queued),
                               !.msg = RejectParked(base.msg, ids \cap pending)]
           s == [mid EXCEPT !.queued = @ \ first]
           sweeps == \E id \in first : mid.child[id].wake = {}
<1>0. /\ child \in [Ids -> Child] /\ queued \subseteq Ids /\ Live \subseteq Ids
      /\ queued \cap (pending \cup active) = {}
  BY DEF Inv, TypeOK, Live, OneHome
<1>1. Settle(s, first, {}, sweeps)
  BY DEF CancelChildren, RemoveQueued
<1>f. /\ s.queued = queued \ first /\ s.pending = pending /\ s.active = active
      /\ s.child = c /\ s.call = call /\ s.msg = m
  BY DEF Override
<1>2. /\ first \subseteq queued /\ first \subseteq Live /\ first \subseteq Ids
      /\ pending \ first = pending /\ active \ first = active
  BY <1>0 DEF Live
<1> HIDE DEF s, sweeps
<1>3. c \in [Ids -> Child]
  BY <1>0, CancelTokensType
<1>4. ASSUME NEW id \in Ids
      PROVE  Passed(c[id], child[id]) /\ c[id].reply = child[id].reply
             /\ (id \in queued => c[id] = child[id])
  <2>1. CASE id \in ids \ queued
    <3>1. c[id] = Cancelled(child[id])
      BY <2>1 DEF CancelTokens, Cancelled
    <3>2. child[id] \in Child
      BY <1>0
    <3> QED BY <2>1, <3>1, <3>2 DEF Cancelled, Child, Passed
  <2>2. CASE id \notin ids \ queued
    <3>1. c[id] = child[id]
      BY <2>2 DEF CancelTokens
    <3> QED BY <3>1 DEF Passed
  <2> QED BY <2>1, <2>2
<1>5. \A x \in Msgs : m[x] = msg[x] \/ m[x] \in Answered
  BY DEF RejectParked, Answered
<1> HIDE DEF c, m, first
<1>6. HandOver(s, first, sweeps)
  BY <1>0, <1>f, <1>2, <1>3, <1>4, <1>5 DEF HandOver
<1>7. HeldIn(s, first)
  <2>1. \A id \in Ids : s.child[id].reply = child[id].reply
    BY <1>f, <1>4
  <2>2. first \cup s.queued \cup s.pending \cup s.active = Live
    BY <1>f, <1>2 DEF Live
  <2>3. \A k \in Calls : Request[k].id \in Ids
    BY RequestAssumption DEF SpawnRequest
  <2> QED BY <1>f, <2>1, <2>2, <2>3 DEF HeldIn, HeldCallers
<1>8. TakenUp(s, first)
  BY <1>f, <1>2 DEF TakenUp
<1> QED BY <1>1, <1>6, <1>7, <1>8 DEF SettleStep

\* cancel_one, cancel_parent_prompt, Stop and delete end in Settle.
LEMMA CancelsSettle ==
  ASSUME Inv, HeldCallers, NEW s \in Sess,
         \/ \E id \in Ids : CancelOne(id, s)
         \/ \E p \in Prompts : CancelPrompt(p, s)
         \/ CancelSession(s)
         \/ \E responder \in BOOLEAN : Teardown(s, responder)
  PROVE  SettleStep
<1> DEFINE M == RejectWakes(msg, CompletedOf(s))
<1>0. \A m \in Msgs : M[m] = msg[m] \/ M[m] \in Answered
  BY DEF RejectWakes, Answered
<1>n. Override(Now, child, msg, blocked, {})
  BY DEF Override, Now
<1>1. CASE \E id \in Ids : CancelOne(id, s)
  <2>1. PICK id \in Ids : CancelOne(id, s)
    BY <1>1
  <2>2. {id} \in SUBSET Live /\ CancelChildren(Now, {id})
    BY <2>1 DEF CancelOne
  <2> QED BY <1>n, <2>2, CancelChildrenSettles
<1>2. CASE \E p \in Prompts : CancelPrompt(p, s)
  <2>1. PICK p \in Prompts : CancelPrompt(p, s)
    BY <1>2
  <2> DEFINE ids == {id \in Live : child[id].session = s /\ child[id].prompt = p}
  <2>2. ids \in SUBSET Live /\ CancelChildren(Now, ids)
    BY <2>1 DEF CancelPrompt
  <2> HIDE DEF ids
  <2> QED BY <1>n, <2>2, CancelChildrenSettles
<1>3. CASE CancelSession(s)
  <2> DEFINE ids == {id \in Live : child[id].session = s /\ child[id].run = NoRun}
             B == blocked \cup {s}
             base == [Now EXCEPT !.blocked = @ \cup {s}, !.stops = {s}]
  <2>1. Override(base, child, msg, B, {})
    BY DEF Override, Now
  <2>2. ids \in SUBSET Live /\ CancelChildren(base, ids)
    BY <1>3 DEF CancelSession
  <2> HIDE DEF ids, B, base
  <2> QED BY <2>1, <2>2, CancelChildrenSettles
<1>4. CASE \E responder \in BOOLEAN : Teardown(s, responder)
  <2>0. PICK responder \in BOOLEAN : Teardown(s, responder)
    BY <1>4
  <2> DEFINE ids == {id \in Live : child[id].session = s}
             W == IF responder THEN {s} ELSE {}
             base == [Now EXCEPT !.msg = RejectWakes(@, CompletedOf(s)),
                                 !.wants = IF responder THEN {s} ELSE {}]
  <2>1. Override(base, child, M, blocked, W)
    BY DEF Override, Now
  <2>2. ids \in SUBSET Live /\ CancelChildren(base, ids)
    BY <2>0 DEF Teardown
  <2> HIDE DEF ids, M, W, base
  <2> QED BY <1>0, <2>1, <2>2, CancelChildrenSettles
<1> QED BY <1>1, <1>2, <1>3, <1>4

\* reap_abandoned_callers ends in Settle: a caller it drops was gone.
LEMMA ReapSettles ==
  ASSUME Inv, HeldCallers, Reap
  PROVE  SettleStep
<1> DEFINE after == [id \in Ids |->
              IF ~(id \in Live /\ Abandoned(id)) THEN child[id]
              ELSE IF id \in pending \cup active /\ child[id].run # NoRun
              THEN [child[id] EXCEPT !.reply = {}, !.token = TRUE]
              ELSE [child[id] EXCEPT !.reply = {}, !.deadline = FALSE,
                                     !.bg = id \in pending \cup active]]
           first == {id \in queued : child[id].token}
           base == [Now EXCEPT !.child = after]
           s == [base EXCEPT !.queued = @ \ first]
           sweeps == \E id \in first : base.child[id].wake = {}
<1>0. /\ child \in [Ids -> Child] /\ queued \subseteq Ids /\ Live \subseteq Ids
      /\ queued \cap (pending \cup active) = {}
  BY DEF Inv, TypeOK, Live, OneHome
<1>1. Settle(s, first, {}, sweeps)
  BY DEF Reap, RemoveQueued
<1>2. ASSUME NEW id \in Ids
      PROVE  /\ after[id] \in Child
             /\ Passed(after[id], child[id])
             /\ id \in queued => after[id].token = child[id].token
             /\ \/ after[id].reply = child[id].reply
                \/ after[id].reply = {} /\ \E k \in child[id].reply : call[k] = "gone"
  <2>1. child[id] \in Child
    BY <1>0
  <2>2. CASE ~(id \in Live /\ Abandoned(id))
    BY <2>1, <2>2 DEF Passed
  <2>3. CASE id \in Live /\ Abandoned(id) /\ id \in pending \cup active /\ child[id].run # NoRun
    <3>1. after[id] = Disowned(child[id])
      BY <2>3 DEF Disowned
    <3>2. id \notin queued /\ \E k \in child[id].reply : call[k] = "gone"
      BY <1>0, <2>3 DEF Abandoned
    <3> HIDE DEF after
    <3> QED BY <2>1, <3>1, <3>2 DEF Disowned, Child, Passed
  <2>4. CASE id \in Live /\ Abandoned(id) /\ ~(id \in pending \cup active /\ child[id].run # NoRun)
    <3> DEFINE b == id \in pending \cup active
    <3>1. after[id] = HandedOff(child[id], b)
      BY <2>4 DEF HandedOff
    <3>2. b \in BOOLEAN /\ \E k \in child[id].reply : call[k] = "gone"
      BY <2>4 DEF Abandoned
    <3> HIDE DEF b, after
    <3> QED BY <2>1, <3>1, <3>2 DEF HandedOff, Child, Passed
  <2> QED BY <2>2, <2>3, <2>4
<1>3. after \in [Ids -> Child]
  BY <1>2
<1>4. /\ first \subseteq queued /\ first \subseteq Live /\ first \subseteq Ids
      /\ pending \ first = pending /\ active \ first = active
  BY <1>0 DEF Live
<1> HIDE DEF after
<1>f. /\ s.queued = queued \ first /\ s.pending = pending /\ s.active = active
      /\ s.child = after /\ s.call = call /\ s.msg = msg
  BY DEF Now
<1> HIDE DEF s, sweeps, first
<1>5. HandOver(s, first, sweeps)
  BY <1>0, <1>f, <1>2, <1>3, <1>4 DEF HandOver
<1>6. HeldIn(s, first)
  <2>1. first \cup s.queued \cup s.pending \cup s.active = Live
    BY <1>f, <1>4 DEF Live
  <2>2. \A id \in Ids : after[id].reply \subseteq child[id].reply
    BY <1>2
  <2>3. ASSUME NEW k \in Calls, call[k] = "waiting"
        PROVE  k \in after[Request[k].id].reply
    <3>1. Request[k].id \in Ids
      BY RequestAssumption DEF SpawnRequest
    <3>2. k \in child[Request[k].id].reply
      BY <2>3 DEF HeldCallers
    <3>3. \A l \in child[Request[k].id].reply : l = k
      BY <3>1, <3>2 DEF HeldCallers
    <3> QED BY <1>2, <2>3, <3>1, <3>2, <3>3
  <2> QED BY <1>f, <2>1, <2>2, <2>3 DEF HeldIn, HeldCallers
<1>7. TakenUp(s, first)
  BY <1>f, <1>4 DEF TakenUp
<1> QED BY <1>1, <1>5, <1>6, <1>7 DEF SettleStep

\* A running child that finishes ends in Settle.
LEMMA FinishChildSettles ==
  ASSUME Inv, HeldCallers, NEW id \in pending \cup active,
         NEW c \in [Ids -> Child],
         \A x \in Ids : Passed(c[x], child[x]) /\ c[x].token = child[x].token
                        /\ c[x].reply = child[x].reply,
         NEW m, \A x \in Msgs : m[x] = msg[x] \/ m[x] \in Answered,
         NEW base, Override(base, c, m, blocked, {}),
         NEW ok, NEW clean, FinishChild(base, id, ok, clean)
  PROVE  SettleStep
<1> DEFINE s == [base EXCEPT !.pending = @ \ {id}, !.active = @ \ {id}]
<1>0. /\ queued \subseteq Ids /\ Live \subseteq Ids /\ id \in Ids
      /\ queued \cap (pending \cup active) = {} /\ id \in Live
  BY DEF Inv, TypeOK, Live, OneHome
<1>1. PICK good : Settle(s, {id}, good, TRUE)
  BY DEF FinishChild
<1>f. /\ s.queued = queued /\ s.pending = pending \ {id} /\ s.active = active \ {id}
      /\ s.child = c /\ s.call = call /\ s.msg = m
  BY DEF Override
<1> HIDE DEF s
<1>2. queued \ {id} = queued
  BY <1>0
<1>3. HandOver(s, {id}, TRUE)
  BY <1>0, <1>f, <1>2 DEF HandOver
<1>4. HeldIn(s, {id})
  <2>1. {id} \cup s.queued \cup s.pending \cup s.active = Live
    BY <1>f, <1>0 DEF Live
  <2>2. \A k \in Calls : Request[k].id \in Ids
    BY RequestAssumption DEF SpawnRequest
  <2> QED BY <1>f, <2>1, <2>2 DEF HeldIn, HeldCallers
<1>5. TakenUp(s, {id})
  BY <1>f, <1>0 DEF TakenUp
<1> QED BY <1>1, <1>3, <1>4, <1>5 DEF SettleStep

\* The end of a runner future whose output is not held back ends in Settle.
LEMMA RunEndsSettles ==
  ASSUME Inv, HeldCallers, NEW id \in Ids, NEW ok \in BOOLEAN, RunEnds(id, ok),
         ~HoldOutput(id, ok)
  PROVE  SettleStep
<1>1. id \in runs /\ FinishChild(Now, id, ok, child[id].clean)
  BY DEF RunEnds
<1>2. id \in pending \cup active
  BY <1>1 DEF Inv, NoZombieChild
<1>3. child \in [Ids -> Child]
  BY DEF Inv, TypeOK
<1>4. Override(Now, child, msg, blocked, {})
  BY DEF Override, Now
<1> QED BY <1>1, <1>2, <1>3, <1>4, PassedSame, FinishChildSettles

\* The record of a child after one of its admissions ended.
LEMMA SettledPassed ==
  ASSUME NEW e \in Child, NEW b
  PROVE  /\ Passed(Settled(e, b), e) /\ Settled(e, b).token = e.token
         /\ Settled(e, b).reply = e.reply
         /\ Settled(e, b).background = e.background /\ Settled(e, b).prompt = e.prompt
         /\ Settled(e, b).bg = e.bg /\ Settled(e, b).defbg = e.defbg
  BY DEF Settled, Child, Passed

\* The child records after an admission of a message ended.
Ended(m, outcome) ==
    [child EXCEPT ![To(m)].inFlight = @ - 1, ![To(m)].clean = @ /\ outcome # "uncertain"]

\* The ended admission was an active child's and only that child's record changes.
LEMMA AdmissionEnds ==
  ASSUME Inv, NEW m \in Msgs, NEW outcome \in {"accepted", "rejected", "uncertain"},
         AdmissionDone(m, outcome)
  PROVE  /\ To(m) \in active /\ msg[m] = "inflight"
         /\ Ended(m, outcome) \in [Ids -> Child]
         /\ \A x \in Ids \ {To(m)} : Ended(m, outcome)[x] = child[x]
         /\ \E b \in BOOLEAN : Ended(m, outcome)[To(m)] = Settled(child[To(m)], b)
<1> DEFINE id == To(m)
           after == Ended(m, outcome)
           proven == outcome # "uncertain"
<1>0. child \in [Ids -> Child] /\ id \in Ids /\ child[id] \in Child
  BY ToType DEF Inv, TypeOK
<1>1. msg[m] = "inflight"
  BY DEF AdmissionDone
<1>2. child[id].inFlight = Cardinality(InFlightTo(msg, id)) /\ m \in InFlightTo(msg, id)
  BY <1>0, <1>1 DEF Inv, InFlightExact, InFlightTo
<1>3. child[id].inFlight # 0
  BY <1>2, InFlightFinite, FS_EmptySet
<1>4. id \in active
  BY <1>0, <1>3 DEF Inv, IdleCounts
<1>5. after[id] = Settled(child[id], proven) /\ proven \in BOOLEAN
  BY <1>0 DEF Settled, Ended
<1>6. \A x \in Ids \ {id} : after[x] = child[x]
  BY <1>0 DEF Ended
<1>7. after[id] \in Child
  <2> HIDE DEF proven, id
  <2> QED BY <1>0, <1>3, <1>5, SettledType
<1>8. after \in [Ids -> Child]
  BY <1>0, <1>6, <1>7 DEF Ended
<1> HIDE DEF proven
<1> QED BY <1>1, <1>4, <1>5, <1>6, <1>8

\* The last admission of a held-back child ends in Settle.
LEMMA AdmissionDoneSettles ==
  ASSUME Inv, HeldCallers, NEW m \in Msgs,
         NEW outcome \in {"accepted", "rejected", "uncertain"}, AdmissionDone(m, outcome),
         Ended(m, outcome)[To(m)].inFlight = 0, outputs[To(m)] # "none"
  PROVE  SettleStep
<1> DEFINE after == Ended(m, outcome)
           answered == [msg EXCEPT ![m] = outcome]
           base == [Now EXCEPT !.child = after, !.msg = answered]
<1>1. /\ To(m) \in active
      /\ after \in [Ids -> Child]
      /\ \E b \in BOOLEAN : after[To(m)] = Settled(child[To(m)], b)
      /\ \A x \in Ids \ {To(m)} : after[x] = child[x]
  BY AdmissionEnds
<1>2. child \in [Ids -> Child] /\ To(m) \in Ids /\ msg \in [Msgs -> MsgState]
  BY ToType DEF Inv, TypeOK
<1>3. FinishChild(base, To(m), outputs[To(m)] = "success", after[To(m)].clean)
  BY DEF AdmissionDone, Ended
<1>4. Override(base, after, answered, blocked, {})
  BY DEF Override, Now
<1>5. ASSUME NEW x \in Ids
      PROVE  Passed(after[x], child[x]) /\ after[x].token = child[x].token
             /\ after[x].reply = child[x].reply
  <2>1. CASE x = To(m)
    BY <1>1, <1>2, <2>1, SettledPassed
  <2>2. CASE x # To(m)
    BY <1>1, <2>2, PassedSame
  <2> QED BY <2>1, <2>2
<1>6. \A x \in Msgs : answered[x] = msg[x] \/ answered[x] \in Answered
  BY <1>2 DEF Answered
<1> HIDE DEF base, answered, after
<1> QED BY <1>1, <1>3, <1>4, <1>5, <1>6, FinishChildSettles

\* What a spawned child's record says.
LEMMA SpawnedRecord ==
  ASSUME TypeOK, NEW k \in Calls
  PROVE  /\ SpawnedChild(k).wake = {} /\ SpawnedChild(k).reply = {k}
         /\ SpawnedChild(k).ahead = {} /\ ~SpawnedChild(k).token
         /\ SpawnedChild(k).session = SpawnSession(k) /\ SpawnedChild(k).run = SpawnRun(k)
  BY DEF SpawnedChild, NoChild

\* A spawn refused at the limit ends in Settle.
LEMMA SpawnOverLimitSettles ==
  ASSUME Inv, HeldCallers, NEW k \in Calls, SpawnOverLimit(k)
  PROVE  SettleStep
<1> DEFINE id == Request[k].id
           s == [Now EXCEPT !.call[k] = "waiting",
                            !.child[id] = SpawnedChild(k),
                            !.graph = @ \cup {id},
                            !.lineage[id] = SpawnLineage(k)]
<1>0. TypeOK /\ child \in [Ids -> Child] /\ call \in [Calls -> CallState] /\ Live \subseteq Ids
  BY DEF Inv, TypeOK, Live
<1>1. Settle(s, {id}, {}, TRUE) /\ call[k] = "sent"
  BY DEF SpawnOverLimit
<1>2. id \in Ids /\ SpawnedChild(k) \in Child
  BY <1>0, SpawnedType
<1>3. id \notin Live /\ queued \ {id} = queued /\ pending \ {id} = pending /\ active \ {id} = active
  BY DEF SpawnOverLimit, SpawnRefused, Live
<1>f. /\ s.queued = queued /\ s.pending = pending /\ s.active = active
      /\ s.child = [child EXCEPT ![id] = SpawnedChild(k)]
      /\ s.call = [call EXCEPT ![k] = "waiting"] /\ s.msg = msg
  BY DEF Now
<1> HIDE DEF s
<1>4. /\ s.child \in [Ids -> Child] /\ s.child[id] = SpawnedChild(k)
      /\ \A x \in Ids \ {id} : s.child[x] = child[x]
  BY <1>f, <1>0, <1>2
<1>5. s.child[id].wake = {} /\ s.child[id].reply = {k}
  BY <1>0, <1>4, SpawnedRecord
<1>6. /\ s.call[k] = "waiting" /\ \A l \in Calls \ {k} : s.call[l] = call[l]
  BY <1>f, <1>0
<1>7. HandOver(s, {id}, TRUE)
  <2>1. \A x \in Live : Passed(s.child[x], child[x]) /\ s.child[x] = child[x]
    BY <1>0, <1>3, <1>4, PassedSame
  <2>2. queued \subseteq Live
    BY DEF Live
  <2> HIDE DEF id
  <2> QED BY <1>f, <1>2, <1>3, <1>4, <1>5, <2>1, <2>2 DEF HandOver
<1>8. HeldIn(s, {id})
  <2>1. {id} \cup s.queued \cup s.pending \cup s.active = Live \cup {id}
    BY <1>f DEF Live
  <2>2. ASSUME NEW x \in Ids, NEW l \in s.child[x].reply
        PROVE  x \in Live \cup {id} /\ Request[l].id = x /\ s.call[l] \in {"waiting", "gone"}
    <3>1. CASE x = id
      BY <1>5, <1>6, <2>2, <3>1
    <3>2. CASE x # id
      <4>1. l \in child[x].reply
        BY <1>4, <2>2, <3>2
      <4>2. x \in Live /\ Request[l].id = x /\ call[l] \in {"waiting", "gone"}
        BY <4>1 DEF HeldCallers
      <4>3. l \in Calls
        BY <1>0, <4>1 DEF Child
      <4>4. l # k
        BY <3>2, <4>2
      <4> QED BY <1>6, <4>2, <4>3, <4>4
    <3> QED BY <3>1, <3>2
  <2>3. \A x \in Ids : \A l, n \in s.child[x].reply : l = n
    <3> SUFFICES ASSUME NEW x \in Ids PROVE \A l, n \in s.child[x].reply : l = n
      OBVIOUS
    <3>1. CASE x = id
      BY <1>5, <3>1
    <3>2. CASE x # id
      BY <1>4, <3>2 DEF HeldCallers
    <3> QED BY <3>1, <3>2
  <2>4. ASSUME NEW l \in Calls, s.call[l] = "waiting"
        PROVE  l \in s.child[Request[l].id].reply
    <3>1. CASE l = k
      BY <1>5, <3>1
    <3>2. CASE l # k
      <4>1. l \in child[Request[l].id].reply /\ Request[l].id \in Ids
        BY <1>6, <2>4, <3>2, RequestAssumption DEF HeldCallers, SpawnRequest
      <4>2. Request[l].id # id
        BY <1>2, <1>3, <4>1 DEF HeldCallers
      <4> QED BY <1>4, <4>1, <4>2
    <3> QED BY <3>1, <3>2
  <2> QED BY <2>1, <2>2, <2>3, <2>4 DEF HeldIn
<1>9. TakenUp(s, {id})
  BY <1>f, <1>1 DEF TakenUp
<1> QED BY <1>1, <1>7, <1>8, <1>9 DEF SettleStep
----------------------------------------------------------------------------
(* The invariant of those who wait.                                        *)

\* The three properties with the two facts that make them inductive.
WaitInv ==
    /\ HeldCallers
    /\ WokenChildren
    /\ PresentedOnce
    /\ NoStrandedMessage
    /\ NoStrandedWaiter

\* `f` is the record `e` after Settle, of a child that stays.
Stayed(f, e) ==
    /\ f.session = e.session /\ f.run = e.run /\ f.wake = e.wake
    /\ f.reply = e.reply /\ f.token = e.token

\* An entry that starts, or that moves up the queue, stays who it is.
LEMMA StayedRecord ==
  ASSUME NEW e \in Child, NEW S
  PROVE  /\ Stayed(Launched(e), e) /\ Launched(e).ahead = {}
         /\ Stayed(Advanced(e, S), e) /\ Advanced(e, S).ahead = e.ahead \ S
  BY DEF Child, Launched, Advanced, Stayed

\* Where the children are after Settle, and their records.
LEMMA EffectsRecords ==
  ASSUME Inv, NEW s, NEW first, NEW sweeps, HandOver(s, first, sweeps),
         NEW started, NEW swept, NEW completing,
         Effects(s, first, sweeps, started, swept, completing)
  PROVE  /\ started \subseteq queued \ first /\ swept \subseteq queued \ first
         /\ started \cap swept = {}
         /\ \A id \in started : ~s.child[id].token
         /\ \A id \in swept : s.child[id].token
         /\ queued' = (queued \ first) \ (started \cup swept)
         /\ pending' = (pending \ first) \cup started
         /\ active' = active \ first
         /\ Live' = Live \ (first \cup swept) /\ Live' \subseteq Ids
         /\ \A id \in Ids : id \in first \cup swept => child'[id] = NoChild
         /\ \A id \in Ids : id \notin first \cup swept => Stayed(child'[id], s.child[id])
<1>1. /\ started \subseteq queued \ first /\ swept \subseteq queued \ first
      /\ started \cap swept = {}
      /\ \A id \in started : ~s.child[id].token
      /\ \A id \in swept : s.child[id].token
  BY DEF Effects, HandOver, Startable
<1>2. /\ queued' = (queued \ first) \ (started \cup swept)
      /\ pending' = (pending \ first) \cup started
      /\ active' = active \ first
  BY DEF Effects, HandOver
<1>3. /\ Live \subseteq Ids /\ queued \cap (pending \cup active) = {}
  BY DEF Inv, TypeOK, Live, OneHome
<1>4. Live' = Live \ (first \cup swept)
  BY <1>1, <1>2, <1>3 DEF Live
<1>5. child' = [id \in Ids |->
          IF id \in first \cup swept THEN NoChild
          ELSE IF id \in started THEN Launched(s.child[id])
          ELSE Advanced(s.child[id], (first \cup swept) \cup started)]
  BY DEF Effects
<1>6. ASSUME NEW id \in Ids, id \notin first \cup swept
      PROVE  Stayed(child'[id], s.child[id])
  <2>1. s.child[id] \in Child
    BY DEF HandOver
  <2>2. CASE id \in started
    <3>1. child'[id] = Launched(s.child[id])
      BY <1>5, <1>6, <2>2
    <3> QED BY <2>1, <2>2, <3>1, StayedRecord
  <2>3. CASE id \notin started
    <3>1. child'[id] = Advanced(s.child[id], (first \cup swept) \cup started)
      BY <1>5, <1>6, <2>3
    <3> QED BY <2>1, <2>3, <3>1, StayedRecord
  <2> QED BY <2>2, <2>3
<1>7. \A id \in Ids : id \in first \cup swept => child'[id] = NoChild
  BY <1>5
<1> QED BY <1>1, <1>2, <1>3, <1>4, <1>6, <1>7

\* finish_child answers the callers of the children that leave and no others.
LEMMA SettleCallers ==
  ASSUME Inv, NEW s, NEW first, NEW sweeps, HandOver(s, first, sweeps), HeldIn(s, first),
         NEW started, NEW swept, NEW completing,
         Effects(s, first, sweeps, started, swept, completing)
  PROVE  HeldCallers'
<1> DEFINE gone == first \cup swept
<1>1. /\ Live' = Live \ gone
      /\ \A id \in Ids : id \in gone => child'[id] = NoChild
      /\ \A id \in Ids : id \notin gone => child'[id].reply = s.child[id].reply
  BY EffectsRecords DEF Stayed
<1>2. call' = [k \in Calls |->
          IF s.call[k] = "waiting" /\ \E id \in gone : k \in s.child[id].reply
          THEN "final" ELSE s.call[k]]
  BY DEF Effects
<1>3. gone \subseteq Ids
  <2>1. swept \subseteq queued \ first
    BY EffectsRecords
  <2> QED BY <2>1 DEF HandOver, Inv, TypeOK
<1>4. \A id \in Ids : s.child[id].reply \subseteq Calls
  BY DEF HandOver, Child
<1>5. NoChild.reply = {}
  BY DEF NoChild
<1>6. s.queued \cup s.pending \cup s.active \subseteq Live
  BY DEF HandOver, Live
<1>r. \A k \in Calls : Request[k].id \in Ids
  BY RequestAssumption DEF SpawnRequest
<1> HIDE DEF gone
<1>7. ASSUME NEW id \in Ids, NEW k \in child'[id].reply
      PROVE  id \in Live' /\ Request[k].id = id /\ call'[k] \in {"waiting", "gone"}
  <2>1. id \notin gone /\ k \in s.child[id].reply /\ k \in Calls
    BY <1>1, <1>4, <1>5, <1>7
  <2>2. Request[k].id = id /\ s.call[k] \in {"waiting", "gone"} /\ id \in Live
    BY <1>6, <2>1 DEF HeldIn, gone
  <2>3. ~\E x \in gone : k \in s.child[x].reply
    BY <1>3, <2>1, <2>2 DEF HeldIn
  <2>4. call'[k] = s.call[k]
    BY <1>2, <2>1, <2>3
  <2> QED BY <1>1, <2>1, <2>2, <2>4
<1>8. \A id \in Ids : \A k, l \in child'[id].reply : k = l
  BY <1>1, <1>5 DEF HeldIn
<1>9. ASSUME NEW k \in Calls, call'[k] = "waiting"
      PROVE  k \in child'[Request[k].id].reply
  <2>1. s.call[k] = "waiting" /\ ~\E id \in gone : k \in s.child[id].reply
    BY <1>2, <1>9
  <2>2. k \in s.child[Request[k].id].reply
    BY <2>1 DEF HeldIn
  <2> QED BY <1>1, <1>r, <2>1, <2>2
<1> QED BY <1>7, <1>8, <1>9 DEF HeldCallers

\* A woken child that stays is as it was.
LEMMA SettleWoken ==
  ASSUME Inv, WokenChildren, NEW s, NEW first, NEW sweeps, HandOver(s, first, sweeps),
         NEW started, NEW swept, NEW completing,
         Effects(s, first, sweeps, started, swept, completing)
  PROVE  WokenChildren'
<1> SUFFICES ASSUME NEW id \in Live', child'[id].wake # {}
             PROVE  /\ child'[id].run = NoRun /\ child'[id].reply = {}
                    /\ id \in queued' => ~child'[id].token
                    /\ \A r \in child'[id].wake : r.published
  BY DEF WokenChildren
<1>1. /\ id \in Live /\ id \in Ids /\ id \notin first \cup swept
      /\ Stayed(child'[id], s.child[id])
      /\ id \in queued' => id \in queued \ first
  BY EffectsRecords
<1>2. Passed(s.child[id], child[id])
  BY <1>1 DEF HandOver
<1>3. id \in queued' => s.child[id].token = child[id].token
  BY <1>1 DEF HandOver
<1>4. /\ child[id].run = NoRun /\ child[id].reply = {}
      /\ id \in queued => ~child[id].token
      /\ \A r \in child[id].wake : r.published
  BY <1>1, <1>2 DEF WokenChildren, Stayed, Passed
<1> QED BY <1>1, <1>2, <1>3, <1>4 DEF Stayed, Passed
\* A queue entry that the sweep finds cancelled was not woken, so it completes.
LEMMA SweptCompletes ==
  ASSUME Inv, WokenChildren, NEW s, NEW first, NEW sweeps, HandOver(s, first, sweeps),
         NEW started, NEW swept, NEW completing,
         Effects(s, first, sweeps, started, swept, completing)
  PROVE  swept \subseteq completing
<1> SUFFICES ASSUME NEW id \in swept PROVE id \in completing
  OBVIOUS
<1>1. id \in queued \ first /\ s.child[id].token
  BY EffectsRecords
<1>2. id \in Live
  BY <1>1 DEF Live
<1>3. child[id].token /\ Passed(s.child[id], child[id])
  BY <1>1, <1>2 DEF HandOver
<1>4. s.child[id].wake = {}
  BY <1>1, <1>2, <1>3 DEF WokenChildren, Passed
<1> QED BY <1>4 DEF Effects

\* A completion, made or restored, is being presented or was published.
LEMMA SettlePresented ==
  ASSUME Inv, WokenChildren, PresentedOnce, NEW s, NEW first, NEW sweeps,
         HandOver(s, first, sweeps), NEW started, NEW swept, NEW completing,
         Effects(s, first, sweeps, started, swept, completing)
  PROVE  PresentedOnce'
<1> SUFFICES ASSUME NEW id \in completed', id \in Addressed, ~done'[id].published
             PROVE  <<id, done'[id].age>> \in presenting'
  BY DEF PresentedOnce, Addressed
<1>1. Recorded(s, first \cup swept, completing, id)
  BY DEF Effects
<1>2. CASE id \in completing /\ <<id, done'[id].age>> \in presenting'
  BY <1>2
<1>3. CASE id \in (first \cup swept) \ completing /\ done'[id] \in s.child[id].wake
  <2>1. id \in first /\ s.child[id].wake # {}
    BY <1>3, SweptCompletes
  <2>2. id \in Live
    BY <2>1 DEF HandOver
  <2>3. done'[id] \in child[id].wake
    BY <1>3, <2>2 DEF HandOver, Passed
  <2> QED BY <2>2, <2>3 DEF WokenChildren
<1>4. CASE id \in completed \ completing /\ done'[id] = done[id]
  <2>1. <<id, done[id].age>> \in presenting
    BY <1>4 DEF PresentedOnce
  <2> QED BY <1>4, <2>1 DEF Effects
<1> QED BY <1>1, <1>2, <1>3, <1>4 DEF Recorded

\* A message in flight is to an active child.
LEMMA InFlightActive ==
  ASSUME Inv', NEW m \in Msgs, msg'[m] = "inflight"
  PROVE  To(m) \in active'
<1>1. /\ To(m) \in Ids
      /\ child'[To(m)].inFlight = Cardinality(InFlightTo(msg', To(m)))
      /\ child'[To(m)].inFlight # 0 => To(m) \in active'
  BY ToType DEF Inv, InFlightExact, InFlightTo, IdleCounts
<1>2. m \in InFlightTo(msg', To(m))
  BY DEF InFlightTo
<1>3. Cardinality(InFlightTo(msg', To(m))) # 0
  BY <1>2, InFlightFinite, FS_EmptySet
<1> QED BY <1>1, <1>3

\* The messages parked on the children that leave are answered.
LEMMA SettleHeld ==
  ASSUME Inv, Inv', WokenChildren, NoStrandedMessage, NEW s, NEW first, NEW sweeps,
         HandOver(s, first, sweeps), NEW started, NEW swept, NEW completing,
         Effects(s, first, sweeps, started, swept, completing)
  PROVE  NoStrandedMessage'
<1>1. /\ queued' = (queued \ first) \ (started \cup swept)
      /\ pending' = (pending \ first) \cup started
      /\ active' = active \ first
      /\ Live' = Live \ (first \cup swept) /\ Live \subseteq Ids
      /\ \A id \in Ids : id \notin first \cup swept => Stayed(child'[id], s.child[id])
  <2>1. Live \subseteq Ids
    BY DEF Live, Inv, TypeOK
  <2> QED BY <2>1, EffectsRecords
<1>2. \A id \in Live : id \notin first \cup swept => child'[id].wake = child[id].wake
  BY <1>1 DEF HandOver, Stayed, Passed
<1>3. swept \subseteq completing
  BY SweptCompletes
<1>4. ASSUME NEW m \in Msgs, msg'[m] \in {"wake", "parked", "initial"}
      PROVE  msg[m] = msg'[m]
  BY <1>4 DEF Effects, HandOver, Answered
<1>5. ASSUME NEW m \in Msgs, msg'[m] \in {"parked", "initial"}
      PROVE  To(m) \notin first \cup swept
  BY <1>3, <1>5 DEF Effects
<1>6. presenting \subseteq presenting' /\ published' = published
  BY DEF Effects
<1>7. ASSUME NEW m \in Msgs
      PROVE  /\ msg'[m] = "wake" => \E e \in presenting' \cup published' : e[1] = To(m)
             /\ msg'[m] = "parked" => \/ To(m) \in queued' \cup pending'
                                      \/ To(m) \in active' /\ child'[To(m)].wake # {}
             /\ msg'[m] = "initial" => To(m) \in Live' /\ child'[To(m)].wake # {}
             /\ msg'[m] = "inflight" => To(m) \in active'
  <2>1. CASE msg'[m] = "wake"
    BY <1>4, <1>6, <2>1 DEF NoStrandedMessage
  <2>2. CASE msg'[m] = "parked"
    <3>1. msg[m] = "parked" /\ To(m) \notin first \cup swept
      BY <1>4, <1>5, <2>2
    <3>2. \/ To(m) \in queued \cup pending
          \/ To(m) \in active /\ child[To(m)].wake # {}
      BY <3>1 DEF NoStrandedMessage
    <3>3. active \subseteq Live
      BY DEF Live
    <3> QED BY <1>1, <1>2, <2>2, <3>1, <3>2, <3>3
  <2>3. CASE msg'[m] = "initial"
    <3>1. msg[m] = "initial" /\ To(m) \notin first \cup swept
      BY <1>4, <1>5, <2>3
    <3>2. To(m) \in Live /\ child[To(m)].wake # {}
      BY <3>1 DEF NoStrandedMessage
    <3> QED BY <1>1, <1>2, <2>3, <3>1, <3>2
  <2>4. CASE msg'[m] = "inflight"
    BY <2>4, InFlightActive
  <2> QED BY <2>1, <2>2, <2>3, <2>4
<1> QED BY <1>7 DEF NoStrandedMessage

\* The queries, turns and workflow cancels that waited on what left are answered.
LEMMA SettleWaiters ==
  ASSUME Inv, WokenChildren, NoStrandedWaiter, NEW s, NEW first, NEW sweeps,
         HandOver(s, first, sweeps), NEW started, NEW swept, NEW completing,
         Effects(s, first, sweeps, started, swept, completing)
  PROVE  NoStrandedWaiter'
<1>1. /\ started \subseteq queued \ first /\ swept \subseteq queued \ first
      /\ pending' = (pending \ first) \cup started
      /\ active' = active \ first
      /\ Live' = Live \ (first \cup swept) /\ Live' \subseteq Ids
      /\ \A id \in Ids : id \notin first \cup swept => Stayed(child'[id], s.child[id])
  BY EffectsRecords
<1>2. \A q \in Queries : waiter'[q] \subseteq Live'
  BY <1>1 DEF Effects, NoStrandedWaiter
<1>3. \A x \in drainWaiters' : TurnBlocking(queued', pending', active', child', x) # {}
  BY DEF Effects
<1>4. ASSUME NEW r \in runWaiters'
      PROVE  Outstanding(pending', active', child', r) # {}
  <2>0. pending' \cup active' \subseteq Live' /\ pending \cup active \subseteq Live
    BY DEF Live
  <2>1. \A id \in pending' \cup active' : child'[id].run = s.child[id].run
    BY <1>1, <2>0 DEF Stayed
  <2>2. /\ r \in runWaiters /\ r \in Runs
        /\ ~RunDrained(r, completing, s.pending \cup started, s.active, s.child)
    BY DEF Effects, Inv, TypeOK
  <2>3. s.pending \cup started = pending' /\ s.active = active'
    BY DEF Effects
  <2>4. PICK id \in pending \cup active : child[id].run = r
    BY <2>2 DEF NoStrandedWaiter, Outstanding
  <2>5. id \in Live /\ s.child[id].run = r /\ s.child[id].wake = child[id].wake
    BY <2>0, <2>4 DEF HandOver, Passed
  <2>6. CASE id \notin first
    <3>1. id \in pending' \cup active'
      BY <1>1, <2>4, <2>6
    <3>2. child'[id].run = r
      BY <2>1, <2>5, <3>1
    <3> QED BY <3>1, <3>2 DEF Outstanding
  <2>7. CASE id \in first
    <3>1. child[id].wake = {}
      BY <2>2, <2>4, <2>5, OwnerAssumption DEF WokenChildren
    <3>2. id \in completing
      BY <2>5, <2>7, <3>1 DEF Effects
    <3>3. Outstanding(pending', active', s.child, r) # {}
      BY <2>2, <2>3, <2>5, <3>2 DEF RunDrained
    <3> QED BY <2>1, <3>3 DEF Outstanding
  <2> QED BY <2>6, <2>7
<1> QED BY <1>2, <1>3, <1>4 DEF NoStrandedWaiter

\* Every handler that ends in Settle strands nobody.
LEMMA SettleWaitInv ==
  ASSUME Inv, Inv', WaitInv, SettleStep
  PROVE  WaitInv'
<1>0. TypeOK
  BY DEF Inv
<1>1. PICK s, first, ok, sweeps : /\ HandOver(s, first, sweeps) /\ HeldIn(s, first)
                                  /\ Settle(s, first, ok, sweeps)
  BY DEF SettleStep
<1>2. PICK started, swept, completing : Effects(s, first, sweeps, started, swept, completing)
  BY <1>0, <1>1, SettleEffects
<1>3. HeldCallers'
  BY <1>1, <1>2, SettleCallers
<1>4. WokenChildren'
  BY <1>1, <1>2, SettleWoken DEF WaitInv
<1>5. PresentedOnce'
  BY <1>1, <1>2, SettlePresented DEF WaitInv
<1>6. NoStrandedMessage'
  BY <1>1, <1>2, SettleHeld DEF WaitInv
<1>7. NoStrandedWaiter'
  BY <1>1, <1>2, SettleWaiters DEF WaitInv
<1> QED BY <1>3, <1>4, <1>5, <1>6, <1>7 DEF WaitInv
----------------------------------------------------------------------------
(* Steps that leave every child in its map.                                *)

\* `f` is a later record of the child `e`, which blocks its turn, holds its
\* caller and stands in the queue as before.
Calm(f, e) ==
    /\ f.session = e.session /\ f.run = e.run /\ f.prompt = e.prompt
    /\ f.background = e.background /\ f.defbg = e.defbg /\ f.bg = e.bg
    /\ f.reply = e.reply /\ f.wake = e.wake /\ f.ahead = e.ahead
    /\ e.token => f.token

\* A spawn call that no child holds moves on; a waiting caller may go.
CallKept(old, new) ==
    \/ new = old
    \/ old \in {"idle", "sent"} /\ new # "waiting"
    \/ old = "waiting" /\ new = "gone"

\* The children are calm, and who starts to wait has something to wait for.
CalmStep ==
    /\ UNCHANGED <<queued, pending, active>>
    /\ \A id \in Ids : Calm(child'[id], child[id])
    /\ \A id \in queued : child[id].wake # {} => child'[id].token = child[id].token
    /\ \A k \in Calls : CallKept(call[k], call'[k])
    /\ \A q \in Queries : waiter'[q] \subseteq waiter[q] \cup Live
    /\ \A x \in drainWaiters' :
          x \in drainWaiters \/ TurnBlocking(queued, pending, active, child, x) # {}
    /\ \A r \in runWaiters' :
          r \in runWaiters \/ Outstanding(pending, active, child, r) # {}

\* What a handler does to the completions: nothing.
HistorySame == UNCHANGED <<completed, done, presenting>>

\* Messages are answered or admitted, none is parked, none is forgotten.
MessagesSettle ==
    /\ UNCHANGED <<presenting, published>>
    /\ \A m \in Msgs : msg'[m] = msg[m] \/ msg'[m] \in Answered \cup {"inflight"}

\* A calm step holds up nobody's turn and lets nobody's turn through.
LEMMA TurnSame ==
  ASSUME Inv, UNCHANGED <<queued, pending, active>>,
         \A id \in Ids : Calm(child'[id], child[id]), NEW x
  PROVE  /\ TurnBlocking(queued', pending', active', child', x)
               = TurnBlocking(queued, pending, active, child, x)
         /\ \A r : Outstanding(pending', active', child', r) = Outstanding(pending, active, child, r)
<1>1. queued \cup pending \cup active \subseteq Ids
  BY DEF Inv, TypeOK
<1>2. \A id \in queued \cup pending \cup active : Calm(child'[id], child[id])
  BY <1>1
<1> QED BY <1>2 DEF TurnBlocking, Outstanding, Calm

\* A calm step strands no caller and no waiter.
LEMMA CalmRest ==
  ASSUME Inv, WaitInv, CalmStep
  PROVE  HeldCallers' /\ WokenChildren' /\ NoStrandedWaiter'
<1>1. Live' = Live /\ Live \subseteq Ids
  BY DEF CalmStep, Live, Inv, TypeOK
<1>2. \A id \in Ids : child'[id].reply = child[id].reply
  BY DEF CalmStep, Calm
<1>3. HeldCallers'
  <2>1. \A id \in Ids : child[id].reply \subseteq Calls
    BY DEF Inv, TypeOK, Child
  <2>2. ASSUME NEW id \in Ids, NEW k \in child'[id].reply
        PROVE  id \in Live' /\ Request[k].id = id /\ call'[k] \in {"waiting", "gone"}
    <3>1. k \in child[id].reply /\ k \in Calls
      BY <1>2, <2>1, <2>2
    <3>2. id \in Live /\ Request[k].id = id /\ call[k] \in {"waiting", "gone"}
      BY <3>1 DEF WaitInv, HeldCallers
    <3>3. CallKept(call[k], call'[k])
      BY <3>1 DEF CalmStep
    <3> QED BY <1>1, <3>2, <3>3 DEF CallKept
  <2>3. \A id \in Ids : \A k, l \in child'[id].reply : k = l
    BY <1>2 DEF WaitInv, HeldCallers
  <2>4. ASSUME NEW k \in Calls, call'[k] = "waiting"
        PROVE  k \in child'[Request[k].id].reply
    <3>1. call[k] = "waiting"
      BY <2>4 DEF CalmStep, CallKept
    <3>2. k \in child[Request[k].id].reply /\ Request[k].id \in Ids
      BY <3>1, RequestAssumption DEF WaitInv, HeldCallers, SpawnRequest
    <3> QED BY <1>2, <3>2
  <2> QED BY <2>2, <2>3, <2>4 DEF HeldCallers
<1>4. WokenChildren'
  <2> SUFFICES ASSUME NEW id \in Live', child'[id].wake # {}
               PROVE  /\ child'[id].run = NoRun /\ child'[id].reply = {}
                      /\ id \in queued' => ~child'[id].token
                      /\ \A r \in child'[id].wake : r.published
    BY DEF WokenChildren
  <2>1. id \in Live /\ Calm(child'[id], child[id])
    BY <1>1 DEF CalmStep
  <2>2. /\ child[id].run = NoRun /\ child[id].reply = {}
        /\ id \in queued => ~child[id].token
        /\ \A r \in child[id].wake : r.published
    BY <2>1 DEF WaitInv, WokenChildren, Calm
  <2>3. id \in queued' => id \in queued /\ child'[id].token = child[id].token
    BY <2>1 DEF CalmStep, Calm
  <2> QED BY <2>1, <2>2, <2>3 DEF Calm
<1>5. NoStrandedWaiter'
  <2>1. \A q \in Queries : waiter'[q] \subseteq Live'
    BY <1>1 DEF CalmStep, WaitInv, NoStrandedWaiter
  <2>2. \A x : TurnBlocking(queued', pending', active', child', x)
                 = TurnBlocking(queued, pending, active, child, x)
    BY TurnSame DEF CalmStep
  <2>3. \A r : Outstanding(pending', active', child', r) = Outstanding(pending, active, child, r)
    BY TurnSame DEF CalmStep
  <2> QED BY <2>1, <2>2, <2>3 DEF CalmStep, WaitInv, NoStrandedWaiter
<1> QED BY <1>3, <1>4, <1>5

\* A step after which the history is the same.
LEMMA PresentedSame ==
  ASSUME PresentedOnce, HistorySame
  PROVE  PresentedOnce'
  BY DEF PresentedOnce, HistorySame, Addressed, To

\* A calm step that parks no message strands none.
LEMMA CalmMessages ==
  ASSUME Inv, Inv', WaitInv, CalmStep, MessagesSettle
  PROVE  NoStrandedMessage'
<1> SUFFICES ASSUME NEW m \in Msgs
      PROVE  /\ msg'[m] = "wake" => \E e \in presenting' \cup published' : e[1] = To(m)
             /\ msg'[m] = "parked" => \/ To(m) \in queued' \cup pending'
                                      \/ To(m) \in active' /\ child'[To(m)].wake # {}
             /\ msg'[m] = "initial" => To(m) \in Live' /\ child'[To(m)].wake # {}
             /\ msg'[m] = "inflight" => To(m) \in active'
  BY DEF NoStrandedMessage, To
<1>1. msg'[m] \in {"wake", "parked", "initial"} => msg'[m] = msg[m]
  BY DEF MessagesSettle, Answered
<1>2. Live' = Live /\ child'[To(m)].wake = child[To(m)].wake
  BY ToType DEF CalmStep, Calm, Live
<1>3. /\ msg[m] = "wake" => \E e \in presenting \cup published : e[1] = To(m)
      /\ msg[m] = "parked" => \/ To(m) \in queued \cup pending
                              \/ To(m) \in active /\ child[To(m)].wake # {}
      /\ msg[m] = "initial" => To(m) \in Live /\ child[To(m)].wake # {}
  BY DEF WaitInv, NoStrandedMessage
<1>4. msg'[m] = "inflight" => To(m) \in active'
  BY InFlightActive
<1> QED BY <1>1, <1>2, <1>3, <1>4 DEF CalmStep, MessagesSettle

\* A calm step keeps the invariant.
LEMMA CalmWaitInv ==
  ASSUME Inv, Inv', WaitInv, CalmStep, HistorySame, MessagesSettle
  PROVE  WaitInv'
  BY CalmRest, PresentedSame, CalmMessages DEF WaitInv

\* The records the handlers make are calm.
LEMMA CalmRecords ==
  ASSUME NEW e \in Child
  PROVE  /\ Calm(e, e) /\ Calm(Cancelled(e), e) /\ Calm(Closed(e), e) /\ Calm(Aborted(e), e)
         /\ \A n : Calm(Counted(e, n), e)
         /\ \A b : Calm(Settled(e, b), e)
  BY DEF Calm, Cancelled, Closed, Aborted, Counted, Settled, Child
\* Steps that change no child record.
LEMMA StillCalm ==
  ASSUME Inv, \/ \E k \in Calls : CallSpawn(k) \/ SpawnReject(k)
              \/ \E s \in Sess : OpenSpawnAdmission(s) \/ TeardownDeadline(s)
              \/ \E q \in Queries, id \in Ids, s \in Sess : Query(q, id, s)
              \/ \E q \in Queries : WaiterDeadline(q)
              \/ \E scope \in Scope : WaitPromptDrained(scope)
              \/ \E id \in Ids : StartedCancelled(id)
              \/ \E m \in Msgs : ParkedDeadline(m)
  PROVE  CalmStep /\ HistorySame /\ MessagesSettle
<1>0. /\ call \in [Calls -> CallState] /\ waiter \in [Queries -> SUBSET Ids]
      /\ msg \in [Msgs -> MsgState] /\ child \in [Ids -> Child]
  BY DEF Inv, TypeOK
<1>1. /\ UNCHANGED <<queued, pending, active, completed, child, done, presenting, published,
                     runWaiters>>
  BY DEF CallSpawn, SpawnReject, OpenSpawnAdmission, TeardownDeadline, Query, WaiterDeadline,
         WaitPromptDrained, StartedCancelled, ParkedDeadline
<1>2. \A id \in Ids : Calm(child'[id], child[id])
  BY <1>0, <1>1, CalmRecords
<1>3. \A k \in Calls : CallKept(call[k], call'[k])
  <2>1. CASE \E k \in Calls : CallSpawn(k) \/ SpawnReject(k)
    BY <1>0, <2>1 DEF CallKept, CallSpawn, SpawnReject
  <2>2. CASE UNCHANGED call
    BY <2>2 DEF CallKept
  <2> QED
    BY <2>1, <2>2 DEF OpenSpawnAdmission, TeardownDeadline, Query, WaiterDeadline,
                      WaitPromptDrained, StartedCancelled, ParkedDeadline
<1>4. \A q \in Queries : waiter'[q] \subseteq waiter[q] \cup Live
  <2>1. CASE \E q \in Queries, id \in Ids, s \in Sess : Query(q, id, s)
    BY <1>0, <2>1 DEF Query
  <2>2. CASE \E q \in Queries : WaiterDeadline(q)
    BY <1>0, <2>2 DEF WaiterDeadline
  <2>3. CASE UNCHANGED waiter
    BY <2>3
  <2> QED
    BY <2>1, <2>2, <2>3 DEF CallSpawn, SpawnReject, OpenSpawnAdmission, TeardownDeadline,
                            WaitPromptDrained, StartedCancelled, ParkedDeadline
<1>5. \A x \in drainWaiters' :
         x \in drainWaiters \/ TurnBlocking(queued, pending, active, child, x) # {}
  BY DEF CallSpawn, SpawnReject, OpenSpawnAdmission, TeardownDeadline, Query,
         WaiterDeadline, WaitPromptDrained, StartedCancelled, ParkedDeadline
<1>6. \A m \in Msgs : msg'[m] = msg[m] \/ msg'[m] \in Answered \cup {"inflight"}
  BY <1>0 DEF CallSpawn, SpawnReject, OpenSpawnAdmission, TeardownDeadline, Query,
         WaiterDeadline, WaitPromptDrained, StartedCancelled, ParkedDeadline, RejectParked,
         Answered
<1> QED BY <1>1, <1>2, <1>3, <1>4, <1>5, <1>6 DEF CalmStep, HistorySame, MessagesSettle

\* Cancelled tokens make calm records.
LEMMA CancelTokensCalm ==
  ASSUME NEW c \in [Ids -> Child], NEW S
  PROVE  \A id \in Ids : /\ Calm(CancelTokens(c, S)[id], c[id])
                         /\ id \notin S => CancelTokens(c, S)[id] = c[id]
<1> SUFFICES ASSUME NEW id \in Ids
             PROVE  /\ Calm(CancelTokens(c, S)[id], c[id])
                    /\ id \notin S => CancelTokens(c, S)[id] = c[id]
  OBVIOUS
<1>1. CancelTokens(c, S)[id] = IF id \in S THEN Cancelled(c[id]) ELSE c[id]
  BY DEF CancelTokens, Cancelled
<1> QED BY <1>1, CalmRecords

\* Steps that cancel tokens.
LEMMA CancelsCalm ==
  ASSUME Inv, WaitInv, \/ \E k \in Calls : DropCaller(k)
                       \/ \E id \in Ids : RevokeToken(id)
                       \/ \E r \in Runs : CancelWorkflow(r)
  PROVE  CalmStep /\ HistorySame /\ MessagesSettle
<1>0. /\ call \in [Calls -> CallState] /\ waiter \in [Queries -> SUBSET Ids]
      /\ msg \in [Msgs -> MsgState] /\ child \in [Ids -> Child] /\ Live \subseteq Ids
      /\ queued \subseteq Live
  BY DEF Inv, TypeOK, Live
<1>1. UNCHANGED <<queued, pending, active, completed, done, presenting, published, waiter,
                  drainWaiters>>
  BY DEF DropCaller, RevokeToken, CancelWorkflow
<1>2. PICK S : /\ child' = CancelTokens(child, S)
               /\ \A id \in S \cap queued : child[id].wake = {}
  <2>1. CASE \E k \in Calls : DropCaller(k)
    <3>1. PICK k \in Calls : DropCaller(k)
      BY <2>1
    <3> DEFINE S == {id \in Live : k \in child[id].reply /\ Request[k].run # NoRun}
    <3>2. child' = CancelTokens(child, S)
      BY <3>1 DEF DropCaller
    <3>3. \A id \in S \cap queued : child[id].wake = {}
      BY DEF WaitInv, WokenChildren
    <3> QED BY <3>2, <3>3
  <2>2. CASE \E id \in Ids : RevokeToken(id)
    BY <2>2 DEF RevokeToken
  <2>3. CASE \E r \in Runs : CancelWorkflow(r)
    <3>1. PICK r \in Runs : CancelWorkflow(r)
      BY <2>3
    <3>2. PICK s \in Sess :
            child' = CancelTokens(child, {id \in Outstanding(pending, active, child, r) :
                                             child[id].session = s})
      BY <3>1 DEF CancelWorkflow
    <3> DEFINE S == {id \in Outstanding(pending, active, child, r) : child[id].session = s}
    <3>3. S \cap queued = {}
      BY DEF Outstanding, Inv, OneHome
    <3> HIDE DEF S
    <3> QED BY <3>2, <3>3 DEF S
  <2> QED BY <2>1, <2>2, <2>3
<1>3. /\ \A id \in Ids : Calm(child'[id], child[id])
      /\ \A id \in queued : child[id].wake # {} => child'[id].token = child[id].token
  BY <1>0, <1>2, CancelTokensCalm
<1>4. \A k \in Calls : CallKept(call[k], call'[k])
  BY <1>0 DEF CallKept, DropCaller, RevokeToken, CancelWorkflow
<1>5. \A r \in runWaiters' : r \in runWaiters \/ Outstanding(pending, active, child, r) # {}
  BY DEF DropCaller, RevokeToken, CancelWorkflow
<1>6. \A m \in Msgs : msg'[m] = msg[m] \/ msg'[m] \in Answered \cup {"inflight"}
  BY <1>0 DEF DropCaller, RevokeToken, CancelWorkflow, RejectParked, Answered
<1> QED BY <1>1, <1>3, <1>4, <1>5, <1>6 DEF CalmStep, HistorySame, MessagesSettle

\* One record of a child that is not queued is replaced by a calm one.
LEMMA OneCalm ==
  ASSUME Inv, NEW id \in Ids, id \in pending \cup active, NEW e,
         child' = [child EXCEPT ![id] = e], Calm(e, child[id]),
         UNCHANGED <<queued, pending, active, call, waiter, drainWaiters, runWaiters>>
  PROVE  CalmStep
<1>0. child \in [Ids -> Child] /\ queued \subseteq Ids /\ id \notin queued
  BY DEF Inv, TypeOK, OneHome
<1>1. child'[id] = e /\ \A x \in Ids \ {id} : child'[x] = child[x]
  BY <1>0
<1>2. \A x \in Ids : Calm(child'[x], child[x])
  BY <1>0, <1>1, CalmRecords
<1>3. \A x \in queued : child'[x].token = child[x].token
  BY <1>0, <1>1
<1> QED BY <1>2, <1>3 DEF CalmStep, CallKept

\* A runner's report, an output held back, a refused wake and an admission
\* that is not the last of a held-back child.
LEMMA RunnerCalm ==
  ASSUME Inv, \/ \E id \in Ids : Finalizing(id)
              \/ \E id \in Ids, ok \in BOOLEAN : HoldOutput(id, ok)
              \/ \E id \in Ids : SettleDeferredStart(id, FALSE)
              \/ \E m \in Msgs, outcome \in {"accepted", "rejected", "uncertain"} :
                    /\ AdmissionDone(m, outcome)
                    /\ ~(Ended(m, outcome)[To(m)].inFlight = 0 /\ outputs[To(m)] # "none")
  PROVE  CalmStep /\ HistorySame /\ MessagesSettle
<1>0. msg \in [Msgs -> MsgState] /\ child \in [Ids -> Child]
  BY DEF Inv, TypeOK
<1>1. CASE (\E id \in Ids : Finalizing(id)) \/ (\E id \in Ids, ok \in BOOLEAN : HoldOutput(id, ok))
  <2>1. PICK id \in Ids : Finalizing(id) \/ \E ok \in BOOLEAN : HoldOutput(id, ok)
    BY <1>1
  <2>2. /\ id \in active /\ child' = [child EXCEPT ![id] = Closed(child[id])]
        /\ UNCHANGED <<queued, pending, active, completed, done, presenting, published, call,
                       waiter, drainWaiters, runWaiters, msg>>
    BY <1>0, <2>1 DEF Finalizing, HoldOutput, Closed
  <2>3. Calm(Closed(child[id]), child[id])
    BY <1>0, CalmRecords
  <2>4. CalmStep
    BY <2>2, <2>3, OneCalm
  <2> QED BY <2>2, <2>4 DEF HistorySame, MessagesSettle
<1>2. CASE \E id \in Ids : SettleDeferredStart(id, FALSE)
  <2>1. PICK id \in Ids : SettleDeferredStart(id, FALSE)
    BY <1>2
  <2>2. /\ id \in active /\ child' = [child EXCEPT ![id] = Aborted(child[id])]
        /\ msg' = RejectParked(msg, {id})
        /\ UNCHANGED <<queued, pending, active, completed, done, presenting, published, call,
                       waiter, drainWaiters, runWaiters>>
    BY <1>0, <2>1 DEF SettleDeferredStart, Aborted
  <2>3. Calm(Aborted(child[id]), child[id])
    BY <1>0, CalmRecords
  <2>4. CalmStep
    BY <2>2, <2>3, OneCalm
  <2>5. \A m \in Msgs : msg'[m] = msg[m] \/ msg'[m] \in Answered
    BY <2>2 DEF RejectParked, Answered
  <2> QED BY <2>2, <2>4, <2>5 DEF HistorySame, MessagesSettle
<1>3. CASE \E m \in Msgs, outcome \in {"accepted", "rejected", "uncertain"} :
              /\ AdmissionDone(m, outcome)
              /\ ~(Ended(m, outcome)[To(m)].inFlight = 0 /\ outputs[To(m)] # "none")
  <2>1. PICK m \in Msgs, outcome \in {"accepted", "rejected", "uncertain"} :
              /\ AdmissionDone(m, outcome)
              /\ ~(Ended(m, outcome)[To(m)].inFlight = 0 /\ outputs[To(m)] # "none")
    BY <1>3
  <2>2. /\ child' = Ended(m, outcome) /\ msg' = [msg EXCEPT ![m] = outcome]
        /\ UNCHANGED <<queued, pending, active, completed, done, presenting, published, call,
                       waiter, drainWaiters, runWaiters>>
    BY <2>1 DEF AdmissionDone, Ended
  <2>3. /\ To(m) \in active /\ To(m) \in Ids
        /\ \A x \in Ids \ {To(m)} : Ended(m, outcome)[x] = child[x]
        /\ \E b \in BOOLEAN : Ended(m, outcome)[To(m)] = Settled(child[To(m)], b)
        /\ Ended(m, outcome) \in [Ids -> Child]
    BY <2>1, ToType, AdmissionEnds
  <2>4. Calm(child'[To(m)], child[To(m)])
    BY <1>0, <2>2, <2>3, CalmRecords
  <2>5. child' = [child EXCEPT ![To(m)] = child'[To(m)]]
    BY <1>0, <2>2, <2>3
  <2>6. CalmStep
    BY <2>2, <2>3, <2>4, <2>5, OneCalm
  <2>7. \A x \in Msgs : msg'[x] = msg[x] \/ msg'[x] \in Answered
    BY <1>0, <2>2 DEF Answered
  <2> QED BY <2>2, <2>6, <2>7 DEF HistorySame, MessagesSettle
<1> QED BY <1>1, <1>2, <1>3
----------------------------------------------------------------------------
(* Messages to a child.                                                    *)

\* The parked wakes outside `M` still have their event to come.
WakesKept(M) ==
    \A m \in Msgs \ M : msg[m] = "wake" => \E e \in presenting' \cup published' : e[1] = To(m)

\* Where a message that was just handled is held.
HeldAt(m, id) ==
    \/ msg'[m] \in {"rejected", "inflight"}
    \/ msg'[m] = "parked" /\ id \in queued \cup pending
    \/ msg'[m] = "wake" /\ \E e \in presenting' : e[1] = id

\* Messages to a child that stays in its map are held where it is answered.
LEMMA HandledMessages ==
  ASSUME Inv, Inv', WaitInv, CalmStep, NEW id \in Ids, NEW M \in SUBSET Msgs,
         \A m \in M : To(m) = id, WakesKept(M),
         \A m \in Msgs \ M : msg'[m] = msg[m],
         \A m \in M : HeldAt(m, id)
  PROVE  NoStrandedMessage'
<1> SUFFICES ASSUME NEW m \in Msgs
      PROVE  /\ msg'[m] = "wake" => \E e \in presenting' \cup published' : e[1] = To(m)
             /\ msg'[m] = "parked" => \/ To(m) \in queued' \cup pending'
                                      \/ To(m) \in active' /\ child'[To(m)].wake # {}
             /\ msg'[m] = "initial" => To(m) \in Live' /\ child'[To(m)].wake # {}
             /\ msg'[m] = "inflight" => To(m) \in active'
  BY DEF NoStrandedMessage, To
<1>1. Live' = Live /\ child'[To(m)].wake = child[To(m)].wake
      /\ UNCHANGED <<queued, pending, active>>
  BY ToType DEF CalmStep, Calm, Live
<1>2. msg'[m] = "inflight" => To(m) \in active'
  BY InFlightActive
<1>3. CASE m \in M
  BY <1>1, <1>2, <1>3 DEF HeldAt
<1>4. CASE m \notin M
  <2>1. msg'[m] = msg[m]
    BY <1>4
  <2>2. /\ msg[m] = "wake" => \E e \in presenting' \cup published' : e[1] = To(m)
        /\ msg[m] = "parked" => \/ To(m) \in queued \cup pending
                                \/ To(m) \in active /\ child[To(m)].wake # {}
        /\ msg[m] = "initial" => To(m) \in Live /\ child[To(m)].wake # {}
    BY <1>4 DEF WaitInv, NoStrandedMessage, WakesKept
  <2> QED BY <1>1, <1>2, <2>1, <2>2
<1> QED BY <1>3, <1>4

\* A message that is refused, admitted, parked or held for a wake.
LEMMA DeliverCalmWait ==
  ASSUME Inv, Inv', WaitInv, NEW id \in Ids, NEW M \in SUBSET Msgs,
         \A m \in M : To(m) = id, WakesKept(M),
         \/ DeliverRefused(id, M) \/ DeliverActive(id, M)
         \/ DeliverPark(id, M) \/ DeliverHold(id, M),
         DeliverFrame
  PROVE  WaitInv'
<1>0. child \in [Ids -> Child] /\ child[id] \in Child
  BY DEF Inv, TypeOK
<1>1. /\ UNCHANGED <<queued, pending, active, completed, done>>
      /\ UNCHANGED <<call, waiter, drainWaiters, runWaiters, presenting>>
  BY DEF DeliverRefused, DeliverActive, DeliverPark, DeliverHold, DeliverFrame
<1>2. CalmStep
  <2>1. CASE DeliverActive(id, M)
    <3>1. PICK A : child' = [child EXCEPT ![id].inFlight = @ + Cardinality(A)]
      BY <2>1 DEF DeliverActive
    <3> DEFINE n == child[id].inFlight + Cardinality(A)
    <3>2. child' = [child EXCEPT ![id] = Counted(child[id], n)]
      BY <1>0, <3>1 DEF Counted
    <3> HIDE DEF n
    <3>3. Calm(Counted(child[id], n), child[id]) /\ id \in pending \cup active
      BY <1>0, <2>1, CalmRecords DEF DeliverActive
    <3> QED BY <1>1, <3>2, <3>3, OneCalm
  <2>2. CASE DeliverRefused(id, M) \/ DeliverPark(id, M) \/ DeliverHold(id, M)
    <3>1. UNCHANGED child
      BY <2>2 DEF DeliverRefused, DeliverPark, DeliverHold
    <3>2. \A x \in Ids : Calm(child'[x], child[x])
      BY <1>0, <3>1, CalmRecords
    <3> QED BY <1>1, <3>1, <3>2 DEF CalmStep, CallKept
  <2> QED BY <2>1, <2>2
<1>3. HistorySame
  BY <1>1 DEF HistorySame
<1>4. Owned(id, M) \subseteq M
  BY DEF Owned
<1>5. (\A m \in Msgs \ M : msg'[m] = msg[m]) /\ \A m \in M : HeldAt(m, id)
  <2>1. CASE DeliverRefused(id, M)
    BY <2>1 DEF DeliverRefused, Route, HeldAt
  <2>2. CASE DeliverActive(id, M)
    <3>1. PICK A \in Admissible(child[id], Owned(id, M)) :
            msg' = [m \in Msgs |-> IF m \in A THEN "inflight"
                                    ELSE IF m \in M THEN "rejected" ELSE msg[m]]
      BY <2>2 DEF DeliverActive
    <3>2. A \subseteq M
      BY <1>4, <3>1 DEF Admissible
    <3> QED BY <3>1, <3>2 DEF HeldAt
  <2>3. CASE DeliverPark(id, M)
    BY <1>4, <2>3 DEF DeliverPark, Answer, HeldAt
  <2>4. CASE DeliverHold(id, M)
    <3>1. PICK m \in M : TRUE
      BY <1>4, <2>4 DEF DeliverHold
    <3>2. id \in completed \cap Addressed /\ ~done[id].published
      BY <2>4, <3>1 DEF DeliverHold, Addressed
    <3>3. <<id, done[id].age>> \in presenting'
      BY <1>1, <3>2 DEF WaitInv, PresentedOnce
    <3>4. \E e \in presenting' : e[1] = id
      BY <3>3
    <3> QED BY <1>4, <2>4, <3>4 DEF DeliverHold, Answer, HeldAt
  <2> QED BY <2>1, <2>2, <2>3, <2>4
<1>6. NoStrandedMessage'
  BY <1>2, <1>5, HandledMessages
<1> QED BY <1>2, <1>3, <1>6, CalmRest, PresentedSame DEF WaitInv
----------------------------------------------------------------------------
(* New entries.                                                            *)

\* The record of `id`, which was not live, is made and goes to the queue or
\* to the pending map.
NewEntry(id, e) ==
    /\ id \in Ids /\ id \notin Live /\ e \in Child
    /\ child' = [child EXCEPT ![id] = e]
    /\ \/ queued' = queued \cup {id} /\ pending' = pending
       \/ queued' = queued /\ pending' = pending \cup {id}
    /\ active' = active

\* A new entry disturbs no other.
LEMMA NewEntryRecords ==
  ASSUME Inv, NEW id, NEW e, NewEntry(id, e)
  PROVE  /\ Live' = Live \cup {id} /\ Live \subseteq Ids
         /\ child'[id] = e /\ \A x \in Ids \ {id} : child'[x] = child[x]
<1>1. child \in [Ids -> Child]
  BY DEF Inv, TypeOK
<1>2. child'[id] = e /\ \A x \in Ids \ {id} : child'[x] = child[x]
  BY <1>1 DEF NewEntry
<1>3. Live' = Live \cup {id} /\ Live \subseteq Ids
  BY DEF Live, NewEntry, Inv, TypeOK
<1> QED BY <1>2, <1>3

\* A new entry takes nothing from those who wait.
LEMMA NewEntryWaiters ==
  ASSUME Inv, WaitInv, NEW id, NEW e, NewEntry(id, e), UNCHANGED <<waiter, runWaiters>>,
         \A x \in drainWaiters' : x \in drainWaiters
  PROVE  NoStrandedWaiter'
<1>0. /\ Live' = Live \cup {id} /\ Live \subseteq Ids
      /\ \A x \in Ids \ {id} : child'[x] = child[x]
  BY NewEntryRecords
<1>1. /\ queued \cup pending \cup active \subseteq Ids /\ id \notin queued \cup pending \cup active
      /\ \A x \in queued \cup pending \cup active : child'[x] = child[x]
  BY <1>0 DEF NewEntry, Live
<1>2. /\ queued \subseteq queued' /\ pending \subseteq pending' /\ active = active'
      /\ \A x \in queued \cup pending \cup active : x \in queued' <=> x \in queued
  BY <1>1 DEF NewEntry
<1>3. ASSUME NEW x PROVE TurnBlocking(queued, pending, active, child, x)
                           \subseteq TurnBlocking(queued', pending', active', child', x)
  BY <1>1, <1>2 DEF TurnBlocking
<1>4. ASSUME NEW r PROVE Outstanding(pending, active, child, r)
                           \subseteq Outstanding(pending', active', child', r)
  BY <1>1, <1>2 DEF Outstanding
<1>5. \A q \in Queries : waiter'[q] \subseteq Live'
  BY <1>0 DEF WaitInv, NoStrandedWaiter
<1>6. \A x \in drainWaiters' : TurnBlocking(queued', pending', active', child', x) # {}
  BY <1>3 DEF WaitInv, NoStrandedWaiter
<1>7. \A r \in runWaiters' : Outstanding(pending', active', child', r) # {}
  BY <1>4 DEF WaitInv, NoStrandedWaiter
<1> QED BY <1>5, <1>6, <1>7 DEF NoStrandedWaiter

\* A new entry is as WokenChildren says if its own record is.
LEMMA NewEntryWoken ==
  ASSUME Inv, WaitInv, NEW id, NEW e, NewEntry(id, e),
         e.wake # {} => /\ e.run = NoRun /\ e.reply = {} /\ ~e.token
                        /\ \A r \in e.wake : r.published
  PROVE  WokenChildren'
<1>0. /\ Live' = Live \cup {id} /\ Live \subseteq Ids
      /\ child'[id] = e /\ \A x \in Ids \ {id} : child'[x] = child[x]
  BY NewEntryRecords
<1>1. \A x \in Live : x # id /\ (x \in queued' => x \in queued)
  BY DEF NewEntry, Live
<1> QED BY <1>0, <1>1 DEF WokenChildren, WaitInv

\* A message held at a child that was live is still held there.
LEMMA NewEntryMessages ==
  ASSUME Inv, WaitInv, NEW id, NEW e, NewEntry(id, e), NEW m \in Msgs
  PROVE  /\ msg[m] = "parked" => \/ To(m) \in queued' \cup pending'
                                 \/ To(m) \in active' /\ child'[To(m)].wake # {}
         /\ msg[m] = "initial" => To(m) \in Live' /\ child'[To(m)].wake # {}
<1>0. /\ Live' = Live \cup {id} /\ Live \subseteq Ids
      /\ \A x \in Ids \ {id} : child'[x] = child[x]
  BY NewEntryRecords
<1>1. \A x \in Live : child'[x] = child[x]
  BY <1>0 DEF NewEntry
<1>2. /\ queued \cup pending \subseteq queued' \cup pending' /\ active = active'
      /\ active \subseteq Live
  BY DEF NewEntry, Live
<1>3. /\ msg[m] = "parked" => \/ To(m) \in queued \cup pending
                              \/ To(m) \in active /\ child[To(m)].wake # {}
      /\ msg[m] = "initial" => To(m) \in Live /\ child[To(m)].wake # {}
  BY DEF WaitInv, NoStrandedMessage
<1> QED BY <1>0, <1>1, <1>2, <1>3

\* The record of a spawn, as it starts or queues.
LEMMA SpawnRecords ==
  ASSUME Inv, NEW k \in Calls
  PROVE  /\ Launched(SpawnedChild(k)) \in Child /\ Behind(SpawnedChild(k), queued) \in Child
         /\ Stayed(Launched(SpawnedChild(k)), SpawnedChild(k))
         /\ Stayed(Behind(SpawnedChild(k), queued), SpawnedChild(k))
         /\ SpawnedChild(k).reply = {k} /\ SpawnedChild(k).wake = {}
<1>0. TypeOK /\ queued \in SUBSET Ids
  BY DEF Inv, TypeOK
<1>1. SpawnedChild(k) \in Child
  BY <1>0, SpawnedType
<1>2. SpawnedChild(k).reply = {k} /\ SpawnedChild(k).wake = {}
  BY <1>0, SpawnedRecord
<1>3. Launched(SpawnedChild(k)) \in Child /\ Behind(SpawnedChild(k), queued) \in Child
  BY <1>0, <1>1, LaunchedType, BehindType
<1>4. \A e \in Child : Stayed(Behind(e, queued), e)
  BY DEF Child, Behind, Stayed
<1> QED BY <1>1, <1>2, <1>3, <1>4, StayedRecord

\* A spawn that starts or queues strands nobody.
LEMMA SpawnWaitInv ==
  ASSUME Inv, Inv', WaitInv, NEW k \in Calls, SpawnStart(k) \/ SpawnEnqueue(k)
  PROVE  WaitInv'
<1> DEFINE id == Request[k].id
<1>0. /\ TypeOK /\ call \in [Calls -> CallState]
  BY DEF Inv, TypeOK
<1>1. /\ call[k] = "sent" /\ call' = [call EXCEPT ![k] = "waiting"]
      /\ id \notin Live /\ id \notin completed
      /\ \A x \in drainWaiters' : x \in drainWaiters
      /\ UNCHANGED <<completed, done, waiter, runWaiters, msg, presenting, published>>
  BY DEF SpawnStart, SpawnEnqueue, SpawnRefused, ResolveDrainWaiters
<1>2. id \in Ids
  BY <1>0, SpawnedType
<1>3. PICK e \in Child : NewEntry(id, e) /\ e.reply = {k} /\ e.wake = {}
  <2>1. CASE SpawnStart(k)
    <3> DEFINE e == Launched(SpawnedChild(k))
    <3>1. e \in Child /\ e.reply = {k} /\ e.wake = {}
      BY SpawnRecords DEF Stayed
    <3>2. NewEntry(id, e)
      BY <1>1, <1>2, <2>1, <3>1 DEF SpawnStart, NewEntry
    <3> HIDE DEF e
    <3> QED BY <3>1, <3>2
  <2>2. CASE SpawnEnqueue(k)
    <3> DEFINE e == Behind(SpawnedChild(k), queued)
    <3>1. e \in Child /\ e.reply = {k} /\ e.wake = {}
      BY SpawnRecords DEF Stayed
    <3>2. child' = [child EXCEPT ![id] = e]
      BY <2>2 DEF SpawnEnqueue, Behind
    <3> HIDE DEF e
    <3>3. NewEntry(id, e)
      BY <1>1, <1>2, <2>2, <3>1, <3>2 DEF SpawnEnqueue, NewEntry
    <3> QED BY <3>1, <3>3
  <2> QED BY <2>1, <2>2
<1>r. id = Request[k].id
  OBVIOUS
<1> HIDE DEF id
<1>4. /\ Live' = Live \cup {id} /\ Live \subseteq Ids
      /\ child'[id] = e /\ \A x \in Ids \ {id} : child'[x] = child[x]
  BY <1>3, NewEntryRecords
<1>5. \A l \in Calls : call'[l] = IF l = k THEN "waiting" ELSE call[l]
  BY <1>0, <1>1
<1>6. HeldCallers'
  <2>1. ASSUME NEW x \in Ids, NEW l \in child'[x].reply
        PROVE  x \in Live' /\ Request[l].id = x /\ call'[l] \in {"waiting", "gone"}
    <3>1. CASE x = id
      BY <1>3, <1>4, <1>5, <1>r, <2>1, <3>1
    <3>2. CASE x # id
      <4>1. l \in child[x].reply /\ l \in Calls
        BY <1>0, <1>4, <2>1, <3>2 DEF TypeOK, Child
      <4>2. x \in Live /\ Request[l].id = x /\ call[l] \in {"waiting", "gone"}
        BY <4>1 DEF WaitInv, HeldCallers
      <4> QED BY <1>1, <1>4, <1>5, <4>1, <4>2
    <3> QED BY <3>1, <3>2
  <2>2. \A x \in Ids : \A l, n \in child'[x].reply : l = n
    <3> SUFFICES ASSUME NEW x \in Ids PROVE \A l, n \in child'[x].reply : l = n
      OBVIOUS
    <3>1. CASE x = id
      BY <1>3, <1>4, <3>1
    <3>2. CASE x # id
      BY <1>4, <3>2 DEF WaitInv, HeldCallers
    <3> QED BY <3>1, <3>2
  <2>3. ASSUME NEW l \in Calls, call'[l] = "waiting"
        PROVE  l \in child'[Request[l].id].reply
    <3>1. CASE l = k
      BY <1>3, <1>4, <1>r, <3>1
    <3>2. CASE l # k
      <4>1. l \in child[Request[l].id].reply /\ Request[l].id \in Ids
        BY <1>5, <2>3, <3>2, RequestAssumption DEF WaitInv, HeldCallers, SpawnRequest
      <4>2. Request[l].id # id
        BY <1>1, <4>1 DEF WaitInv, HeldCallers
      <4> QED BY <1>4, <4>1, <4>2
    <3> QED BY <3>1, <3>2
  <2> QED BY <2>1, <2>2, <2>3 DEF HeldCallers
<1>7. WokenChildren'
  BY <1>3, NewEntryWoken
<1>8. PresentedOnce'
  BY <1>1, PresentedSame DEF WaitInv, HistorySame
<1>9. NoStrandedMessage'
  <2> SUFFICES ASSUME NEW m \in Msgs
        PROVE  /\ msg'[m] = "wake" => \E x \in presenting' \cup published' : x[1] = To(m)
               /\ msg'[m] = "parked" => \/ To(m) \in queued' \cup pending'
                                        \/ To(m) \in active' /\ child'[To(m)].wake # {}
               /\ msg'[m] = "initial" => To(m) \in Live' /\ child'[To(m)].wake # {}
               /\ msg'[m] = "inflight" => To(m) \in active'
    BY DEF NoStrandedMessage, To
  <2>1. msg[m] = "wake" => \E x \in presenting \cup published : x[1] = To(m)
    BY DEF WaitInv, NoStrandedMessage
  <2>2. /\ msg[m] = "parked" => \/ To(m) \in queued' \cup pending'
                                \/ To(m) \in active' /\ child'[To(m)].wake # {}
        /\ msg[m] = "initial" => To(m) \in Live' /\ child'[To(m)].wake # {}
    BY <1>3, NewEntryMessages
  <2>3. msg'[m] = "inflight" => To(m) \in active'
    BY InFlightActive
  <2> QED BY <1>1, <2>1, <2>2, <2>3
<1>10. NoStrandedWaiter'
  BY <1>1, <1>3, NewEntryWaiters
<1> QED BY <1>6, <1>7, <1>8, <1>9, <1>10 DEF WaitInv

\* The record of a woken child, as it starts or queues.
LEMMA WokenRecords ==
  ASSUME Inv, NEW id \in Ids, done[id].published
  PROVE  \A e \in {Launched(WokenChild(id)), Behind(WokenChild(id), queued)} :
            /\ e \in Child /\ e.run = NoRun /\ e.session = done[id].session
            /\ e.wake = {done[id]} /\ e.reply = {} /\ ~e.token
            /\ \A r \in e.wake : r.published
<1>0. queued \in SUBSET Ids /\ done[id] \in Record
  BY DEF Inv, TypeOK
<1>1. done[id].session \in Sess /\ {done[id]} \in SUBSET Record
  BY <1>0 DEF Record
<1>2. WokenChild(id) = Woken(done[id].session, {done[id]})
  BY DEF WokenChild, Woken
<1>3. WokenChild(id) \in Child
  BY <1>1, <1>2, WokenType
<1>4. /\ WokenChild(id).run = NoRun /\ WokenChild(id).session = done[id].session
      /\ WokenChild(id).wake = {done[id]} /\ WokenChild(id).reply = {}
      /\ ~WokenChild(id).token
  BY DEF WokenChild, NoChild
<1>5. Launched(WokenChild(id)) \in Child /\ Behind(WokenChild(id), queued) \in Child
  BY <1>0, <1>3, LaunchedType, BehindType
<1>6. \A e \in Child : Stayed(Behind(e, queued), e)
  BY DEF Child, Behind, Stayed
<1>7. \A e \in {Launched(WokenChild(id)), Behind(WokenChild(id), queued)} :
         e \in Child /\ Stayed(e, WokenChild(id))
  BY <1>3, <1>5, <1>6, StayedRecord
<1> QED BY <1>4, <1>7 DEF Stayed

\* A wake makes a new entry of the completed child.
LEMMA DeliverWakeEntry ==
  ASSUME Inv, NEW id \in Ids, NEW M, DeliverWake(id, M)
  PROVE  \E e \in Child :
            /\ NewEntry(id, e)
            /\ e.run = NoRun /\ e.session = done[id].session
            /\ e.wake = {done[id]} /\ e.reply = {} /\ ~e.token
            /\ \A r \in e.wake : r.published
<1>1. id \in completed /\ done[id].published /\ active' = active
  BY DEF DeliverWake, Wakeable
<1>2. id \notin Live
  BY <1>1 DEF Inv, OneHome, Live
<1>3. PICK e \in {Launched(WokenChild(id)), Behind(WokenChild(id), queued)} :
         /\ child' = [child EXCEPT ![id] = e]
         /\ \/ queued' = queued \cup {id} /\ pending' = pending
            \/ queued' = queued /\ pending' = pending \cup {id}
  BY DEF DeliverWake, Behind
<1>4. /\ e \in Child /\ e.run = NoRun /\ e.session = done[id].session
      /\ e.wake = {done[id]} /\ e.reply = {} /\ ~e.token
      /\ \A r \in e.wake : r.published
  BY <1>1, <1>3, WokenRecords
<1>5. NewEntry(id, e)
  BY <1>1, <1>2, <1>3, <1>4 DEF NewEntry
<1> QED BY <1>4, <1>5

\* A wake strands nobody: its messages are held by the child it makes.
LEMMA DeliverWakeWait ==
  ASSUME Inv, Inv', WaitInv, NEW id \in Ids, NEW M \in SUBSET Msgs,
         \A m \in M : To(m) = id, WakesKept(M), DeliverWake(id, M), DeliverFrame
  PROVE  WaitInv'
<1>0. /\ call' = call /\ UNCHANGED <<waiter, runWaiters, drainWaiters, presenting>>
      /\ completed' = completed \ {id} /\ done' = [done EXCEPT ![id] = NoRecord]
  BY DEF DeliverFrame, DeliverWake
<1>1. PICK e \in Child :
         /\ NewEntry(id, e)
         /\ e.run = NoRun /\ e.wake = {done[id]} /\ e.reply = {} /\ ~e.token
         /\ \A r \in e.wake : r.published
  BY DeliverWakeEntry
<1>2. /\ Live' = Live \cup {id} /\ Live \subseteq Ids
      /\ child'[id] = e /\ \A x \in Ids \ {id} : child'[x] = child[x]
  BY <1>1, NewEntryRecords
<1>3. HeldCallers'
  <2>1. id \notin Live
    BY <1>1 DEF NewEntry
  <2>2. child[id].reply = {}
    BY <2>1 DEF WaitInv, HeldCallers
  <2>3. \A x \in Ids : child'[x].reply = child[x].reply
    BY <1>1, <1>2, <2>2
  <2>4. \A k \in Calls : Request[k].id \in Ids
    BY RequestAssumption DEF SpawnRequest
  <2> QED BY <1>0, <1>2, <2>3, <2>4 DEF WaitInv, HeldCallers
<1>4. WokenChildren'
  BY <1>1, NewEntryWoken
<1>5. PresentedOnce'
  <2>1. \A x \in completed' : x \in completed /\ done'[x] = done[x]
    BY <1>0 DEF Inv, TypeOK
  <2> QED BY <1>0, <2>1 DEF WaitInv, PresentedOnce, Addressed, To
<1>6. NoStrandedMessage'
  <2> SUFFICES ASSUME NEW m \in Msgs
        PROVE  /\ msg'[m] = "wake" => \E x \in presenting' \cup published' : x[1] = To(m)
               /\ msg'[m] = "parked" => \/ To(m) \in queued' \cup pending'
                                        \/ To(m) \in active' /\ child'[To(m)].wake # {}
               /\ msg'[m] = "initial" => To(m) \in Live' /\ child'[To(m)].wake # {}
               /\ msg'[m] = "inflight" => To(m) \in active'
    BY DEF NoStrandedMessage, To
  <2>0. Owned(id, M) \subseteq M
    BY DEF Owned
  <2>1. /\ m \notin M => msg'[m] = msg[m]
        /\ m \in M => msg'[m] \in {"initial", "parked", "rejected"}
    BY <2>0 DEF DeliverWake
  <2>2. msg'[m] = "inflight" => To(m) \in active'
    BY InFlightActive
  <2>3. CASE m \notin M
    <3>1. /\ msg[m] = "parked" => \/ To(m) \in queued' \cup pending'
                                  \/ To(m) \in active' /\ child'[To(m)].wake # {}
          /\ msg[m] = "initial" => To(m) \in Live' /\ child'[To(m)].wake # {}
      BY <1>1, NewEntryMessages
    <3>2. msg[m] = "wake" => \E x \in presenting' \cup published' : x[1] = To(m)
      BY <2>3 DEF WakesKept
    <3> QED BY <2>1, <2>2, <2>3, <3>1, <3>2
  <2>4. CASE m \in M
    <3>1. To(m) = id /\ child'[id].wake # {}
      BY <1>1, <1>2, <2>4
    <3>2. id \in queued' \cup pending'
      BY <1>1 DEF NewEntry
    <3> QED BY <1>2, <2>1, <2>2, <2>4, <3>1, <3>2
  <2> QED BY <2>3, <2>4
<1>7. NoStrandedWaiter'
  BY <1>0, <1>1, NewEntryWaiters
<1> QED BY <1>3, <1>4, <1>5, <1>6, <1>7 DEF WaitInv

\* handle_send_active_message strands nobody.
LEMMA DeliverWait ==
  ASSUME Inv, Inv', WaitInv, NEW id \in Ids, NEW M \in SUBSET Msgs,
         \A m \in M : To(m) = id, WakesKept(M), Deliver(id, M), published' \subseteq published
  PROVE  WaitInv'
<1>1. DeliverFrame
  BY DEF Deliver, DeliverFrame
<1> QED BY <1>1, DeliverCalmWait, DeliverWakeWait DEF Deliver

\* A message that arrives.
LEMMA SendActiveMessageWait ==
  ASSUME Inv, Inv', WaitInv, NEW m \in Msgs, SendActiveMessage(m)
  PROVE  WaitInv'
<1>1. To(m) \in Ids /\ {m} \in SUBSET Msgs /\ \A x \in {m} : To(x) = To(m)
  BY ToType
<1>2. Deliver(To(m), {m}) /\ published' = published /\ presenting' = presenting
  BY DEF SendActiveMessage, Deliver
<1>3. WakesKept({m})
  BY <1>2 DEF WakesKept, WaitInv, NoStrandedMessage
<1> QED BY <1>1, <1>2, <1>3, DeliverWait

\* The event that a completion was published: the wakes that waited for it are
\* handled, all of them, and no other event is lost.
LEMMA TerminalPublishedWait ==
  ASSUME Inv, Inv', WaitInv, NEW id \in Ids, NEW age, TerminalPublished(id, age)
  PROVE  WaitInv'
<1>1. published' = published \ {<<id, age>>} /\ presenting' = presenting
  BY DEF TerminalPublished, Deliver
<1>2. WakesKept(WakesOf(id))
  <2> SUFFICES ASSUME NEW m \in Msgs \ WakesOf(id), msg[m] = "wake"
               PROVE  \E e \in presenting' \cup published' : e[1] = To(m)
    BY DEF WakesKept
  <2>1. To(m) # id
    BY DEF WakesOf
  <2>2. PICK e \in presenting \cup published : e[1] = To(m)
    BY DEF WaitInv, NoStrandedMessage
  <2>3. e # <<id, age>>
    BY <2>1, <2>2
  <2> QED BY <1>1, <2>2, <2>3
<1>3. CASE Deliver(id, WakesOf(id))
  <2>1. WakesOf(id) \in SUBSET Msgs /\ \A m \in WakesOf(id) : To(m) = id
    BY DEF WakesOf
  <2>2. published' \subseteq published
    BY <1>1
  <2> QED BY <1>2, <1>3, <2>1, <2>2, DeliverWait
<1>4. CASE ~Deliver(id, WakesOf(id))
  <2>1. /\ msg' = RejectWakes(msg, {id})
        /\ UNCHANGED <<queued, pending, active, completed, child, done, call, waiter,
                       drainWaiters, runWaiters, presenting>>
    BY <1>4 DEF TerminalPublished
  <2>2. \A x \in Ids : Calm(child'[x], child[x])
    BY <2>1, CalmRecords DEF Inv, TypeOK
  <2>3. CalmStep
    BY <2>1, <2>2 DEF CalmStep, CallKept
  <2>4. /\ \A m \in Msgs \ WakesOf(id) : msg'[m] = msg[m]
        /\ \A m \in WakesOf(id) : HeldAt(m, id) /\ To(m) = id
        /\ WakesOf(id) \in SUBSET Msgs
    BY <2>1 DEF RejectWakes, WakesOf, HeldAt
  <2>5. NoStrandedMessage'
    BY <1>2, <2>3, <2>4, HandledMessages
  <2>6. HistorySame
    BY <2>1 DEF HistorySame
  <2> QED BY <2>3, <2>5, <2>6, CalmRest, PresentedSame DEF WaitInv
<1> QED BY <1>3, <1>4

\* The host publishing a completion: its event is on its way to the actor.
LEMMA PublishWait ==
  ASSUME Inv, Inv', WaitInv, NEW id \in Ids, NEW age \in Nat, Publish(id, age)
  PROVE  WaitInv'
<1>0. done \in [Ids -> Record] /\ completed \subseteq Ids
  BY DEF Inv, TypeOK
<1>1. /\ UNCHANGED <<queued, pending, active, completed, child, call, waiter,
                     drainWaiters, runWaiters, msg>>
      /\ presenting' = presenting \ {<<id, age>>}
      /\ published' = published \cup {<<id, age>>}
      /\ done' = [done EXCEPT ![id].published = @ \/ (id \in completed /\ done[id].age = age)]
  BY DEF Publish
<1>2. \A x \in Ids : Calm(child'[x], child[x])
  BY <1>1, CalmRecords DEF Inv, TypeOK
<1>3. CalmStep
  BY <1>1, <1>2 DEF CalmStep, CallKept
<1>4. PresentedOnce'
  <2> SUFFICES ASSUME NEW x \in completed', x \in Addressed, ~done'[x].published
               PROVE  <<x, done'[x].age>> \in presenting'
    BY DEF PresentedOnce, Addressed
  <2>0. x \in completed /\ x \in Ids
    BY <1>0, <1>1
  <2>1. CASE x = id
    <3>1. /\ done'[id].published = (done[id].published \/ (id \in completed /\ done[id].age = age))
          /\ done'[id].age = done[id].age
      BY <1>0, <1>1 DEF Record
    <3>2. ~done[x].published /\ done[x].age # age
      BY <2>0, <2>1, <3>1
    <3> QED BY <1>1, <2>0, <2>1, <3>1, <3>2 DEF WaitInv, PresentedOnce
  <2>2. CASE x # id
    <3>1. done'[x] = done[x]
      BY <1>0, <1>1, <2>0, <2>2
    <3> QED BY <1>1, <2>0, <2>2, <3>1 DEF WaitInv, PresentedOnce
  <2> QED BY <2>1, <2>2
<1>5. WakesKept({})
  BY <1>1 DEF WakesKept, WaitInv, NoStrandedMessage
<1>6. /\ {} \in SUBSET Msgs /\ \A m \in {} : To(m) = id /\ HeldAt(m, id)
      /\ \A m \in Msgs \ {} : msg'[m] = msg[m]
  BY <1>1
<1>7. NoStrandedMessage'
  BY <1>3, <1>5, <1>6, HandledMessages
<1> QED BY <1>3, <1>4, <1>7, CalmRest DEF WaitInv
----------------------------------------------------------------------------
(* Starts and handoffs.                                                    *)

\* `f` is the record of the child `e` after it started, committed its wake or
\* handed its caller off.
Steady(f, e) ==
    /\ f.session = e.session /\ f.run = e.run /\ f.ahead = e.ahead /\ f.token = e.token
    /\ f.wake \subseteq e.wake /\ f.reply \subseteq e.reply

\* The queue and the running children stay; turns that nothing blocks any more
\* were let through.
SteadyStep ==
    /\ queued' = queued /\ pending' \cup active' = pending \cup active
    /\ \A id \in Ids : Steady(child'[id], child[id])
    /\ UNCHANGED <<waiter, runWaiters, completed, presenting, done, published>>
    /\ \A x \in drainWaiters' : TurnBlocking(queued', pending', active', child', x) # {}

\* The records the handlers make are steady.
LEMMA SteadyRecords ==
  ASSUME NEW e \in Child
  PROVE  /\ Steady(e, e)
         /\ \A n : Steady(Counted(e, n), e) /\ Counted(e, n).reply = e.reply
         /\ \A n : Steady(Committed(e, n), e) /\ Committed(e, n).reply = e.reply
                   /\ Committed(e, n).prompt = e.prompt /\ Committed(e, n).bg = e.bg
                   /\ Committed(e, n).background = e.background
                   /\ Committed(e, n).defbg = e.defbg
         /\ \A b : Steady(HandedOff(e, b), e) /\ HandedOff(e, b).reply = {}
                   /\ HandedOff(e, b).wake = e.wake
  BY DEF Steady, Counted, Committed, HandedOff, Child

\* Such a step disturbs no woken child, no completion and no other waiter.
LEMMA SteadyRest ==
  ASSUME Inv, WaitInv, SteadyStep
  PROVE  WokenChildren' /\ PresentedOnce' /\ NoStrandedWaiter'
<1>1. Live' = Live /\ Live \subseteq Ids /\ pending \cup active \subseteq Ids
  BY DEF SteadyStep, Live, Inv, TypeOK
<1>2. WokenChildren'
  <2> SUFFICES ASSUME NEW id \in Live', child'[id].wake # {}
               PROVE  /\ child'[id].run = NoRun /\ child'[id].reply = {}
                      /\ id \in queued' => ~child'[id].token
                      /\ \A r \in child'[id].wake : r.published
    BY DEF WokenChildren
  <2>1. id \in Live /\ Steady(child'[id], child[id]) /\ queued' = queued
    BY <1>1 DEF SteadyStep
  <2>2. /\ child[id].run = NoRun /\ child[id].reply = {}
        /\ id \in queued => ~child[id].token
        /\ \A r \in child[id].wake : r.published
    BY <2>1 DEF WaitInv, WokenChildren, Steady
  <2> QED BY <2>1, <2>2 DEF Steady
<1>3. PresentedOnce'
  BY PresentedSame DEF WaitInv, HistorySame, SteadyStep
<1>4. ASSUME NEW r PROVE Outstanding(pending', active', child', r) = Outstanding(pending, active, child, r)
  BY <1>1 DEF Outstanding, SteadyStep, Steady
<1>5. NoStrandedWaiter'
  BY <1>1, <1>4 DEF SteadyStep, WaitInv, NoStrandedWaiter
<1> QED BY <1>2, <1>3, <1>5

\* A step after which the same children hold the same callers.
LEMMA SameCallers ==
  ASSUME Inv, HeldCallers, Live' = Live, UNCHANGED call,
         \A id \in Ids : child'[id].reply = child[id].reply
  PROVE  HeldCallers'
<1>1. \A k \in Calls : Request[k].id \in Ids
  BY RequestAssumption DEF SpawnRequest
<1> QED BY <1>1 DEF HeldCallers

\* What admit_spawn_ready_messages leaves: nothing parked on the child.
LEMMA AdmitParkedAnswers ==
  ASSUME NEW id \in Ids, NEW A \in SUBSET Parked(id), AdmitParked(id, A), NEW m \in Msgs
  PROVE  /\ To(m) # id => msg'[m] = msg[m]
         /\ To(m) = id => msg'[m] \notin {"parked", "initial"}
         /\ msg'[m] = "wake" => msg[m] = "wake"
  BY DEF AdmitParked, Parked

\* Messages parked on the child that is now running are answered or admitted.
LEMMA AdmitParkedMessages ==
  ASSUME Inv, Inv', WaitInv, SteadyStep, NEW id \in Ids, NEW A \in SUBSET Parked(id),
         AdmitParked(id, A), \A x \in Ids \ {id} : child'[x] = child[x],
         \A x \in Ids \ {id} : x \in pending' <=> x \in pending
  PROVE  NoStrandedMessage'
<1> SUFFICES ASSUME NEW m \in Msgs
      PROVE  /\ msg'[m] = "wake" => \E e \in presenting' \cup published' : e[1] = To(m)
             /\ msg'[m] = "parked" => \/ To(m) \in queued' \cup pending'
                                      \/ To(m) \in active' /\ child'[To(m)].wake # {}
             /\ msg'[m] = "initial" => To(m) \in Live' /\ child'[To(m)].wake # {}
             /\ msg'[m] = "inflight" => To(m) \in active'
  BY DEF NoStrandedMessage, To
<1>1. /\ To(m) # id => msg'[m] = msg[m]
      /\ To(m) = id => msg'[m] \notin {"parked", "initial"}
      /\ msg'[m] = "wake" => msg[m] = "wake"
  BY AdmitParkedAnswers
<1>2. msg'[m] = "inflight" => To(m) \in active'
  BY InFlightActive
<1>3. /\ msg[m] = "wake" => \E e \in presenting \cup published : e[1] = To(m)
      /\ msg[m] = "parked" => \/ To(m) \in queued \cup pending
                              \/ To(m) \in active /\ child[To(m)].wake # {}
      /\ msg[m] = "initial" => To(m) \in Live /\ child[To(m)].wake # {}
  BY DEF WaitInv, NoStrandedMessage
<1>4. Live' = Live /\ UNCHANGED <<presenting, published, queued>>
      /\ pending' \cup active' = pending \cup active
  BY DEF SteadyStep, Live
<1>5. CASE To(m) = id
  BY <1>1, <1>2, <1>3, <1>4, <1>5
<1>6. CASE To(m) # id
  <2>1. To(m) \in Ids \ {id}
    BY <1>6, ToType
  <2>2. child'[To(m)] = child[To(m)] /\ (To(m) \in pending' <=> To(m) \in pending)
    BY <2>1
  <2>3. To(m) \in active => To(m) \in active'
    BY <1>4, <2>2 DEF Inv, OneHome
  <2> QED BY <1>1, <1>2, <1>3, <1>4, <1>6, <2>2, <2>3
<1> QED BY <1>5, <1>6

\* A child that becomes active.
LEMMA StartedActiveWait ==
  ASSUME Inv, Inv', WaitInv, NEW id \in Ids, StartedActive(id)
  PROVE  WaitInv'
<1>0. child \in [Ids -> Child] /\ child[id] \in Child
  BY DEF Inv, TypeOK
<1>1. /\ id \in pending /\ pending' = pending \ {id} /\ active' = active \cup {id}
      /\ queued' = queued
      /\ UNCHANGED <<call, waiter, runWaiters, completed, presenting, done, published>>
      /\ \A x \in drainWaiters' : TurnBlocking(queued', pending', active', child', x) # {}
  BY DEF StartedActive, ResolveDrainWaiters
<1>2. pending' \cup active' = pending \cup active /\ Live' = Live
  BY <1>1 DEF Live
<1>3. CASE child[id].wake # {}
  <2>1. UNCHANGED <<child, msg>>
    BY <1>3 DEF StartedActive
  <2>2. SteadyStep
    <3>1. \A x \in Ids : Steady(child'[x], child[x])
      BY <1>0, <2>1, SteadyRecords
    <3> QED BY <1>1, <1>2, <3>1 DEF SteadyStep
  <2>3. HeldCallers'
    BY <1>1, <1>2, <2>1, SameCallers DEF WaitInv
  <2>4. NoStrandedMessage'
    <3>1. active \subseteq active'
      BY <1>1
    <3> QED BY <1>1, <1>2, <1>3, <2>1, <3>1 DEF WaitInv, NoStrandedMessage, To
  <2> QED BY <2>2, <2>3, <2>4, SteadyRest DEF WaitInv
<1>4. CASE child[id].wake = {}
  <2>1. PICK A \in Admissible(child[id], Parked(id)) :
           /\ child' = [child EXCEPT ![id].inFlight = Cardinality(A)]
           /\ AdmitParked(id, A)
    BY <1>4 DEF StartedActive
  <2>2. A \in SUBSET Parked(id)
    BY <2>1 DEF Admissible
  <2>3. child'[id] = Counted(child[id], Cardinality(A)) /\ \A x \in Ids \ {id} : child'[x] = child[x]
    BY <1>0, <2>1 DEF Counted
  <2>4. \A x \in Ids : Steady(child'[x], child[x]) /\ child'[x].reply = child[x].reply
    BY <1>0, <2>3, SteadyRecords
  <2>5. SteadyStep
    BY <1>1, <1>2, <2>4 DEF SteadyStep
  <2>6. HeldCallers'
    BY <1>1, <1>2, <2>4, SameCallers DEF WaitInv
  <2>7. \A x \in Ids \ {id} : x \in pending' <=> x \in pending
    BY <1>1
  <2>8. NoStrandedMessage'
    BY <2>1, <2>2, <2>3, <2>5, <2>7, AdmitParkedMessages
  <2> QED BY <2>5, <2>6, <2>8, SteadyRest DEF WaitInv
<1> QED BY <1>3, <1>4

\* A woken child that commits its start.
LEMMA CommittedWait ==
  ASSUME Inv, Inv', WaitInv, NEW id \in Ids, SettleDeferredStart(id, TRUE)
  PROVE  WaitInv'
<1>0. child \in [Ids -> Child] /\ child[id] \in Child /\ pending \cup active \cup queued \subseteq Ids
  BY DEF Inv, TypeOK
<1>1. UNCHANGED <<queued, pending, active, call, waiter, drainWaiters, runWaiters, completed,
                  presenting, done, published>>
  BY DEF SettleDeferredStart
<1>2. PICK A \in Admissible(child[id], Parked(id)) :
         /\ child' = [child EXCEPT ![id].wake = {}, ![id].inFlight = @ + Cardinality(A)]
         /\ AdmitParked(id, A)
  BY DEF SettleDeferredStart
<1> DEFINE n == child[id].inFlight + Cardinality(A)
<1>3. child'[id] = Committed(child[id], n) /\ \A x \in Ids \ {id} : child'[x] = child[x]
  BY <1>0, <1>2 DEF Committed
<1> HIDE DEF n
<1>4. A \in SUBSET Parked(id)
  BY <1>2 DEF Admissible
<1>5. \A x \in Ids : /\ Steady(child'[x], child[x]) /\ child'[x].reply = child[x].reply
                     /\ child'[x].prompt = child[x].prompt /\ child'[x].bg = child[x].bg
                     /\ child'[x].background = child[x].background
                     /\ child'[x].defbg = child[x].defbg
  BY <1>0, <1>3, SteadyRecords
<1>6. ASSUME NEW x
      PROVE  TurnBlocking(queued', pending', active', child', x)
               = TurnBlocking(queued, pending, active, child, x)
  <2>1. \A y \in queued \cup pending \cup active :
           /\ child'[y].session = child[y].session /\ child'[y].run = child[y].run
           /\ child'[y].reply = child[y].reply
           /\ child'[y].prompt = child[y].prompt /\ child'[y].bg = child[y].bg
           /\ child'[y].background = child[y].background
           /\ child'[y].defbg = child[y].defbg
    BY <1>0, <1>5 DEF Steady
  <2> QED BY <1>1, <2>1 DEF TurnBlocking
<1>7. SteadyStep
  BY <1>1, <1>5, <1>6 DEF SteadyStep, WaitInv, NoStrandedWaiter
<1>8. HeldCallers'
  BY <1>1, <1>5, SameCallers DEF WaitInv, Live
<1>9. NoStrandedMessage'
  BY <1>1, <1>2, <1>3, <1>4, <1>7, AdmitParkedMessages
<1> QED BY <1>7, <1>8, <1>9, SteadyRest DEF WaitInv

\* A caller that is handed off at its deadline has its interim answer.
LEMMA ForegroundDeadlineWait ==
  ASSUME Inv, Inv', WaitInv, NEW id \in Ids, ForegroundDeadline(id)
  PROVE  WaitInv'
<1>0. /\ child \in [Ids -> Child] /\ child[id] \in Child /\ call \in [Calls -> CallState]
      /\ \A k \in Calls : Request[k].id \in Ids
  BY RequestAssumption DEF Inv, TypeOK, SpawnRequest
<1> DEFINE b == id \notin queued
<1>1. /\ child' = [child EXCEPT ![id] = HandedOff(child[id], b)]
      /\ UNCHANGED <<queued, pending, active, completed, done, waiter, runWaiters, msg,
                     presenting, published>>
      /\ \A x \in drainWaiters' : TurnBlocking(queued', pending', active', child', x) # {}
      /\ call' = [k \in Calls |-> IF k \in child[id].reply /\ call[k] = "waiting"
                                  THEN "interim" ELSE call[k]]
  BY <1>0 DEF ForegroundDeadline, HandedOff, ResolveDrainWaiters
<1> HIDE DEF b
<1>2. child'[id] = HandedOff(child[id], b) /\ \A x \in Ids \ {id} : child'[x] = child[x]
  BY <1>0, <1>1
<1>3. /\ child'[id].reply = {} /\ \A x \in Ids \ {id} : child'[x].reply = child[x].reply
      /\ \A x \in Ids : Steady(child'[x], child[x]) /\ child'[x].wake = child[x].wake
  BY <1>0, <1>2, SteadyRecords
<1>4. SteadyStep
  BY <1>1, <1>3 DEF SteadyStep
<1>5. Live' = Live
  BY <1>1 DEF Live
<1>6. HeldCallers'
  <2>1. ASSUME NEW x \in Ids, NEW l \in child'[x].reply
        PROVE  x \in Live' /\ Request[l].id = x /\ call'[l] \in {"waiting", "gone"}
    <3>1. x # id /\ l \in child[x].reply
      BY <1>3, <2>1
    <3>2. l \in Calls /\ x \in Live /\ Request[l].id = x /\ call[l] \in {"waiting", "gone"}
      BY <1>0, <3>1 DEF WaitInv, HeldCallers, Child
    <3>3. l \notin child[id].reply
      BY <3>1, <3>2 DEF WaitInv, HeldCallers
    <3> QED BY <1>1, <1>5, <3>2, <3>3
  <2>2. \A x \in Ids : \A l, n \in child'[x].reply : l = n
    BY <1>3 DEF WaitInv, HeldCallers
  <2>3. ASSUME NEW l \in Calls, call'[l] = "waiting"
        PROVE  l \in child'[Request[l].id].reply
    <3>1. call[l] = "waiting" /\ l \notin child[id].reply
      BY <1>1, <2>3
    <3>2. l \in child[Request[l].id].reply
      BY <3>1 DEF WaitInv, HeldCallers
    <3>3. Request[l].id # id
      BY <3>1, <3>2
    <3> QED BY <1>0, <1>3, <3>2, <3>3
  <2> QED BY <2>1, <2>2, <2>3 DEF HeldCallers
<1>7. NoStrandedMessage'
  <2>1. \A m \in Msgs : child'[To(m)].wake = child[To(m)].wake
    BY <1>3, ToType
  <2> QED BY <1>1, <1>5, <2>1 DEF WaitInv, NoStrandedMessage, To
<1> QED BY <1>4, <1>6, <1>7, SteadyRest DEF WaitInv

----------------------------------------------------------------------------
(* Nobody is stranded.                                                     *)

\* Nobody waits on a new coordinator.
LEMMA InitWaitInv ==
  ASSUME Init
  PROVE  WaitInv
<1>1. \A id \in Ids : child[id].reply = {} /\ child[id].wake = {}
  BY DEF Init, NoChild
<1>2. HeldCallers /\ WokenChildren /\ PresentedOnce
  BY <1>1 DEF Init, HeldCallers, WokenChildren, PresentedOnce, Live
<1>3. NoStrandedMessage /\ NoStrandedWaiter
  BY DEF Init, NoStrandedMessage, NoStrandedWaiter
<1> QED BY <1>2, <1>3 DEF WaitInv

\* Every step is one that ends in Settle, a calm one, a new entry, a message, a
\* publication, a start or a handoff.
LEMMA NextWaitInv ==
  ASSUME Inv, WaitInv, Next
  PROVE  WaitInv'
<1>0. Inv' /\ HeldCallers
  BY NextInv DEF WaitInv
<1>1. CASE SettleStep
  BY <1>0, <1>1, SettleWaitInv
<1>2. CASE CalmStep /\ HistorySame /\ MessagesSettle
  BY <1>0, <1>2, CalmWaitInv
<1>3. CASE Caller
  BY <1>2, <1>3, StillCalm, CancelsCalm DEF Caller
<1>4. CASE Command
  <2>1. CASE \E k \in Calls : Spawn(k)
    BY <1>0, <1>1, <1>2, <2>1, StillCalm, SpawnWaitInv, SpawnOverLimitSettles DEF Spawn
  <2>2. CASE \E s \in Sess : \/ \E id \in Ids : CancelOne(id, s)
                             \/ \E p \in Prompts : CancelPrompt(p, s)
                             \/ CancelSession(s)
                             \/ \E responder \in BOOLEAN : Teardown(s, responder)
    BY <1>0, <1>1, <2>2, CancelsSettle
  <2>3. CASE \E s \in Sess : OpenSpawnAdmission(s)
    BY <1>2, <2>3, StillCalm
  <2>4. CASE \E r \in Runs : CancelWorkflow(r)
    BY <1>2, <2>4, CancelsCalm
  <2>5. CASE \/ \E q \in Queries, id \in Ids, s \in Sess : Query(q, id, s)
             \/ \E scope \in Scope : WaitPromptDrained(scope)
    BY <1>2, <2>5, StillCalm
  <2>6. CASE \E m \in Msgs : SendActiveMessage(m)
    BY <1>0, <2>6, SendActiveMessageWait
  <2> QED BY <1>4, <2>1, <2>2, <2>3, <2>4, <2>5, <2>6 DEF Command
<1>5. CASE Reap
  BY <1>0, <1>1, <1>5, ReapSettles
<1>6. CASE Runner
  <2>1. CASE \E id \in Ids, ok \in BOOLEAN : RunEnds(id, ok)
    <3>1. PICK id \in Ids, ok \in BOOLEAN : RunEnds(id, ok)
      BY <2>1
    <3>2. CASE HoldOutput(id, ok)
      BY <1>2, <3>2, RunnerCalm
    <3>3. CASE ~HoldOutput(id, ok)
      BY <1>0, <1>1, <3>1, <3>3, RunEndsSettles
    <3> QED BY <3>2, <3>3
  <2>2. CASE \E id \in Ids : Started(id) \/ Finalizing(id)
    BY <1>0, <1>2, <2>2, StillCalm, StartedActiveWait, RunnerCalm DEF Started
  <2>3. CASE \E id \in Ids, ok \in BOOLEAN : SettleDeferredStart(id, ok)
    <3>1. PICK id \in Ids, ok \in BOOLEAN : SettleDeferredStart(id, ok)
      BY <2>3
    <3>2. CASE ok = TRUE
      BY <1>0, <3>1, <3>2, CommittedWait
    <3>3. CASE ok = FALSE
      BY <1>2, <3>1, <3>3, RunnerCalm
    <3> QED BY <3>2, <3>3
  <2>4. CASE \E m \in Msgs, outcome \in {"accepted", "rejected", "uncertain"} :
               AdmissionDone(m, outcome)
    <3>1. PICK m \in Msgs, outcome \in {"accepted", "rejected", "uncertain"} :
             AdmissionDone(m, outcome)
      BY <2>4
    <3>2. CASE Ended(m, outcome)[To(m)].inFlight = 0 /\ outputs[To(m)] # "none"
      BY <1>0, <1>1, <3>1, <3>2, AdmissionDoneSettles
    <3>3. CASE ~(Ended(m, outcome)[To(m)].inFlight = 0 /\ outputs[To(m)] # "none")
      BY <1>2, <3>1, <3>3, RunnerCalm
    <3> QED BY <3>2, <3>3
  <2> QED BY <1>6, <2>1, <2>2, <2>3, <2>4 DEF Runner
<1>7. CASE Host
  <2>1. ASSUME NEW e \in presenting \cup published
        PROVE  e[1] \in Ids /\ e[2] \in Nat
    BY DEF Inv, TypeOK
  <2> QED BY <1>0, <1>7, <2>1, PublishWait, TerminalPublishedWait DEF Host
<1>8. CASE Timer
  BY <1>0, <1>2, <1>8, ForegroundDeadlineWait, StillCalm DEF Timer
<1> QED BY <1>3, <1>4, <1>5, <1>6, <1>7, <1>8 DEF Next

\* A step that changes nothing strands nobody.
LEMMA StutterWaitInv ==
  ASSUME WaitInv, UNCHANGED vars
  PROVE  WaitInv'
  BY DEF WaitInv, vars, HeldCallers, WokenChildren, PresentedOnce, NoStrandedMessage,
         NoStrandedWaiter, Live, Addressed, To

\* Inv and WaitInv hold of every run of the coordinator actor.
THEOREM WaitingInvariance == Spec => [](Inv /\ WaitInv)
<1>1. Init => Inv /\ WaitInv
  BY InitInv, InitWaitInv
<1>2. Inv /\ WaitInv /\ [Next]_vars => (Inv /\ WaitInv)'
  BY NextInv, StutterInv, NextWaitInv, StutterWaitInv
<1> QED BY <1>1, <1>2, PTL DEF Spec

\* A caller of a spawn that has no answer yet is held by the live child it
\* asked for, so that child's end, its deadline or a cancel answers it.
THEOREM CoordinatorNoStrandedCaller == Spec => []NoStrandedCaller
<1>1. Inv /\ WaitInv => NoStrandedCaller
  <2> SUFFICES ASSUME Inv, WaitInv PROVE NoStrandedCaller
    OBVIOUS
  <2>1. \A k \in Calls : Request[k].id \in Ids
    BY RequestAssumption DEF SpawnRequest
  <2>2. ASSUME NEW k \in Calls, call[k] = "waiting"
        PROVE  \E id \in Live : k \in child[id].reply
    <3>1. k \in child[Request[k].id].reply
      BY <2>2 DEF WaitInv, HeldCallers
    <3>2. Request[k].id \in Live
      BY <2>1, <3>1 DEF WaitInv, HeldCallers
    <3> QED BY <3>1, <3>2
  <2>3. \A id \in Ids : \A k \in child[id].reply :
           Request[k].id = id /\ call[k] \in {"waiting", "gone"}
    BY DEF WaitInv, HeldCallers
  <2> QED BY <2>2, <2>3 DEF NoStrandedCaller
<1> QED BY <1>1, WaitingInvariance, PTL

\* A message without an answer is held where a later step answers it: a parked
\* wake has its published event to come, a parked send a child that is still to
\* start or to commit, an admitted one an active child.
THEOREM CoordinatorNoStrandedMessage == Spec => []NoStrandedMessage
<1>1. WaitInv => NoStrandedMessage
  BY DEF WaitInv
<1> QED BY <1>1, WaitingInvariance, PTL

\* A blocking query, a turn's drain wait and a workflow cancel are parked only
\* while what they wait on is still live.
THEOREM CoordinatorNoStrandedWaiter == Spec => []NoStrandedWaiter
<1>1. WaitInv => NoStrandedWaiter
  BY DEF WaitInv
<1> QED BY <1>1, WaitingInvariance, PTL
----------------------------------------------------------------------------
(* The first few of a finite set in order.                                 *)

\* `A` gives what is ahead of each element of the finite set `E`, in a total
\* order.
Ordered(E, A) ==
    /\ IsFiniteSet(E) /\ A \in [E -> SUBSET E]
    /\ \A i \in E : i \notin A[i]
    /\ \A i, j \in E : i # j => i \in A[j] \/ j \in A[i]
    /\ \A i \in E : \A j \in A[i] : A[j] \subseteq A[i]

\* The elements with fewer than `n` ahead of them.
FirstFew(E, A, n) == {i \in E : Cardinality(A[i]) < n}

\* Who is ahead has fewer ahead of it.
LEMMA AheadSmaller ==
  ASSUME NEW E, NEW A, Ordered(E, A), NEW i \in E
  PROVE  /\ Cardinality(A[i]) \in Nat
         /\ \A j \in A[i] : j \in E /\ Cardinality(A[j]) \in Nat
                            /\ Cardinality(A[j]) < Cardinality(A[i])
<1>0. \A j \in E : IsFiniteSet(A[j]) /\ Cardinality(A[j]) \in Nat
  <2> SUFFICES ASSUME NEW j \in E PROVE IsFiniteSet(A[j]) /\ Cardinality(A[j]) \in Nat
    OBVIOUS
  <2>1. A[j] \in SUBSET E /\ IsFiniteSet(E)
    BY DEF Ordered
  <2>2. IsFiniteSet(A[j])
    BY <2>1, FS_Subset
  <2> QED BY <2>2, FS_CardinalityType
<1> SUFFICES ASSUME NEW j \in A[i]
             PROVE  j \in E /\ Cardinality(A[j]) < Cardinality(A[i])
  BY <1>0
<1>1. j \in E /\ A[j] \in SUBSET A[i] /\ j \notin A[j]
  BY DEF Ordered
<1>2. Cardinality(A[j]) <= Cardinality(A[i]) /\ (Cardinality(A[i]) = Cardinality(A[j]) => A[i] = A[j])
  BY <1>0, <1>1, FS_Subset
<1> QED BY <1>0, <1>1, <1>2

\* Some element of a part that is not empty has none of the part ahead of it.
LEMMA FirstOfPart ==
  ASSUME NEW E, NEW A, Ordered(E, A), NEW T \in SUBSET E, T # {}
  PROVE  \E m \in T : A[m] \cap T = {}
<1> DEFINE F == {A[i] : i \in T}
<1>1. F \subseteq FiniteSubsetsOf(E) /\ F # {}
  <2>1. ASSUME NEW i \in T PROVE A[i] \in SUBSET E /\ IsFiniteSet(A[i])
    BY FS_Subset DEF Ordered
  <2> QED BY <2>1 DEF FiniteSubsetsOf
<1>2. IsWellFoundedOn(StrictSubsetOrdering(E), FiniteSubsetsOf(E))
  BY FS_StrictSubsetOrderingWellFounded
<1> HIDE DEF F
<1>3. PICK x \in F : \A y \in F : ~(<<y, x>> \in StrictSubsetOrdering(E))
  BY <1>1, <1>2, WFMin
<1>4. PICK m \in T : x = A[m]
  BY DEF F
<1>5. ASSUME NEW j \in A[m] \cap T PROVE FALSE
  <2>1. A[j] \in F
    BY DEF F
  <2>2. A[j] \subseteq A[m] /\ j \notin A[j] /\ A[m] \subseteq E
    BY DEF Ordered
  <2>3. <<A[j], A[m]>> \in StrictSubsetOrdering(E)
    BY <2>2 DEF StrictSubsetOrdering
  <2> QED BY <1>3, <1>4, <2>1, <2>3
<1> QED BY <1>5

\* The first few are at most `n`, and as many unless they are all; nothing
\* ahead of one of them is left out.
LEMMA FirstFewCount ==
  ASSUME NEW E, NEW A, Ordered(E, A), NEW n \in Nat
  PROVE  /\ IsFiniteSet(FirstFew(E, A, n))
         /\ Cardinality(FirstFew(E, A, n)) \in Nat
         /\ Cardinality(FirstFew(E, A, n)) <= n
         /\ FirstFew(E, A, n) # E => n <= Cardinality(FirstFew(E, A, n))
         /\ \A i \in FirstFew(E, A, n) : A[i] \subseteq FirstFew(E, A, n)
<1> DEFINE S == FirstFew(E, A, n)
<1>1. S \in SUBSET E /\ IsFiniteSet(E) /\ \A i \in E : i \in S <=> Cardinality(A[i]) < n
  BY DEF FirstFew, Ordered
<1>2. IsFiniteSet(S) /\ Cardinality(S) \in Nat
  BY <1>1, FS_Subset, FS_CardinalityType
<1> HIDE DEF S
<1>3. \A i \in E : Cardinality(A[i]) \in Nat
  BY AheadSmaller
<1>4. Cardinality(S) <= n
  <2> DEFINE f == [i \in S |-> Cardinality(A[i])]
  <2>1. f \in [S -> 0..(n - 1)]
    BY <1>1, <1>3
  <2>2. ASSUME NEW i \in S, NEW j \in S, f[i] = f[j] PROVE i = j
    <3>1. i \in E /\ j \in E /\ Cardinality(A[i]) = Cardinality(A[j])
      BY <1>1, <2>2
    <3>2. i \notin A[j] /\ j \notin A[i]
      BY <3>1, AheadSmaller
    <3> QED BY <3>1, <3>2 DEF Ordered
  <2> HIDE DEF f
  <2>3. f \in Injection(S, 0..(n - 1))
    BY <2>1, <2>2 DEF Injection, IsInjective
  <2>4. n - 1 \in Int /\ 0 \in Int
    OBVIOUS
  <2>5. IsFiniteSet(0..(n - 1)) /\ Cardinality(0..(n - 1)) = IF 0 > n - 1 THEN 0 ELSE (n - 1) - 0 + 1
    BY <2>4, FS_Interval
  <2>6. Cardinality(S) <= Cardinality(0..(n - 1))
    BY <2>3, <2>5, FS_Injection
  <2> QED BY <1>2, <2>5, <2>6
<1>5. ASSUME S # E PROVE n <= Cardinality(S)
  <2> DEFINE T == E \ S
  <2>0. T \in SUBSET E /\ T # {}
    BY <1>1, <1>5
  <2> HIDE DEF T
  <2>1. PICK m \in T : A[m] \cap T = {}
    BY <2>0, FirstOfPart
  <2>2. A[m] \in SUBSET S
    BY <2>0, <2>1 DEF Ordered, T
  <2>3. Cardinality(A[m]) <= Cardinality(S)
    BY <1>2, <2>2, FS_Subset
  <2>4. ~(Cardinality(A[m]) < n) /\ Cardinality(A[m]) \in Nat
    BY <1>1, <1>3, <2>1 DEF T
  <2> QED BY <1>2, <2>3, <2>4
<1>6. ASSUME NEW i \in S, NEW j \in A[i] PROVE j \in S
  <2>1. j \in E /\ Cardinality(A[j]) \in Nat /\ Cardinality(A[j]) < Cardinality(A[i])
    BY <1>1, AheadSmaller
  <2>2. Cardinality(A[i]) < n /\ Cardinality(A[i]) \in Nat
    BY <1>1, <1>3
  <2> QED BY <1>1, <2>1, <2>2
<1> QED BY <1>2, <1>4, <1>5, <1>6 DEF S
----------------------------------------------------------------------------
(* The queue and the limit.                                                *)

\* What makes the limit and the order of the queue inductive.
QueueInv == QueueOrder /\ CapacityRespected /\ QueueOnlyAtCapacity

\* The children that count against the limit of session `x`.
Tasks(p, a, c, x) == {id \in p \cup a : c[id].session = x /\ c[id].run = NoRun}

\* Running counts Tasks, which is finite.
LEMMA RunningCounts ==
  ASSUME NEW p \in SUBSET Ids, NEW a \in SUBSET Ids, NEW c, NEW x
  PROVE  /\ Running(p, a, c, x) = Cardinality(Tasks(p, a, c, x))
         /\ IsFiniteSet(Tasks(p, a, c, x)) /\ Running(p, a, c, x) \in Nat
<1>1. Tasks(p, a, c, x) \in SUBSET Ids
  BY DEF Tasks
<1>2. IsFiniteSet(Tasks(p, a, c, x))
  BY <1>1, IdsAssumption, FS_Subset
<1>3. Running(p, a, c, x) = Cardinality(Tasks(p, a, c, x))
  BY DEF Running, Tasks
<1> QED BY <1>2, <1>3, FS_CardinalityType

\* The entries of session `x` that a sweep of the queue may start.
Entries(s, x) == {o \in s.queued : s.child[o].session = x /\ ~s.child[o].token}

\* The entries of session `x` among those that start.
StartedOf(s, started, x) == {o \in started : s.child[o].session = x}

\* Of the entries of session `x`, in the order `A`, the first `n` start, where
\* `n` slots are free.
StartsFirst(s, started, x, A, n) ==
    /\ Ordered(Entries(s, x), A) /\ n \in Nat
    /\ n = MaxConcurrent - Running(s.pending, s.active, s.child, x)
    /\ StartedOf(s, started, x) = FirstFew(Entries(s, x), A, n)
    /\ \A i \in Entries(s, x) : A[i] = Entries(s, x) \cap child[i].ahead

\* A sweep starts the first few of a session's entries, as many as it has free
\* slots.
LEMMA SweepStartsFirst ==
  ASSUME Inv, QueueInv, NEW s, NEW first, HandOver(s, first, TRUE),
         NEW started, started = Startable(s.queued, s.pending, s.active, s.child), NEW x,
         Running(s.pending, s.active, s.child, x) <= MaxConcurrent
  PROVE  \E A, n : StartsFirst(s, started, x, A, n)
<1> DEFINE E == Entries(s, x)
           R == Running(s.pending, s.active, s.child, x)
           A == [i \in E |-> E \cap s.child[i].ahead]
           n == MaxConcurrent - R
<1>0. /\ s.queued = queued \ first /\ s.queued \subseteq Ids /\ s.pending \subseteq Ids
      /\ s.active \subseteq Ids
      /\ \A id \in s.queued : id \in queued /\ s.child[id].ahead = child[id].ahead
  BY DEF HandOver, Passed, Live, Inv, TypeOK
<1>1. R \in Nat /\ n \in Nat
  <2>1. R \in Nat
    BY <1>0, RunningCounts
  <2> QED BY <2>1, LimitAssumption
<1>2. E \subseteq s.queued /\ E \subseteq queued /\ E \in SUBSET Ids
  BY <1>0 DEF Entries
<1>3. IsFiniteSet(E)
  BY <1>2, IdsAssumption, FS_Subset
<1>4. A \in [E -> SUBSET E]
  OBVIOUS
<1>5. \A i \in E : A[i] = E \cap child[i].ahead
  BY <1>0, <1>2
<1>6. ASSUME NEW i \in E
      PROVE  i \in started <=> Cardinality(A[i]) < n
  <2>1. {o \in s.queued \cap s.child[i].ahead : s.child[o].session = x /\ ~s.child[o].token} = A[i]
    BY DEF Entries
  <2>2. i \in s.queued /\ s.child[i].session = x /\ ~s.child[i].token
    BY DEF Entries
  <2>3. i \in started <=> R + Cardinality(A[i]) < MaxConcurrent
    BY <2>1, <2>2 DEF Startable
  <2>4. Cardinality(A[i]) \in Nat
    BY <1>2, <1>4, CardIds
  <2> QED BY <1>1, <2>3, <2>4, LimitAssumption
<1>7. \A o \in started : s.child[o].session = x => o \in E
  BY DEF Startable, Entries
<1> HIDE DEF A, n, E
<1>8. Ordered(E, A)
  <2>1. \A i \in E : i \notin A[i]
    BY <1>2, <1>5 DEF QueueInv, QueueOrder
  <2>2. \A i, j \in E : i # j => i \in A[j] \/ j \in A[i]
    BY <1>2, <1>5 DEF QueueInv, QueueOrder
  <2>3. ASSUME NEW i \in E, NEW j \in A[i] PROVE A[j] \subseteq A[i]
    <3>1. j \in E /\ j \in child[i].ahead
      BY <1>5
    <3>2. child[j].ahead \subseteq child[i].ahead
      BY <1>2, <3>1 DEF QueueInv, QueueOrder
    <3> QED BY <1>5, <3>1, <3>2
  <2> QED BY <1>3, <1>4, <2>1, <2>2, <2>3 DEF Ordered
<1>9. StartedOf(s, started, x) = FirstFew(E, A, n)
  <2>1. \A o \in E : s.child[o].session = x
    BY DEF E, Entries
  <2> QED BY <1>6, <1>7, <2>1 DEF FirstFew, StartedOf
<1>10. StartsFirst(s, started, x, A, n)
  BY <1>1, <1>5, <1>8, <1>9 DEF E, n, StartsFirst
<1> QED BY <1>10

\* What runs after Settle: what still ran, and the entries that started.
LEMMA SettleTasks ==
  ASSUME Inv, QueueInv, NEW s, NEW first, NEW sweeps, HandOver(s, first, sweeps),
         NEW started, NEW swept, NEW completing,
         Effects(s, first, sweeps, started, swept, completing), NEW x
  PROVE  /\ Running(pending', active', child', x)
               = Running(s.pending, s.active, s.child, x)
                 + Cardinality(StartedOf(s, started, x))
         /\ Cardinality(StartedOf(s, started, x)) \in Nat
         /\ Running(s.pending, s.active, s.child, x) \in Nat
         /\ Running(s.pending, s.active, s.child, x) <= Running(pending, active, child, x)
<1> DEFINE S == {o \in started : s.child[o].session = x}
           T == Tasks(s.pending, s.active, s.child, x)
           U == Tasks(pending, active, child, x)
<1>0. /\ pending \in SUBSET Ids /\ active \in SUBSET Ids /\ queued \in SUBSET Ids
      /\ queued \cap (pending \cup active) = {}
  BY DEF Inv, TypeOK, OneHome
<1>h. s.pending = pending \ first /\ s.active = active \ first
  BY DEF HandOver
<1>e. /\ started \subseteq queued \ first /\ swept \subseteq queued \ first
      /\ pending' = (pending \ first) \cup started /\ active' = active \ first
      /\ started \cap swept = {}
      /\ \A id \in Ids : id \notin first \cup swept => Stayed(child'[id], s.child[id])
  BY EffectsRecords
<1>1. /\ s.pending = pending \ first /\ s.active = active \ first
      /\ started \subseteq queued \ first /\ swept \subseteq queued \ first
      /\ pending' = (pending \ first) \cup started /\ active' = active \ first
      /\ started \cap swept = {}
      /\ \A id \in Ids : id \notin first \cup swept => Stayed(child'[id], s.child[id])
  BY <1>h, <1>e
<1>2. \A id \in Live : s.child[id].session = child[id].session /\ s.child[id].run = child[id].run
  BY DEF HandOver, Passed
<1>3. \A id \in pending' \cup active' :
         child'[id].session = s.child[id].session /\ child'[id].run = s.child[id].run
  BY <1>0, <1>1 DEF Stayed
<1>4. \A id \in started : s.child[id].run = NoRun
  BY <1>1, <1>2 DEF Live, QueueInv, QueueOrder
<1>5. Tasks(pending', active', child', x) = T \cup S
  <2>1. pending' \cup active' = (s.pending \cup s.active) \cup started
    BY <1>1
  <2> QED BY <1>3, <1>4, <2>1 DEF Tasks
<1>6. T \cap S = {} /\ T \in SUBSET U /\ S \in SUBSET Ids
  <2>1. T \cap S = {} /\ S \in SUBSET Ids
    BY <1>0, <1>1 DEF Tasks
  <2>2. T \in SUBSET U
    BY <1>1, <1>2 DEF Tasks, Live
  <2> QED BY <2>1, <2>2
<1>7. IsFiniteSet(S) /\ Cardinality(S) \in Nat
  BY <1>6, IdsAssumption, FS_Subset, FS_CardinalityType
<1>8. /\ Running(pending, active, child, x) = Cardinality(U) /\ IsFiniteSet(U)
      /\ Cardinality(U) \in Nat
  BY <1>0, RunningCounts
<1>9. /\ Running(s.pending, s.active, s.child, x) = Cardinality(T) /\ IsFiniteSet(T)
      /\ Cardinality(T) \in Nat
  <2>1. s.pending \in SUBSET Ids /\ s.active \in SUBSET Ids
    BY <1>0, <1>1
  <2> QED BY <2>1, RunningCounts
<1>10. Running(pending', active', child', x) = Cardinality(T \cup S)
  BY <1>5 DEF Running, Tasks
<1> HIDE DEF S, T, U
<1>11. Cardinality(T) <= Cardinality(U)
  BY <1>6, <1>8, FS_Subset
<1>12. Cardinality(T \cup S) = Cardinality(T) + Cardinality(S)
  <2>1. Cardinality(T \cap S) = 0
    BY <1>6, FS_EmptySet
  <2>2. Cardinality(T \cup S) = Cardinality(T) + Cardinality(S) - Cardinality(T \cap S)
    BY <1>7, <1>9, FS_Union
  <2> QED BY <1>7, <1>9, <2>1, <2>2
<1> QED BY <1>7, <1>8, <1>9, <1>10, <1>11, <1>12 DEF S, StartedOf

\* The queue keeps its order when entries leave it.
LEMMA SettleQueueOrder ==
  ASSUME Inv, QueueInv, NEW s, NEW first, NEW sweeps, HandOver(s, first, sweeps),
         NEW started, NEW swept, NEW completing,
         Effects(s, first, sweeps, started, swept, completing)
  PROVE  QueueOrder'
<1> DEFINE left == (first \cup swept) \cup started
<1>0. /\ queued' = (queued \ first) \ (started \cup swept)
      /\ \A id \in Ids : id \notin first \cup swept => Stayed(child'[id], s.child[id])
  BY EffectsRecords
<1>a. child' = [id \in Ids |->
          IF id \in first \cup swept THEN NoChild
          ELSE IF id \in started THEN Launched(s.child[id])
          ELSE Advanced(s.child[id], (first \cup swept) \cup started)]
  BY DEF Effects
<1>1. /\ queued' = queued \ left
      /\ \A id \in Ids : id \notin left => Stayed(child'[id], s.child[id])
      /\ \A id \in Ids : id \notin left => child'[id].ahead = s.child[id].ahead \ left
  <2>1. ASSUME NEW id \in Ids, id \notin left
        PROVE  child'[id].ahead = s.child[id].ahead \ left
    <3>1. child'[id] = Advanced(s.child[id], left) /\ s.child[id] \in Child
      BY <1>a, <2>1 DEF HandOver
    <3> QED BY <3>1, StayedRecord
  <2> QED BY <1>0, <2>1
<1>2. \A id \in queued : id \in Ids /\ s.child[id].ahead = child[id].ahead
                         /\ s.child[id].run = child[id].run
  BY DEF HandOver, Passed, Live, Inv, TypeOK
<1>3. \A id \in queued' : /\ id \in queued /\ child'[id].run = child[id].run
                          /\ child'[id].ahead = child[id].ahead \ left
  BY <1>1, <1>2 DEF Stayed
<1> HIDE DEF left
<1>4. \A id \in queued' : /\ child'[id].run = NoRun
                          /\ child'[id].ahead \subseteq queued'
                          /\ id \notin child'[id].ahead
  BY <1>1, <1>3 DEF QueueInv, QueueOrder
<1>5. \A o, id \in queued' : o # id => o \in child'[id].ahead \/ id \in child'[o].ahead
  BY <1>1, <1>3 DEF QueueInv, QueueOrder
<1>6. ASSUME NEW id \in queued', NEW o \in child'[id].ahead
      PROVE  child'[o].ahead \subseteq child'[id].ahead
  <2>1. o \in queued' /\ o \in child[id].ahead /\ id \in queued
    BY <1>3, <1>4
  <2>2. child[o].ahead \subseteq child[id].ahead
    BY <2>1 DEF QueueInv, QueueOrder
  <2> QED BY <1>3, <2>1, <2>2
<1> QED BY <1>4, <1>5, <1>6 DEF QueueOrder

\* The limit holds after Settle, and what stays queued is at the limit.
LEMMA SettleCapacity ==
  ASSUME Inv, QueueInv, NEW s, NEW first, NEW sweeps, HandOver(s, first, sweeps),
         NEW started, NEW swept, NEW completing,
         Effects(s, first, sweeps, started, swept, completing), NEW x \in Sess
  PROVE  /\ Running(pending', active', child', x) <= MaxConcurrent
         /\ \A id \in queued' : child'[id].session = x =>
               ~HasCapacity(pending', active', child', x)
<1> DEFINE S == StartedOf(s, started, x)
           R == Running(s.pending, s.active, s.child, x)
<1>1. /\ Running(pending', active', child', x) = R + Cardinality(S)
      /\ Cardinality(S) \in Nat /\ R \in Nat
      /\ R <= Running(pending, active, child, x)
  BY SettleTasks
<1>2. R <= MaxConcurrent /\ Running(pending, active, child, x) \in Nat
  <2>1. Running(pending, active, child, x) \in Nat
    BY RunningCounts DEF Inv, TypeOK
  <2> QED BY <1>1, <2>1, LimitAssumption DEF QueueInv, CapacityRespected
<1>e. /\ queued' = (queued \ first) \ (started \cup swept)
      /\ \A id \in Ids : id \notin first \cup swept => Stayed(child'[id], s.child[id])
  BY EffectsRecords
<1>3. /\ queued' = (queued \ first) \ (started \cup swept)
      /\ \A id \in Ids : id \notin first \cup swept => Stayed(child'[id], s.child[id])
      /\ queued \subseteq Ids /\ s.queued = queued \ first
  BY <1>e DEF Inv, TypeOK, HandOver
<1>4. \A id \in queued' : id \in queued \ first /\ child'[id].session = s.child[id].session
                          /\ s.child[id].session = child[id].session
  BY <1>3 DEF Stayed, HandOver, Passed, Live
<1>5. CASE sweeps
  <2>1. /\ started = Startable(s.queued, s.pending, s.active, s.child)
        /\ swept = {id \in s.queued : s.child[id].token}
        /\ HandOver(s, first, TRUE)
    BY <1>5 DEF Effects, HandOver
  <2>f. PICK A, n : StartsFirst(s, started, x, A, n)
    BY <1>2, <2>1, SweepStartsFirst
  <2>2. /\ Ordered(Entries(s, x), A) /\ n \in Nat
        /\ n = MaxConcurrent - R
        /\ S = FirstFew(Entries(s, x), A, n)
    BY <2>f DEF StartsFirst
  <2>3. /\ Cardinality(S) <= n
        /\ S # Entries(s, x) => n <= Cardinality(S)
    BY <2>2, FirstFewCount
  <2>4. ASSUME NEW id \in queued', child'[id].session = x
        PROVE  S # Entries(s, x)
    <3>1. id \in s.queued /\ ~s.child[id].token /\ s.child[id].session = x /\ id \notin started
      BY <1>3, <1>4, <2>1, <2>4
    <3> QED BY <3>1 DEF Entries, StartedOf
  <2> HIDE DEF S, R
  <2>5. Running(pending', active', child', x) <= MaxConcurrent
    BY <1>1, <1>2, <2>2, <2>3, LimitAssumption
  <2>6. ASSUME NEW id \in queued', child'[id].session = x
        PROVE  ~HasCapacity(pending', active', child', x)
    BY <1>1, <1>2, <2>2, <2>3, <2>4, <2>6, LimitAssumption DEF HasCapacity
  <2> QED BY <2>5, <2>6
<1>6. CASE ~sweeps
  <2>1. first \subseteq queued /\ started = {} /\ swept = {}
    BY <1>6 DEF HandOver, Effects
  <2>2. s.pending = pending /\ s.active = active
    BY <2>1 DEF HandOver, Inv, OneHome
  <2>3. Tasks(s.pending, s.active, s.child, x) = Tasks(pending, active, child, x)
    BY <2>2 DEF Tasks, HandOver, Passed, Live
  <2>4. R = Running(pending, active, child, x)
    BY <2>3 DEF Tasks, Running
  <2>5. Cardinality(S) = 0
    BY <2>1, FS_EmptySet DEF StartedOf
  <2> HIDE DEF S, R
  <2>6. Running(pending', active', child', x) = Running(pending, active, child, x)
    BY <1>1, <2>4, <2>5
  <2>7. ASSUME NEW id \in queued', child'[id].session = x
        PROVE  ~HasCapacity(pending', active', child', x)
    <3>1. id \in queued /\ child[id].session = x
      BY <1>4, <2>7
    <3>2. ~HasCapacity(pending, active, child, x)
      BY <3>1 DEF QueueInv, QueueOnlyAtCapacity
    <3> QED BY <2>6, <3>2 DEF HasCapacity
  <2> QED BY <2>6, <2>7 DEF QueueInv, CapacityRespected
<1> QED BY <1>5, <1>6

\* A sweep starts no entry before an older one of its session.
LEMMA SettleNoJump ==
  ASSUME Inv, QueueInv, NEW s, NEW first, NEW sweeps, HandOver(s, first, sweeps),
         NEW started, NEW swept, NEW completing,
         Effects(s, first, sweeps, started, swept, completing)
  PROVE  NoQueueJump
<1>0. /\ queued' = (queued \ first) \ (started \cup swept)
      /\ pending' = (pending \ first) \cup started /\ started \subseteq queued \ first
      /\ swept \subseteq queued \ first /\ started \cap swept = {}
      /\ \A id \in Ids : id \notin first \cup swept => Stayed(child'[id], s.child[id])
  BY EffectsRecords
<1>1. queued \subseteq Ids /\ Live \subseteq Ids /\ s.queued = queued \ first
  BY DEF Inv, TypeOK, Live, HandOver
<1> SUFFICES ASSUME NEW id \in pending' \ pending, child'[id].run = NoRun,
                    NEW o \in queued', child'[o].session = child'[id].session
             PROVE  id \in queued /\ o \notin child[id].ahead
  BY DEF NoQueueJump
<1>2. id \in started /\ id \in queued /\ id \notin first \cup swept /\ id \in Ids
  BY <1>0, <1>1
<1>3. started # {}
  BY <1>2
<1>4. /\ started = Startable(s.queued, s.pending, s.active, s.child)
      /\ swept = {x \in s.queued : s.child[x].token}
      /\ HandOver(s, first, TRUE)
  BY <1>3 DEF Effects, HandOver
<1> DEFINE x == s.child[id].session
<1>5. /\ o \in s.queued /\ o \in Ids /\ o \notin first \cup swept /\ o \notin started
      /\ ~s.child[o].token
  BY <1>0, <1>1, <1>4
<1>6. s.child[o].session = x /\ s.child[id].session = x /\ ~s.child[id].token /\ id \in s.queued
  BY <1>0, <1>2, <1>4, <1>5 DEF Stayed, Startable
<1>7. Running(s.pending, s.active, s.child, x) <= MaxConcurrent
  <2>1. x \in Sess
    BY <1>2 DEF HandOver, Child
  <2>2. /\ Running(s.pending, s.active, s.child, x) \in Nat
        /\ Running(s.pending, s.active, s.child, x) <= Running(pending, active, child, x)
    BY SettleTasks
  <2>3. Running(pending, active, child, x) \in Nat
    BY RunningCounts DEF Inv, TypeOK
  <2> HIDE DEF x
  <2> QED BY <2>1, <2>2, <2>3, LimitAssumption DEF QueueInv, CapacityRespected
<1> HIDE DEF x
<1>8. PICK A, n : StartsFirst(s, started, x, A, n)
  BY <1>4, <1>7, SweepStartsFirst
<1>9. /\ Ordered(Entries(s, x), A) /\ n \in Nat
      /\ StartedOf(s, started, x) = FirstFew(Entries(s, x), A, n)
      /\ \A i \in Entries(s, x) : A[i] = Entries(s, x) \cap child[i].ahead
  BY <1>8 DEF StartsFirst
<1>10. id \in Entries(s, x) /\ o \in Entries(s, x)
  BY <1>5, <1>6 DEF Entries
<1>11. id \in FirstFew(Entries(s, x), A, n) /\ o \notin FirstFew(Entries(s, x), A, n)
  BY <1>2, <1>5, <1>6, <1>9 DEF StartedOf
<1>12. A[id] \subseteq FirstFew(Entries(s, x), A, n)
  BY <1>9, <1>11, FirstFewCount
<1>13. o \notin child[id].ahead
  BY <1>9, <1>10, <1>11, <1>12
<1> QED BY <1>2, <1>13

\* A step that ends in Settle serves the queue in order and up to the limit.
LEMMA SettleQueueInv ==
  ASSUME Inv, QueueInv, SettleStep
  PROVE  QueueInv' /\ NoQueueJump
<1>0. TypeOK
  BY DEF Inv
<1>1. PICK s, first, ok, sweeps : HandOver(s, first, sweeps) /\ Settle(s, first, ok, sweeps)
  BY DEF SettleStep
<1>2. PICK started, swept, completing : Effects(s, first, sweeps, started, swept, completing)
  BY <1>0, <1>1, SettleEffects
<1>3. QueueOrder'
  BY <1>1, <1>2, SettleQueueOrder
<1>4. NoQueueJump
  BY <1>1, <1>2, SettleNoJump
<1>5. ASSUME NEW x \in Sess
      PROVE  /\ Running(pending', active', child', x) <= MaxConcurrent
             /\ \A id \in queued' : child'[id].session = x =>
                   ~HasCapacity(pending', active', child', x)
  BY <1>1, <1>2, SettleCapacity
<1>6. \A id \in queued' : child'[id].session \in Sess
  <2>1. queued' \subseteq queued /\ queued \subseteq Ids /\ child \in [Ids -> Child]
    BY <1>1, <1>2, EffectsRecords DEF Inv, TypeOK
  <2>2. \A id \in queued' : Stayed(child'[id], s.child[id]) /\ s.child[id] \in Child
    <3>1. /\ queued' = (queued \ first) \ (started \cup swept)
          /\ \A id \in Ids : id \notin first \cup swept => Stayed(child'[id], s.child[id])
      BY <1>1, <1>2, EffectsRecords
    <3>2. s.child \in [Ids -> Child]
      BY <1>1 DEF HandOver
    <3> QED BY <2>1, <3>1, <3>2
  <2> QED BY <2>2 DEF Stayed, Child
<1>7. CapacityRespected'
  BY <1>5 DEF CapacityRespected
<1>8. QueueOnlyAtCapacity'
  BY <1>5, <1>6 DEF QueueOnlyAtCapacity
<1> QED BY <1>3, <1>4, <1>7, <1>8 DEF QueueInv

\* A step that leaves the queue and what runs as they are.
QueueKept ==
    /\ queued' = queued /\ pending' \subseteq pending
    /\ pending' \cup active' = pending \cup active
    /\ \A id \in Ids : /\ child'[id].session = child[id].session
                       /\ child'[id].run = child[id].run
                       /\ child'[id].ahead = child[id].ahead

\* Such a step keeps the order and the limit.
LEMMA KeptQueueInv ==
  ASSUME Inv, QueueInv, QueueKept
  PROVE  QueueInv' /\ NoQueueJump
<1>0. queued \cup pending \cup active \subseteq Ids
  BY DEF Inv, TypeOK
<1>1. ASSUME NEW x PROVE Running(pending', active', child', x) = Running(pending, active, child, x)
  <2>1. Tasks(pending', active', child', x) = Tasks(pending, active, child, x)
    BY <1>0 DEF Tasks, QueueKept
  <2> QED BY <2>1 DEF Tasks, Running
<1>2. \A id \in queued : /\ id \in Ids /\ child'[id].session = child[id].session
                         /\ child'[id].run = child[id].run /\ child'[id].ahead = child[id].ahead
  BY <1>0 DEF QueueKept
<1>3. queued' = queued
  BY DEF QueueKept
<1>4. QueueOrder'
  <2>1. \A id \in queued : child[id].ahead \subseteq queued
    BY DEF QueueInv, QueueOrder
  <2> QED BY <1>2, <1>3, <2>1 DEF QueueInv, QueueOrder
<1>5. CapacityRespected'
  BY <1>1 DEF QueueInv, CapacityRespected
<1>6. QueueOnlyAtCapacity'
  BY <1>1, <1>2, <1>3 DEF QueueInv, QueueOnlyAtCapacity, HasCapacity
<1>7. NoQueueJump
  BY DEF NoQueueJump, QueueKept
<1> QED BY <1>4, <1>5, <1>6, <1>7 DEF QueueInv

\* A new entry starts if the limit has room for it and queues last otherwise.
Admitted(id, e) ==
    /\ NewEntry(id, e)
    /\ \/ /\ queued' = queued /\ pending' = pending \cup {id}
          /\ e.run # NoRun \/ HasCapacity(pending, active, child, e.session)
       \/ /\ queued' = queued \cup {id} /\ pending' = pending
          /\ e.run = NoRun /\ e.ahead = queued
          /\ ~HasCapacity(pending, active, child, e.session)

\* A new entry keeps the order and the limit.
LEMMA AdmittedQueueInv ==
  ASSUME Inv, QueueInv, NEW id, NEW e, Admitted(id, e)
  PROVE  QueueInv' /\ NoQueueJump
<1>0. /\ pending \in SUBSET Ids /\ active \in SUBSET Ids /\ queued \in SUBSET Ids
      /\ pending' \in SUBSET Ids /\ active' \in SUBSET Ids /\ active' = active
      /\ id \notin queued \cup pending \cup active
  BY DEF Inv, TypeOK, Admitted, NewEntry, Live
<1>1. /\ child'[id] = e /\ \A x \in Ids \ {id} : child'[x] = child[x]
  BY NewEntryRecords DEF Admitted
<1>2. \A x \in queued \cup pending \cup active : child'[x] = child[x] /\ x # id
  BY <1>0, <1>1
<1>3. \A x \in Sess : /\ Running(pending, active, child, x) \in Nat
                      /\ Running(pending', active', child', x) \in Nat
                      /\ Running(pending, active, child, x) <= MaxConcurrent
  BY <1>0, RunningCounts DEF QueueInv, CapacityRespected
<1>4. \A x \in queued : child[x].session \in Sess
  BY <1>0 DEF Inv, TypeOK, Child
<1>5. CASE /\ queued' = queued /\ pending' = pending \cup {id}
           /\ e.run # NoRun \/ HasCapacity(pending, active, child, e.session)
  <2>1. QueueOrder'
    BY <1>2, <1>5 DEF QueueInv, QueueOrder
  <2>2. ASSUME NEW x \in Sess
        PROVE  /\ Running(pending, active, child, x) <= Running(pending', active', child', x)
               /\ Running(pending', active', child', x) <= MaxConcurrent
    <3> DEFINE T == Tasks(pending, active, child, x)
    <3>0. IsFiniteSet(T) /\ Running(pending, active, child, x) = Cardinality(T) /\ Cardinality(T) \in Nat
      BY <1>0, RunningCounts
    <3>1. CASE e.session = x /\ e.run = NoRun
      <4>1. Tasks(pending', active', child', x) = T \cup {id} /\ id \notin T
        BY <1>0, <1>1, <1>2, <1>5, <3>1 DEF Tasks
      <4>2. Running(pending', active', child', x) = Cardinality(T \cup {id})
        BY <1>0, <4>1, RunningCounts
      <4>3. HasCapacity(pending, active, child, x)
        BY <1>5, <3>1
      <4> HIDE DEF T
      <4>4. Cardinality(T \cup {id}) = Cardinality(T) + 1
        BY <3>0, <4>1, FS_AddElement
      <4> QED BY <3>0, <4>2, <4>3, <4>4, LimitAssumption DEF HasCapacity
    <3>2. CASE ~(e.session = x /\ e.run = NoRun)
      <4>1. Tasks(pending', active', child', x) = T
        BY <1>0, <1>1, <1>2, <1>5, <3>2 DEF Tasks
      <4>2. Running(pending', active', child', x) = Cardinality(T)
        BY <1>0, <4>1, RunningCounts
      <4> QED BY <1>3, <3>0, <4>2
    <3> QED BY <3>1, <3>2
  <2>3. CapacityRespected'
    BY <2>2 DEF CapacityRespected
  <2>4. QueueOnlyAtCapacity'
    <3> SUFFICES ASSUME NEW o \in queued'
                 PROVE  ~HasCapacity(pending', active', child', child'[o].session)
      BY DEF QueueOnlyAtCapacity
    <3>1. o \in queued /\ child'[o] = child[o] /\ child[o].session \in Sess
      BY <1>2, <1>4, <1>5
    <3>2. ~HasCapacity(pending, active, child, child[o].session)
      BY <3>1 DEF QueueInv, QueueOnlyAtCapacity
    <3> QED BY <1>3, <2>2, <3>1, <3>2, LimitAssumption DEF HasCapacity
  <2>5. NoQueueJump
    <3> SUFFICES ASSUME NEW i \in pending' \ pending, child'[i].run = NoRun,
                        NEW o \in queued', child'[o].session = child'[i].session
                 PROVE  FALSE
      BY DEF NoQueueJump
    <3>1. i = id /\ o \in queued /\ child[o].session = e.session /\ e.run = NoRun
      BY <1>1, <1>2, <1>5
    <3>2. ~HasCapacity(pending, active, child, child[o].session)
      BY <3>1 DEF QueueInv, QueueOnlyAtCapacity
    <3> QED BY <1>5, <3>1, <3>2
  <2> QED BY <2>1, <2>3, <2>4, <2>5 DEF QueueInv
<1>6. CASE /\ queued' = queued \cup {id} /\ pending' = pending
           /\ e.run = NoRun /\ e.ahead = queued
           /\ ~HasCapacity(pending, active, child, e.session)
  <2>1. QueueOrder'
    <3>1. \A o \in queued : /\ child[o].run = NoRun /\ child[o].ahead \subseteq queued
                            /\ o \notin child[o].ahead
      BY DEF QueueInv, QueueOrder
    <3>2. \A o \in queued' : \/ o \in queued /\ child'[o] = child[o]
                             \/ o = id /\ child'[o] = e
      BY <1>1, <1>2, <1>6
    <3>3. \A o \in queued' : /\ child'[o].run = NoRun /\ child'[o].ahead \subseteq queued'
                             /\ child'[o].ahead \subseteq queued /\ o \notin child'[o].ahead
      BY <1>0, <1>6, <3>1, <3>2
    <3>4. ASSUME NEW o \in queued', NEW i \in queued', o # i
          PROVE  o \in child'[i].ahead \/ i \in child'[o].ahead
      <4>1. CASE i = id \/ o = id
        BY <1>1, <1>6, <3>2, <3>4, <4>1
      <4>2. CASE i # id /\ o # id
        BY <3>2, <3>4, <4>2 DEF QueueInv, QueueOrder
      <4> QED BY <4>1, <4>2
    <3>5. ASSUME NEW i \in queued', NEW o \in child'[i].ahead
          PROVE  child'[o].ahead \subseteq child'[i].ahead
      <4>1. o \in queued /\ child'[o] = child[o]
        BY <1>2, <3>3
      <4>2. CASE i = id
        BY <1>1, <1>6, <3>1, <4>1, <4>2
      <4>3. CASE i # id
        <5>1. i \in queued /\ child'[i] = child[i]
          BY <3>2, <4>3
        <5> QED BY <4>1, <5>1 DEF QueueInv, QueueOrder
      <4> QED BY <4>2, <4>3
    <3> QED BY <3>3, <3>4, <3>5 DEF QueueOrder
  <2>2. ASSUME NEW x PROVE Running(pending', active', child', x) = Running(pending, active, child, x)
    <3>1. Tasks(pending', active', child', x) = Tasks(pending, active, child, x)
      BY <1>0, <1>2, <1>6 DEF Tasks
    <3> QED BY <3>1 DEF Tasks, Running
  <2>3. CapacityRespected'
    BY <2>2 DEF QueueInv, CapacityRespected
  <2>4. QueueOnlyAtCapacity'
    <3> SUFFICES ASSUME NEW o \in queued'
                 PROVE  ~HasCapacity(pending', active', child', child'[o].session)
      BY DEF QueueOnlyAtCapacity
    <3>1. ~HasCapacity(pending, active, child, child'[o].session)
      BY <1>1, <1>2, <1>6 DEF QueueInv, QueueOnlyAtCapacity
    <3> QED BY <2>2, <3>1 DEF HasCapacity
  <2>5. NoQueueJump
    BY <1>6 DEF NoQueueJump
  <2> QED BY <2>1, <2>3, <2>4, <2>5 DEF QueueInv
<1> QED BY <1>5, <1>6 DEF Admitted

\* A calm step keeps the queue.
LEMMA CalmKept ==
  ASSUME CalmStep
  PROVE  QueueKept
  BY DEF CalmStep, Calm, QueueKept

\* A step in which one record changes and none moves, save a start.
LEMMA OneKept ==
  ASSUME Inv, NEW id \in Ids, NEW e, child' = [child EXCEPT ![id] = e],
         Steady(e, child[id]) \/ Calm(e, child[id]),
         queued' = queued, pending' \subseteq pending, pending' \cup active' = pending \cup active
  PROVE  QueueKept
<1>1. child \in [Ids -> Child]
  BY DEF Inv, TypeOK
<1>2. child'[id] = e /\ \A x \in Ids \ {id} : child'[x] = child[x]
  BY <1>1
<1> QED BY <1>2 DEF QueueKept, Steady, Calm

\* A spawn that starts or queues is a new entry.
LEMMA SpawnAdmitted ==
  ASSUME Inv, NEW k \in Calls, SpawnStart(k) \/ SpawnEnqueue(k)
  PROVE  \E id, e : Admitted(id, e)
<1> DEFINE id == Request[k].id
<1>0. TypeOK /\ id \notin Live
  BY DEF Inv, SpawnStart, SpawnEnqueue, SpawnRefused
<1>1. /\ id \in Ids /\ SpawnedChild(k).session = SpawnSession(k)
      /\ SpawnedChild(k).run = SpawnRun(k)
  BY <1>0, SpawnedType
<1>2. CASE SpawnStart(k)
  <2> DEFINE e == Launched(SpawnedChild(k))
  <2>1. e \in Child /\ e.session = SpawnSession(k) /\ e.run = SpawnRun(k)
    BY <1>1, SpawnRecords DEF Stayed
  <2>2. NewEntry(id, e)
    BY <1>0, <1>1, <1>2, <2>1 DEF SpawnStart, NewEntry
  <2>3. /\ queued' = queued /\ pending' = pending \cup {id}
        /\ SpawnRun(k) # NoRun \/ HasCapacity(pending, active, child, SpawnSession(k))
    BY <1>2 DEF SpawnStart, MayStart
  <2> HIDE DEF e, id
  <2>4. Admitted(id, e)
    BY <2>1, <2>2, <2>3 DEF Admitted
  <2> QED BY <2>4
<1>3. CASE SpawnEnqueue(k)
  <2> DEFINE e == Behind(SpawnedChild(k), queued)
  <2>0. \A f \in Child : Behind(f, queued).ahead = queued
    BY DEF Behind, Child
  <2>1. e \in Child /\ e.session = SpawnSession(k) /\ e.run = SpawnRun(k)
    BY <1>1, SpawnRecords DEF Stayed
  <2>2. e.ahead = queued
    BY <1>0, <2>0, SpawnedType
  <2>3. child' = [child EXCEPT ![id] = e]
    BY <1>3 DEF SpawnEnqueue, Behind
  <2> HIDE DEF e
  <2>4. NewEntry(id, e)
    BY <1>0, <1>1, <1>3, <2>1, <2>3 DEF SpawnEnqueue, NewEntry
  <2>5. /\ queued' = queued \cup {id} /\ pending' = pending
        /\ SpawnRun(k) = NoRun /\ ~HasCapacity(pending, active, child, SpawnSession(k))
    BY <1>3 DEF SpawnEnqueue, MayStart
  <2> HIDE DEF id
  <2>6. Admitted(id, e)
    BY <2>1, <2>2, <2>4, <2>5 DEF Admitted
  <2> QED BY <2>6
<1> QED BY <1>2, <1>3

\* A message leaves the queue alone or wakes a child, which is a new entry.
LEMMA DeliverKept ==
  ASSUME Inv, NEW id \in Ids, NEW M, Deliver(id, M)
  PROVE  QueueKept \/ \E e : Admitted(id, e)
<1>0. child \in [Ids -> Child] /\ child[id] \in Child /\ queued \in SUBSET Ids
  BY DEF Inv, TypeOK
<1>1. CASE DeliverRefused(id, M) \/ DeliverPark(id, M) \/ DeliverHold(id, M)
  BY <1>1 DEF DeliverRefused, DeliverPark, DeliverHold, QueueKept
<1>2. CASE DeliverActive(id, M)
  <2>1. PICK A : child' = [child EXCEPT ![id].inFlight = @ + Cardinality(A)]
    BY <1>2 DEF DeliverActive
  <2> DEFINE n == child[id].inFlight + Cardinality(A)
  <2>2. child' = [child EXCEPT ![id] = Counted(child[id], n)]
    BY <1>0, <2>1 DEF Counted
  <2> HIDE DEF n
  <2>3. Calm(Counted(child[id], n), child[id])
    BY <1>0, CalmRecords
  <2>4. queued' = queued /\ pending' \subseteq pending /\ pending' \cup active' = pending \cup active
    BY <1>2 DEF DeliverActive
  <2> QED BY <2>2, <2>3, <2>4, OneKept
<1>3. CASE DeliverWake(id, M)
  <2>1. id \in completed /\ done[id].published /\ active' = active
    BY <1>3 DEF DeliverWake, Wakeable
  <2>2. id \notin Live
    BY <2>1 DEF Inv, OneHome, Live
  <2>3. \A f \in Child : Behind(f, queued).ahead = queued
    BY DEF Behind, Child
  <2>4. WokenChild(id) \in Child
    <3>1. done[id].session \in Sess /\ {done[id]} \in SUBSET Record
      BY DEF Inv, TypeOK, Record
    <3>2. WokenChild(id) = Woken(done[id].session, {done[id]})
      BY DEF WokenChild, Woken
    <3> QED BY <3>1, <3>2, WokenType
  <2>5. CASE ~AtLimit(done[id].session)
    <3> DEFINE e == Launched(WokenChild(id))
    <3>1. e \in Child /\ e.session = done[id].session
      BY <2>1, WokenRecords
    <3>2. /\ child' = [child EXCEPT ![id] = e]
          /\ queued' = queued /\ pending' = pending \cup {id}
          /\ HasCapacity(pending, active, child, done[id].session)
      BY <1>3, <2>5 DEF DeliverWake, AtLimit
    <3> HIDE DEF e
    <3>3. Admitted(id, e)
      BY <2>1, <2>2, <3>1, <3>2 DEF Admitted, NewEntry
    <3> QED BY <3>3
  <2>6. CASE AtLimit(done[id].session)
    <3> DEFINE e == Behind(WokenChild(id), queued)
    <3>1. e \in Child /\ e.session = done[id].session /\ e.run = NoRun /\ e.ahead = queued
      BY <2>1, <2>3, <2>4, WokenRecords
    <3>2. /\ child' = [child EXCEPT ![id] = e]
          /\ queued' = queued \cup {id} /\ pending' = pending
          /\ ~HasCapacity(pending, active, child, done[id].session)
      BY <1>3, <2>6 DEF DeliverWake, AtLimit, Behind
    <3> HIDE DEF e
    <3>3. Admitted(id, e)
      BY <2>1, <2>2, <3>1, <3>2 DEF Admitted, NewEntry
    <3> QED BY <3>3
  <2> QED BY <2>5, <2>6
<1> QED BY <1>1, <1>2, <1>3 DEF Deliver

\* A child that becomes active or commits, and a caller handed off, leave the
\* queue and what counts against the limit as they were.
LEMMA SteadyKept ==
  ASSUME Inv, NEW id \in Ids,
         StartedActive(id) \/ SettleDeferredStart(id, TRUE) \/ ForegroundDeadline(id)
  PROVE  QueueKept
<1>0. child \in [Ids -> Child] /\ child[id] \in Child
  BY DEF Inv, TypeOK
<1>1. CASE StartedActive(id)
  <2>1. /\ id \in pending /\ pending' = pending \ {id} /\ active' = active \cup {id}
        /\ queued' = queued
    BY <1>1 DEF StartedActive
  <2>2. /\ queued' = queued /\ pending' \subseteq pending
        /\ pending' \cup active' = pending \cup active
    BY <2>1
  <2>3. CASE child' = child
    BY <2>2, <2>3 DEF QueueKept
  <2>4. CASE child' # child
    <3>1. PICK A : child' = [child EXCEPT ![id].inFlight = Cardinality(A)]
      BY <1>1, <2>4 DEF StartedActive
    <3> DEFINE n == Cardinality(A)
    <3>2. child' = [child EXCEPT ![id] = Counted(child[id], n)]
      BY <1>0, <3>1 DEF Counted
    <3> HIDE DEF n
    <3>3. Steady(Counted(child[id], n), child[id])
      BY <1>0, SteadyRecords
    <3> QED BY <2>2, <3>2, <3>3, OneKept
  <2> QED BY <2>3, <2>4
<1>2. CASE SettleDeferredStart(id, TRUE)
  <2>1. /\ queued' = queued /\ pending' \subseteq pending
        /\ pending' \cup active' = pending \cup active
    BY <1>2 DEF SettleDeferredStart
  <2>2. PICK A : child' = [child EXCEPT ![id].wake = {}, ![id].inFlight = @ + Cardinality(A)]
    BY <1>2 DEF SettleDeferredStart
  <2> DEFINE n == child[id].inFlight + Cardinality(A)
  <2>3. child' = [child EXCEPT ![id] = Committed(child[id], n)]
    BY <1>0, <2>2 DEF Committed
  <2> HIDE DEF n
  <2>4. Steady(Committed(child[id], n), child[id])
    BY <1>0, SteadyRecords
  <2> QED BY <2>1, <2>3, <2>4, OneKept
<1>3. CASE ForegroundDeadline(id)
  <2> DEFINE b == id \notin queued
  <2>1. child' = [child EXCEPT ![id] = HandedOff(child[id], b)]
    BY <1>0, <1>3 DEF ForegroundDeadline, HandedOff
  <2> HIDE DEF b
  <2>2. /\ queued' = queued /\ pending' \subseteq pending
        /\ pending' \cup active' = pending \cup active
    BY <1>3 DEF ForegroundDeadline
  <2>3. Steady(HandedOff(child[id], b), child[id])
    BY <1>0, SteadyRecords
  <2> QED BY <2>1, <2>2, <2>3, OneKept
<1> QED BY <1>1, <1>2, <1>3

\* A step of one of the kinds above.
QueueStep == SettleStep \/ QueueKept \/ \E id, e : Admitted(id, e)

\* The event that a completion was published wakes its child or leaves the queue
\* alone, and so does the publication.
LEMMA HostKept ==
  ASSUME Inv, NEW id \in Ids, NEW age, Publish(id, age) \/ TerminalPublished(id, age)
  PROVE  QueueStep
<1>1. CASE Publish(id, age)
  BY <1>1 DEF Publish, QueueKept, QueueStep
<1>2. CASE TerminalPublished(id, age)
  <2>1. CASE Deliver(id, WakesOf(id))
    BY <2>1, DeliverKept DEF QueueStep
  <2>2. CASE ~Deliver(id, WakesOf(id))
    BY <1>2, <2>2 DEF TerminalPublished, QueueKept, QueueStep
  <2> QED BY <2>1, <2>2
<1> QED BY <1>1, <1>2

\* Every step ends in Settle, leaves the queue alone or brings a new entry.
LEMMA NextKinds ==
  ASSUME Inv, WaitInv, Next
  PROVE  QueueStep
<1>0. Inv' /\ HeldCallers
  BY NextInv DEF WaitInv
<1>1. CASE SettleStep
  BY <1>1 DEF QueueStep
<1>2. CASE CalmStep
  BY <1>2, CalmKept DEF QueueStep
<1>3. CASE Caller
  BY <1>2, <1>3, StillCalm, CancelsCalm DEF Caller
<1>4. CASE Command
  <2>1. CASE \E k \in Calls : Spawn(k)
    <3>1. CASE \E k \in Calls : SpawnStart(k) \/ SpawnEnqueue(k)
      BY <3>1, SpawnAdmitted DEF QueueStep
    <3>2. CASE ~\E k \in Calls : SpawnStart(k) \/ SpawnEnqueue(k)
      BY <1>0, <1>1, <1>2, <2>1, <3>2, StillCalm, SpawnOverLimitSettles DEF Spawn
    <3> QED BY <3>1, <3>2
  <2>2. CASE \E s \in Sess : \/ \E id \in Ids : CancelOne(id, s)
                             \/ \E p \in Prompts : CancelPrompt(p, s)
                             \/ CancelSession(s)
                             \/ \E responder \in BOOLEAN : Teardown(s, responder)
    BY <1>0, <1>1, <2>2, CancelsSettle
  <2>3. CASE \E s \in Sess : OpenSpawnAdmission(s)
    BY <1>2, <2>3, StillCalm
  <2>4. CASE \E r \in Runs : CancelWorkflow(r)
    BY <1>2, <2>4, CancelsCalm
  <2>5. CASE \/ \E q \in Queries, id \in Ids, s \in Sess : Query(q, id, s)
             \/ \E scope \in Scope : WaitPromptDrained(scope)
    BY <1>2, <2>5, StillCalm
  <2>6. CASE \E m \in Msgs : SendActiveMessage(m)
    <3>1. PICK m \in Msgs : SendActiveMessage(m)
      BY <2>6
    <3>2. To(m) \in Ids /\ Deliver(To(m), {m})
      BY <3>1, ToType DEF SendActiveMessage
    <3> QED BY <3>2, DeliverKept DEF QueueStep
  <2> QED BY <1>4, <2>1, <2>2, <2>3, <2>4, <2>5, <2>6 DEF Command
<1>5. CASE Reap
  BY <1>0, <1>1, <1>5, ReapSettles
<1>6. CASE Runner
  <2>1. CASE \E id \in Ids, ok \in BOOLEAN : RunEnds(id, ok)
    <3>1. PICK id \in Ids, ok \in BOOLEAN : RunEnds(id, ok)
      BY <2>1
    <3>2. CASE HoldOutput(id, ok)
      BY <1>2, <3>2, RunnerCalm
    <3>3. CASE ~HoldOutput(id, ok)
      BY <1>0, <1>1, <3>1, <3>3, RunEndsSettles
    <3> QED BY <3>2, <3>3
  <2>2. CASE \E id \in Ids : Started(id) \/ Finalizing(id)
    <3>1. CASE \E id \in Ids : StartedActive(id)
      BY <3>1, SteadyKept DEF QueueStep
    <3>2. CASE ~\E id \in Ids : StartedActive(id)
      BY <1>0, <1>2, <2>2, <3>2, StillCalm, RunnerCalm DEF Started
    <3> QED BY <3>1, <3>2
  <2>3. CASE \E id \in Ids, ok \in BOOLEAN : SettleDeferredStart(id, ok)
    <3>1. PICK id \in Ids, ok \in BOOLEAN : SettleDeferredStart(id, ok)
      BY <2>3
    <3>2. CASE ok = TRUE
      BY <3>1, <3>2, SteadyKept DEF QueueStep
    <3>3. CASE ok = FALSE
      BY <1>2, <3>1, <3>3, RunnerCalm
    <3> QED BY <3>2, <3>3
  <2>4. CASE \E m \in Msgs, outcome \in {"accepted", "rejected", "uncertain"} :
               AdmissionDone(m, outcome)
    <3>1. PICK m \in Msgs, outcome \in {"accepted", "rejected", "uncertain"} :
             AdmissionDone(m, outcome)
      BY <2>4
    <3>2. CASE Ended(m, outcome)[To(m)].inFlight = 0 /\ outputs[To(m)] # "none"
      BY <1>0, <1>1, <3>1, <3>2, AdmissionDoneSettles
    <3>3. CASE ~(Ended(m, outcome)[To(m)].inFlight = 0 /\ outputs[To(m)] # "none")
      BY <1>2, <3>1, <3>3, RunnerCalm
    <3> QED BY <3>2, <3>3
  <2> QED BY <1>6, <2>1, <2>2, <2>3, <2>4 DEF Runner
<1>7. CASE Host
  <2>1. ASSUME NEW e \in presenting \cup published
        PROVE  e[1] \in Ids /\ e[2] \in Nat
    BY DEF Inv, TypeOK
  <2> QED BY <1>7, <2>1, HostKept DEF Host
<1>8. CASE Timer
  <2>1. CASE \E id \in Ids : ForegroundDeadline(id)
    BY <2>1, SteadyKept DEF QueueStep
  <2>2. CASE ~\E id \in Ids : ForegroundDeadline(id)
    BY <1>2, <1>8, <2>2, StillCalm DEF Timer
  <2> QED BY <2>1, <2>2
<1> QED BY <1>3, <1>4, <1>5, <1>6, <1>7, <1>8 DEF Next

\* Every step serves the queue in order and up to the limit.
LEMMA NextQueueInv ==
  ASSUME Inv, WaitInv, QueueInv, Next
  PROVE  QueueInv' /\ NoQueueJump
<1>1. QueueStep
  BY NextKinds
<1>2. CASE SettleStep
  BY <1>2, SettleQueueInv
<1>3. CASE QueueKept
  BY <1>3, KeptQueueInv
<1>4. CASE \E id, e : Admitted(id, e)
  BY <1>4, AdmittedQueueInv
<1> QED BY <1>1, <1>2, <1>3, <1>4 DEF QueueStep

\* A new coordinator runs and queues nothing.
LEMMA InitQueueInv ==
  ASSUME Init
  PROVE  QueueInv
<1>1. queued = {} /\ pending = {} /\ active = {}
  BY DEF Init
<1>2. QueueOrder /\ QueueOnlyAtCapacity
  BY <1>1 DEF QueueOrder, QueueOnlyAtCapacity
<1>3. CapacityRespected
  <2> SUFFICES ASSUME NEW x \in Sess
               PROVE  Running(pending, active, child, x) <= MaxConcurrent
    BY DEF CapacityRespected
  <2>1. Running(pending, active, child, x) = Cardinality(Tasks(pending, active, child, x))
    BY <1>1, RunningCounts
  <2>2. Tasks(pending, active, child, x) = {}
    BY <1>1 DEF Tasks
  <2> QED BY <2>1, <2>2, FS_EmptySet, LimitAssumption
<1> QED BY <1>2, <1>3 DEF QueueInv

\* A step that changes nothing keeps the queue.
LEMMA StutterQueueInv ==
  ASSUME Inv, QueueInv, UNCHANGED vars
  PROVE  QueueInv' /\ NoQueueJump
<1>1. QueueKept
  BY DEF vars, QueueKept
<1> QED BY <1>1, KeptQueueInv

\* The three invariants hold of every run of the coordinator actor.
THEOREM QueueInvariance == Spec => [](Inv /\ WaitInv /\ QueueInv)
<1>1. Init => Inv /\ WaitInv /\ QueueInv
  BY InitInv, InitWaitInv, InitQueueInv
<1>2. Inv /\ WaitInv /\ QueueInv /\ [Next]_vars => (Inv /\ WaitInv /\ QueueInv)'
  BY NextInv, StutterInv, NextWaitInv, StutterWaitInv, NextQueueInv, StutterQueueInv
<1> QED BY <1>1, <1>2, PTL DEF Spec

\* A session never has more tool-spawned children starting or active than its
\* limit: neither a spawn, a wake nor the sweep of the queue exceeds it.
THEOREM CoordinatorCapacity == Spec => []CapacityRespected
<1>1. QueueInv => CapacityRespected
  BY DEF QueueInv
<1> QED BY <1>1, QueueInvariance, PTL

\* A child waits in the queue only while its session is at its limit: every
\* handler that frees a slot also starts who waits for it.
THEOREM CoordinatorQueueOnlyAtCapacity == Spec => []QueueOnlyAtCapacity
<1>1. QueueInv => QueueOnlyAtCapacity
  BY DEF QueueInv
<1> QED BY <1>1, QueueInvariance, PTL

\* No step starts a child that counts against the limit while an older one of
\* its session stays in the queue.
THEOREM CoordinatorNoQueueJump == Spec => NoQueueJumpProp
<1>1. Inv /\ WaitInv /\ QueueInv /\ [Next]_vars => [NoQueueJump]_vars
  BY NextQueueInv
<1> QED BY <1>1, QueueInvariance, PTL DEF Spec, NoQueueJumpProp
----------------------------------------------------------------------------
(* Presentations.                                                          *)

\* Every spawn asks for a child of its own.
DistinctIds == \A k, l \in Calls : Request[k].id = Request[l].id => k = l

\* What is being presented is the record in the history, if that is kept.
PresentedLatest ==
    \A e \in presenting :
        e[1] \in completed => done[e[1]].age = e[2] /\ ~done[e[1]].published

\* The child of a spawn that is not taken up yet has not been seen.
Unseen ==
    \A k \in Calls : call[k] \in {"idle", "sent"} =>
        /\ Request[k].id \notin Live \cup completed
        /\ \A e \in presenting : e[1] # Request[k].id

\* What makes the order of presentations and runs inductive.
PresentInv == PresentedBeforeRerun /\ PresentedLatest /\ Unseen

\* What Settle does to the presentations: `gone` are the children that leave.
Presents(first, gone) ==
    /\ gone \subseteq Live \cup first /\ first \subseteq gone
    /\ Live' \subseteq Live /\ Live' \cap gone = {}
    /\ \A e \in presenting' : \/ e \in presenting
                              \/ /\ e[1] \in gone
                                 /\ e[1] \in completed' =>
                                       done'[e[1]].age = e[2] /\ ~done'[e[1]].published
    /\ \A id \in completed' : id \in gone \/ (id \in completed /\ done'[id] = done[id])

\* Settle presents what it completes, and restores no record under presentation.
LEMMA SettlePresents ==
  ASSUME Inv, NEW s, NEW first, NEW ok, NEW sweeps, HandOver(s, first, sweeps),
         Settle(s, first, ok, sweeps)
  PROVE  \E gone : Presents(first, gone)
<1> DEFINE started == IF sweeps THEN Startable(s.queued, s.pending, s.active, s.child) ELSE {}
           swept == IF sweeps THEN {id \in s.queued : s.child[id].token} ELSE {}
           gone == first \cup swept
           completing == {id \in gone : Completes(s.child[id], id \in ok)}
           Precedes(o, id) ==
            \/ o \in first /\ id \notin first
            \/ (o \in first <=> id \in first) /\ o \in s.child[id].ahead
           AgeAt(id) == nextAge + Cardinality({o \in completing : Precedes(o, id)})
           restored == {id \in gone \ completing : Restorable(s.child[id], AgeAt(id))}
           rec == [id \in Ids |->
             IF id \in completing THEN Terminal(s.child[id], AgeAt(id))
             ELSE IF id \in restored THEN CHOOSE r \in s.child[id].wake : TRUE
             ELSE done[id]]
           known == completed \cup completing \cup restored
           kept == Newest(known, rec)
<1>1. /\ queued' = s.queued \ (started \cup swept)
      /\ pending' = s.pending \cup started
      /\ active' = s.active
  BY DEF Settle
<1>2. presenting' = presenting \cup {<<id, AgeAt(id)>> : id \in completing \cap Addressed}
  BY DEF Settle
<1>3. completed' = kept /\ done' = [id \in Ids |-> IF id \in kept THEN rec[id] ELSE NoRecord]
  BY DEF Settle
<1>4. /\ completing \subseteq gone /\ restored \subseteq gone
      /\ kept \subseteq completed \cup completing \cup restored
  BY DEF Newest
<1>5. \A id \in completing : /\ Terminal(s.child[id], AgeAt(id)).age = AgeAt(id)
                             /\ ~Terminal(s.child[id], AgeAt(id)).published
  BY DEF Terminal
<1>6. started \subseteq s.queued /\ swept \subseteq s.queued /\ started \cap swept = {}
  BY DEF Startable
<1>7. /\ s.queued = queued \ first /\ s.pending = pending \ first /\ s.active = active \ first
      /\ first \subseteq Ids /\ completed \subseteq Ids /\ queued \subseteq Ids
      /\ queued \cap (pending \cup active) = {}
  BY DEF HandOver, Inv, TypeOK, OneHome
<1>8. \A id \in Ids : /\ id \in completing => rec[id] = Terminal(s.child[id], AgeAt(id))
                      /\ id \notin completing \cup restored => rec[id] = done[id]
  OBVIOUS
<1> HIDE DEF started, swept, completing, AgeAt, restored, rec, kept
<1>9. gone \subseteq Live \cup first /\ Live' \subseteq Live /\ Live' \cap gone = {} /\ gone \subseteq Ids
  BY <1>1, <1>6, <1>7 DEF Live
<1> HIDE DEF gone
<1>10. ASSUME NEW e \in presenting', e \notin presenting
       PROVE  /\ e[1] \in gone
              /\ e[1] \in completed' => done'[e[1]].age = e[2] /\ ~done'[e[1]].published
  <2>1. PICK id \in completing : e = <<id, AgeAt(id)>>
    BY <1>2, <1>10
  <2>2. e[1] = id /\ e[2] = AgeAt(id) /\ id \in gone /\ id \in Ids
    BY <1>4, <1>9, <2>1
  <2>3. id \in completed' => done'[id] = Terminal(s.child[id], AgeAt(id))
    BY <1>3, <1>8, <2>2
  <2> QED BY <1>5, <2>2, <2>3
<1>11. ASSUME NEW id \in completed', id \notin gone
       PROVE  id \in completed /\ done'[id] = done[id]
  BY <1>3, <1>4, <1>7, <1>8, <1>11
<1>12. first \subseteq gone
  BY DEF gone
<1>13. Presents(first, gone)
  BY <1>9, <1>10, <1>11, <1>12 DEF Presents
<1> QED BY <1>13

\* A step that ends in Settle.
LEMMA SettlePresentInv ==
  ASSUME DistinctIds, Inv, PresentInv, SettleStep
  PROVE  PresentInv'
<1>1. PICK s, first, ok, sweeps : /\ HandOver(s, first, sweeps) /\ TakenUp(s, first)
                                  /\ Settle(s, first, ok, sweeps)
  BY DEF SettleStep
<1>2. PICK gone : Presents(first, gone)
  BY <1>1, SettlePresents
<1>0. call \in [Calls -> CallState]
  BY DEF Inv, TypeOK
<1>3. \A k \in Calls : call'[k] = s.call[k] \/ call'[k] = "final"
  BY <1>1 DEF Settle
<1>4. ASSUME NEW k \in Calls, call'[k] \in {"idle", "sent"}
      PROVE  call[k] \in {"idle", "sent"} /\ Request[k].id \notin first
  <2>1. s.call[k] \in {"idle", "sent"}
    BY <1>3, <1>4
  <2>2. CASE s.call = call /\ first \subseteq Live
    BY <2>1, <2>2 DEF PresentInv, Unseen
  <2>3. CASE \E l \in Calls : /\ call[l] = "sent" /\ first = {Request[l].id}
                              /\ s.call = [call EXCEPT ![l] = "waiting"]
    BY <1>0, <2>1, <2>3 DEF DistinctIds
  <2> QED BY <1>1, <2>2, <2>3 DEF TakenUp
<1>5. \A e \in presenting : e[1] \notin gone
  <2> SUFFICES ASSUME NEW e \in presenting PROVE e[1] \notin gone
    OBVIOUS
  <2>1. e[1] \notin Live
    BY DEF PresentInv, PresentedBeforeRerun
  <2>2. e[1] \notin first
    BY <1>1, <2>1 DEF TakenUp, PresentInv, Unseen
  <2> QED BY <1>2, <2>1, <2>2 DEF Presents
<1>6. PresentedBeforeRerun'
  <2>1. \A e \in presenting' : e[1] \notin Live'
    BY <1>2, <1>5 DEF PresentInv, PresentedBeforeRerun, Presents
  <2> QED BY <2>1 DEF PresentedBeforeRerun
<1>7. PresentedLatest'
  <2> SUFFICES ASSUME NEW e \in presenting', e[1] \in completed'
               PROVE  done'[e[1]].age = e[2] /\ ~done'[e[1]].published
    BY DEF PresentedLatest
  <2>1. CASE e \in presenting
    <3>1. e[1] \in completed /\ done'[e[1]] = done[e[1]]
      BY <1>2, <1>5, <2>1 DEF Presents
    <3> QED BY <2>1, <3>1 DEF PresentInv, PresentedLatest
  <2>2. CASE e \notin presenting
    BY <1>2, <2>2 DEF Presents
  <2> QED BY <2>1, <2>2
<1>8. Unseen'
  <2> SUFFICES ASSUME NEW k \in Calls, call'[k] \in {"idle", "sent"}
               PROVE  /\ Request[k].id \notin Live' \cup completed'
                      /\ \A e \in presenting' : e[1] # Request[k].id
    BY DEF Unseen
  <2>1. /\ Request[k].id \notin Live \cup completed /\ Request[k].id \notin first
        /\ \A e \in presenting : e[1] # Request[k].id
    BY <1>4 DEF PresentInv, Unseen
  <2>2. Request[k].id \notin gone
    BY <1>2, <2>1 DEF Presents
  <2> QED BY <1>2, <2>1, <2>2 DEF Presents
<1> QED BY <1>6, <1>7, <1>8 DEF PresentInv

\* No child becomes live and no spawn call starts over.
PresentKept ==
    /\ Live' \subseteq Live /\ UNCHANGED <<completed, done, presenting>>
    /\ \A k \in Calls : call'[k] \in {"idle", "sent"} => call[k] \in {"idle", "sent"}

\* Such a step disturbs no presentation.
LEMMA KeptPresentInv ==
  ASSUME PresentInv, PresentKept
  PROVE  PresentInv'
<1>1. PresentedBeforeRerun'
  <2>1. \A e \in presenting' : e[1] \notin Live'
    BY DEF PresentKept, PresentInv, PresentedBeforeRerun
  <2> QED BY <2>1 DEF PresentedBeforeRerun
<1>2. PresentedLatest'
  BY DEF PresentKept, PresentInv, PresentedLatest
<1>3. Unseen'
  <2>1. \A k \in Calls : call'[k] \in {"idle", "sent"} =>
           /\ Request[k].id \notin Live' \cup completed'
           /\ \A e \in presenting' : e[1] # Request[k].id
    BY DEF PresentKept, PresentInv, Unseen
  <2> QED BY <2>1 DEF Unseen
<1> QED BY <1>1, <1>2, <1>3 DEF PresentInv

\* A calm step that leaves the completions alone.
LEMMA CalmPresent ==
  ASSUME PresentInv, CalmStep, HistorySame
  PROVE  PresentInv'
<1>1. PresentKept
  <2>1. Live' = Live
    BY DEF CalmStep, Live
  <2>2. \A k \in Calls : call'[k] \in {"idle", "sent"} => call[k] \in {"idle", "sent"}
    BY DEF CalmStep, CallKept
  <2> QED BY <2>1, <2>2 DEF PresentKept, HistorySame
<1> QED BY <1>1, KeptPresentInv

\* A child that becomes active or commits, and a caller handed off.
LEMMA SteadyPresent ==
  ASSUME Inv, PresentInv, NEW id \in Ids,
         StartedActive(id) \/ SettleDeferredStart(id, TRUE) \/ ForegroundDeadline(id)
  PROVE  PresentInv'
<1>1. UNCHANGED <<completed, done, presenting>>
  BY DEF StartedActive, SettleDeferredStart, ForegroundDeadline
<1>2. Live' \subseteq Live
  BY DEF StartedActive, SettleDeferredStart, ForegroundDeadline, Live
<1>3. \A k \in Calls : call'[k] \in {"idle", "sent"} => call[k] \in {"idle", "sent"}
  BY DEF StartedActive, SettleDeferredStart, ForegroundDeadline
<1>4. PresentKept
  BY <1>1, <1>2, <1>3 DEF PresentKept
<1> QED BY <1>4, KeptPresentInv

\* A new entry that is not being presented, of a spawn that is taken up or of a
\* child out of the history.
LEMMA EntryPresent ==
  ASSUME PresentInv, NEW id, Live' = Live \cup {id}, presenting' = presenting,
         \A e \in presenting : e[1] # id,
         completed' \subseteq completed, \A x \in completed' : done'[x] = done[x],
         \A k \in Calls : call'[k] \in {"idle", "sent"} =>
             call[k] \in {"idle", "sent"} /\ Request[k].id # id
  PROVE  PresentInv'
<1>1. PresentedBeforeRerun'
  <2>1. \A e \in presenting' : e[1] \notin Live'
    BY DEF PresentInv, PresentedBeforeRerun
  <2> QED BY <2>1 DEF PresentedBeforeRerun
<1>2. PresentedLatest'
  BY DEF PresentInv, PresentedLatest
<1>3. Unseen'
  <2>1. \A k \in Calls : call'[k] \in {"idle", "sent"} =>
           /\ Request[k].id \notin Live' \cup completed'
           /\ \A e \in presenting' : e[1] # Request[k].id
    BY DEF PresentInv, Unseen
  <2> QED BY <2>1 DEF Unseen
<1> QED BY <1>1, <1>2, <1>3 DEF PresentInv

\* A spawn that starts or queues.
LEMMA SpawnPresent ==
  ASSUME DistinctIds, Inv, PresentInv, NEW k \in Calls, SpawnStart(k) \/ SpawnEnqueue(k)
  PROVE  PresentInv'
<1> DEFINE id == Request[k].id
<1>0. call \in [Calls -> CallState]
  BY DEF Inv, TypeOK
<1>1. call[k] = "sent" /\ UNCHANGED <<completed, done, presenting>>
  BY DEF SpawnStart, SpawnEnqueue
<1>2. Live' = Live \cup {id}
  BY DEF SpawnStart, SpawnEnqueue, Live
<1>3. call'[k] \notin {"idle", "sent"} /\ \A l \in Calls \ {k} : call'[l] = call[l]
  BY <1>0 DEF SpawnStart, SpawnEnqueue
<1>4. \A l \in Calls : call'[l] \in {"idle", "sent"} =>
         call[l] \in {"idle", "sent"} /\ Request[l].id # id
  BY <1>3 DEF DistinctIds
<1>5. \A e \in presenting : e[1] # id
  BY <1>1 DEF PresentInv, Unseen
<1> HIDE DEF id
<1> QED BY <1>1, <1>2, <1>4, <1>5, EntryPresent

\* A message: it wakes a child only after its completion was presented.
LEMMA DeliverPresent ==
  ASSUME Inv, PresentInv, NEW id \in Ids, NEW M, Deliver(id, M)
  PROVE  PresentInv'
<1>0. UNCHANGED <<call, presenting>>
  BY DEF Deliver
<1>1. CASE \/ DeliverRefused(id, M) \/ DeliverActive(id, M)
           \/ DeliverPark(id, M) \/ DeliverHold(id, M)
  <2>1. UNCHANGED <<queued, pending, active, completed, done>>
    BY <1>1 DEF DeliverRefused, DeliverActive, DeliverPark, DeliverHold
  <2>2. PresentKept
    BY <1>0, <2>1 DEF PresentKept, Live
  <2> QED BY <2>2, KeptPresentInv
<1>2. CASE DeliverWake(id, M)
  <2>1. /\ id \in completed /\ done[id].published
        /\ completed' = completed \ {id} /\ done' = [done EXCEPT ![id] = NoRecord]
    BY <1>2 DEF DeliverWake, Wakeable
  <2>2. Live' = Live \cup {id}
    BY <1>2 DEF DeliverWake, Live
  <2>3. \A e \in presenting : e[1] # id
    BY <2>1 DEF PresentInv, PresentedLatest
  <2>4. completed' \subseteq completed /\ \A x \in completed' : done'[x] = done[x]
    BY <2>1 DEF Inv, TypeOK
  <2>5. \A k \in Calls : call'[k] \in {"idle", "sent"} =>
           call[k] \in {"idle", "sent"} /\ Request[k].id # id
    BY <1>0, <2>1 DEF PresentInv, Unseen
  <2> QED BY <1>0, <2>2, <2>3, <2>4, <2>5, EntryPresent
<1> QED BY <1>1, <1>2 DEF Deliver

\* A publication ends the one presentation of the record it marks.
LEMMA PublishPresent ==
  ASSUME Inv, PresentInv, NEW id \in Ids, NEW age, Publish(id, age)
  PROVE  PresentInv'
<1>0. done \in [Ids -> Record] /\ completed \subseteq Ids
  BY DEF Inv, TypeOK
<1>1. /\ UNCHANGED <<queued, pending, active, completed, call>>
      /\ <<id, age>> \in presenting /\ presenting' = presenting \ {<<id, age>>}
      /\ done' = [done EXCEPT ![id].published = @ \/ (id \in completed /\ done[id].age = age)]
  BY DEF Publish
<1>2. Live' = Live
  BY <1>1 DEF Live
<1>3. PresentedBeforeRerun'
  <2>1. \A e \in presenting' : e[1] \notin Live'
    BY <1>1, <1>2 DEF PresentInv, PresentedBeforeRerun
  <2> QED BY <2>1 DEF PresentedBeforeRerun
<1>4. PresentedLatest'
  <2> SUFFICES ASSUME NEW e \in presenting', e[1] \in completed'
               PROVE  done'[e[1]].age = e[2] /\ ~done'[e[1]].published
    BY DEF PresentedLatest
  <2>1. /\ e \in presenting /\ e[1] \in completed /\ e[1] \in Ids /\ e # <<id, age>>
        /\ e = <<e[1], e[2]>>
    BY <1>0, <1>1 DEF Inv, TypeOK
  <2>2. done[e[1]].age = e[2] /\ ~done[e[1]].published
    BY <2>1 DEF PresentInv, PresentedLatest
  <2>3. e[1] # id
    <3> SUFFICES ASSUME e[1] = id PROVE FALSE
      OBVIOUS
    <3>1. <<id, age>>[1] = id /\ <<id, age>>[2] = age
      OBVIOUS
    <3>2. done[id].age = age
      BY <1>1, <2>1, <3>1 DEF PresentInv, PresentedLatest
    <3> QED BY <2>1, <2>2, <3>2
  <2>4. done'[e[1]] = done[e[1]]
    BY <1>0, <1>1, <2>1, <2>3
  <2> QED BY <2>2, <2>4
<1>5. Unseen'
  <2>1. \A k \in Calls : call'[k] \in {"idle", "sent"} =>
           /\ Request[k].id \notin Live' \cup completed'
           /\ \A e \in presenting' : e[1] # Request[k].id
    BY <1>1, <1>2 DEF PresentInv, Unseen
  <2> QED BY <2>1 DEF Unseen
<1> QED BY <1>3, <1>4, <1>5 DEF PresentInv

\* The event that a completion was published.
LEMMA TerminalPublishedPresent ==
  ASSUME Inv, PresentInv, NEW id \in Ids, NEW age, TerminalPublished(id, age)
  PROVE  PresentInv'
<1>1. CASE Deliver(id, WakesOf(id))
  BY <1>1, DeliverPresent
<1>2. CASE ~Deliver(id, WakesOf(id))
  <2>1. UNCHANGED <<queued, pending, active, completed, done, call, presenting>>
    BY <1>2 DEF TerminalPublished
  <2>2. PresentKept
    BY <2>1 DEF PresentKept, Live
  <2> QED BY <2>2, KeptPresentInv
<1> QED BY <1>1, <1>2

\* No step runs a child that is being presented.
LEMMA NextPresentInv ==
  ASSUME DistinctIds, Inv, WaitInv, PresentInv, Next
  PROVE  PresentInv'
<1>0. Inv' /\ HeldCallers
  BY NextInv DEF WaitInv
<1>1. CASE SettleStep
  BY <1>1, SettlePresentInv
<1>2. CASE CalmStep /\ HistorySame
  BY <1>2, CalmPresent
<1>3. CASE Caller
  BY <1>2, <1>3, StillCalm, CancelsCalm DEF Caller
<1>4. CASE Command
  <2>1. CASE \E k \in Calls : Spawn(k)
    BY <1>0, <1>1, <1>2, <2>1, StillCalm, SpawnPresent, SpawnOverLimitSettles DEF Spawn
  <2>2. CASE \E s \in Sess : \/ \E id \in Ids : CancelOne(id, s)
                             \/ \E p \in Prompts : CancelPrompt(p, s)
                             \/ CancelSession(s)
                             \/ \E responder \in BOOLEAN : Teardown(s, responder)
    BY <1>0, <1>1, <2>2, CancelsSettle
  <2>3. CASE \E s \in Sess : OpenSpawnAdmission(s)
    BY <1>2, <2>3, StillCalm
  <2>4. CASE \E r \in Runs : CancelWorkflow(r)
    BY <1>2, <2>4, CancelsCalm
  <2>5. CASE \/ \E q \in Queries, id \in Ids, s \in Sess : Query(q, id, s)
             \/ \E scope \in Scope : WaitPromptDrained(scope)
    BY <1>2, <2>5, StillCalm
  <2>6. CASE \E m \in Msgs : SendActiveMessage(m)
    BY <2>6, ToType, DeliverPresent DEF SendActiveMessage
  <2> QED BY <1>4, <2>1, <2>2, <2>3, <2>4, <2>5, <2>6 DEF Command
<1>5. CASE Reap
  BY <1>0, <1>1, <1>5, ReapSettles
<1>6. CASE Runner
  <2>1. CASE \E id \in Ids, ok \in BOOLEAN : RunEnds(id, ok)
    <3>1. PICK id \in Ids, ok \in BOOLEAN : RunEnds(id, ok)
      BY <2>1
    <3>2. CASE HoldOutput(id, ok)
      BY <1>2, <3>2, RunnerCalm
    <3>3. CASE ~HoldOutput(id, ok)
      BY <1>0, <1>1, <3>1, <3>3, RunEndsSettles
    <3> QED BY <3>2, <3>3
  <2>2. CASE \E id \in Ids : Started(id) \/ Finalizing(id)
    BY <1>2, <2>2, StillCalm, SteadyPresent, RunnerCalm DEF Started
  <2>3. CASE \E id \in Ids, ok \in BOOLEAN : SettleDeferredStart(id, ok)
    <3>1. PICK id \in Ids, ok \in BOOLEAN : SettleDeferredStart(id, ok)
      BY <2>3
    <3>2. CASE ok = TRUE
      BY <3>1, <3>2, SteadyPresent
    <3>3. CASE ok = FALSE
      BY <1>2, <3>1, <3>3, RunnerCalm
    <3> QED BY <3>2, <3>3
  <2>4. CASE \E m \in Msgs, outcome \in {"accepted", "rejected", "uncertain"} :
               AdmissionDone(m, outcome)
    <3>1. PICK m \in Msgs, outcome \in {"accepted", "rejected", "uncertain"} :
             AdmissionDone(m, outcome)
      BY <2>4
    <3>2. CASE Ended(m, outcome)[To(m)].inFlight = 0 /\ outputs[To(m)] # "none"
      BY <1>0, <1>1, <3>1, <3>2, AdmissionDoneSettles
    <3>3. CASE ~(Ended(m, outcome)[To(m)].inFlight = 0 /\ outputs[To(m)] # "none")
      BY <1>2, <3>1, <3>3, RunnerCalm
    <3> QED BY <3>2, <3>3
  <2> QED BY <1>6, <2>1, <2>2, <2>3, <2>4 DEF Runner
<1>7. CASE Host
  <2>1. ASSUME NEW e \in presenting \cup published
        PROVE  e[1] \in Ids /\ e[2] \in Nat
    BY DEF Inv, TypeOK
  <2> QED BY <1>7, <2>1, PublishPresent, TerminalPublishedPresent DEF Host
<1>8. CASE Timer
  BY <1>2, <1>8, SteadyPresent, StillCalm DEF Timer
<1> QED BY <1>3, <1>4, <1>5, <1>6, <1>7, <1>8 DEF Next

\* If every spawn asks for a child of its own, no child runs again while the
\* host still presents its previous completion, whatever the history evicts,
\* wakes take out of it and failed wakes put back.
THEOREM CoordinatorPresentedBeforeRerun ==
  ASSUME DistinctIds
  PROVE  Spec => []PresentedBeforeRerun
<1>1. Init => PresentInv
  BY DEF Init, PresentInv, PresentedBeforeRerun, PresentedLatest, Unseen, Live
<1>2. Inv /\ WaitInv /\ PresentInv /\ [Next]_vars => PresentInv'
  <2> SUFFICES ASSUME Inv, WaitInv, PresentInv, [Next]_vars PROVE PresentInv'
    OBVIOUS
  <2>1. CASE Next
    BY <2>1, NextPresentInv
  <2>2. CASE UNCHANGED vars
    <3>1. PresentKept
      BY <2>2 DEF vars, PresentKept, Live
    <3> QED BY <3>1, KeptPresentInv
  <2> QED BY <2>1, <2>2
<1>3. PresentInv => PresentedBeforeRerun
  BY DEF PresentInv
<1> QED BY <1>1, <1>2, <1>3, WaitingInvariance, PTL DEF Spec
============================================================================
