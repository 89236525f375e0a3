------------------------- MODULE ActiveMessageLease -------------------------
(***************************************************************************)
(* Admission of a message into a running child: the lease                  *)
(* (task/active_message.rs), the coordinator's future that polls it        *)
(* (coordinator/active_message.rs) and the child's session that inserts    *)
(* the row (xai-grok-shell, acp_session_impl/parent_message.rs).           *)
(*                                                                         *)
(* The two sides run on different threads and share one atomic byte.  The  *)
(* coordinator gives up on a deadline or a cancelled child while the       *)
(* session may be anywhere between taking the command and replying, so     *)
(* every atomic access is an action of its own.                            *)
(***************************************************************************)
CONSTANT Messages

VARIABLES
    lease,      \* ActiveMessageAdmissionLease.state
    host,       \* where the child's session is in admit_parent_agent_message
    reply,      \* what it sent on the admission oneshot
    rows,       \* messages inserted into the child's prompt queue
    poll,       \* where the coordinator's ActiveMessageFuture is
    outcome,    \* ActiveMessageCompletion: its admission and is_settled
    answer      \* what the sender was told

vars == <<lease, host, reply, rows, poll, outcome, answer>>

Lease == {"Open", "Claimed", "Committed", "Revoked"}
Host == {"working", "claimed", "inserted", "committed", "done"}
Reply == {"none", "Admitted", "Refused"}
Poll == {"polling", "settling", "revoking", "ready", "done"}
Outcome == {"none", "admitted", "refused", "unsettled"}
Answers == {"none", "Accepted", "Rejected", "Uncertain"}

Init ==
    /\ lease = [m \in Messages |-> "Open"]
    /\ host = [m \in Messages |-> "working"]
    /\ reply = [m \in Messages |-> "none"]
    /\ rows = {}
    /\ poll = [m \in Messages |-> "polling"]
    /\ outcome = [m \in Messages |-> "none"]
    /\ answer = [m \in Messages |-> "none"]

----------------------------------------------------------------------------
(* The child's session.                                                    *)

\* It refuses before it touches the lease: Rejected, Unsupported or
\* ChannelClosed, which the coordinator treats alike.
HostRefuses(m) ==
    /\ host[m] = "working"
    /\ host' = [host EXCEPT ![m] = "done"]
    /\ reply' = [reply EXCEPT ![m] = "Refused"]
    /\ UNCHANGED <<lease, rows, poll, outcome, answer>>

\* Faulty: the claim ignores a revoked lease.
ClaimUnchecked(m) ==
    /\ host[m] = "working"
    /\ lease' = [lease EXCEPT ![m] = "Claimed"]
    /\ host' = [host EXCEPT ![m] = "claimed"]
    /\ UNCHANGED <<reply, rows, poll, outcome, answer>>

\* commit_admission's compare_exchange; a lost race is a refusal.
Claim(m) ==
    /\ host[m] = "working"
    /\ IF lease[m] = "Open"
       THEN /\ lease' = [lease EXCEPT ![m] = "Claimed"]
            /\ host' = [host EXCEPT ![m] = "claimed"]
            /\ UNCHANGED reply
       ELSE /\ host' = [host EXCEPT ![m] = "done"]
            /\ reply' = [reply EXCEPT ![m] = "Refused"]
            /\ UNCHANGED lease
    /\ UNCHANGED <<rows, poll, outcome, answer>>

\* The closure inserts the row.
Insert(m) ==
    /\ host[m] = "claimed"
    /\ host' = [host EXCEPT ![m] = "inserted"]
    /\ rows' = rows \cup {m}
    /\ UNCHANGED <<lease, reply, poll, outcome, answer>>

\* The store that ends commit_admission.
Commit(m) ==
    /\ host[m] = "inserted"
    /\ host' = [host EXCEPT ![m] = "committed"]
    /\ lease' = [lease EXCEPT ![m] = "Committed"]
    /\ UNCHANGED <<reply, rows, poll, outcome, answer>>

HostReplies(m) ==
    /\ host[m] = "committed"
    /\ host' = [host EXCEPT ![m] = "done"]
    /\ reply' = [reply EXCEPT ![m] = "Admitted"]
    /\ UNCHANGED <<lease, rows, poll, outcome, answer>>

\* The session goes away at any point: its oneshot is dropped and the await
\* in MessageDelivery::send yields ChannelClosed.
HostDies(m) ==
    /\ host[m] # "done"
    /\ host' = [host EXCEPT ![m] = "done"]
    /\ reply' = [reply EXCEPT ![m] = "Refused"]
    /\ UNCHANGED <<lease, rows, poll, outcome, answer>>

----------------------------------------------------------------------------
(* The coordinator's future.                                               *)

Ready(m, o) ==
    /\ poll' = [poll EXCEPT ![m] = "ready"]
    /\ outcome' = [outcome EXCEPT ![m] = o]

\* Poll::Ready(admission) and the load of settle.  Admitted is settled only
\* by a committed lease; a refusal only by a lease nobody holds.
SettleLoad(m) ==
    /\ poll[m] = "polling" /\ reply[m] # "none"
    /\ \/ /\ reply[m] = "Admitted"
          /\ Ready(m, IF lease[m] = "Committed" THEN "admitted" ELSE "unsettled")
       \/ /\ reply[m] = "Refused" /\ lease[m] = "Open"
          /\ poll' = [poll EXCEPT ![m] = "settling"]
          /\ UNCHANGED outcome
       \/ /\ reply[m] = "Refused" /\ lease[m] # "Open"
          /\ Ready(m, IF lease[m] = "Revoked" THEN "refused" ELSE "unsettled")
    /\ UNCHANGED <<lease, host, reply, rows, answer>>

\* The compare_exchange of settle.
SettleRevoke(m) ==
    /\ poll[m] = "settling"
    /\ IF lease[m] = "Open"
       THEN lease' = [lease EXCEPT ![m] = "Revoked"] /\ Ready(m, "refused")
       ELSE Ready(m, "unsettled") /\ UNCHANGED lease
    /\ UNCHANGED <<host, reply, rows, answer>>

\* Faulty: a session that claimed the lease is waited for without a deadline.
WaitsForClaim(m) ==
    /\ poll[m] = "polling" /\ reply[m] = "none" /\ lease[m] = "Open"
    /\ poll' = [poll EXCEPT ![m] = "revoking"]
    /\ UNCHANGED <<lease, host, reply, rows, outcome, answer>>

\* The admission is pending and the child was cancelled or the deadline
\* elapsed; the session may still move before the revoke.
GiveUp(m) ==
    /\ poll[m] = "polling" /\ reply[m] = "none"
    /\ poll' = [poll EXCEPT ![m] = "revoking"]
    /\ UNCHANGED <<lease, host, reply, rows, outcome, answer>>

\* Faulty: the result is taken from the state before the exchange.
RevokeReadsBefore(m) ==
    /\ poll[m] = "revoking"
    /\ lease' = [lease EXCEPT ![m] = IF @ = "Open" THEN "Revoked" ELSE @]
    /\ Ready(m, IF lease[m] = "Revoked" THEN "refused" ELSE "unsettled")
    /\ UNCHANGED <<host, reply, rows, answer>>

\* Faulty: an elapsed deadline is taken for a refusal.
RevokeTrustsDeadline(m) ==
    /\ poll[m] = "revoking"
    /\ lease' = [lease EXCEPT ![m] = IF @ = "Open" THEN "Revoked" ELSE @]
    /\ Ready(m, "refused")
    /\ UNCHANGED <<host, reply, rows, answer>>

\* ActiveMessageAdmissionLease::revoke.
Revoke(m) ==
    /\ poll[m] = "revoking"
    /\ lease' = [lease EXCEPT ![m] = IF @ = "Open" THEN "Revoked" ELSE @]
    /\ Ready(m, IF lease[m] \in {"Open", "Revoked"} THEN "refused" ELSE "unsettled")
    /\ UNCHANGED <<host, reply, rows, answer>>

\* protocol_outcome_from_completion.
Protocol(o) ==
    CASE o = "admitted" -> "Accepted"
      [] o = "refused" -> "Rejected"
      [] OTHER -> "Uncertain"

\* finish_active_message.
Finish(m) ==
    /\ poll[m] = "ready"
    /\ poll' = [poll EXCEPT ![m] = "done"]
    /\ answer' = [answer EXCEPT ![m] = Protocol(outcome[m])]
    /\ UNCHANGED <<lease, host, reply, rows, outcome>>

\* lost_completion_outcome: the completion is dropped with its actor.
LoseCompletion(m) ==
    /\ poll[m] = "ready"
    /\ poll' = [poll EXCEPT ![m] = "done"]
    /\ answer' = [answer EXCEPT ![m] =
          IF outcome[m] = "admitted" THEN "Uncertain" ELSE Protocol(outcome[m])]
    /\ UNCHANGED <<lease, host, reply, rows, outcome>>

\* Drop of an unfinished ActiveMessageFuture.
DropFuture(m) ==
    /\ poll[m] = "polling"
    /\ poll' = [poll EXCEPT ![m] = "done"]
    /\ lease' = [lease EXCEPT ![m] = IF @ = "Open" THEN "Revoked" ELSE @]
    /\ answer' = [answer EXCEPT ![m] =
          IF lease[m] \in {"Open", "Revoked"} THEN "Rejected" ELSE "Uncertain"]
    /\ UNCHANGED <<host, reply, rows, outcome>>

----------------------------------------------------------------------------
Session(m) ==
    \/ HostRefuses(m) \/ Claim(m) \/ Insert(m) \/ Commit(m)
    \/ HostReplies(m) \/ HostDies(m)

Coordinator(m) ==
    \/ SettleLoad(m) \/ SettleRevoke(m) \/ GiveUp(m) \/ Revoke(m)
    \/ Finish(m) \/ LoseCompletion(m) \/ DropFuture(m)

\* The part of the coordinator that its executor keeps polling.
Polls(m) ==
    SettleLoad(m) \/ SettleRevoke(m) \/ GiveUp(m) \/ Revoke(m) \/ Finish(m)

Next == \E m \in Messages : Session(m) \/ Coordinator(m)

Spec == Init /\ [][Next]_vars

\* The future carries its own deadline, so the coordinator's side never
\* stalls; the session may.
FairSpec == Spec /\ \A m \in Messages : WF_vars(Polls(m))

----------------------------------------------------------------------------
\* Every variable stays in its type.
TypeOK ==
    /\ lease \in [Messages -> Lease]
    /\ host \in [Messages -> Host]
    /\ reply \in [Messages -> Reply]
    /\ rows \subseteq Messages
    /\ poll \in [Messages -> Poll]
    /\ outcome \in [Messages -> Outcome]
    /\ answer \in [Messages -> Answers]

\* An accepted message was inserted, and a refused one was not and never will
\* be: a sender that retries a refusal cannot deliver twice.
AnswersTrue ==
    \A m \in Messages : /\ answer[m] = "Accepted" => m \in rows
                        /\ answer[m] = "Rejected" => m \notin rows

\* AdmissionUncertain is told only of a claimed or committed admission, never
\* of a message the child's session had no hold on.
UncertainMeansClaimed ==
    \A m \in Messages : answer[m] = "Uncertain" => lease[m] \in {"Claimed", "Committed"}

\* Where the two sides can be relative to the lease: what makes the answers
\* inductive.
LeaseHeld ==
    \A m \in Messages :
        /\ host[m] = "working" => m \notin rows /\ lease[m] \in {"Open", "Revoked"}
        /\ host[m] = "claimed" => m \notin rows /\ lease[m] = "Claimed"
        /\ host[m] = "inserted" => m \in rows /\ lease[m] = "Claimed"
        /\ host[m] = "committed" => lease[m] = "Committed"
        /\ reply[m] = "Admitted" => lease[m] = "Committed"
        /\ lease[m] = "Committed" => m \in rows
        /\ m \in rows => lease[m] \in {"Claimed", "Committed"}
        /\ outcome[m] = "admitted" => lease[m] = "Committed"
        /\ outcome[m] = "refused" => lease[m] = "Revoked"
        /\ outcome[m] = "unsettled" => lease[m] \in {"Claimed", "Committed"}
        /\ lease[m] = "Revoked" => poll[m] \in {"ready", "done"}
        /\ poll[m] = "ready" <=> outcome[m] # "none" /\ answer[m] = "none"
        /\ answer[m] = "none" <=> poll[m] # "done"
        /\ answer[m] = "Accepted" => lease[m] = "Committed"
        /\ answer[m] = "Rejected" => lease[m] = "Revoked"
        /\ answer[m] = "Uncertain" => lease[m] \in {"Claimed", "Committed"}

\* Every sender is answered, even if the child's session hangs.
AlwaysAnswered == \A m \in Messages : <>(answer[m] # "none")

Contract == INSTANCE AdmissionContract WITH rows <- rows, answer <- answer

\* The lease implements the contract: what the sender is told is the truth.
ImplementsContract == Contract!Spec
============================================================================
