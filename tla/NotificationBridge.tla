------------------------- MODULE NotificationBridge -------------------------
(***************************************************************************)
(* The path of a scheduler notification to the session log and the tasks   *)
(* pane: the acknowledged target of ToolNotificationHandle                 *)
(* (notification/handle.rs), the bridge that appends to the log and        *)
(* forwards (xai-grok-shell, tools/notification_bridge.rs) and the pane's  *)
(* entries (xai-grok-pager, acp_handler/background.rs).                    *)
(*                                                                         *)
(* A target is FIFO.  The pane is rebuilt from the log when a session is   *)
(* opened, so one variable stands for both: the tasks the log shows.       *)
(***************************************************************************)
EXTENDS Naturals, Sequences

CONSTANTS Tasks, OneShots

VARIABLES notes,    \* AcknowledgedToolNotification: the bridge's channel
          open,     \* the bridge's receiver is alive
          view,     \* tasks a replay of updates.jsonl shows
          receipt   \* the oneshot of a producer that awaits its tombstone

bvars == <<notes, open, view, receipt>>

\* created and updated tasks are one upsert; ScheduledTaskRemoved is "tomb"
\* when it carries an acknowledgement and "hide" when it does not.
Note == [op : {"show", "fire", "hide", "tomb"}, id : Tasks, waited : BOOLEAN]

BridgeTypeOK ==
    /\ notes \in Seq(Note)
    /\ open \in BOOLEAN
    /\ view \subseteq Tasks
    /\ receipt \in {"none", "ok", "err"}

N(op, id) == [op |-> op, id |-> id, waited |-> FALSE]

\* ToolNotificationHandle::send of several, in order; lost without a receiver.
Send(ns) == notes' = IF open THEN notes \o ns ELSE notes

Quiet == UNCHANGED bvars
Tell(ns) == Send(ns) /\ UNCHANGED <<open, view, receipt>>

\* send_scheduled_task_removed_acknowledged; a closed target is a failure at
\* once (DispatchClosed).
Publish(id) ==
    /\ Send(<<[op |-> "tomb", id |-> id, waited |-> TRUE]>>)
    /\ receipt' = IF open THEN "none" ELSE "err"
    /\ UNCHANGED <<open, view>>

StopAwaiting ==
    /\ notes' = [i \in 1..Len(notes) |-> [notes[i] EXCEPT !.waited = FALSE]]
    /\ receipt' = "none"
    /\ UNCHANGED <<open, view>>

\* The pane's handlers: a fire shows a task it does not know unless it was
\* the last one.
Shown(n) ==
    CASE n.op = "show" -> view \cup {n.id}
      [] n.op = "fire" -> IF n.id \in OneShots THEN view ELSE view \cup {n.id}
      [] n.op \in {"hide", "tomb"} -> view \ {n.id}

Acknowledge(n, r) == receipt' = IF n.waited THEN r ELSE receipt

\* handle_scheduled_task_removed with an acknowledgement: append_update_durably
\* committed (with or without its bookkeeping), did not, or lost the answer.
\* A producer that gave up leaves the append durable all the same.  Without one,
\* the update is dropped when the session's persistence has stopped.
Deliver ==
    /\ notes # <<>> /\ open
    /\ notes' = Tail(notes)
    /\ LET n == Head(notes) IN
        \/ view' = Shown(n) /\ Acknowledge(n, "ok")
        \/ n.op \in {"hide", "tomb"} /\ view' \in {view, Shown(n)} /\ Acknowledge(n, "err")
    /\ UNCHANGED open

\* The bridge task ends: what it had not taken is dropped with its oneshots.
BridgeCloses ==
    /\ open
    /\ open' = FALSE
    /\ notes' = <<>>
    /\ receipt' = IF \E i \in 1..Len(notes) : notes[i].waited THEN "err" ELSE receipt
    /\ UNCHANGED view

BridgeCrash == notes' = <<>> /\ open' = FALSE /\ receipt' = "none" /\ UNCHANGED view
============================================================================
