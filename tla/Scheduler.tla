----------------------------- MODULE Scheduler -----------------------------
(***************************************************************************)
(* The scheduler of /loop and scheduler_create (scheduler/actor.rs): one   *)
(* actor owns the list of tasks, fires the due ones as subagents, and      *)
(* removes tasks through a durability barrier: first the state file, then  *)
(* a tombstone in the session log.  It is composed here with the writer of *)
(* the state file, the notification bridge, what it uses of the subagent   *)
(* coordinator, the detached guard of each fire, and crashes.              *)
(*                                                                         *)
(* The actor is one thread of control, so an await is a value of pc; while *)
(* it waits, tool calls save snapshots, children end, guards write into    *)
(* the tasks and the process may die.  Time is abstracted to what the code *)
(* compares: a task is past its next_fire_at, or past its expires_at.      *)
(***************************************************************************)
EXTENDS ResourcesPersistence, NotificationBridge, FiniteSets, SequencesExt

CONSTANTS Prompts,
          Bridged,      \* the session has a durable notification target
          Durable,      \* tasks created with durable = true
          Legacy,       \* the list a session starts with
          Children,     \* bound: the subagent ids in use at a time
          FreshEvery,   \* LOOP_FRESH_CHAIN_EVERY
          MaxTasks,     \* MAX_SCHEDULED_TASKS
          MaxRev,       \* u64::MAX, where the revision overflows
          MaxChan,      \* bound: snapshots in flight when a client adds one
          MaxNotes,     \* bound: notifications in flight when an operation begins
          MaxSaves,     \* bound: tool calls that save
          MaxEnds,      \* bound: ends of the process, orderly or not
          Firing,       \* bound: the tasks whose next_fire_at may pass
          Expirable,    \* bound: the tasks whose expires_at may pass
          Losable,      \* bound: which of "bridge", "coordinator" may go away
          None

VARIABLES
    tasks,      \* State<SchedulerState>.tasks
    due,        \* the tasks past their next_fire_at
    blocked,    \* blocked_expiries
    clock,      \* SchedulerClock.version
    pending,    \* pending_removal
    pc, job,    \* where the actor is, and the locals it keeps across an await
    cancelled,  \* the actor's cancel_token
    coord,      \* SubagentEventSender: "unwired", "wired", "closed"
    child,      \* the coordinator's records of the loop's children
    guards,     \* children whose detached guard still waits for the result
    ran,        \* history: the one-shots admitted since the process started
    expired,    \* the tasks past their expires_at
    created,    \* ids used so far
    gone,       \* history: removals acknowledged by the state file
    told,       \* history: of these, tombstones acknowledged by the log
    saves, ends \* counters of the two bounds

avars == <<tasks, due, blocked, clock, pending, pc, job>>
cvars == <<coord, child, guards, ran>>
hvars == <<expired, created, gone, told>>
svars == <<cancelled, saves, ends>>
vars == <<avars, cvars, hvars, svars, pvars, bvars>>

----------------------------------------------------------------------------
(* SchedulerClock and SchedulerReservation.                                *)

Version == 0..MaxRev

\* Faulty: a revision that overflows is used all the same.
ReserveOverflows(n) == [source |-> clock, rolls |-> FALSE, left |-> n, next |-> clock + 1]

\* prepare_transition: a revision that would overflow starts a generation,
\* at 1.  A generation is only ever compared with the one before it, so a
\* version is its revision.
Reserve(n) ==
    LET rolls == clock + n > MaxRev IN
    [source |-> clock, rolls |-> rolls, left |-> n, next |-> IF rolls THEN 1 ELSE clock + 1]

\* What commit_next asserts the clock to be.
Expected(r) == IF r.rolls THEN r.source ELSE r.next - 1

\* commit_next: the clock is left at next.
Commit(r) == clock' = r.next
Spent(r) ==
    [r EXCEPT !.rolls = FALSE, !.left = @ - 1, !.next = IF r.left > 1 THEN @ + 1 ELSE @]

----------------------------------------------------------------------------
(* Tasks.                                                                  *)

Task == [id : Tasks, prompt : Prompts,
         anchor : Children \cup {None}, iters : 0..FreshEvery, reset : BOOLEAN]

Ids(list) == {list[i].id : i \in 1..Len(list)}
UniqueIds(list) == \A i, j \in 1..Len(list) : list[i].id = list[j].id => i = j
Index(list, id) == CHOOSE i \in 1..Len(list) : list[i].id = id

\* The elements at the positions in K, in their order.
Retain(list, K) ==
    LET Nth(n) == CHOOSE i \in K : Cardinality({j \in K : j <= i}) = n
    IN  [n \in 1..Cardinality(K) |-> list[Nth(n)]]

Without(list, id) == Retain(list, {i \in 1..Len(list) : list[i].id # id})

Recurring(id) == id \notin OneShots

\* The lists that are in use or may still be loaded.
Lists == {tasks, disk} \cup {chan[i].snap : i \in 1..Len(chan)} \cup ({held} \ {NoSnapshot})

\* next_wake_at: the sooner of the next fire and the expiry.
Wakes(t) == t.id \in (due \cup expired) \ blocked

NewTask(id, p) ==
    [id |-> id, prompt |-> p, anchor |-> None, iters |-> 0, reset |-> FALSE]

\* MAX_SCHEDULED_TASKS is far below u64::MAX, also by the two versions of a
\* one-shot.  A task has an id of its own.
ASSUME SchedulerAssumption ==
    /\ MaxTasks \in Nat /\ MaxRev \in Nat \ {0} /\ MaxTasks <= MaxRev
    /\ OneShots # {} => MaxRev >= 2
    /\ FreshEvery \in Nat \ {0} /\ MaxSaves \in Nat /\ MaxEnds \in Nat
    /\ Bridged \in BOOLEAN /\ None \notin Children
    /\ Legacy \in Seq(Task) /\ Len(Legacy) <= MaxTasks /\ UniqueIds(Legacy)

NotesOf(op, list) == [i \in 1..Len(list) |-> N(op, list[i].id)]

\* The select of run.
Idle == pc = "idle" /\ ~cancelled /\ Len(notes) < MaxNotes
Aside == UNCHANGED <<cvars, svars>>
Done == pc' = "idle" /\ job' = None

----------------------------------------------------------------------------
(* handle_command.  Create, Update and the Delete of another task are      *)
(* refused with RemovalPending, an error that changes nothing; List reads. *)

Create(id, p, now) ==
    /\ Idle /\ pending = None /\ Len(tasks) < MaxTasks
    /\ id \notin created /\ Recurring(id)
    /\ tasks' = Append(tasks, NewTask(id, p))
    /\ now => id \in Firing
    /\ due' = IF now THEN due \cup {id} ELSE due
    /\ created' = created \cup {id}
    /\ Commit(Reserve(1))
    /\ Tell(<<N("show", id)>>)
    /\ UNCHANGED <<blocked, pending, pc, job, expired, gone, told, pvars>> /\ Aside

\* Faulty: a task is updated while a removal is pending.
UpdateAnytime(id, p, interval) ==
    /\ Idle /\ id \in Ids(tasks)
    /\ tasks' = [tasks EXCEPT ![Index(tasks, id)].prompt = p]
    /\ Commit(Reserve(1))
    /\ Tell(<<N("show", id)>>)
    /\ UNCHANGED <<due, blocked, pending, pc, job, hvars, pvars>> /\ Aside

\* Faulty: a new prompt forgets the running iteration at once.
UpdateClearsAnchor(id, p, interval) ==
    /\ Idle /\ pending = None /\ id \in Ids(tasks)
    /\ tasks' = [tasks EXCEPT ![Index(tasks, id)] =
          [@ EXCEPT !.prompt = p, !.anchor = None, !.iters = 0]]
    /\ Commit(Reserve(1))
    /\ Tell(<<N("show", id)>>)
    /\ UNCHANGED <<due, blocked, pending, pc, job, hvars, pvars>> /\ Aside

\* p may be the prompt it has.
Updated(t, p) ==
    LET changed == p # t.prompt IN
    [t EXCEPT !.prompt = p, !.reset = @ \/ changed, !.iters = IF changed THEN 0 ELSE @]

\* A new interval never leaves it due.
Update(id, p, interval) ==
    /\ Idle /\ pending = None /\ id \in Ids(tasks)
    /\ tasks' = [tasks EXCEPT ![Index(tasks, id)] = Updated(@, p)]
    /\ due' = IF interval THEN due \ {id} ELSE due
    /\ Commit(Reserve(1))
    /\ Tell(<<N("show", id)>>)
    /\ UNCHANGED <<blocked, pending, pc, job, hvars, pvars>> /\ Aside

\* complete_pending_removal: the barrier begins with the state file.
BeginBarrier(list) == SaveAndFlush(list) /\ pc' = "delFlush"

\* Delete of a task of the list, with a durable target; without one it is an
\* error that changes nothing.
Delete(id) ==
    /\ Idle /\ pending = None /\ open /\ id \in Ids(tasks) /\ Len(chan) < MaxChan
    /\ tasks' = Without(tasks, id)
    /\ due' = due \ {id}
    /\ pending' = [id |-> id, res |-> Reserve(1)]
    /\ BeginBarrier(tasks')
    /\ Quiet /\ UNCHANGED <<blocked, clock, job, hvars>> /\ Aside

\* Delete of the task whose removal is pending.
RetryDelete ==
    /\ Idle /\ pending # None /\ open /\ Len(chan) < MaxChan
    /\ BeginBarrier(tasks)
    /\ Quiet /\ UNCHANGED <<tasks, due, blocked, clock, pending, job, hvars>> /\ Aside

\* The same without a durable target: the reservation is given up.
AbandonRemoval ==
    /\ Idle /\ pending # None /\ ~open
    /\ pending' = None
    /\ Quiet /\ UNCHANGED <<tasks, due, blocked, clock, pc, job, hvars, pvars>> /\ Aside

\* persist_resources returned.
DeletePersisted ==
    /\ pc = "delFlush" /\ reply # "none"
    /\ IF reply = "ok"
       THEN pc' = "delAck" /\ Publish(pending.id) /\ gone' = gone \cup {pending.id}
       ELSE pc' = "idle" /\ Quiet /\ UNCHANGED gone
    /\ UNCHANGED <<tasks, due, blocked, clock, pending, job, expired, created, told, pvars>>
    /\ Aside

\* The tombstone was acknowledged: only now is the version committed and
\* Ok(true) answered.  On an error the removal stays pending.
DeleteAcknowledged ==
    /\ pc = "delAck" /\ receipt # "none"
    /\ pc' = "idle"
    /\ IF receipt = "ok"
       THEN Commit(pending.res) /\ pending' = None /\ told' = told \cup {pending.id}
       ELSE UNCHANGED <<clock, pending, told>>
    /\ Quiet /\ UNCHANGED <<tasks, due, blocked, job, expired, created, gone, pvars>> /\ Aside

\* The receiver of the acknowledgement awaited is dropped.
GiveUp(flush) == IF flush THEN StopWaiting /\ Quiet ELSE StopAwaiting /\ UNCHANGED pvars

\* A timeout or a cancellation: the removal stays pending.
DeleteTimesOut ==
    /\ pc \in {"delFlush", "delAck"}
    /\ pc' = "idle"
    /\ GiveUp(pc = "delFlush")
    /\ UNCHANGED <<tasks, due, blocked, clock, pending, job, hvars>> /\ Aside

----------------------------------------------------------------------------
(* fire_next_task.                                                         *)

\* The first task in the list that is due; the timer is off while a removal
\* is pending.
Selected(i) ==
    /\ Idle /\ pending = None
    /\ i \in 1..Len(tasks) /\ Wakes(tasks[i])
    /\ \A j \in 1..(i - 1) : ~Wakes(tasks[j])

Fire(i, n) == [t |-> tasks[i], i |-> i, prev |-> "none", c |-> None, res |-> Reserve(n)]

ExpireBlocked(i) ==
    /\ Selected(i) /\ tasks[i].id \in expired \cap Durable /\ ~open
    /\ blocked' = blocked \cup {tasks[i].id}
    /\ Quiet /\ UNCHANGED <<tasks, due, clock, pending, pc, job, hvars, pvars>> /\ Aside

\* The snapshot without the task is enqueued before the lock is released.
ExpireTask(i) ==
    /\ Selected(i) /\ tasks[i].id \in expired /\ Len(chan) < MaxChan
    /\ tasks[i].id \in Durable => open
    /\ tasks' = RemoveAt(tasks, i)
    /\ due' = due \ {tasks[i].id}
    /\ job' = Fire(i, 1)
    /\ SaveAndFlush(tasks')
    /\ pc' = IF tasks[i].id \in Durable THEN "expFlush" ELSE "rmFlush"
    /\ Quiet /\ UNCHANGED <<blocked, clock, pending, hvars>> /\ Aside

\* Committed; not committed: the task is put back and no longer woken for.
ExpiryPersisted ==
    /\ pc = "expFlush" /\ reply # "none"
    /\ \/ /\ reply = "ok"
          /\ pc' = "expAck" /\ Publish(job.t.id) /\ gone' = gone \cup {job.t.id}
          /\ UNCHANGED <<tasks, blocked, job>>
       \/ /\ reply = "err"
          /\ tasks' = InsertAt(tasks, job.i, job.t)
          /\ blocked' = blocked \cup {job.t.id}
          /\ Done /\ Quiet /\ UNCHANGED gone
    /\ UNCHANGED <<due, clock, pending, expired, created, told, pvars>> /\ Aside

ExpiryAcknowledged ==
    /\ pc = "expAck" /\ receipt # "none"
    /\ IF receipt = "ok"
       THEN Commit(job.res) /\ told' = told \cup {job.t.id}
       ELSE UNCHANGED <<clock, told>>
    /\ Done /\ Quiet
    /\ UNCHANGED <<tasks, due, blocked, pending, expired, created, gone, pvars>> /\ Aside

\* Faulty: an unknown outcome is taken for a failed one.
ExpiryTimeoutReinserts ==
    /\ pc \in {"expFlush", "expAck"}
    /\ tasks' = InsertAt(tasks, job.i, job.t)
    /\ Done /\ GiveUp(pc = "expFlush")
    /\ UNCHANGED <<due, blocked, clock, pending, hvars>> /\ Aside

\* ExpiryPersistenceOutcome::Unknown, or a tombstone not acknowledged in
\* time: the task stays off the list and no version is committed.
ExpiryTimesOut ==
    /\ pc \in {"expFlush", "expAck"}
    /\ Done /\ GiveUp(pc = "expFlush")
    /\ UNCHANGED <<tasks, due, blocked, clock, pending, hvars>> /\ Aside

\* Best effort: an expired session task or a completed one-shot is announced
\* as removed whether or not its absence reached the disk.
RemovalFlushed ==
    /\ pc = "rmFlush"
    /\ IF reply = "none" THEN StopWaiting ELSE UNCHANGED pvars
    /\ gone' = IF reply = "ok" THEN gone \cup {job.t.id} ELSE gone
    /\ Commit(job.res)
    /\ Tell(<<N("hide", job.t.id)>>)
    /\ Done
    /\ UNCHANGED <<tasks, due, blocked, pending, expired, created, told>> /\ Aside

\* Its id can be used again: ids are fresh, and nothing refers to this one.
Free(c) ==
    /\ child[c].st \notin {"sent", "live"} /\ c \notin guards
    /\ \A list \in Lists : \A i \in 1..Len(list) : list[i].anchor # c
    /\ job # None => c \notin {job.t.anchor, job.c}

\* A due task: last_fired_at is set before anything is awaited.
FireTask(i) ==
    /\ Selected(i) /\ tasks[i].id \notin expired
    /\ \E c \in Children : Free(c)
    /\ due' = due \ {tasks[i].id}
    /\ job' = Fire(i, IF Recurring(tasks[i].id) THEN 1 ELSE 2)
    /\ pc' = CASE coord = "unwired" -> "skip"
               [] tasks[i].anchor = None -> "launch"
               [] coord = "closed" -> "skip"
               [] OTHER -> "query"
    /\ Quiet /\ UNCHANGED <<tasks, blocked, clock, pending, hvars, pvars>> /\ Aside

\* LoopFireOutcome::Skipped: the task is shown again, with its next time.
Skip ==
    /\ pc = "skip"
    /\ Tell(<<N("show", job.t.id)>>)
    /\ Done
    /\ UNCHANGED <<tasks, due, blocked, clock, pending, hvars, pvars>> /\ Aside

----------------------------------------------------------------------------
(* The coordinator, as far as a fire uses it.  Its channel is FIFO: a      *)
(* question is answered after the spawns sent before it.  A child runs     *)
(* again when its parent messages it and its own subagents may outlive it, *)
(* so an ended child may still be reported active.                         *)

Sent == {c \in Children : child[c].st = "sent"}

\* The previous iteration's status; it may have left the history.
StatusOf(c) ==
    CASE child[c].st = "live" -> {"live"}
      [] child[c].st = "completed" -> {"completed", "unknown", "live"}
      [] OTHER -> {"failed", "unknown"}

\* LoopUnitActive: a child of this task, or a descendant of one, is alive.
UnitActive(id) ==
    IF \E c \in Children : child[c].task = id /\ child[c].st = "live"
    THEN {TRUE} ELSE BOOLEAN

Answers == coord = "wired" /\ Sent = {} /\ ~cancelled

\* Started, or queued at the concurrent limit: both are registered.
Admit(c) ==
    /\ c \in Sent
    /\ child' = [child EXCEPT ![c].st = "live"]
    /\ ran' = IF Recurring(child[c].task) THEN ran ELSE ran \cup {child[c].task}
    /\ Quiet /\ UNCHANGED <<avars, coord, guards, hvars, svars, pvars>>

Refuse(c) ==
    /\ c \in Sent
    /\ child' = [child EXCEPT ![c].st = "refused"]
    /\ Quiet /\ UNCHANGED <<avars, coord, guards, ran, hvars, svars, pvars>>

\* The result also ends the guard, unless it is an error.
ChildEnds(c, how) ==
    /\ child[c].st = "live"
    /\ child' = [child EXCEPT ![c].st = how]
    /\ guards' = IF how = "completed" THEN guards \ {c} ELSE guards
    /\ Quiet /\ UNCHANGED <<avars, coord, ran, hvars, svars, pvars>>

Killed ==
    [c \in Children |->
        [child[c] EXCEPT !.st = IF @ \in {"sent", "live"} THEN "dead" ELSE @]]

\* Its oneshots are dropped: a guard that sees no result does nothing.
CoordinatorGone ==
    /\ coord = "wired" /\ "coordinator" \in Losable
    /\ coord' = "closed" /\ child' = Killed /\ guards' = {}
    /\ Quiet /\ UNCHANGED <<avars, ran, hvars, svars, pvars>>

Wire ==
    /\ pc # "down" /\ coord = "unwired" /\ Children # {}
    /\ coord' = "wired"
    /\ Quiet /\ UNCHANGED <<avars, child, guards, ran, hvars, svars, pvars>>

----------------------------------------------------------------------------
(* fire_as_loop_subagent.  Skipping is the outcome of a negative answer, a *)
(* dropped or late one, and of cancellation, which wins over an answer.    *)

\* The previous iteration must have ended, and so must its descendants.
AskSkips ==
    /\ pc \in {"query", "unit"}
    /\ pc' = "skip"
    /\ Quiet /\ UNCHANGED <<tasks, due, blocked, clock, pending, job, hvars, pvars>> /\ Aside

QueryEnded ==
    /\ pc = "query" /\ Answers
    /\ \E s \in StatusOf(job.t.anchor) \ {"live"} : job' = [job EXCEPT !.prev = s]
    /\ pc' = "unit"
    /\ Quiet /\ UNCHANGED <<tasks, due, blocked, clock, pending, hvars, pvars>> /\ Aside

UnitInactive ==
    /\ pc = "unit" /\ Answers /\ FALSE \in UnitActive(job.t.id)
    /\ pc' = "launch"
    /\ Quiet /\ UNCHANGED <<tasks, due, blocked, clock, pending, job, hvars, pvars>> /\ Aside

\* A new prompt, a long chain or an unusable anchor start a new transcript.
StartsFresh == job.t.reset \/ job.t.iters >= FreshEvery \/ job.prev # "completed"

\* The anchor is written before the request is sent; on a closed channel the
\* request is "unsent".
Launch(c) ==
    /\ pc = "launch" /\ Free(c)
    /\ LET from == IF StartsFresh THEN None ELSE job.t.anchor
           iters == IF StartsFresh THEN 1 ELSE job.t.iters + 1 IN
       /\ child' = [child EXCEPT ![c] =
             [st |-> IF coord # "closed" THEN "sent" ELSE "unsent", task |-> job.t.id,
              prompt |-> job.t.prompt,
              same |-> from = None \/ child[from].prompt = job.t.prompt,
              len |-> IF from = None THEN 1 ELSE child[from].len + 1]]
       /\ tasks' = [tasks EXCEPT ![Index(tasks, job.t.id)] =
                       [@ EXCEPT !.anchor = c, !.iters = iters, !.reset = FALSE]]
    /\ pc' = "register"
    /\ job' = [job EXCEPT !.c = c]
    /\ Quiet /\ UNCHANGED <<due, blocked, clock, pending, coord, guards, ran, hvars, svars, pvars>>

\* Faulty: the pending chain reset is not put back.
RestoreForgetsReset(list) ==
    [list EXCEPT ![Index(list, job.t.id)] =
        [@ EXCEPT !.anchor = job.t.anchor, !.iters = job.t.iters]]

\* restore_fire_anchor.
Restored(list) ==
    [list EXCEPT ![Index(list, job.t.id)] =
        [@ EXCEPT !.anchor = job.t.anchor, !.iters = job.t.iters, !.reset = job.t.reset]]

\* Faulty: a registration that timed out is taken for a refusal.
RefusedOrLate == child[job.c].st \in {"unsent", "refused", "dead", "sent"}

\* The channel was closed, or the coordinator dropped the registration before
\* the child started.
Refused == child[job.c].st \in {"unsent", "refused", "dead"}

\* The anchor is put back under the lock, taken anew; a request that was never
\* sent is put back without a look at the cancellation.
SpawnRefused ==
    /\ pc = "register" /\ Refused
    /\ cancelled => child[job.c].st = "unsent"
    /\ tasks' = Restored(tasks)
    /\ pc' = "skip"
    /\ Quiet /\ UNCHANGED <<due, blocked, clock, pending, job, hvars, pvars>> /\ Aside

\* Cancelled while it waits: nothing is put back.
SpawnCancelled ==
    /\ pc = "register" /\ cancelled /\ child[job.c].st # "unsent"
    /\ pc' = "skip"
    /\ Quiet /\ UNCHANGED <<tasks, due, blocked, clock, pending, job, hvars, pvars>> /\ Aside

\* Faulty: a fire waits for its registration without a deadline.
Registered == child[job.c].st \notin {"sent", "unsent", "refused"}

\* Registered, or ten seconds without an answer.
RegisteredOrLate == child[job.c].st \notin {"unsent", "refused"}

\* LoopFireOutcome::Spawned: the guard is detached, the fire committed and
\* announced, and a one-shot taken off the list and flushed.
Spawned ==
    /\ pc = "register" /\ RegisteredOrLate /\ ~cancelled
    /\ guards' = IF child[job.c].st \in {"completed", "dead"} THEN guards ELSE guards \cup {job.c}
    /\ Commit(job.res)
    /\ Tell(<<N("fire", job.t.id)>>)
    /\ IF Recurring(job.t.id)
       THEN Done /\ UNCHANGED <<tasks, pvars>>
       ELSE /\ tasks' = Without(tasks, job.t.id)
            /\ SaveAndFlush(tasks')
            /\ pc' = "rmFlush"
            /\ job' = [job EXCEPT !.res = Spent(job.res)]
    /\ UNCHANGED <<due, blocked, pending, coord, child, ran, hvars, svars>>

\* The detached guard sees an error: it clears the anchor it belongs to, if
\* a task still has it.
GuardClears(c) ==
    /\ c \in guards /\ child[c].st \in {"failed", "refused"}
    /\ guards' = guards \ {c}
    /\ tasks' = [i \in 1..Len(tasks) |->
          IF tasks[i].anchor = c THEN [tasks[i] EXCEPT !.anchor = None, !.iters = 0]
                                 ELSE tasks[i]]
    /\ Quiet
    /\ UNCHANGED <<due, blocked, clock, pending, pc, job, coord, child, ran, hvars, svars, pvars>>

----------------------------------------------------------------------------
(* Time, tool calls, shutdown, the end of the process and its restart.     *)

\* Time is read only when the actor is idle.
FallsDue(id) ==
    /\ pc = "idle" /\ ~cancelled /\ id \in (Ids(tasks) \cap Firing) \ due
    /\ due' = due \cup {id}
    /\ Quiet /\ UNCHANGED <<tasks, blocked, clock, pending, pc, job, hvars, pvars>> /\ Aside

Expires(id) ==
    /\ pc = "idle" /\ ~cancelled /\ id \in (Ids(tasks) \cap Expirable) \ expired /\ Recurring(id)
    /\ expired' = expired \cup {id}
    /\ Quiet /\ UNCHANGED <<avars, created, gone, told, pvars>> /\ Aside

\* Every tool call ends with a debounced save of all resources.
ToolSave ==
    /\ pc # "down" /\ saves < MaxSaves
    /\ saves' = saves + 1
    /\ Save(tasks)
    /\ Quiet /\ UNCHANGED <<avars, cvars, hvars, cancelled, ends>>

Cancel ==
    /\ pc # "down" /\ ~cancelled /\ ends < MaxEnds
    /\ cancelled' = TRUE
    /\ Quiet /\ UNCHANGED <<avars, cvars, hvars, saves, ends, pvars>>

\* The end of run: one version and one removal for each task left, which
\* stays in the state.
Stop ==
    /\ pc = "idle" /\ cancelled
    /\ pc' = "stopped"
    /\ clock' = IF tasks = <<>> THEN clock ELSE Reserve(Len(tasks)).next + Len(tasks) - 1
    /\ Tell(NotesOf("hide", tasks))
    /\ UNCHANGED <<tasks, due, blocked, pending, job, hvars, pvars>> /\ Aside

\* The process ends, at any point.
Crash ==
    /\ pc # "down" /\ ends < MaxEnds
    /\ cancelled' = FALSE /\ ends' = ends + 1
    /\ tasks' = <<>> /\ due' = {} /\ blocked' = {} /\ pending' = None /\ clock' = 0
    /\ pc' = "down" /\ job' = None
    /\ coord' = "unwired" /\ child' = Killed /\ guards' = {} /\ ran' = {}
    /\ WriterCrash /\ BridgeCrash
    /\ UNCHANGED <<saves, hvars>>

\* ResourcesPersistence::load and a new actor with a new clock.  What is due
\* depends on how long the session was closed.
Start ==
    /\ pc = "down"
    /\ tasks' = disk
    /\ due' \in SUBSET (Ids(disk) \cap Firing)
    /\ open' = Bridged
    /\ pc' = "start"
    /\ UNCHANGED <<blocked, clock, pending, job, hvars, pvars, notes, view, receipt>> /\ Aside

\* Faulty: the log is trusted to show the tasks of an earlier process.
AnnounceNothing ==
    /\ pc = "start"
    /\ pc' = "idle"
    /\ Quiet /\ UNCHANGED <<tasks, due, blocked, clock, pending, job, hvars, pvars>> /\ Aside

\* announce_existing_tasks, after a wait for the coordinator that ends by
\* itself.
Announce ==
    /\ pc = "start"
    /\ pc' = "idle"
    /\ LET upcoming(i) == Recurring(tasks[i].id) \/ tasks[i].id \notin due
       IN  Tell(NotesOf("show", Retain(tasks, {i \in 1..Len(tasks) : upcoming(i)})))
    /\ UNCHANGED <<tasks, due, blocked, clock, pending, job, hvars, pvars>> /\ Aside

WriterStep == Writer /\ Quiet /\ UNCHANGED <<avars, hvars>> /\ Aside
BridgeStep ==
    /\ Deliver \/ ("bridge" \in Losable /\ BridgeCloses)
    /\ UNCHANGED <<avars, hvars, pvars>> /\ Aside

----------------------------------------------------------------------------
Init ==
    /\ tasks = <<>> /\ due = {} /\ blocked = {} /\ pending = None /\ clock = 0
    /\ pc = "down" /\ job = None
    /\ cancelled = FALSE /\ saves = 0 /\ ends = 0
    /\ coord = "unwired" /\ guards = {} /\ ran = {}
    /\ child = [c \in Children |->
          [st |-> "none", task |-> None, prompt |-> None, same |-> TRUE, len |-> 0]]
    /\ expired = {} /\ created = Ids(Legacy) /\ gone = {} /\ told = {}
    /\ chan = <<>> /\ held = NoSnapshot /\ disk = Legacy /\ reply = "none"
    /\ notes = <<>> /\ open = FALSE /\ view = {} /\ receipt = "none"

Commands ==
    \/ \E id \in Tasks, p \in Prompts, b \in BOOLEAN : Create(id, p, b) \/ Update(id, p, b)
    \/ \E id \in Tasks : Delete(id)
    \/ RetryDelete \/ AbandonRemoval

Timer == \E i \in 1..Len(tasks) : ExpireBlocked(i) \/ ExpireTask(i) \/ FireTask(i)

\* What the actor does once an operation has begun; none of it waits for
\* anyone else without a deadline.
Carries ==
    \/ Announce \/ Stop
    \/ DeletePersisted \/ DeleteAcknowledged \/ DeleteTimesOut
    \/ ExpiryPersisted \/ ExpiryAcknowledged \/ ExpiryTimesOut
    \/ RemovalFlushed \/ Skip
    \/ AskSkips \/ QueryEnded \/ UnitInactive
    \/ \E c \in Children : Launch(c)
    \/ SpawnRefused \/ SpawnCancelled \/ Spawned

Coordinator ==
    \/ \E c \in Children : \/ Admit(c) \/ Refuse(c) \/ GuardClears(c)
                           \/ ChildEnds(c, "completed") \/ ChildEnds(c, "failed")
    \/ CoordinatorGone \/ Wire

Environment ==
    \/ \E id \in Tasks : FallsDue(id) \/ Expires(id)
    \/ ToolSave \/ Cancel \/ Crash \/ Start

Next == Commands \/ Timer \/ Carries \/ Coordinator \/ Environment \/ WriterStep \/ BridgeStep

Spec == Init /\ [][Next]_vars

\* The actor's task is polled until it ends.  Nothing is assumed of the
\* writer, the bridge or the coordinator.
FairSpec == Spec /\ WF_vars(Carries)

----------------------------------------------------------------------------
Reservation == [source : Version, rolls : BOOLEAN, left : 0..MaxRev, next : Version]
Job == [t : Task, i : 1..MaxTasks, prev : {"none", "completed", "failed", "unknown"},
        c : Children \cup {None}, res : Reservation]
ASSUME NoneAssumption == None \notin Job /\ None \notin Tasks

Child == [st : {"none", "sent", "unsent", "live", "completed", "failed", "refused", "dead"},
          task : Tasks \cup {None}, prompt : Prompts \cup {None},
          same : BOOLEAN, len : 0..FreshEvery]

\* Every variable stays in its type.
SchedulerTypeOK ==
    /\ PersistTypeOK /\ BridgeTypeOK
    /\ tasks \in Snapshot /\ due \subseteq Tasks /\ blocked \subseteq Tasks /\ clock \in Version
    /\ pending = None \/ pending \in [id : Tasks, res : Reservation]
    /\ pc \in {"down", "start", "idle", "stopped", "skip", "query", "unit", "launch", "register",
               "delFlush", "delAck", "expFlush", "expAck", "rmFlush"}
    /\ job = None \/ job \in Job
    /\ cancelled \in BOOLEAN /\ saves \in 0..MaxSaves /\ ends \in 0..MaxEnds
    /\ coord \in {"unwired", "wired", "closed"} /\ child \in [Children -> Child]
    /\ guards \subseteq Children /\ ran \subseteq OneShots
    /\ expired \subseteq Tasks /\ created \subseteq Tasks
    /\ told \subseteq gone /\ gone \subseteq Tasks

\* A removal that the state file acknowledged (a delete, an expiry or a
\* completed one-shot) is final: the task is in no list that could still be
\* written, loaded or fired, whatever was in flight and across restarts; and
\* once its tombstone was acknowledged no notification brings it back to the
\* tasks pane.
GoneForGood ==
    /\ \A list \in Lists : Ids(list) \cap gone = {}
    /\ told \cap view = {}
    /\ \A i \in 1..Len(notes) : notes[i].id \in told => notes[i].op \in {"hide", "tomb"}

\* Two iterations of one task are never in their first run at once: the
\* anchor always leads to the one that may still be running.
NoOverlap ==
    \A c, d \in Children :
        c # d /\ child[c].task = child[d].task /\ child[c].st \in {"sent", "live"}
            => child[d].st \notin {"sent", "live"}

\* An iteration that resumes a transcript continues the same prompt, and no
\* transcript is longer than LOOP_FRESH_CHAIN_EVERY.
ChainSound ==
    \A c \in Children : child[c].same /\ child[c].len <= FreshEvery

\* The clock is where every open reservation found it, so the assertion of
\* commit_next never fails and a retried delete publishes the same version.
ReservationFresh ==
    /\ pending # None /\ pc # "stopped" => clock = Expected(pending.res)
    /\ job # None => clock = Expected(job.res) /\ job.res.next <= MaxRev

\* A one-shot is handed to the coordinator at most once in the life of a
\* process, also when its registration times out.
OneShotOnce == \A c \in Sent : child[c].task \notin ran

\* A recurring task that can fire is shown: when the actor is idle and the
\* bridge has caught up, the tasks pane has every task of the list.
TasksVisible ==
    pc = "idle" /\ open /\ notes = <<>> =>
        \A i \in 1..Len(tasks) : Recurring(tasks[i].id) => tasks[i].id \in view

\* Every operation of the actor ends, whatever the writer, the bridge and the
\* coordinator do or fail to do: no command waits forever behind another.
ActorReturns == []<>(pc \in {"idle", "stopped", "down"})

\* create.rs on durable: "Default false (session-only)".  A task that is not
\* durable is not there when the session is opened again.
SessionOnly ==
    [][pc = "down" /\ pc' = "start" => Ids(tasks') \subseteq Durable \cup Ids(Legacy)]_vars
============================================================================
