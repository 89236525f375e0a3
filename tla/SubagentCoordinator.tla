------------------------ MODULE SubagentCoordinator ------------------------
(***************************************************************************)
(* The single-writer subagent coordinator actor of xai-grok-tools          *)
(* (implementations/grok_build/task/coordinator.rs and its submodules).    *)
(*                                                                         *)
(* One actor owns the admission queue, the pending, active and completed   *)
(* children, the callers waiting on them, the sessions whose spawn         *)
(* admission is closed and the messages parked on children that are not    *)
(* running yet.  Its handlers run to completion between two awaits, so a   *)
(* handler is one action here; what interleaves with it are the callers    *)
(* (spawn, stop, teardown, messages), the child runners (started, settled, *)
(* finished), the host that publishes terminal notifications on another    *)
(* thread, cancellation tokens cancelled out of band, and time.            *)
(*                                                                         *)
(* A definition whose comment starts with "Faulty" is a variant of the one *)
(* after it with a plausible slip in it; no action uses it.  Put in its    *)
(* place it makes a property fail, which shows the property is not vacuous.*)
(***************************************************************************)
EXTENDS Integers, FiniteSets

CONSTANTS
    Ids,            \* subagent ids; a child's session carries the child's id
    Sessions,       \* root parent sessions
    Runs,           \* workflow run ids
    Prompts,        \* parent prompt (turn) ids
    NoRun,          \* owner is a task, not a workflow
    NoPrompt,       \* parent_prompt_id: None
    Calls,          \* spawn calls callers may make
    Request,        \* [Calls -> SpawnRequest]
    Msgs,           \* messages senders may send
    Message,        \* [Msgs -> [to: Ids, from: Sess]]
    Queries,        \* callers of blocking get_output queries
    Impatient,      \* spawn calls whose caller may stop waiting
    Killable,       \* ids whose user may cancel them one by one
    Revocable,      \* ids whose cancel token may be cancelled out of band
    Stoppable,      \* sessions whose user may press Stop
    Deletable,      \* sessions that may be torn down
    MaxConcurrent,  \* Admission's limit, clamped to at least 1
    LimitBehavior,  \* what happens to a spawn at the limit
    MaxCompleted,   \* MAX_COMPLETED_ENTRIES
    MaxInFlight,    \* MAX_ACTIVE_MESSAGE_ADMISSIONS_PER_CHILD
    SupportsWake    \* ChildRunner::supports_wake

Sess == Sessions \cup Ids

SpawnRequest ==
    [id: Ids, parent: Sess, run: Runs \cup {NoRun},
     prompt: Prompts \cup {NoPrompt}, background: BOOLEAN,
     awaits: BOOLEAN, defbg: BOOLEAN]

ASSUME IdsAssumption == IsFiniteSet(Ids) /\ Ids # {} /\ Sessions # {}
ASSUME MsgsAssumption == IsFiniteSet(Msgs)
ASSUME RequestAssumption == Request \in [Calls -> SpawnRequest]
ASSUME MessageAssumption == Message \in [Msgs -> [to: Ids, from: Sess]]
ASSUME OwnerAssumption == NoRun \notin Runs /\ NoPrompt \notin Prompts
ASSUME LimitAssumption ==
    /\ MaxConcurrent \in Nat \ {0}
    /\ MaxCompleted \in Nat \ {0}
    /\ MaxInFlight \in Nat \ {0}
    /\ LimitBehavior \in {"Queue", "Fail"}
    /\ SupportsWake \in BOOLEAN
ASSUME InputAssumption ==
    /\ Impatient \subseteq Calls
    /\ Killable \subseteq Ids /\ Revocable \subseteq Ids
    /\ Stoppable \subseteq Sess /\ Deletable \subseteq Sess

VARIABLES
    queued, pending, active, completed,  \* ids in each of the actor's maps
    child,        \* the live record of an id that is queued, pending or active
    done,         \* the terminal record of a completed id
    nextAge,      \* next_completion_age
    graph,        \* spawn graph: ids that have a node
    lineage,      \* the node: root session and the spawner sessions above it
    runs,         \* ids whose runner future has not finished
    outputs,      \* terminal_outputs: results held back by in-flight messages
    blocked,      \* spawn_blocked_sessions
    drains,       \* teardown_drains: sessions with a parked teardown responder
    call,         \* what each spawn caller has seen
    waiter,       \* the id each blocking query waits on, if any
    drainWaiters, \* scopes with a parked WaitPromptDrained
    runWaiters,   \* workflow_cancel_waiters: runs with a parked cancel
    msg,          \* where each message is
    presenting,   \* host presentations of a completion that have not finished
    published     \* terminal_published events in the actor's mailbox

vars == <<queued, pending, active, completed, child, done, nextAge, graph,
          lineage, runs, outputs, blocked, drains, call, waiter, drainWaiters,
          runWaiters, msg, presenting, published>>

----------------------------------------------------------------------------
(* State.                                                                  *)

\* CompletedChild: what a wake, a restore or an eviction reads of it.
Record == [session: Sess, run: Runs \cup {NoRun}, age: Nat, published: BOOLEAN]

\* QueuedSpawn, PendingChild and ActiveChild: the record moves between the
\* three maps.  `reply` holds the caller's oneshot, `bg` is handle_only, `wake`
\* the terminal record a wake displaced, `ahead` the queue entries in front.
Child ==
    [session: Sess, run: Runs \cup {NoRun}, prompt: Prompts \cup {NoPrompt},
     background: BOOLEAN, defbg: BOOLEAN, token: BOOLEAN,
     reply: SUBSET Calls, bg: BOOLEAN, deadline: BOOLEAN,
     wake: SUBSET Record, ahead: SUBSET Ids,
     inFlight: Nat, finalizing: BOOLEAN, clean: BOOLEAN]

Scope == Sess \X Prompts

AnySession == CHOOSE s \in Sess : TRUE

NoChild ==
    [session |-> AnySession, run |-> NoRun, prompt |-> NoPrompt,
     background |-> FALSE, defbg |-> FALSE, token |-> FALSE,
     reply |-> {}, bg |-> FALSE, deadline |-> FALSE, wake |-> {},
     ahead |-> {}, inFlight |-> 0, finalizing |-> FALSE, clean |-> TRUE]

NoRecord == [session |-> AnySession, run |-> NoRun, age |-> 0, published |-> FALSE]

NoLineage == [root |-> AnySession, chain |-> {}]

CallState == {"idle", "sent", "waiting", "gone", "rejected", "interim", "final"}

MsgState == {"idle", "wake", "parked", "initial", "inflight",
             "accepted", "rejected", "uncertain"}

Outputs == {"none", "success", "failure"}

Init ==
    /\ queued = {} /\ pending = {} /\ active = {} /\ completed = {}
    /\ child = [id \in Ids |-> NoChild]
    /\ done = [id \in Ids |-> NoRecord]
    /\ nextAge = 1
    /\ graph = {}
    /\ lineage = [id \in Ids |-> NoLineage]
    /\ runs = {}
    /\ outputs = [id \in Ids |-> "none"]
    /\ blocked = {} /\ drains = {}
    /\ call = [k \in Calls |-> "idle"]
    /\ waiter = [q \in Queries |-> {}]
    /\ drainWaiters = {} /\ runWaiters = {}
    /\ msg = [m \in Msgs |-> "idle"]
    /\ presenting = {} /\ published = {}

To(m) == Message[m].to

\* Presentations are followed only for children a message may be sent to:
\* nothing else reads whether a completion was published.
Addressed == {To(m) : m \in Msgs}

Live == queued \cup pending \cup active

----------------------------------------------------------------------------
(* What handlers read.                                                     *)

\* session_running_count: live task children; workflow agents do not count.
Running(p, a, c, s) ==
    Cardinality({id \in p \cup a : c[id].session = s /\ c[id].run = NoRun})

\* Faulty: admits one child too many.
CapacityOffByOne(p, a, c, s) == Running(p, a, c, s) <= MaxConcurrent

\* Admission::has_capacity.
HasCapacity(p, a, c, s) == Running(p, a, c, s) < MaxConcurrent

\* SpawnGraph::is_reachable_from.
Reachable(id, s) ==
    id \in graph /\ (lineage[id].root = s \/ s \in lineage[id].chain)

\* workflow_outstanding.
Outstanding(p, a, c, r) == {id \in p \cup a : c[id].run = r}

\* session_has_children: children of every owner, and parked wake callers.
HasChildren(live, c, comp, rec, m, s) ==
    \/ \E id \in live : c[id].session = s
    \/ \E x \in Msgs : m[x] = "wake" /\ To(x) \in comp /\ rec[To(x)].session = s

\* live_turn_blocking_ids: children that hold the parent's turn open.
TurnBlocking(q, p, a, c, scope) ==
    {id \in q \cup p \cup a :
        /\ c[id].session = scope[1] /\ c[id].prompt = scope[2]
        /\ c[id].run = NoRun
        /\ IF id \in q THEN c[id].reply # {} /\ ~c[id].background
                       ELSE ~c[id].bg /\ (id \in a => ~c[id].defbg)}

\* caller_gone, and the queued leg of the same sweep.
Abandoned(id) ==
    /\ \E k \in child[id].reply : call[k] = "gone"
    /\ id \in queued \/ ~child[id].bg

\* Nothing is left for reap_abandoned_callers to do.  It runs before every
\* command and every deadline sweep.
Reaped == \A id \in Live : ~Abandoned(id) /\ ~(id \in queued /\ child[id].token)

\* Faulty: a terminal child's parked sends are dropped silently.
ParkedForgotten(m, ids) == m

\* Parked sends of these children are answered: they never become active.
RejectParked(m, ids) ==
    [x \in Msgs |-> IF m[x] \in {"parked", "initial"} /\ To(x) \in ids
                    THEN "rejected" ELSE m[x]]

\* reject_pending_wakes_for_id over a set of children.
RejectWakes(m, ids) ==
    [x \in Msgs |-> IF m[x] = "wake" /\ To(x) \in ids THEN "rejected" ELSE m[x]]

CancelTokens(c, ids) ==
    [id \in Ids |-> IF id \in ids THEN [c[id] EXCEPT !.token = TRUE] ELSE c[id]]

----------------------------------------------------------------------------
(* Leaving the registry: finish_child, finish_cancelled_queued,            *)
(* restore_displaced_completion, start_queued_within_capacity and the      *)
(* trailing drain-waiter and eviction sweeps of the actor loop.            *)

\* Faulty: a freed slot starts no queue entry.
NothingStarts(q, p, a, c) == {}

\* Faulty: an entry of another session in front holds the queue up.
HeadOfLineBlocks(q, p, a, c) ==
    {id \in q : ~c[id].token /\ q \cap c[id].ahead = {}
                /\ HasCapacity(p, a, c, c[id].session)}

\* Faulty: the newest entry is started first.
NewestFirst(q, p, a, c) ==
    {id \in q :
        /\ ~c[id].token
        /\ LET s == c[id].session
               behind == {o \in q : id \in c[o].ahead /\ c[o].session = s /\ ~c[o].token}
           IN Running(p, a, c, s) + Cardinality(behind) < MaxConcurrent}

\* The queue entries start_queued_within_capacity starts: in arrival order,
\* as many per session as the session has free slots.
Startable(q, p, a, c) ==
    {id \in q :
        /\ ~c[id].token
        /\ LET s == c[id].session
               before == {o \in q \cap c[id].ahead : c[o].session = s /\ ~c[o].token}
           IN Running(p, a, c, s) + Cardinality(before) < MaxConcurrent}

\* Faulty: a queue entry's caller is dropped when it starts.
CallerLost(e) ==
    [e EXCEPT !.bg = e.background \/ e.reply = {}, !.reply = {}, !.ahead = {}]

\* start_child; a caller handed off while queued makes the child handle_only.
Launched(e) == [e EXCEPT !.bg = e.background \/ e.reply = {}, !.ahead = {}]

\* take_failed_pre_start_wake: a wake that fails before its start is settled
\* completes nothing, its displaced record comes back.
Completes(e, ok) == e.wake = {} \/ ok

\* restore_displaced_completion: unless the history has moved past its age.
Restorable(e, next) == \A r \in e.wake : r.age + MaxCompleted >= next

\* evict_completed_overflow pops the oldest.
Newest(ids, rec) ==
    {id \in ids : Cardinality({o \in ids : rec[o].age > rec[id].age}) < MaxCompleted}

\* The record finish_child makes of a child.
Terminal(e, age) ==
    [session |-> e.session, run |-> e.run, age |-> age, published |-> FALSE]

\* resolve_teardown_drain_waiters after the children `ids` finished.
DrainCleared(x, ids, live, c, comp, rec, m) ==
    /\ \E id \in ids : c[id].session = x
    /\ ~HasChildren(live, c, comp, rec, m, x)

\* Faulty: a workflow cancel is never resolved.
CancelNeverReplies(r, ids, p, a, c) == FALSE

\* resolve_workflow_cancel_waiters after the children `ids` finished.
RunDrained(r, ids, p, a, c) ==
    (\E id \in ids : c[id].run = r) /\ Outstanding(p, a, c, r) = {}

\* The children in `first` leave the actor's maps (already taken out of `s`);
\* those in `ok` succeeded; `sweeps` says whether the queue is swept after.
\* `s` holds the maps as the handler left them before finish_child, the session
\* of a teardown responder that waits for what is left, and the session whose
\* parked wakes a Stop rejects at its end, when queued wakes are restored.
Settle(s, first, ok, sweeps) ==
    LET c == s.child
        started == IF sweeps THEN Startable(s.queued, s.pending, s.active, c) ELSE {}
        swept == IF sweeps THEN {id \in s.queued : c[id].token} ELSE {}
        gone == first \cup swept
        completing == {id \in gone : Completes(c[id], id \in ok)}
        Precedes(o, id) ==
            \/ o \in first /\ id \notin first
            \/ (o \in first <=> id \in first) /\ o \in c[id].ahead
        AgeAt(id) == nextAge + Cardinality({o \in completing : Precedes(o, id)})
        restored == {id \in gone \ completing : Restorable(c[id], AgeAt(id))}
        rec == [id \in Ids |->
            IF id \in completing THEN Terminal(c[id], AgeAt(id))
            ELSE IF id \in restored THEN CHOOSE r \in c[id].wake : TRUE
            ELSE done[id]]
        known == completed \cup completing \cup restored
        kept == Newest(known, rec)
        lost == (known \cup gone) \ kept
        live == s.queued \cup s.pending \cup s.active
        \* finish_cancelled_queued restores a queued wake without finish_child.
        finished == {id \in first : id \in completing \/ id \notin queued}
        cleared == {x \in drains :
            \/ DrainCleared(x, finished, live, c, known, rec, s.msg)
            \/ DrainCleared(x, swept \cap completing, live \ swept, c, known, rec, s.msg)}
        opened == {x \in s.wants : HasChildren(live \ swept, c, known, rec, s.msg, x)}
    IN
    /\ queued' = s.queued \ (started \cup swept)
    /\ pending' = s.pending \cup started
    /\ active' = s.active
    /\ child' = [id \in Ids |->
            IF id \in gone THEN NoChild
            ELSE IF id \in started THEN Launched(c[id])
            ELSE [c[id] EXCEPT !.ahead = @ \ (gone \cup started)]]
    /\ runs' = (runs \ first) \cup started
    /\ outputs' = [id \in Ids |-> IF id \in gone THEN "none" ELSE outputs[id]]
    /\ completed' = kept
    /\ done' = [id \in Ids |-> IF id \in kept THEN rec[id] ELSE NoRecord]
    /\ nextAge' = nextAge + Cardinality(completing)
    /\ graph' = s.graph \ lost
    /\ lineage' = [id \in Ids |-> IF id \in lost THEN NoLineage ELSE s.lineage[id]]
    /\ call' = [k \in Calls |->
            IF s.call[k] = "waiting" /\ \E id \in gone : k \in c[id].reply
            THEN "final" ELSE s.call[k]]
    /\ waiter' = [q \in Queries |-> waiter[q] \ gone]
    /\ msg' = RejectWakes(RejectParked(s.msg, first \cup (swept \cap completing)),
                          (known \ kept) \cup {id \in known : rec[id].session \in s.stops})
    /\ presenting' = presenting \cup {<<id, AgeAt(id)>> : id \in completing \cap Addressed}
    /\ runWaiters' = {r \in runWaiters :
            ~RunDrained(r, completing, s.pending \cup started, s.active, c)}
    /\ blocked' = (s.blocked \ cleared) \cup opened
    /\ drains' = (drains \ cleared) \cup opened
    /\ drainWaiters' = {x \in drainWaiters :
            TurnBlocking(queued', pending', active', child', x) # {}}
    /\ UNCHANGED published

\* The maps as they are, for handlers to override.
Now == [queued |-> queued, pending |-> pending, active |-> active,
        child |-> child, graph |-> graph, lineage |-> lineage,
        call |-> call, msg |-> msg, blocked |-> blocked, wants |-> {}, stops |-> {}]

\* Faulty: a finished entry is left in the queue.
EntryStaysQueued(s, gone) ==
    Settle(s, gone, {}, \E id \in gone : s.child[id].wake = {})

\* finish_child for every entry of `gone`, which the queue no longer holds;
\* remove_queued sweeps the queue only if it really finished a child.
RemoveQueued(s, gone) ==
    Settle([s EXCEPT !.queued = @ \ gone], gone, {},
           \E id \in gone : s.child[id].wake = {})

\* resolve_drain_waiters at the end of an iteration that finished no child.
ResolveDrainWaiters(parked) ==
    drainWaiters' = {x \in parked :
        TurnBlocking(queued', pending', active', child', x) # {}}

----------------------------------------------------------------------------
(* Callers.                                                                *)

\* A tool puts a spawn in the mailbox.  A nested spawn comes from a running
\* child; it may be handled long after that child is gone.
CallSpawn(k) ==
    /\ call[k] = "idle"
    /\ Request[k].parent \in Sessions \cup active
    /\ call' = [call EXCEPT ![k] = "sent"]
    /\ UNCHANGED <<queued, pending, active, completed, child, done, nextAge,
                   graph, lineage, runs, outputs, blocked, drains, waiter,
                   drainWaiters, runWaiters, msg, presenting, published>>

\* A caller stops waiting for its spawn result; a workflow's guard cancels the
\* child's token as it is dropped.
DropCaller(k) ==
    /\ k \in Impatient /\ call[k] = "waiting"
    /\ call' = [call EXCEPT ![k] = "gone"]
    /\ child' = CancelTokens(child, {id \in Live : k \in child[id].reply
                                                   /\ Request[k].run # NoRun})
    /\ UNCHANGED <<queued, pending, active, completed, done, nextAge,
                   graph, lineage, runs, outputs, blocked, drains, waiter,
                   drainWaiters, runWaiters, msg, presenting, published>>

\* The holder of a request's cancel token cancels it.  A wake has a token of
\* its own that nobody else holds.
RevokeToken(id) ==
    /\ id \in Revocable \cap Live
    /\ child[id].wake = {} /\ ~child[id].token
    /\ child' = CancelTokens(child, {id})
    /\ UNCHANGED <<queued, pending, active, completed, done, nextAge, graph,
                   lineage, runs, outputs, blocked, drains, call, waiter,
                   drainWaiters, runWaiters, msg, presenting, published>>

----------------------------------------------------------------------------
(* Spawn admission.                                                        *)

\* reparent_nested_spawn: a spawn whose parent session is an active child is
\* keyed to that child's root and inherits its workflow.
Nested(k) == Request[k].parent \in active

SpawnSession(k) ==
    IF Nested(k) THEN child[Request[k].parent].session ELSE Request[k].parent

SpawnRun(k) ==
    IF Nested(k) /\ Request[k].run = NoRun THEN child[Request[k].parent].run
                                           ELSE Request[k].run

SpawnLineage(k) ==
    [root |-> SpawnSession(k),
     chain |-> IF Nested(k)
               THEN lineage[Request[k].parent].chain \cup {Request[k].parent}
               ELSE {}]

\* The guards of handle_spawn, in the order it tries them.
SpawnRefused(k) ==
    \/ Nested(k) /\ child[Request[k].parent].token
    \/ SpawnRun(k) = NoRun /\ SpawnSession(k) \in blocked
    \/ Request[k].id \in Live \cup completed

SpawnedChild(k) ==
    [NoChild EXCEPT !.session = SpawnSession(k), !.run = SpawnRun(k),
                    !.prompt = Request[k].prompt,
                    !.background = Request[k].background,
                    !.defbg = Request[k].defbg,
                    !.reply = {k},
                    !.deadline = Request[k].awaits /\ ~Request[k].background]

SpawnReject(k) ==
    /\ call[k] = "sent" /\ Reaped
    /\ SpawnRefused(k)
    /\ call' = [call EXCEPT ![k] = "rejected"]
    /\ UNCHANGED <<queued, pending, active, completed, child, done, nextAge,
                   graph, lineage, runs, outputs, blocked, drains, waiter,
                   drainWaiters, runWaiters, msg, presenting, published>>

\* Admission::admit says Start.
MayStart(k) ==
    \/ SpawnRun(k) # NoRun
    \/ HasCapacity(pending, active, child, SpawnSession(k))

SpawnStart(k) ==
    LET id == Request[k].id IN
    /\ call[k] = "sent" /\ Reaped
    /\ ~SpawnRefused(k) /\ MayStart(k)
    /\ call' = [call EXCEPT ![k] = "waiting"]
    /\ pending' = pending \cup {id}
    /\ runs' = runs \cup {id}
    /\ child' = [child EXCEPT ![id] = Launched(SpawnedChild(k))]
    /\ graph' = graph \cup {id}
    /\ lineage' = [lineage EXCEPT ![id] = SpawnLineage(k)]
    /\ UNCHANGED <<queued, active>>
    /\ ResolveDrainWaiters(drainWaiters)
    /\ UNCHANGED <<completed, done, nextAge, outputs, blocked, drains, waiter,
                   runWaiters, msg, presenting, published>>

SpawnEnqueue(k) ==
    LET id == Request[k].id IN
    /\ call[k] = "sent" /\ Reaped
    /\ ~SpawnRefused(k) /\ ~MayStart(k) /\ LimitBehavior = "Queue"
    /\ call' = [call EXCEPT ![k] = "waiting"]
    /\ queued' = queued \cup {id}
    /\ child' = [child EXCEPT ![id] = [SpawnedChild(k) EXCEPT !.ahead = queued]]
    /\ graph' = graph \cup {id}
    /\ lineage' = [lineage EXCEPT ![id] = SpawnLineage(k)]
    /\ UNCHANGED <<pending, active>>
    /\ ResolveDrainWaiters(drainWaiters)
    /\ UNCHANGED <<completed, done, nextAge, runs, outputs, blocked, drains,
                   waiter, runWaiters, msg, presenting, published>>

\* finish_never_started: the spawn becomes a completed record at once.
SpawnOverLimit(k) ==
    LET id == Request[k].id IN
    /\ call[k] = "sent" /\ Reaped
    /\ ~SpawnRefused(k) /\ ~MayStart(k) /\ LimitBehavior = "Fail"
    /\ Settle([Now EXCEPT !.call[k] = "waiting",
                          !.child[id] = SpawnedChild(k),
                          !.graph = @ \cup {id},
                          !.lineage[id] = SpawnLineage(k)],
              {id}, {}, TRUE)

Spawn(k) == SpawnReject(k) \/ SpawnStart(k) \/ SpawnEnqueue(k) \/ SpawnOverLimit(k)

----------------------------------------------------------------------------
(* The sweep that runs before commands and deadlines.                      *)

\* background_if_caller_gone: a workflow child is cancelled, a task child
\* stops blocking the turn; a queued caller becomes Backgrounded.
Reap ==
    LET after == [id \in Ids |->
            IF ~(id \in Live /\ Abandoned(id)) THEN child[id]
            ELSE IF id \in pending \cup active /\ child[id].run # NoRun
            THEN [child[id] EXCEPT !.reply = {}, !.token = TRUE]
            ELSE [child[id] EXCEPT !.reply = {}, !.deadline = FALSE,
                                   !.bg = id \in pending \cup active]]
    IN /\ ~Reaped
       /\ RemoveQueued([Now EXCEPT !.child = after],
                       {id \in queued : child[id].token})

----------------------------------------------------------------------------
(* Cancellation.                                                           *)

\* The live children in `ids` are cancelled: tokens of the running ones, the
\* queued ones leave the queue.  Sends parked on a pending child are answered.
CancelChildren(s, ids) ==
    RemoveQueued([s EXCEPT !.child = CancelTokens(s.child, ids \ queued),
                           !.msg = RejectParked(s.msg, ids \cap pending)],
                 ids \cap queued)

\* cancel_one; a completed or unreachable child is left alone.
CancelOne(id, s) ==
    /\ Reaped
    /\ id \in Killable \cap Live /\ Reachable(id, s)
    /\ CancelChildren(Now, {id})

\* cancel_parent_prompt (turn cancelled): every owner, root session only.
CancelPrompt(p, s) ==
    LET ids == {id \in Live : child[id].session = s /\ child[id].prompt = p} IN
    /\ Reaped
    /\ s \in Stoppable
    /\ ids # {}
    /\ CancelChildren(Now, ids)

CompletedOf(s) == {id \in completed : done[id].session = s}

\* cancel_parent_session (user Stop): closes admission, spares workflows.
CancelSession(s) ==
    LET ids == {id \in Live : child[id].session = s /\ child[id].run = NoRun} IN
    /\ Reaped
    /\ s \in Stoppable
    /\ CancelChildren([Now EXCEPT !.blocked = @ \cup {s}, !.stops = {s}], ids)

\* cancel_workflow_children, asked by the session the run belongs to, perhaps
\* more than once (a pause asks twice); every reply waits until the run has no
\* child left.
CancelWorkflow(r) ==
    /\ Reaped
    /\ \E s \in Sess :
          LET ids == {id \in Outstanding(pending, active, child, r) :
                         child[id].session = s} IN
          /\ ids # {}
          /\ child' = CancelTokens(child, ids)
          /\ msg' = RejectParked(msg, ids \cap pending)
    /\ runWaiters' = runWaiters \cup {r}
    /\ UNCHANGED <<queued, pending, active, completed, done, nextAge, graph,
                   lineage, runs, outputs, blocked, drains, call, waiter,
                   drainWaiters, presenting, published>>

\* TeardownSession: with a responder (/delete) it closes admission until the
\* last child is gone; without one (close, idle unload) it only cancels.
Teardown(s, responder) ==
    LET ids == {id \in Live : child[id].session = s} IN
    /\ Reaped
    /\ s \in Deletable
    /\ CancelChildren([Now EXCEPT !.msg = RejectWakes(@, CompletedOf(s)),
                                  !.wants = IF responder THEN {s} ELSE {}], ids)

\* Faulty: the next turn reopens a session a delete drains.
ReopensWhileDraining(s) ==
    /\ Reaped
    /\ s \in blocked
    /\ blocked' = blocked \ {s}
    /\ UNCHANGED <<queued, pending, active, completed, child, done, nextAge,
                   graph, lineage, runs, outputs, drains, call, waiter,
                   drainWaiters, runWaiters, msg, presenting, published>>

\* The next turn reopens admission, unless a delete is draining.
OpenSpawnAdmission(s) ==
    /\ Reaped
    /\ s \in blocked \ drains
    /\ blocked' = blocked \ {s}
    /\ UNCHANGED <<queued, pending, active, completed, child, done, nextAge,
                   graph, lineage, runs, outputs, drains, call, waiter,
                   drainWaiters, runWaiters, msg, presenting, published>>

----------------------------------------------------------------------------
(* Blocking reads.                                                         *)

\* handle_query with block: parks on a child that is not finished.
Query(q, id, s) ==
    /\ Reaped
    /\ waiter[q] = {}
    /\ id \in Live /\ Reachable(id, s) /\ child[id].run = NoRun
    /\ waiter' = [waiter EXCEPT ![q] = {id}]
    /\ UNCHANGED <<queued, pending, active, completed, child, done, nextAge,
                   graph, lineage, runs, outputs, blocked, drains, call,
                   drainWaiters, runWaiters, msg, presenting, published>>

\* WaitPromptDrained: parks while a child of the prompt blocks the turn.
WaitPromptDrained(scope) ==
    /\ Reaped
    /\ scope \notin drainWaiters
    /\ TurnBlocking(queued, pending, active, child, scope) # {}
    /\ drainWaiters' = drainWaiters \cup {scope}
    /\ UNCHANGED <<queued, pending, active, completed, child, done, nextAge,
                   graph, lineage, runs, outputs, blocked, drains, call,
                   waiter, runWaiters, msg, presenting, published>>

----------------------------------------------------------------------------
(* Child runners: Started, SettleDeferredStart, Finalizing and the end of  *)
(* the runner future.  A host promotes a wake with deferred admission.     *)

Parked(id) == {m \in Msgs : msg[m] = "parked" /\ To(m) = id}

\* admit_active_message refuses a workflow's, a cancelled or a finalizing child.
Refuses(e) == e.run # NoRun \/ e.token \/ e.finalizing

\* Faulty: parked sends are let in past the limit.
NoInFlightLimit(e, M) == IF Refuses(e) THEN {{}} ELSE {M}

\* The messages of M that begin_admission lets in, in some order: as many as
\* the child's in-flight limit leaves room for.
Admissible(e, M) ==
    IF Refuses(e) THEN {{}}
    ELSE {A \in SUBSET M :
            /\ e.inFlight + Cardinality(A) <= MaxInFlight
            /\ A = M \/ e.inFlight + Cardinality(A) = MaxInFlight}

\* admit_spawn_ready_messages: the wake's own message is the child's prompt,
\* so it is acknowledged; the parked ones go through admission.
AdmitParked(id, A) ==
    msg' = [m \in Msgs |->
              IF msg[m] = "initial" /\ To(m) = id THEN "accepted"
              ELSE IF m \in A THEN "inflight"
              ELSE IF m \in Parked(id) THEN "rejected" ELSE msg[m]]

StartedCancelled(id) ==
    /\ id \in pending \cap runs
    /\ child[id].token
    /\ msg' = RejectParked(msg, {id})
    /\ UNCHANGED <<queued, pending, active, completed, child, done, nextAge,
                   graph, lineage, runs, outputs, blocked, drains, call, waiter,
                   drainWaiters, runWaiters, presenting, published>>

StartedActive(id) ==
    /\ id \in pending \cap runs
    /\ ~child[id].token
    /\ pending' = pending \ {id}
    /\ active' = active \cup {id}
    /\ IF child[id].wake # {}
       THEN UNCHANGED <<child, msg>>
       ELSE \E A \in Admissible(child[id], Parked(id)) :
                /\ child' = [child EXCEPT ![id].inFlight = Cardinality(A)]
                /\ AdmitParked(id, A)
    /\ UNCHANGED queued
    /\ ResolveDrainWaiters(drainWaiters)
    /\ UNCHANGED <<completed, done, nextAge, graph, lineage, runs, outputs,
                   blocked, drains, call, waiter, runWaiters, presenting,
                   published>>

Started(id) == StartedCancelled(id) \/ StartedActive(id)

\* Commit drops the displaced record; a refused start keeps it, cancels the
\* child and closes its message admission.
SettleDeferredStart(id, committed) ==
    /\ id \in active \cap runs
    /\ child[id].wake # {} /\ ~child[id].finalizing
    /\ IF committed
       THEN \E A \in Admissible(child[id], Parked(id)) :
                /\ child' = [child EXCEPT ![id].wake = {},
                                          ![id].inFlight = @ + Cardinality(A)]
                /\ AdmitParked(id, A)
       ELSE /\ child' = [child EXCEPT ![id].token = TRUE, ![id].finalizing = TRUE]
            /\ msg' = RejectParked(msg, {id})
    /\ UNCHANGED <<queued, pending, active, completed, done, nextAge, graph,
                   lineage, runs, outputs, blocked, drains, call, waiter,
                   drainWaiters, runWaiters, presenting, published>>

\* handle_active_message_finalizing: a runner reports it after it settled.
Finalizing(id) ==
    /\ id \in active \cap runs
    /\ child[id].wake = {} /\ ~child[id].finalizing
    /\ child' = [child EXCEPT ![id].finalizing = TRUE]
    /\ UNCHANGED <<queued, pending, active, completed, done, nextAge, graph,
                   lineage, runs, outputs, blocked, drains, call, waiter, msg,
                   drainWaiters, runWaiters, presenting, published>>

\* finish_terminalized_child and finish_child for one running child; an
\* admission that was never proven settled turns success into failure.
FinishChild(s, id, ok, clean) ==
    Settle([s EXCEPT !.pending = @ \ {id}, !.active = @ \ {id}],
           {id}, IF ok /\ clean THEN {id} ELSE {}, TRUE)

\* Faulty: a held-back output leaves message admission open.
HoldStaysOpen(id, ok) ==
    /\ id \in active \cap runs
    /\ child[id].inFlight > 0
    /\ outputs' = [outputs EXCEPT ![id] = IF ok THEN "success" ELSE "failure"]
    /\ runs' = runs \ {id}
    /\ UNCHANGED <<queued, pending, active, completed, child, done, nextAge, graph,
                   lineage, blocked, drains, call, waiter, msg, drainWaiters,
                   runWaiters, presenting, published>>

\* begin_terminalization with admissions in flight: the output is held back.
HoldOutput(id, ok) ==
    /\ id \in active \cap runs
    /\ child[id].inFlight > 0
    /\ outputs' = [outputs EXCEPT ![id] = IF ok THEN "success" ELSE "failure"]
    /\ child' = [child EXCEPT ![id].finalizing = TRUE]
    /\ runs' = runs \ {id}
    /\ UNCHANGED <<queued, pending, active, completed, done, nextAge, graph,
                   lineage, blocked, drains, call, waiter, msg, drainWaiters,
                   runWaiters, presenting, published>>

\* The runner future is done (or panicked, which is not ok).
RunEnds(id, ok) ==
    \/ HoldOutput(id, ok)
    \/ /\ id \in runs
       /\ id \in active => child[id].inFlight = 0
       /\ FinishChild(Now, id, ok, child[id].clean)

\* finish_active_message.  An unsettled lease answers AdmissionUncertain and
\* marks the child; the last admission of a terminalizing child finishes it.
AdmissionDone(m, outcome) ==
    LET id == To(m)
        after == [child EXCEPT ![id].inFlight = @ - 1,
                               ![id].clean = @ /\ outcome # "uncertain"]
        last == after[id].inFlight = 0 /\ outputs[id] # "none"
        answered == [msg EXCEPT ![m] = outcome]
    IN
    /\ msg[m] = "inflight"
    /\ \/ /\ last
          /\ FinishChild([Now EXCEPT !.child = after, !.msg = answered], id,
                         outputs[id] = "success", after[id].clean)
       \/ /\ ~last
          /\ child' = after
          /\ msg' = answered
          /\ UNCHANGED <<queued, pending, active, completed, done, nextAge,
                         graph, lineage, runs, outputs, blocked, drains, call,
                         waiter, drainWaiters, runWaiters, presenting, published>>

----------------------------------------------------------------------------
(* Messages to children: handle_send_active_message for the messages in M, *)
(* all to the same child.                                                  *)

\* resolve_send: the lineage graph decides who may address the child.
Owned(id, M) == {m \in M : Reachable(id, Message[m].from)}

Route(M, to) == [m \in Msgs |-> IF m \in M THEN to ELSE msg[m]]

\* Route the owned messages and refuse the others.
Answer(id, M, to) ==
    msg' = [m \in Msgs |-> IF m \in Owned(id, M) THEN to
                           ELSE IF m \in M THEN "rejected" ELSE msg[m]]

AtLimit(s) == ~HasCapacity(pending, active, child, s)

\* Faulty: a closed session's child may be woken.
ClosedStillWakes(id) ==
    \/ done[id].run # NoRun
    \/ /\ done[id].published
       /\ ~SupportsWake \/ (AtLimit(done[id].session) /\ LimitBehavior = "Fail")

\* The early returns of resolve_inactive_child_id and wake_completed_child.
Unwakeable(id) ==
    \/ done[id].run # NoRun
    \/ /\ done[id].published
       /\ \/ ~SupportsWake
          \/ done[id].session \in blocked
          \/ AtLimit(done[id].session) /\ LimitBehavior = "Fail"

DeliverRefused(id, M) ==
    /\ \/ Owned(id, M) = {}
       \/ id \in pending \cup queued /\ (child[id].run # NoRun \/ child[id].token)
       \/ id \in active /\ Refuses(child[id])
       \/ id \in completed /\ Unwakeable(id)
    /\ msg' = Route(M, "rejected")
    /\ UNCHANGED <<queued, pending, active, completed, child, done, runs>>

\* Faulty: an admission is not counted.
AdmittedUncounted(id, M) ==
    /\ id \in active /\ Owned(id, M) # {} /\ ~Refuses(child[id])
    /\ msg' = [m \in Msgs |-> IF m \in Owned(id, M) THEN "inflight"
                              ELSE IF m \in M THEN "rejected" ELSE msg[m]]
    /\ UNCHANGED <<queued, pending, active, completed, child, done, runs>>

DeliverActive(id, M) ==
    /\ id \in active /\ Owned(id, M) # {} /\ ~Refuses(child[id])
    /\ \E A \in Admissible(child[id], Owned(id, M)) :
          /\ child' = [child EXCEPT ![id].inFlight = @ + Cardinality(A)]
          /\ msg' = [m \in Msgs |-> IF m \in A THEN "inflight"
                                    ELSE IF m \in M THEN "rejected" ELSE msg[m]]
    /\ UNCHANGED <<queued, pending, active, completed, done, runs>>

\* park_until_spawn_ready, with a deadline.
DeliverPark(id, M) ==
    /\ id \in pending \cup queued /\ Owned(id, M) # {}
    /\ child[id].run = NoRun /\ ~child[id].token
    /\ Answer(id, M, "parked")
    /\ UNCHANGED <<queued, pending, active, completed, child, done, runs>>

\* wake_completed_child before the host published the completion.
DeliverHold(id, M) ==
    /\ id \in completed /\ Owned(id, M) # {}
    /\ done[id].run = NoRun /\ ~done[id].published
    /\ Answer(id, M, "wake")
    /\ UNCHANGED <<queued, pending, active, completed, child, done, runs>>

\* Faulty: a wake does not wait for the publication.
WakesAtOnce(id) == ~Unwakeable(id)

\* Nothing wakes a child whose completion the host has not published.
Wakeable(id) == done[id].published /\ ~Unwakeable(id)

\* wake_completed_child: the record is displaced into the new run, which the
\* first message prompts; messages behind it park.
WokenChild(id) ==
    [NoChild EXCEPT !.session = done[id].session, !.background = TRUE,
                    !.wake = {done[id]}]

DeliverWake(id, M) ==
    /\ id \in completed /\ Owned(id, M) # {}
    /\ Wakeable(id)
    /\ \E first \in Owned(id, M) :
          msg' = [m \in Msgs |-> IF m = first THEN "initial"
                                 ELSE IF m \in Owned(id, M) THEN "parked"
                                 ELSE IF m \in M THEN "rejected" ELSE msg[m]]
    /\ completed' = completed \ {id}
    /\ done' = [done EXCEPT ![id] = NoRecord]
    /\ \/ /\ ~AtLimit(done[id].session)
          /\ pending' = pending \cup {id}
          /\ runs' = runs \cup {id}
          /\ child' = [child EXCEPT ![id] = Launched(WokenChild(id))]
          /\ UNCHANGED queued
       \/ /\ AtLimit(done[id].session)
          /\ queued' = queued \cup {id}
          /\ child' = [child EXCEPT ![id] = [WokenChild(id) EXCEPT !.ahead = queued]]
          /\ UNCHANGED <<pending, runs>>
    /\ UNCHANGED active

Deliver(id, M) ==
    /\ \/ DeliverRefused(id, M)
       \/ DeliverActive(id, M)
       \/ DeliverPark(id, M)
       \/ DeliverHold(id, M)
       \/ DeliverWake(id, M)
    /\ UNCHANGED <<nextAge, graph, lineage, outputs, blocked, drains, call,
                   waiter, drainWaiters, runWaiters, presenting>>

\* The ingress has its own channel: no reap runs before it.
SendActiveMessage(m) ==
    /\ msg[m] = "idle"
    /\ Deliver(To(m), {m})
    /\ UNCHANGED published

----------------------------------------------------------------------------
(* The host publishes a completion on a thread of its own, then tells the  *)
(* actor.                                                                  *)

Publish(id, age) ==
    /\ <<id, age>> \in presenting
    /\ presenting' = presenting \ {<<id, age>>}
    /\ published' = published \cup {<<id, age>>}
    /\ done' = [done EXCEPT ![id].published = @ \/ (id \in completed /\ done[id].age = age)]
    /\ UNCHANGED <<queued, pending, active, completed, child, nextAge, graph,
                   lineage, runs, outputs, blocked, drains, call, waiter,
                   drainWaiters, runWaiters, msg>>

WakesOf(id) == {m \in Msgs : msg[m] = "wake" /\ To(m) = id}

\* handle_terminal_published: a closed session's parked wakes are refused,
\* others are handled as if they had just arrived.
TerminalPublished(id, age) ==
    LET closed == id \in completed /\ done[id].session \in blocked \cup drains IN
    /\ <<id, age>> \in published
    /\ published' = published \ {<<id, age>>}
    /\ \/ /\ closed \/ WakesOf(id) = {}
          /\ msg' = RejectWakes(msg, {id})
          /\ UNCHANGED <<queued, pending, active, completed, child, done, runs,
                         nextAge, graph, lineage, outputs, blocked, drains, call,
                         waiter, drainWaiters, runWaiters, presenting>>
       \/ ~closed /\ WakesOf(id) # {} /\ Deliver(id, WakesOf(id))

----------------------------------------------------------------------------
(* process_deadlines: each deadline may fire once it was set.              *)

\* Faulty: only running children have a deadline.
QueuedNeverHandedOff(id) ==
    /\ Reaped
    /\ id \in pending \cup active /\ child[id].deadline
    /\ call' = [k \in Calls |-> IF k \in child[id].reply /\ call[k] = "waiting"
                                THEN "interim" ELSE call[k]]
    /\ child' = [child EXCEPT ![id].reply = {}, ![id].deadline = FALSE, ![id].bg = TRUE]
    /\ UNCHANGED <<queued, pending, active>>
    /\ ResolveDrainWaiters(drainWaiters)
    /\ UNCHANGED <<completed, done, nextAge, graph, lineage, runs, outputs,
                   blocked, drains, waiter, runWaiters, msg, presenting,
                   published>>

\* The caller is handed off; the child (or the queue entry) stays.
ForegroundDeadline(id) ==
    /\ Reaped
    /\ id \in Live /\ child[id].deadline
    /\ call' = [k \in Calls |-> IF k \in child[id].reply /\ call[k] = "waiting"
                                THEN "interim" ELSE call[k]]
    /\ child' = [child EXCEPT ![id].reply = {}, ![id].deadline = FALSE,
                              ![id].bg = id \notin queued]
    /\ UNCHANGED <<queued, pending, active>>
    /\ ResolveDrainWaiters(drainWaiters)
    /\ UNCHANGED <<completed, done, nextAge, graph, lineage, runs, outputs,
                   blocked, drains, waiter, runWaiters, msg, presenting,
                   published>>

\* Faulty: a query waits for its child whatever its deadline.
QueryOutlivesDeadline(q) ==
    /\ Reaped
    /\ waiter[q] # {} /\ waiter[q] \cap Live = {}
    /\ waiter' = [waiter EXCEPT ![q] = {}]
    /\ UNCHANGED <<queued, pending, active, completed, child, done, nextAge,
                   graph, lineage, runs, outputs, blocked, drains, call,
                   drainWaiters, runWaiters, msg, presenting, published>>

WaiterDeadline(q) ==
    /\ Reaped
    /\ waiter[q] # {}
    /\ waiter' = [waiter EXCEPT ![q] = {}]
    /\ UNCHANGED <<queued, pending, active, completed, child, done, nextAge,
                   graph, lineage, runs, outputs, blocked, drains, call,
                   drainWaiters, runWaiters, msg, presenting, published>>

ParkedDeadline(m) ==
    /\ Reaped
    /\ msg[m] = "parked"
    /\ msg' = [msg EXCEPT ![m] = "rejected"]
    /\ UNCHANGED <<queued, pending, active, completed, child, done, nextAge,
                   graph, lineage, runs, outputs, blocked, drains, call, waiter,
                   drainWaiters, runWaiters, presenting, published>>

\* Faulty: a delete waits for its last child without a deadline.
NoBackstop(s) ==
    /\ Reaped
    /\ s \in drains
    /\ ~HasChildren(Live, child, completed, done, msg, s)
    /\ drains' = drains \ {s}
    /\ blocked' = blocked \ {s}
    /\ UNCHANGED <<queued, pending, active, completed, child, done, nextAge,
                   graph, lineage, runs, outputs, call, waiter, drainWaiters,
                   runWaiters, msg, presenting, published>>

\* The backstop of a delete: clear_teardown_drain with children still live.
TeardownDeadline(s) ==
    /\ Reaped
    /\ s \in drains
    /\ drains' = drains \ {s}
    /\ blocked' = blocked \ {s}
    /\ UNCHANGED <<queued, pending, active, completed, child, done, nextAge,
                   graph, lineage, runs, outputs, call, waiter, drainWaiters,
                   runWaiters, msg, presenting, published>>

----------------------------------------------------------------------------
Caller ==
    \/ \E k \in Calls : CallSpawn(k) \/ DropCaller(k)
    \/ \E id \in Ids : RevokeToken(id)

Command ==
    \/ \E k \in Calls : Spawn(k)
    \/ \E id \in Ids, s \in Sess : CancelOne(id, s)
    \/ \E p \in Prompts, s \in Sess : CancelPrompt(p, s)
    \/ \E s \in Sess : CancelSession(s) \/ OpenSpawnAdmission(s)
    \/ \E r \in Runs : CancelWorkflow(r)
    \/ \E s \in Sess, responder \in BOOLEAN : Teardown(s, responder)
    \/ \E q \in Queries, id \in Ids, s \in Sess : Query(q, id, s)
    \/ \E scope \in Scope : WaitPromptDrained(scope)
    \/ \E m \in Msgs : SendActiveMessage(m)

Runner ==
    \/ \E id \in Ids : Started(id) \/ Finalizing(id)
    \/ \E id \in Ids, ok \in BOOLEAN : SettleDeferredStart(id, ok) \/ RunEnds(id, ok)
    \/ \E m \in Msgs, outcome \in {"accepted", "rejected", "uncertain"} :
           AdmissionDone(m, outcome)

Host ==
    \/ \E e \in presenting : Publish(e[1], e[2])
    \/ \E e \in published : TerminalPublished(e[1], e[2])

Timer ==
    \/ \E id \in Ids : ForegroundDeadline(id)
    \/ \E q \in Queries : WaiterDeadline(q)
    \/ \E m \in Msgs : ParkedDeadline(m)
    \/ \E s \in Sess : TeardownDeadline(s)

Next == Caller \/ Command \/ Reap \/ Runner \/ Host \/ Timer

Spec == Init /\ [][Next]_vars

\* What the actor loop and its host guarantee: mailboxes are read, abandoned
\* callers reaped, armed timers fire, admissions time out and completions are
\* published.  Nothing is assumed of how long a child runs.
Fairness ==
    /\ \A k \in Calls : WF_vars(Spawn(k))
    /\ WF_vars(Reap)
    /\ \A id \in Ids : WF_vars(ForegroundDeadline(id))
    /\ \A q \in Queries : WF_vars(WaiterDeadline(q))
    /\ \A m \in Msgs : WF_vars(ParkedDeadline(m))
    /\ \A m \in Msgs : WF_vars(\E o \in {"accepted", "rejected", "uncertain"} :
                                  AdmissionDone(m, o))
    /\ \A s \in Sess : WF_vars(TeardownDeadline(s))
    /\ WF_vars(\E e \in presenting : Publish(e[1], e[2]))
    /\ WF_vars(\E e \in published : TerminalPublished(e[1], e[2]))

\* A host whose child runs all end, as a cancelled or finished run does.
RunsEnd == \A id \in Ids : WF_vars(\E ok \in BOOLEAN : RunEnds(id, ok))

FairSpec == Spec /\ Fairness
LiveSpec == Spec /\ Fairness /\ RunsEnd

----------------------------------------------------------------------------
(* Properties.                                                             *)

\* Every variable stays in its type.
TypeOK ==
    /\ queued \subseteq Ids /\ pending \subseteq Ids
    /\ active \subseteq Ids /\ completed \subseteq Ids
    /\ child \in [Ids -> Child]
    /\ done \in [Ids -> Record]
    /\ nextAge \in Nat \ {0}
    /\ graph \subseteq Ids
    /\ lineage \in [Ids -> [root: Sess, chain: SUBSET Ids]]
    /\ runs \subseteq Ids
    /\ outputs \in [Ids -> Outputs]
    /\ blocked \subseteq Sess /\ drains \subseteq Sess
    /\ call \in [Calls -> CallState]
    /\ waiter \in [Queries -> SUBSET Ids]
    /\ drainWaiters \subseteq Scope /\ runWaiters \subseteq Runs
    /\ msg \in [Msgs -> MsgState]
    /\ presenting \subseteq Ids \X Nat /\ published \subseteq Ids \X Nat

\* An id is in one of the four maps only, however it is woken, restored or
\* removed, and has a lineage node exactly as long (graph.rs:5).
OneHome ==
    /\ queued \cap (pending \cup active \cup completed) = {}
    /\ pending \cap (active \cup completed) = {}
    /\ active \cap completed = {}
    /\ graph = queued \cup pending \cup active \cup completed

\* A child in the pending or active map has a runner future or a held-back
\* output, and nothing else does: no child is forgotten while it runs and no
\* slot is held by one that cannot finish.
NoZombieChild ==
    /\ pending \cup active = runs \cup {id \in Ids : outputs[id] # "none"}
    /\ \A id \in Ids : outputs[id] # "none" =>
          id \in active \ runs /\ child[id].inFlight > 0 /\ child[id].finalizing

\* No session runs more task children than the limit, nested ones included.
CapacityRespected == \A s \in Sess : Running(pending, active, child, s) <= MaxConcurrent

\* A spawn waits in the queue only while its session is at its limit: every
\* path that frees a slot sweeps the queue.
QueueOnlyAtCapacity ==
    \A id \in queued : ~HasCapacity(pending, active, child, child[id].session)

\* A caller that waits for a spawn is held by the live child it asked for.
NoStrandedCaller ==
    /\ \A k \in Calls : call[k] = "waiting" => \E id \in Live : k \in child[id].reply
    /\ \A id \in Ids : \A k \in child[id].reply :
          Request[k].id = id /\ call[k] \in {"waiting", "gone"}

\* A blocking query, a turn-drain wait and a workflow cancel are parked only
\* while the child, the turn or the run they wait on is still live.
NoStrandedWaiter ==
    /\ \A q \in Queries : waiter[q] \subseteq Live
    /\ \A x \in drainWaiters : TurnBlocking(queued, pending, active, child, x) # {}
    /\ \A r \in runWaiters : Outstanding(pending, active, child, r) # {}

\* A message that has no answer yet is held where a later step answers it: a
\* parked wake has its published event to come, a parked send a child that is
\* still to start or settle, an in-flight one an active child.
NoStrandedMessage ==
    \A m \in Msgs :
        /\ msg[m] = "wake" => \E e \in presenting \cup published : e[1] = To(m)
        /\ msg[m] = "parked" => \/ To(m) \in queued \cup pending
                                \/ To(m) \in active /\ child[To(m)].wake # {}
        /\ msg[m] = "initial" => To(m) \in Live /\ child[To(m)].wake # {}
        /\ msg[m] = "inflight" => To(m) \in active

\* The in-flight counter is exact, so its checked_sub never underflows and a
\* terminalizing child waits for its own admissions and no others.
InFlightExact ==
    \A id \in Ids :
        /\ child[id].inFlight = Cardinality({m \in Msgs : msg[m] = "inflight" /\ To(m) = id})
        /\ child[id].inFlight <= MaxInFlight

\* Once Stop or delete closed a session, every task child of it that is still
\* live is cancelled: no spawn, dequeue or wake revives one before it reopens.
ClosedMeansCancelled ==
    \A s \in blocked : \A id \in Live :
        child[id].session = s /\ child[id].run = NoRun => child[id].token

\* A delete that still drains keeps its session closed, so a next turn cannot
\* reopen it.
DrainsClosed == drains \subseteq blocked

\* A child does not run again while the host still presents its previous
\* completion: the two are never announced in the wrong order.
PresentedBeforeRerun == \A e \in presenting : e[1] \notin Live

\* A spawn that starts overtakes no older queue entry of its session.
NoQueueJump ==
    \A id \in pending' \ pending : child'[id].run = NoRun =>
        \A o \in queued' : child'[o].session = child'[id].session =>
            id \in queued /\ o \notin child[id].ahead

NoQueueJumpProp == [][NoQueueJump]_vars

Answered == {"accepted", "rejected", "uncertain"}

\* A foreground caller gets an answer within its budget however long the
\* child runs or waits in the queue: a result, a refusal or a handoff.
ForegroundAnswered ==
    \A k \in Calls : Request[k].awaits /\ ~Request[k].background =>
        (call[k] = "sent" ~> call[k] \in {"rejected", "interim", "final", "gone"})

\* A delete reopens its session even if a child never finishes.
DrainEnds == \A s \in Sess : s \in drains ~> s \notin drains

\* A blocking query returns even if the child never finishes.
QueryReturns == \A q \in Queries : waiter[q] # {} ~> waiter[q] = {}

\* If runs end, every message a sender sent is answered, also one that wakes
\* a finished child and waits in the queue for a slot.
MessageAnswered == \A m \in Msgs : msg[m] # "idle" ~> msg[m] \in Answered

\* If runs end, no queued spawn starves and every background caller hears the
\* result.
SpawnResolved ==
    \A k \in Calls : call[k] = "sent" ~> call[k] \in {"rejected", "interim", "final", "gone"}

\* A turn that waits for its children goes on, even if a child never ends: its
\* caller is handed off at the deadline.
TurnDrains == \A x \in Scope : x \in drainWaiters ~> x \notin drainWaiters

\* A task spawn made below a session that Stop or delete closed is refused,
\* even when its spawner finished before it was handled (coordinator.rs:92-94).
LateSpawnRefused ==
    \A k \in Calls : LET parent == Request[k].parent IN
        call[k] = "sent" /\ call'[k] = "waiting" /\ SpawnRun(k) = NoRun
            => ~(parent \in graph /\ lineage[parent].root \in blocked)

NoLateSpawn == [][LateSpawnRefused]_vars

\* A delete is draining only while its session still has children to finish
\* (coordinator.rs:88-90).
DrainMeansChildren ==
    \A s \in drains : HasChildren(Live, child, completed, done, msg, s)

============================================================================
