# Grok Build: a TLA+ model of its subagents, scheduler and token refresh

Grok Build is a terminal coding agent written in Rust. A session runs turns of
a model; tools called in a turn may spawn *subagents* (child sessions), stop
them, send them messages and wait for them, or schedule prompts that run again
and again as subagents. Several processes of the program share one credential.
This directory models the parts of the program that are hardest to test: the
actor that decides which subagents run and who waits for whom; the scheduler,
whose removals must survive crashes and late writes; and the refresh of a
token that may be spent only once, by processes that crash, sleep and race.

Paths below are relative to
`src/crates/codegen/xai-grok-tools/src/implementations/grok_build/task/`
unless they start with `src/`.

## 1. Inventory

| Part | State | Operations | Interacts with | Hard because |
|---|---|---|---|---|
| Coordinator actor (`coordinator.rs`, `coordinator/*.rs`) | queue, `pending`, `active`, `completed`, `completed_order`, spawn graph, callers, waiters, closed sessions, drains, parked messages | spawn, cancel (one, prompt, session, workflow), teardown, reopen, query, wait-for-drain, send message, runner events, deadlines | tools through a mailbox, runners through futures, the host through `on_completed` | every handler may finish children, which frees slots, which starts others; tokens are cancelled from outside |
| Admission (`admission.rs`) | limits | admit, has_capacity | coordinator | three callers read the count at different times |
| Wake (`coordinator/wake.rs`) | displaced record | wake, restore | history, queue, messages | a finished child runs again; failure must undo it |
| Active messages (`coordinator/active_message.rs`) | parked sends, per-child window, held output | park, admit, expire, reject, finish | child session | a runner may end with admissions in flight |
| Admission lease (`active_message.rs`) | one atomic byte | commit, settle, revoke | coordinator thread, session thread | two threads, a deadline, a late answer |
| Child host (`src/crates/codegen/xai-grok-shell/src/agent/subagent`, `.../session`) | presentations, prompt queue | publish a completion, admit a message | coordinator | runs on other threads |
| Task tool, backend (`mod.rs`, `backend.rs`, `types.rs`) | none | build requests, format results | coordinator | - |
| Scheduler actor (`../scheduler/actor.rs`, `types.rs`) | tasks, clock, pending removal, blocked expiries | create, update, delete, fire, expire, announce, stop | coordinator, state file, session log, its own guards | removals are two durable writes; an await in the middle of each operation |
| State file writer (`src/crates/codegen/xai-grok-tools/src/persistence.rs`) | channel, debounced snapshot, file | save, save and flush, load | every tool call, the scheduler | a held snapshot is older than the flush that overtakes it |
| Notification bridge (`.../notification/handle.rs`, shell's `notification_bridge.rs`, pager's `background.rs`) | channel, log, tasks pane | send, acknowledge, replay | scheduler, session log | acknowledgements are late or lost |
| Occurrence journal (`../scheduler/occurrence_journal.rs`) | journal on disk | record, recover | - | its mutators are not called in production |
| Attempt store (`xai-grok-shell/src/agent/subagent/attempt_store`) | attempts on disk | append, decode, account | disk | torn writes, restarts |
| Circuit breaker (`src/crates/common/xai-circuit-breaker`) | state, window | allow, record | every HTTP client | half-open probes of several callers |
| Auth manager (`src/crates/codegen/xai-grok-login`) | `inner`, verdict, `refresh_lock`, sleep gate, `auth.json`, `auth.json.lock` | auth, refresh chain, 401 recovery, adopt, save, discard, enrich, log in and out | the token endpoint, other processes, the OS power listener | a refresh token is accepted once; crash between the grant and the save; suspend in the middle of an exchange |
| Leader (`xai-grok-shell/src/leader`) | lock file, server | elect, connect, hand over | other processes | process death at any point |
| Workflow engine (`src/crates/codegen/xai-workflow`) | journal | run, replay | coordinator | replay must not repeat effects |
| Chat-state actor, sampler, computer-hub SDK, prompt queue, upload queue | actors of their own | - | - | retries, reconnects, persistence |
| Terminal UI, markdown, config, telemetry, update, file system, VCS | - | - | - | rendering and I/O: not modelled |

What makes each part correct: a child is in one place and is never forgotten
(coordinator); limits hold and freed slots are used, oldest first, per session
(admission); a wake is announced after the run it follows and is undone
completely if it fails (wake); every sender gets exactly one answer, and the
answer is true (messages, lease); after Stop or delete nothing is revived
(sessions); everyone who waits is woken, by the event or by a deadline. An
acknowledged removal is final and an iteration never overlaps the one before
(scheduler); the file never goes back to an older snapshot (writer); a refresh
token is spent once and a refusal never throws a live credential away (auth).

## 2. Modules

| Module | Models | Used by |
|---|---|---|
| `SubagentCoordinator` | the actor with its callers, runners, host and timers | `MCSubagentCoordinator`, `SubagentCoordinatorProofs`, `SubagentWaitingProofs` |
| `MCSubagentCoordinator` | request and message sets for TLC | the `Admission`, `Wake`, `Turn`, `Messages`, `LateNestedSpawn`, `TeardownWake` configurations |
| `AdmissionContract` | what a sender is promised (abstract) | `ActiveMessageLease` |
| `ActiveMessageLease` | the lease between coordinator and child session, one action per atomic access | `Lease`, `ActiveMessageLeaseProofs` |
| `CompletedHistory` | the deque and map of finished children, exactly | `History`, `CompletedHistoryProofs` |
| `Scheduler` | the scheduler actor, composed with the next two, the guards of its fires, crashes and restarts | `MCScheduler`: `Loop`, `Removal`, `SessionOnly` |
| `ResourcesPersistence` | the writer of the state file | `Scheduler`, `ResourcesPersistenceProofs` |
| `NotificationBridge` | scheduler events on their way to the log and the pane | `Scheduler` |
| `SnapshotRegister` | what the users of the state file rely on (abstract) | `ResourcesPersistence` |
| `AuthRefresh` | the single-flight refresh of every process, composed with the next two, logins, crashes and sleeps | `MCAuthRefresh`: `Auth` |
| `TokenAuthority` | the token endpoint (external: modelled from what the client expects of it) | `AuthRefresh` |
| `SleepGate` | the gate and the power listener of each process | `AuthRefresh` |
| `SubagentCoordinatorProofs`, `ActiveMessageLeaseProofs`, `CompletedHistoryProofs`, `ResourcesPersistenceProofs`, `AuthRefreshProofs` | theorems about the module they are named after | tlapm |
| `SubagentWaitingProofs` | theorems about the queue and about who waits, extending `SubagentCoordinatorProofs` | tlapm |
| `SchedulerProofs`, `SchedulerRemovalProofs` | theorems about `Scheduler`: its state, lists and loops, and, extending it, removals | tlapm |

### SubagentCoordinator

The actor handles one event at a time (`run`, coordinator.rs:277), so one
handler with everything it calls is one action. State: `queued`, `pending`,
`active`, `completed` are the key sets of the four maps; `child` is the record
of a live id wherever it is (`QueuedSpawn`, `PendingChild`, `ActiveChild`
share their fields), `done` the terminal record; `ahead` is the queue order, as
the set of entries in front of an entry; `graph`/`lineage` the spawn graph;
`runs` the runner futures; `outputs` the outputs held back by in-flight
admissions; `call`, `waiter`, `drainWaiters`, `runWaiters`, `msg` are the
oneshot ends callers hold.

`Settle` is `finish_child` with everything that follows it in the same
iteration: completion or restoration of a displaced record, answers to the
caller and to waiters, rejection of parked sends, the queue sweep (which may
start entries and finish cancelled ones), drain and workflow waiters, history
eviction. Every action that finishes children goes through it. A child that a
wake revived carries the terminal record it displaced in `wake`. A Stop rejects
the wakes parked on its session last, after the queued wakes it cancelled have
given their records back (coordinator.rs:1395-1398). A cancel of a workflow run
is of one session's children and may be repeated while an earlier one waits.

`Reaped` guards commands and deadlines: `reap_abandoned_callers` runs before
each of them, so they only see reaped state; `Reap` is that sweep. The message
ingress and runner events have their own channels and run without it, as in
the `select!` of `run`.

Presentations (`presenting`, `published`) are followed only for ids some
message may address: nothing but a wake reads them.

Abstracted: ids, prompts and message texts are model values; a runner's result
is success or not; deadlines are "may fire once set". Left out: the completion
buffer and usage marks, progress polling, addresses by name (resolved to an id
before any of this), ingress permits, and the drop of the whole actor.

### ActiveMessageLease and AdmissionContract

`commit_admission`, `settle` and `revoke` are compare-exchanges and loads on
one byte from two threads; each is an action, and the session may die between
any two of its steps. `AdmissionContract` says what this is for: a message may
be taken at some time unless it was refused, and the one answer is true.
`ImplementsContract` is the refinement (same `rows` and `answer`).

### CompletedHistory

`SubagentCoordinator` keeps "the newest `MaxCompleted` records by age". This
module has the deque the code really keeps, and `KeepsNewestProp` shows the
abstraction right: pop-front eviction with insertion by age on restore keeps
exactly the newest. Up to two children finish in one iteration. `retain` drops
every entry of an id and `RemoveFirst` the first: `OrderExact` says there is one.

### Scheduler

The actor is one task, so its state is a program counter `pc`, the locals `job`
it keeps across an await, and its fields. Between two awaits everything the
code does is one action; while the actor waits, tool calls save snapshots,
children end, the detached guard of an earlier fire writes into the task list
and the process may end. A delete is `Delete`, `DeletePersisted`,
`DeleteAcknowledged`, with `DeleteTimesOut` at either wait and `RetryDelete`
after it; an expiry is `ExpireTask`, `ExpiryPersisted`, `ExpiryAcknowledged`; a
fire is `FireTask`, `QueryEnded`, `UnitInactive`, `StartsFresh`/`Launch`, then
`SpawnRefused`, `SpawnCancelled` or `RegisteredOrLate`, with `RemovalFlushed`
for a one-shot; `GuardClears` is the guard. `Reserve`, `Expected` and `Commit`
are the versions' reservation with its overflow into a new generation.

Of the coordinator the scheduler sees a child's status, whether its unit is
active, and whether a spawn is registered: `child` keeps that much, and
`CoordinatorGone` is the drop of the whole actor. Children woken by messages
and descendants of an iteration are left out as records; instead the status of
a completed child may read as live again, and `LoopUnitActive` may answer yes
with no live child of the task. `Launch` writes the anchor before it sends; with
the channel closed the child is `unsent`, and `SpawnRefused` puts the anchor back
under the lock it takes anew, while tool calls and guards may come between.
`SpawnRefused` also fires for a coordinator that dropped a registered child, a
little more than the code allows.

In `NotificationBridge` a removal that is not acknowledged may be dropped, as it
is when the session's persistence has stopped (notification_bridge.rs:136-141).
Each delivery reaches the log and the pane together; that a new task still
reaches the pane of a session whose persistence has stopped, and not the log, is
not told apart.

Time is what the code compares: a task is past its `next_fire_at` or its
`expires_at`. Schedule text and intervals are not modelled. A flush command
without a snapshot writes what is held, which is the debounced write
(`WriteHeld`) again.

### ResourcesPersistence and SnapshotRegister

Snapshots are enqueued under the resources lock, so the channel is in the order
of the states. `RecvSave` holds one back, `RecvSaveAndFlush` drops what is held
and writes at once, `WriteHeld` is the debounce. A write may fail before or
after the rename, and the waiter may have stopped waiting. `SnapshotRegister`
is the contract: snapshots reach the file in order, some never do, none comes
back after a later one was considered, and "ok" is said only in the step that
stores the snapshot. The mapping is `stored = disk`, `later = Issued` (what is
held, then what is in the channel), `told = reply`.

### AuthRefresh, TokenAuthority and SleepGate

`job[c]` is one call of `refresh_chain` with the locals it keeps; its `pc` is
the `RefreshStep` (`mutex` is Recheck and AdoptBeforeLock, `lock` AcquireLock,
`defer` DeferForPowerState, `relock` the second acquisition of RevalidateLock,
then the parts of Exchange: `claim`, `gate`, `clear`, `send`, `reply`,
`apply`, and after a refusal `judge`, `unfile`, `unmem`). `holder` is who holds the flock of the file now at the lock's path:
a holder whose file was replaced is not `holder` any more. `disk` is this
scope's entry of `auth.json`. Code between two awaits is one step, with one
exception. What follows a refusal has no await, but the lock does not keep
everyone out: a login writes the file without it (`oidc/login.rs:539`), and so
does a call that took the place of a replaced lock file. So adopting (`Reject`),
the check for a lost race (`Judge`, manager.rs:1328-1367), the removal
(`RemoveEntry`, 1370-1381) and the clearing of the memory (`ClearInner`,
1382-1384) are four steps, and the last two drop whatever is there by then.

`excused`, `broken` and `raced` are history variables for the exceptions of the
properties: a successor was lost or the single flight was broken; the lock file
was replaced in mid-exchange; the calls whose last check was overtaken by a
login, or by a save after `broken`, before they acted on it.

A credential is a key (numbered by mint), a family (one per login) and a
generation (one per rotation). `TokenAuthority` grants an accepted refresh
token and may rotate it; the rotated one is accepted for a grace; later it is
refused, and the family may be revoked. That is what the comments and the retry
policy of `oidc/refresh.rs` and `oidc/protocol.rs` expect of the server.

Abstracted, each to a free choice or to one value: one expiry level (the
early-invalidation buffer; wire validity is not told apart from it), the 60 s
tolerance of the adoption guard, the count of transient failures that
escalates, dark wakes (a `PreRequest` with a credential may be put off), the
length of a suspend (short, or past the grace), the fresh-mint guard of the
recovery (a recovery that returns at once changes nothing). A suspend and its
wake are one step, since nothing runs between. A process may be started again
while a sleep is announced: its gate is down and its listener hears nothing of
this sleep (`missed`). The call that a suspend finds in discovery has not started
its `SuspendProbe` (`oidc/protocol.rs:451`) and is not marked; discovery and the
first attempt are one place of the model, so there the mark is a free choice. Of
several enrichments spawned by a process the last is kept. Not
modelled: API keys, the external-binary refresher, the team-pin policy, the
config watcher, the proactive timer (it calls the same chain) and how a waiter
parks on the flock.

## 3. Runs

| Run | Bounds | Shows |
|---|---|---|
| `admission` | 5 children of 2 sessions, limit 1, history 1 | limits, no head-of-line blocking across sessions, oldest first within one, a delete keeps its session closed; with Stop, delete, a kill, an out-of-band cancel and an abandoned caller |
| `wake` | 2 children, 2 messages to one of them, history 1 | one map per id, publication before the next run, nothing revived in a closed session; if runs end, every sender and spawner is answered |
| `turn` | 2 foreground spawns of a turn, a query, Stop, delete | no stranded caller; callers, turns, queries and deletes end by their deadlines, with no assumption on how long children run |
| `messages` | a task, a nested child, a task beyond the limit and a workflow agent; 2 messages; limit 2 with `Fail`, window 1 | no stranded message, exact in-flight counter, held outputs always have something to wait for, and a cancel of the workflow run is answered |
| `lease` | 2 messages | answers are true and always come; refinement of the contract |
| `history` | 4 ids, 2 records, 7 completions | order sorted, nothing outlives what was evicted before it |
| `loop` | 1 task, 2 prompts, 2 subagent ids, chains of 2, a save, an end of the process | iterations never overlap; a resumed transcript has the task's prompt and a bounded length, through prompt changes, refusals, late registrations, a coordinator that goes away and a restart |
| `removal` | a durable recurring task and a one-shot, revisions up to 2, 1 save, 1 end, the bridge may close | an acknowledged removal is final, versions are fresh, a one-shot starts once per process, tasks are shown again after a restart, the file implements `SnapshotRegister`, the actor always returns to its loop |
| `auth` | 2 processes with a call each, one of them interactive and enriched; 2 logins, 3 mints, 2 attempts, 2 sleeps, 1 fault | a refresh token is spent once unless its successor was lost, a refusal discards no live credential unless its check was overtaken from outside the single flight, no exchange straddles a suspend unless its listener ran out of time |
| `late_nested_spawn`, `teardown_wake`, `session_only` | 2 children; 2 tasks | the three findings below (expected violations) |

Two children suffice to have one running and one queued, woken or nested; the
third in `admission` gives the queue an order, the other two a second session.
A limit, a window and a history of one make every limit reachable.
Two subagent ids let an iteration overlap the next; `MaxRev` of 1 or 2 makes
every batch of versions meet the overflow; one end of the process has a restart
after it. In `auth`, two processes race for the lock, three mints are a
rotation whose answer is lost and the retry that rotates again, or a refresh
after another process's refresh; two sleeps let a gate of the first meet the
second. One fault is a crash, a failed write, a replaced lock file, a login, a
logout or the sleeps (together); expiry, lost requests and answers, timeouts
of the lock, adoption and verdicts are never bounded. Sleeps come early enough
for the exchanges they meet to be granted and sent again (`minted + sleeps <
MaxMint`). It rotates at every grant in this run, which is the case in
which a token can be spent twice. What takes two faults (a crash while a sleep is
announced, a failed save and a replaced lock) and calls that share a mutex are
left to the theorems, which bound neither. Inputs are
one-shot (a call is made once, a message sent once) or bounded, so every run
ends with the system idle: the configurations turn deadlock checking off for
that reason.
All reachable states are explored.

Definitions marked *Faulty* in the modules are deliberate slips (an off-by-one,
a dropped guard, a missing sweep); each property fails when the definition
after the slip is replaced by it.

**Fairness.** `Fairness` asks what the executor gives: mailboxes are read,
armed timers fire, abandoned callers are reaped, admissions (which carry a
timeout) complete, presentations finish. The `select!` is `biased` with timers
last, so endless traffic could starve a timer; with one-shot inputs traffic
ends. `RunsEnd` adds that child runs end; only `wake` assumes it.
`ActiveMessageLease` assumes only that the coordinator's future is polled, not
that the session ever answers. `FairSpec` of `Scheduler` asks only that the
actor's own steps (`Carries`) are taken: every wait in them has a deadline, and
nothing is assumed of the writer, the bridge or the coordinator, so
`ActorReturns` holds even if none of them ever answers.

### Findings

1. `teardown_wake`: a delete may wait for its 30 s backstop with no child left.
   A message to a finished, not yet published child parks as a wake
   (wake.rs:28-38 does not look at closed sessions) and counts as a child of
   the session; when the publication comes, `handle_terminal_published`
   (coordinator.rs:618-621) refuses it and returns without resolving the
   drain. coordinator.rs:85-87 and 114-115 say the drain ends with the last
   child.
2. `late_nested_spawn`: a nested spawn that reaches the actor after its
   cancelled spawner finished is not reparented, so it is checked against the
   spawner's own session and admitted; coordinator.rs:89-91 says a late spawn
   cannot outrun Stop. The shell host fails such a run later because its
   parent session is gone.

3. `session_only`: a task created with `durable = false` is in the snapshot the
   same tool call saves, and the next process loads and arms it. `create.rs:43`
   says "Default false (session-only)" and the user guide "Persist across
   sessions (default: `false`)". A test of the repository
   (`recurring_task_survives_restart_and_rearms`) expects the restart to rearm
   it: the flag in fact selects how an expiry is removed.

Observations on the token refresh, which no run states as a property because
the code does not provide them:

- `manager.rs:750` says of `update` that the caller holds the file lock. The
  interactive logins (`oidc/login.rs:539`, `device_code.rs:479`) do not, so the
  save of a refresh in progress can overwrite a fresh login. `Login` models
  this; `LiveKept` is about discarding, not about overwriting.
- For the same reason a login that lands after a refused refresh made its check
  (`manager.rs:1331`) and before it removes the entry (1371) is removed although
  it is live: `write_scope_removal` reads the file again and drops the scope
  whatever it holds. The window has no await in it. The save of a call that got
  past a replaced lock file can be lost the same way. `LiveKept` names both as
  its exceptions, and holds in all other cases.
- `try_use_disk_token` is called the single enforcement point for adoption
  (`manager.rs:56`), but `OidcRefresher::refresh`,
  `retry_with_fresh_disk_token` and `try_reload_from_disk` adopt the file's
  token without its guard on `create_time`. After a failed save the file's token
  is the older one.
- The refresh credential is taken from the file first, so after a failed save
  the next refresh presents the spent token although memory has its successor;
  the in-flight slot is released before the save. Both are why `SpentOnce`
  excuses a lost successor.
- With two faults (a failed save, and a lock file replaced meanwhile) a refused
  refresh can find its key neither in memory nor in the file, and clears both:
  the successor in memory is lost. `LiveKept` therefore excuses the memory after
  a lock file was replaced in mid-exchange.

Smaller observations: a one-shot that started just before the process ended
fires again after the restart, as the comment at `actor.rs:530` accepts; the exit comment (coordinator.rs:282-284) speaks of
`runs` only, but a held-back output can outlive its run (`terminal_outputs`
covers it); the retention floor of `restore_displaced_completion` may drop a
record although the history has room; a wake whose run ends before its start
is settled answers its first message with a refusal although it was prompted
with it.

## 4. Proofs

### Coordinator, lease and state file

`SubagentCoordinatorProofs` proves, for every finite set of ids and messages,
every limit, history and window size and every request, that these are
invariants of `Spec`: `TypeOK`, `OneHome`, `ClosedMeansCancelled`,
`DrainsClosed`, `NoZombieChild` and `InFlightExact`. Only the named ASSUMEs of
`SubagentCoordinator` are used.

None of them is inductive alone. That a finished child leaves the map it is in
(`OneHome`) needs that a runner future belongs to a pending or active child
(`NoZombieChild`); that a held-back output has something to wait for needs
exact counters (`InFlightExact`); that the counter does not go below zero
(`TypeOK`) needs that a message in flight is counted, and that a child leaves
with no message in flight needs that counters are zero outside the active map
(`IdleCounts`, the one conjunct added for the proof). `Inv` is their
conjunction.

The argument has three layers. `SettleMoves` extracts from `Settle` what it
does to the maps, whatever it started, swept, restored and evicted; from it
and from `Ready` (what a handler must hand over: disjoint maps, closed
sessions cancelled, children to finish with no message in flight),
`SettleInv` shows that `Settle` re-establishes `Inv`. Each handler that
finishes children then only has to show `Ready` (`CancelChildrenInv`,
`ReapInv`, `FinishChildInv`, `SpawnOverLimitInv`). The others are instances of
four frame lemmas: nothing moves (`QuietInv`), a new entry (`NewEntryInv`),
messages are admitted (`AdmitInv`), an output is held back (`HoldOutputInv`).

`SubagentWaitingProofs` goes on from `Inv`, with the same generality, and proves
the rest of the coordinator's safety properties. Three more invariants:

- `WaitInv` gives `NoStrandedCaller`, `NoStrandedMessage` and `NoStrandedWaiter`.
  Added for the proof: a caller is held by one child only, the live one it asked
  for (`HeldCallers`, else a reap could drop a caller that still waits); a woken
  child has no caller and, while queued, no cancelled token (`WokenChildren`, so
  a sweep never finishes one with messages parked on it); an unpublished record
  of a child that messages can address is still being presented
  (`PresentedOnce`, so a wake that parks has an event to come).
- `QueueInv` gives `CapacityRespected`, `QueueOnlyAtCapacity` and, for each step,
  `NoQueueJumpProp`. Added: the queue is a total order given by `ahead` and holds
  no workflow's child (`QueueOrder`). A sweep starts the entries of a session
  with fewer than `n` uncancelled entries of it ahead, where `n` slots are free;
  that these are `n` of them, or all, is `FirstFewCount`, proved for any finite
  total order by counting what is ahead of an element.
- `PresentInv` gives `PresentedBeforeRerun`, under `DistinctIds`: every spawn asks
  for an id of its own, as the ids minted by the task tool (mod.rs:424) and the
  scheduler are. Added: what is presented is the unpublished record of the
  history, if that is still kept (`PresentedLatest`), and the child of a spawn not
  taken up yet was never seen (`Unseen`). The hypothesis is needed: an id that is
  used again after its record was evicted may run while the host still presents
  the first run (TLC shows it), since the duplicate check of a spawn looks at the
  maps only.

The argument is per kind of step rather than per action. `HandOver` says what a
handler gives to `Settle` and `Effects` what comes of it; `CalmStep` is a step that
leaves every child in its map, `Admitted` a new entry, `SteadyStep` a start or a
handoff. `NextKinds` shows that there are no others.

`ActiveMessageLeaseProofs` proves for every set of messages that the lease is
typed, that answers are true (`AnswersTrue`), that `Uncertain` is said only of
a claimed lease (`UncertainMeansClaimed`) and that the protocol implements
`AdmissionContract`. The inductive invariant is `LeaseHeld`, which ties the
progress of the session and of the coordinator's future to the lease byte:
without it a message could be written after it was revoked.

`ResourcesPersistenceProofs` proves, for any set of snapshots and any number of
commands in flight, that the writer implements `SnapshotRegister`
(`PersistImplementsRegister`). The specification proved about, `PersistSpec`,
lets clients enqueue whenever they like. The abstract queue `Issued` is what is
held followed by the snapshots of the channel; lemmas describe it as a function
(`OfAppend`, `OfTail`, `OfWritten`), each step either appends to it, drops a
prefix with at most its last element stored, or empties it, and type
correctness (`PersistTypeCorrect`) is the only invariant needed.

### History of finished children

`CompletedHistoryProofs` proves `OrderExact`, `NoResurrection` and
`KeepsNewestProp` for every set of ids and every `MAX_COMPLETED_ENTRIES`; the
lemma about `Complete` holds for any number of completions in one iteration. The
inductive invariant `HistoryInv` adds to the order of the deque (`Listed`) that a
record a wake holds has an age of its own (`Away`), that the deque fits the limit,
and that what was evicted is older than the last `MaxCompleted` ages given out
(`Bygone`). That is what makes the floor of `restore_displaced_completion` right:
an eviction leaves `MaxCompleted` records, all newer and with ages of their own
(`AgeRoom`), so an evicted age lies below the floor, and a record at or above it
is newer than all that is gone. `EvictOverflowEffect` is the one lemma about
popping the front; `NewestByCount` turns it into the count `KeepsNewest` uses.

### Scheduler

The three modules prove, for every set of tasks, prompts and children, every
list a session starts with and every bound, that `ReservationFresh`,
`ChainSound`, `NoOverlap`, `OneShotOnce`, `GoneForGood` and `TasksVisible` are
invariants of `Spec`. `SchedulerTypeOK` and `ImplementsRegister` speak of the
set `Snapshot`; they are proved for `Snapshot = Seq(Task)`, the lists a task
list can be. Used are the named ASSUMEs: `SchedulerAssumption` (the limit on
tasks is below the largest revision, `None` is not a child, the first list is
a list of tasks with ids of their own), `NoneAssumption` and
`NoSnapshotAssumption`. The invariants build on one another:

- `TypeInv` is the type invariant with what makes it inductive: every list in
  use, in the channel or on disk is a duplicate-free list of created tasks no
  longer than the limit; at each await, what the actor's locals are and where
  the clock is relative to the reservation it holds (`ActorOK`, `JobOK`,
  `PendingOK`). `ReservationFresh` is a part of it, including the rollover.
- `ChainInv`: an anchor that may still be resumed, of a task with no reset
  pending, leads to a transcript of the task's prompt that is no longer than the
  task's counter, in every list that is in use or may still be loaded and in the
  copy a fire took before it awaited. Needed since a guard, an edit or a restart
  may change the task meanwhile.
- `OverlapInv`: a child in its first run is the anchor of its task if that is on
  the list, and otherwise known to the fire or the expiry under way. This is
  what makes asking about the anchor alone enough.
- `OneShotInv`: a one-shot that was admitted stays on the list only while its
  own fire waits for the registration, or when the actor is cancelled or the
  coordinator gone, and then nothing fires it.
- `FlushInv`: at most one snapshot in the channel is awaited, and from it on no
  snapshot holds the task being removed; once the writer said ok, no list does.
  `GoneInv` follows for all acknowledged removals. `AckInv` says the same of the
  session log with the awaited tombstone, and gives the second half of
  `GoneForGood`.
- `ShowInv`: for every recurring task of the list, and for the one an expiry may
  put back, the pane has it and no removal is on its way, or a notification on
  its way shows it and none after that hides it.

Each is preserved by way of frame lemmas (`EntryFrame`, `JobFrame`,
`ChildFrame`, `FlushFrame`, `AckFrame`) that say once, over all actions, what a
step can do to one part of the state; the invariants are then proved from the
frames rather than action by action.

### Token refresh

`AuthRefreshProofs` proves for any number of processes, calls, logins, suspends
and faults, and for an authority that rotates always, sometimes or never,
`AuthTypeOK`, `NoStraddle`, `SpentOnce` and `LiveKept`. Used are the ASSUMEs of
`AuthRefresh`, `TokenAuthority` and `SleepGate` on the constants. The inductive
invariants:

- `TypeInv` gives the locals of a call for each place it can wait at, that a call
  past the mutex is the one its process admits, and that only minted credentials
  are presented or saved.
- `GateInv`: while a sleep is announced, a process whose listener answered has
  its gate raised for this sleep (one started meanwhile has not), a call about to lower a gate saw an older one,
  and none is on the wire where the acknowledgement was not forced.
- `FlightInv`: while nothing excuses a reuse, the call past the check of the lock
  file holds the lock and is alone, what it presents is accepted, and the file
  names the live token unless that call is about to write the successor.
- `TokenInv`: two stored credentials with a key in common are the same, none is
  ahead of what its family has reached, and a refused token is not live.
- `LockInv` and `SpendInv`: while no lock file was replaced in mid-exchange, a
  call past its check of the lock holds it, until it has removed what it removes;
  and the file has what the call is spending, or nothing, or another refresh token
  (then the race was lost).
- `CheckInv` and `ClearInv` follow for the time between check and removal: unless
  the call is in `raced`, the file has no live credential, and (while not
  `broken`) neither has the memory it is about to clear. `LiveKept` needs them
  because the removing steps look at nothing.

### Only model-checked

Liveness and the action properties stated under fairness (the prover does not
handle fairness or ENABLED), and everything in section 3 not listed above.

## 5. Plan

Next components, in order: the circuit breaker; leader election; the workflow
journal's replay; the attempt store; the prompt queue. Next theorems: that the
coordinator's history implements the deque of `CompletedHistory`.

Not modelled, and not planned: the terminal UI, markdown, configuration,
telemetry and updates (rendering and I/O), file-system and VCS operations
(their behaviour is the kernel's), MCP (an external library's protocol) and
the vendored diagram layout.
