---------------------------- MODULE AuthRefresh ----------------------------
(***************************************************************************)
(* Single-flight token refresh across processes (xai-grok-login).  Every   *)
(* process keeps the credential in memory and all of them share auth.json. *)
(* A refresh spends a refresh token that the authority accepts once, so    *)
(* refresh_chain serialises: a mutex in the process, the advisory flock    *)
(* auth.json.lock between processes, and the credential re-read under      *)
(* each.  Composed with the authority, the sleep gate, logins, crashes,    *)
(* failed writes and lock files replaced by older binaries.                *)
(*                                                                         *)
(* job[c] is one call in progress: its RefreshStep and the locals it keeps *)
(* across an await.  Code between two awaits is one step, except that what *)
(* follows a refusal is one step per access to the file or the memory: the *)
(* check, the removal and the clearing are not under a lock that every     *)
(* writer takes.  The adoption guard's tolerance of 60 s on create_time is *)
(* a free choice.                                                          *)
(***************************************************************************)
EXTENDS TokenAuthority, SleepGate

CONSTANTS Callers,      \* the tasks that ask for a token
          Home,         \* [Callers -> Procs]
          Rotations,    \* whether the authority rotates: a set of BOOLEANs
          Enriched,     \* the processes built for the xAI authority
          MaxSends,     \* attempts of refresh_tokens: 1 + with_max_times
          MaxFaults,    \* bound: crashes, failed writes, replaced locks,
                        \* logins, logouts, and the sleeps as one
          Free          \* nobody holds the lock

ASSUME HomeAssumption == Home \in [Callers -> Procs]
ASSUME CallAssumption ==
    /\ Free \notin Callers
    /\ Rotations \subseteq BOOLEAN
    /\ MaxSends \in Nat \ {0} /\ MaxFaults \in Nat

VARIABLES
    disk,       \* this scope's entry of auth.json, or NoCred
    inner,      \* AuthManager.inner
    verdict,    \* AuthManager.permanent_failure
    expired,    \* access tokens up to this mint are past their buffer
    mutex,      \* AuthManager.refresh_lock
    holder,     \* who holds the flock of the file now at auth.json.lock
    job,        \* the calls in progress
    enriching,  \* the credential of the last /user enrichment spawned, or NoCred
    excused,    \* history: a successor was lost, or the single flight was broken
    broken,     \* history: the lock file was replaced in mid-exchange
    raced,      \* history: the calls whose last check of the file was overtaken
                \* by a writer outside the single flight
    faults

lvars == <<mutex, holder>>
cvars == <<disk, inner, verdict>>
hvars == <<excused, broken, raced, faults>>
vars == <<cvars, expired, lvars, job, enriching, hvars, ivars, gvars>>

Reasons == {"PreRequest", "ServerRejected"}
NoVerdict == [key |-> 0, sticky |-> FALSE]
Idle == [pc |-> "idle"]

OfProc(p) == {c \in Callers : Home[c] = p}

\* One of the events MaxFaults bounds.
Disturb == faults < MaxFaults /\ faults' = faults + 1

----------------------------------------------------------------------------
(* Reading the credentials.                                                *)

Expired(c) == c.key <= expired

\* AuthManager.current
Current(p) == IF inner[p] = NoCred \/ Expired(inner[p]) THEN NoCred ELSE inner[p]

KeyOf(c) == IF c = NoCred THEN 0 ELSE c.key

\* resolve_refresh_credential
Resolve(p, r) ==
    IF disk # NoCred THEN disk
    ELSE IF r = "ServerRejected" \/ Current(p) = NoCred THEN inner[p] ELSE NoCred

\* permanent_failure: the verdict stands for the credential it would try
PermanentFailure(p) ==
    LET k == Resolve(p, "ServerRejected") IN
    /\ verdict[p] # NoVerdict
    /\ IF k = NoCred THEN verdict[p].sticky ELSE k.key = verdict[p].key

\* try_use_disk_token: what it requires, and when create_time may decline
MayAdopt(p, r) ==
    /\ disk # NoCred /\ ~Expired(disk)
    /\ r = "ServerRejected" => KeyOf(inner[p]) # disk.key

MayDecline(p, r) == MayAdopt(p, r) => disk.key < KeyOf(inner[p])

\* hot_swap of a credential that is not expired
HotSwap(p, c) ==
    /\ inner' = [inner EXCEPT ![p] = c]
    /\ verdict' = [verdict EXCEPT ![p] = NoVerdict]
    /\ UNCHANGED disk

\* Faulty: a race lost to a sibling's rotation is not noticed.
NeverSuperseded(c) == FALSE

\* refresh_token_superseded
Superseded(c) == disk # NoCred /\ ~SameToken(disk, c)

----------------------------------------------------------------------------
(* The single flight.                                                      *)

InFlight(p) == \E c \in OfProc(p) :
    job[c].pc \in {"gate", "send", "reply"} \/ (job[c].pc = "clear" /\ job[c].slot)

OnWire(c) == job[c].pc \in {"send", "reply"}

Goto(c, j) == job' = [job EXCEPT ![c] = j]

Step(c, pc) == Goto(c, [job[c] EXCEPT !.pc = pc])

\* The first attempt to spend a credential.
Send(c, spend, retried) ==
    Goto(c, [pc |-> "send", reason |-> job[c].reason, tried |-> spend, sends |-> 1,
             retried |-> retried, straddled |-> FALSE, reply |-> "none", got |-> NoCred])

\* The outcome is handed to apply_refresh_outcome.
Outcome(c, spent, reply, got) ==
    Goto(c, [pc |-> "apply", reason |-> job[c].reason, tried |-> spent,
             reply |-> reply, got |-> got])

\* The call returns: its guards drop the flock and the mutex.
Finish(c) ==
    /\ Goto(c, Idle)
    /\ holder' = IF holder = c THEN Free ELSE holder
    /\ mutex' = [p \in Procs |-> IF mutex[p] = c THEN Free ELSE mutex[p]]

\* The call adopts a sibling's token and returns it, or goes on.
AdoptOr(c, GoOn) ==
    \/ /\ MayAdopt(Home[c], job[c].reason)
       /\ HotSwap(Home[c], disk) /\ Finish(c)
    \/ /\ MayDecline(Home[c], job[c].reason)
       /\ GoOn /\ UNCHANGED cvars

\* Found not to be superseded, and about to remove what it checked.
Removing(c) == job[c].pc \in {"unfile", "unmem"}

\* Past the check of the lock file, until the outcome is applied.
Exchanging(c) ==
    \/ job[c].pc \in {"claim", "gate", "send", "reply", "apply", "judge"}
    \/ job[c].pc = "clear" /\ job[c].slot
    \/ Removing(c)

\* A writer of the file comes between the check and the removal of the others.
Overtake == raced' = raced \cup {c \in Callers : Removing(c)}

\* The authority rotated the token of this call, and the file does not say so.
Unsaved(c) ==
    /\ job[c].pc \in {"send", "reply", "apply"}
    /\ job[c].tried # NoCred /\ ~Live(job[c].tried)

----------------------------------------------------------------------------
(* Entering: auth(), and the recovery from a 401.                          *)

\* The head of refresh_chain, which answers at once while a verdict stands.
StartChain(c, r) ==
    /\ ~PermanentFailure(Home[c])
    /\ Goto(c, [pc |-> "mutex", reason |-> r, preKey |-> KeyOf(Current(Home[c]))])
    /\ UNCHANGED cvars

\* The same head lets a sibling's token lift the verdict.
LiftVerdict(c, r) ==
    /\ PermanentFailure(Home[c]) /\ MayAdopt(Home[c], r)
    /\ HotSwap(Home[c], disk)
    /\ UNCHANGED job

AuthCall(c) ==
    /\ job[c] = Idle
    /\ Current(Home[c]) = NoCred
    /\ inner[Home[c]] # NoCred \/ PermanentFailure(Home[c])
    /\ StartChain(c, "PreRequest") \/ LiftVerdict(c, "PreRequest")
    /\ UNCHANGED <<expired, lvars, enriching, hvars, ivars, gvars>>

\* A 401 for any token sent before: try_reload_from_disk takes what the file
\* has in its place, or else try_refresh_from_authority asks for a new one
Recover(c) ==
    LET p == Home[c] IN
    /\ job[c] = Idle
    /\ \E rejected \in 1 .. minted :
          IF disk # NoCred /\ ~Expired(disk) /\ disk.key # rejected
            THEN HotSwap(p, disk) /\ UNCHANGED job
            ELSE /\ inner[p] # NoCred
                 /\ StartChain(c, "ServerRejected") \/ LiftVerdict(c, "ServerRejected")
    /\ UNCHANGED <<expired, lvars, enriching, hvars, ivars, gvars>>

\* pick_up_sibling_token
PickUp(p) ==
    /\ KeyOf(disk) # KeyOf(inner[p]) /\ MayAdopt(p, "PreRequest")
    /\ HotSwap(p, disk)
    /\ UNCHANGED <<expired, lvars, job, enriching, hvars, ivars, gvars>>

----------------------------------------------------------------------------
(* refresh_chain, step by step.                                            *)

\* Recheck and AdoptBeforeLock, under the mutex
Recheck(c) ==
    LET p == Home[c]
        fresh == /\ Current(p) # NoCred
                 /\ job[c].reason = "ServerRejected" => Current(p).key # job[c].preKey
    IN
    /\ job[c].pc = "mutex" /\ mutex[p] = Free
    /\ \/ /\ fresh \/ PermanentFailure(p)
          /\ Finish(c) /\ UNCHANGED cvars
       \/ /\ ~fresh /\ ~PermanentFailure(p)
          /\ AdoptOr(c, /\ mutex' = [mutex EXCEPT ![p] = c]
                        /\ Goto(c, [pc |-> "lock", reason |-> job[c].reason])
                        /\ UNCHANGED holder)
    /\ UNCHANGED <<expired, enriching, hvars, ivars, gvars>>

\* AcquireLock, and the second acquisition of RevalidateLock
AcquireLock(c) ==
    /\ job[c].pc \in {"lock", "relock"} /\ holder = Free
    /\ AdoptOr(c, /\ holder' = c
                  /\ Step(c, IF job[c].pc = "lock" THEN "defer" ELSE "claim")
                  /\ UNCHANGED mutex)
    /\ UNCHANGED <<expired, enriching, hvars, ivars, gvars>>

\* Faulty: refreshes without the lock when the wait times out.
TimeoutGoesAhead(c) ==
    /\ job[c].pc \in {"lock", "relock"}
    /\ AdoptOr(c, Step(c, "claim") /\ UNCHANGED lvars)
    /\ UNCHANGED <<expired, enriching, hvars, ivars, gvars>>

\* adopt_or_bail_without_lock: the wait timed out, or the file cannot be locked
LockTimedOut(c) ==
    /\ job[c].pc \in {"lock", "relock"}
    /\ AdoptOr(c, Finish(c))
    /\ UNCHANGED <<expired, enriching, hvars, ivars, gvars>>

\* is_gated finds a gate that looks stale: it is lowered in a second step,
\* after it is compared with the one that was read
FoundStale(c, slot) ==
    /\ MayBeStale(Home[c])
    /\ Goto(c, [pc |-> "clear", reason |-> job[c].reason,
                seen |-> gate[Home[c]], slot |-> slot])
    /\ UNCHANGED lvars

\* With the gate down: put off for a dark wake while the token can still serve,
\* or RevalidateLock, which drops an orphaned lock
Undeferred(c) ==
    \/ /\ job[c].reason = "PreRequest" /\ inner[Home[c]] # NoCred
       /\ Finish(c)
    \/ /\ Goto(c, [pc |-> IF holder = c THEN "claim" ELSE "relock",
                   reason |-> job[c].reason])
       /\ UNCHANGED lvars

\* DeferForPowerState, before the slot is claimed
Defer(c) ==
    LET p == Home[c] IN
    /\ job[c].pc = "defer"
    /\ \/ gate[p] # 0 /\ Finish(c)
       \/ gate[p] = 0 /\ Undeferred(c)
       \/ FoundStale(c, FALSE)
    /\ UNCHANGED <<cvars, expired, enriching, hvars, ivars, gvars>>

\* InFlightGuard::new
ClaimSlot(c) ==
    /\ job[c].pc = "claim"
    /\ Step(c, "gate")
    /\ UNCHANGED <<cvars, expired, lvars, enriching, hvars, ivars, gvars>>

\* The refresher: a sibling's valid token, else the credential to spend.
Choose(c) ==
    LET p == Home[c]
        sibling == disk # NoCred /\ ~Expired(disk) /\ KeyOf(Current(p)) # disk.key
        spend == Resolve(p, job[c].reason)
    IN
    \/ /\ sibling
       /\ Outcome(c, NoCred, "ok", disk)
       /\ UNCHANGED lvars
    \/ /\ ~sibling /\ spend = NoCred
       /\ Finish(c)
    \/ /\ ~sibling /\ spend # NoCred
       /\ Send(c, spend, FALSE)
       /\ UNCHANGED lvars

\* is_sleep_gated once more, under the slot
CheckGate(c) ==
    LET p == Home[c] IN
    /\ job[c].pc = "gate"
    /\ \/ gate[p] # 0 /\ Finish(c)
       \/ gate[p] = 0 /\ Choose(c)
       \/ FoundStale(c, TRUE)
    /\ UNCHANGED <<cvars, expired, enriching, hvars, ivars, gvars>>

\* Faulty: lowers the gate of a sleep announced since.
ClearsFreshGate(c) ==
    /\ job[c].pc = "clear"
    /\ LowerGate(Home[c])
    /\ IF job[c].slot THEN Choose(c) ELSE Undeferred(c)
    /\ UNCHANGED <<cvars, expired, enriching, hvars, ivars>>

\* The rest of is_gated: a gate raised since is kept, and the call put off
ClearGate(c) ==
    LET p == Home[c] IN
    /\ job[c].pc = "clear"
    /\ \/ /\ gate[p] \in {0, job[c].seen}
          /\ LowerGate(p)
          /\ IF job[c].slot THEN Choose(c) ELSE Undeferred(c)
       \/ /\ gate[p] \notin {0, job[c].seen}
          /\ Finish(c) /\ UNCHANGED gvars
    /\ UNCHANGED <<cvars, expired, enriching, hvars, ivars>>

----------------------------------------------------------------------------
(* The exchange: oidc_token_exchange, refresh_tokens and its retries.      *)

Granting(c) ==
    /\ job[c].pc = "send"
    /\ \E rotates \in Rotations :
          /\ Grant(job[c].tried, rotates)
          /\ Goto(c, [job[c] EXCEPT !.pc = "reply", !.reply = "ok",
                                    !.got = Granted(job[c].tried, rotates)])
    /\ UNCHANGED <<cvars, expired, lvars, enriching, hvars, gvars>>

Refusing(c) ==
    /\ job[c].pc = "send"
    /\ Refuse(job[c].tried)
    /\ Goto(c, [job[c] EXCEPT !.pc = "reply", !.reply = "refused"])
    /\ UNCHANGED <<cvars, expired, lvars, enriching, hvars, gvars>>

\* invalid_client
RefusingClient(c) ==
    /\ job[c].pc = "send"
    /\ Goto(c, [job[c] EXCEPT !.pc = "reply", !.reply = "other"])
    /\ UNCHANGED <<cvars, expired, lvars, enriching, hvars, ivars, gvars>>

\* Faulty: one attempt too many.
ResendOffByOne(c) ==
    /\ OnWire(c) /\ job[c].sends <= MaxSends /\ ~job[c].straddled
    /\ Goto(c, [job[c] EXCEPT !.pc = "send", !.sends = @ + 1,
                              !.reply = "none", !.got = NoCred])
    /\ UNCHANGED <<cvars, expired, lvars, enriching, hvars, ivars, gvars>>

\* The request or its answer is lost: sent again, unless the exchange
\* straddled a suspend past the grace
Resend(c) ==
    /\ OnWire(c) /\ job[c].sends < MaxSends /\ ~job[c].straddled
    /\ Goto(c, [job[c] EXCEPT !.pc = "send", !.sends = @ + 1,
                              !.reply = "none", !.got = NoCred])
    /\ UNCHANGED <<cvars, expired, lvars, enriching, hvars, ivars, gvars>>

\* The attempts are used up, or discovery failed before the first: transient,
\* or escalated once too many calls in a row end so (record_transient_failure)
GiveUp(c) ==
    /\ OnWire(c)
    /\ job[c].sends = MaxSends \/ job[c].straddled \/ job[c].pc = "send"
    /\ \/ Finish(c) /\ excused' = (excused \/ Unsaved(c))
       \/ /\ ~job[c].retried
          /\ Outcome(c, job[c].tried, "other", NoCred)
          /\ UNCHANGED <<lvars, excused>>
    /\ UNCHANGED <<cvars, expired, enriching, broken, raced, faults, ivars, gvars>>

\* retry_with_fresh_disk_token
RetryWithDisk(c) ==
    IF disk # NoCred /\ ~Expired(disk) /\ disk.key # job[c].tried.key
      THEN Outcome(c, job[c].tried, "ok", disk)
      ELSE IF Superseded(job[c].tried)
        THEN Send(c, disk, TRUE)
        ELSE Outcome(c, job[c].tried, "refused", NoCred)

Deliver(c) ==
    /\ job[c].pc = "reply"
    /\ IF job[c].reply = "refused" /\ ~job[c].retried
         THEN RetryWithDisk(c)
         ELSE Outcome(c, job[c].tried, job[c].reply, job[c].got)
    /\ UNCHANGED <<cvars, expired, lvars, enriching, hvars, ivars, gvars>>

----------------------------------------------------------------------------
(* apply_refresh_outcome.                                                  *)

Spawned(p, c) == IF p \in Enriched THEN [enriching EXCEPT ![p] = c] ELSE enriching

\* update: the file first, then the memory, then the enrichment
Save(c) ==
    LET p == Home[c] IN
    /\ job[c].pc = "apply" /\ job[c].reply = "ok"
    /\ disk' = job[c].got
    /\ inner' = [inner EXCEPT ![p] = job[c].got]
    /\ verdict' = [verdict EXCEPT ![p] = NoVerdict]
    /\ enriching' = Spawned(p, job[c].got)
    /\ IF broken THEN Overtake ELSE UNCHANGED raced
    /\ Finish(c)
    /\ UNCHANGED <<expired, excused, broken, faults, ivars, gvars>>

\* update when auth.json cannot be read (the verdict stays) or written
SaveFails(c) ==
    LET p == Home[c] IN
    /\ job[c].pc = "apply" /\ job[c].reply = "ok"
    /\ Disturb
    /\ inner' = [inner EXCEPT ![p] = job[c].got]
    /\ verdict' \in {verdict, [verdict EXCEPT ![p] = NoVerdict]}
    /\ enriching' = Spawned(p, job[c].got)
    /\ excused' = (excused \/ disk # job[c].got)
    /\ Finish(c)
    /\ UNCHANGED <<disk, expired, broken, raced, ivars, gvars>>

\* record_permanent_failure
Record(c) ==
    verdict' = [verdict EXCEPT ![Home[c]] =
                  [key |-> job[c].tried.key, sticky |-> job[c].reply = "refused"]]

\* PermanentFailure: adopt; else only invalid_grant goes on to discard
Reject(c) ==
    LET p == Home[c] IN
    /\ job[c].pc = "apply" /\ job[c].reply # "ok"
    /\ \/ /\ MayAdopt(p, job[c].reason)
          /\ HotSwap(p, disk) /\ Finish(c)
       \/ /\ MayDecline(p, job[c].reason) /\ job[c].reply = "other"
          /\ Record(c) /\ Finish(c)
          /\ UNCHANGED <<disk, inner>>
       \/ /\ MayDecline(p, job[c].reason) /\ job[c].reply = "refused"
          /\ Step(c, "judge")
          /\ UNCHANGED <<cvars, lvars>>
    /\ excused' = (excused \/ Unsaved(c))
    /\ UNCHANGED <<expired, enriching, broken, raced, faults, ivars, gvars>>

\* Memory and file are read once more: a lost race is demoted to transient, else
\* the verdict is recorded and the copies with the key that was tried are to go,
\* or both.  (The memory is read first; whoever changes it before the file is
\* read took the file's entry, which is then found to supersede.)
Judge(c) ==
    LET p == Home[c]
        key == job[c].tried.key
        neither == key \notin {KeyOf(inner[p]), KeyOf(disk)}
        file == neither \/ KeyOf(disk) = key
        mem == neither \/ KeyOf(inner[p]) = key
    IN
    /\ job[c].pc = "judge"
    /\ \/ /\ Superseded(job[c].tried)
          /\ Finish(c) /\ UNCHANGED <<verdict, raced>>
       \/ /\ ~Superseded(job[c].tried)
          /\ Record(c)
          /\ Goto(c, [pc |-> IF file THEN "unfile" ELSE "unmem",
                      reason |-> job[c].reason, mem |-> mem])
          /\ raced' = raced \ {c}
          /\ UNCHANGED lvars
    /\ UNCHANGED <<disk, inner, expired, enriching, excused, broken, faults, ivars, gvars>>

\* write_scope_removal, which drops the entry the file has by now, or fails
RemoveEntry(c) ==
    /\ job[c].pc = "unfile"
    /\ \/ disk' = NoCred /\ UNCHANGED faults
       \/ Disturb /\ UNCHANGED disk
    /\ \/ job[c].mem /\ Step(c, "unmem") /\ UNCHANGED lvars
       \/ ~job[c].mem /\ Finish(c)
    /\ UNCHANGED <<inner, verdict, expired, enriching, excused, broken, raced, ivars, gvars>>

\* clear_inner, whatever the memory has by now
ClearInner(c) ==
    /\ job[c].pc = "unmem"
    /\ inner' = [inner EXCEPT ![Home[c]] = NoCred]
    /\ Finish(c)
    /\ UNCHANGED <<disk, verdict, expired, enriching, hvars, ivars, gvars>>

----------------------------------------------------------------------------
(* The other writers.                                                      *)

\* run_user_info_enrichment: rewrites the entry it was spawned for, under the
\* lock, and puts it in memory; skipped when the entry has moved on
Enrich(p) ==
    /\ enriching[p] # NoCred
    /\ enriching' = [enriching EXCEPT ![p] = NoCred]
    /\ \/ UNCHANGED inner
       \/ /\ holder = Free /\ disk = enriching[p]
          /\ inner' = [inner EXCEPT ![p] = disk]
    /\ UNCHANGED <<disk, verdict, expired, lvars, job, hvars, ivars, gvars>>

\* An interactive login: its update does not hold the lock
Login(p) ==
    /\ Disturb
    /\ \E f \in Families :
          /\ StartFamily(f)
          /\ disk' = FirstOf(f)
          /\ inner' = [inner EXCEPT ![p] = FirstOf(f)]
          /\ enriching' = Spawned(p, FirstOf(f))
    /\ verdict' = [verdict EXCEPT ![p] = NoVerdict]
    /\ Overtake
    /\ UNCHANGED <<expired, lvars, job, excused, broken, gvars>>

\* remove_scope: the file only if the lock is free at once
Logout(p) ==
    /\ Disturb
    /\ inner[p] # NoCred
    /\ disk' = IF holder = Free THEN NoCred ELSE disk
    /\ inner' = [inner EXCEPT ![p] = NoCred]
    /\ verdict' = [verdict EXCEPT ![p] = NoVerdict]
    /\ excused' = TRUE
    /\ UNCHANGED <<expired, lvars, job, enriching, broken, raced, ivars, gvars>>

----------------------------------------------------------------------------
(* Faults and time.                                                        *)

\* A process dies and is started again: the kernel frees its flock, and
\* AuthManager::new loads auth.json.  A sleep announced before is not announced
\* to it again.
Crash(p) ==
    /\ Disturb
    /\ excused' = (excused \/ \E c \in OfProc(p) : Unsaved(c))
    /\ job' = [c \in Callers |-> IF Home[c] = p THEN Idle ELSE job[c]]
    /\ mutex' = [mutex EXCEPT ![p] = Free]
    /\ holder' = IF holder \in OfProc(p) THEN Free ELSE holder
    /\ inner' = [inner EXCEPT ![p] = disk]
    /\ verdict' = [verdict EXCEPT ![p] = NoVerdict]
    /\ enriching' = [enriching EXCEPT ![p] = NoCred]
    /\ StartUngated(p)
    /\ UNCHANGED <<disk, expired, broken, raced, ivars>>

\* An older binary replaces the lock file of a holder it takes for stuck
ReplaceLockFile ==
    /\ holder # Free
    /\ Disturb
    /\ holder' = Free
    /\ excused' = (excused \/ Exchanging(holder))
    /\ broken' = (broken \/ Exchanging(holder))
    /\ UNCHANGED <<cvars, expired, mutex, job, enriching, raced, ivars, gvars>>

\* The next access token enters its early-invalidation buffer
Expire ==
    /\ expired < minted
    /\ expired' = expired + 1
    /\ UNCHANGED <<cvars, lvars, job, enriching, hvars, ivars, gvars>>

\* PERMANENT_FAILURE_TTL passes
VerdictAges(p) ==
    /\ verdict[p] # NoVerdict /\ ~verdict[p].sticky
    /\ verdict' = [verdict EXCEPT ![p] = NoVerdict]
    /\ UNCHANGED <<disk, inner, expired, lvars, job, enriching, hvars, ivars, gvars>>

\* The grace outlasts the retries of one call.
GraceRunsOut ==
    /\ \E f \in Families : grace[f] # 0
    /\ \A c \in Callers : ~OnWire(c)
    /\ EndGrace
    /\ UNCHANGED <<cvars, expired, lvars, job, enriching, hvars, gvars>>

\* A suspend longer than the grace is seen by the calls on the wire, except by
\* one still in discovery, whose probe has not started; a retry it catches on
\* its way out arrives too late
SystemSleeps ==
    /\ SuspendAndWake
    /\ \/ UNCHANGED <<job, ivars, excused>>
       \/ /\ EndGrace
          /\ \E seen \in SUBSET {c \in Callers : OnWire(c)} :
                /\ \A c \in Callers \ seen :
                      OnWire(c) => job[c].pc = "send" /\ job[c].sends = 1
                /\ job' = [c \in Callers |->
                       IF c \in seen THEN [job[c] EXCEPT !.straddled = TRUE] ELSE job[c]]
          /\ excused' = (excused \/ \E c \in Callers : job[c].pc = "send" /\ Unsaved(c))
    /\ UNCHANGED <<cvars, expired, lvars, enriching, broken, raced, faults>>

Listener(p) ==
    /\ \/ RaiseGate(p)
       \/ Drained(p, InFlight(p))
       \/ HoldExpires(p, InFlight(p))
       \/ DidWake(p)
    /\ UNCHANGED <<cvars, expired, lvars, job, enriching, hvars, ivars>>

\* Bound: early enough for the exchanges it meets to be granted, and sent again.
SleepAnnounced ==
    /\ AnnounceSleep /\ minted + sleeps < MaxMint
    /\ IF sleeps = 0 THEN Disturb ELSE UNCHANGED faults
    /\ UNCHANGED <<cvars, expired, lvars, job, enriching, excused, broken, raced, ivars>>

----------------------------------------------------------------------------
Init ==
    /\ AuthorityInit /\ GateInit
    /\ disk = First
    /\ inner = [p \in Procs |-> First]
    /\ verdict = [p \in Procs |-> NoVerdict]
    /\ expired = 0
    /\ mutex = [p \in Procs |-> Free]
    /\ holder = Free
    /\ job = [c \in Callers |-> Idle]
    /\ enriching = [p \in Procs |-> NoCred]
    /\ excused = FALSE
    /\ broken = FALSE
    /\ raced = {}
    /\ faults = 0

Chain(c) ==
    \/ Recheck(c) \/ AcquireLock(c) \/ LockTimedOut(c) \/ Defer(c)
    \/ ClaimSlot(c) \/ CheckGate(c) \/ ClearGate(c)
    \/ Granting(c) \/ Refusing(c) \/ RefusingClient(c) \/ Resend(c) \/ GiveUp(c)
    \/ Deliver(c) \/ Save(c) \/ SaveFails(c)
    \/ Reject(c) \/ Judge(c) \/ RemoveEntry(c) \/ ClearInner(c)

Next ==
    \/ \E c \in Callers : AuthCall(c) \/ Recover(c) \/ Chain(c)
    \/ \E p \in Procs : \/ PickUp(p) \/ Enrich(p) \/ Login(p) \/ Logout(p)
                        \/ Crash(p) \/ VerdictAges(p) \/ Listener(p)
    \/ ReplaceLockFile \/ Expire \/ GraceRunsOut \/ SleepAnnounced \/ SystemSleeps

Spec == Init /\ [][Next]_vars

----------------------------------------------------------------------------
(* Properties.                                                             *)

PCs == {"mutex", "lock", "relock", "defer", "claim", "gate",
        "clear", "send", "reply", "apply", "judge", "unfile", "unmem"}

\* Type correctness.  A call past the mutex is the one its process admits, and
\* what it keeps across its awaits is a credential that was minted.
AuthTypeOK ==
    /\ GateTypeOK
    /\ minted \in 1 .. MaxMint /\ expired \in 0 .. minted
    /\ disk \in Cred \cup {NoCred}
    /\ inner \in [Procs -> Cred \cup {NoCred}]
    /\ verdict \in [Procs -> [key : 0 .. MaxMint, sticky : BOOLEAN]]
    /\ holder \in Callers \cup {Free}
    /\ enriching \in [Procs -> Cred \cup {NoCred}]
    /\ \A c \in Callers : job[c] # Idle =>
          /\ job[c].pc \in PCs /\ job[c].reason \in Reasons
          /\ job[c].pc # "mutex" => mutex[Home[c]] = c
          /\ OnWire(c) => job[c].tried \in Cred /\ job[c].sends \in 1 .. MaxSends
          /\ job[c].pc = "apply" /\ job[c].reply = "ok" => job[c].got \in Cred

\* A refresh token is spent once: the authority never sees one it has rotated,
\* through timeouts, adoptions, restarts and suspends, unless the successor was
\* lost on its way to the file, the lock file was replaced mid-exchange, a
\* suspend held a retry back past the grace, or the user logged out.
SpentOnce == reused => excused

\* A refused refresh never discards a live credential: what it removes from the
\* file holds a refresh token the authority no longer takes, and so does what it
\* clears from memory, although neither is compared again after the check.  Not
\* covered, because the code does discard then: a login, or the save of a call
\* that got past a replaced lock file, between this very check and the removal;
\* and for the memory, any lock file replaced in mid-exchange before.
NothingLiveDiscarded ==
    LET overtaken(C) == \E c \in C \cap raced : Removing(c) /\ job'[c] # job[c] IN
    UNCHANGED faults =>
       /\ disk # NoCred /\ disk' = NoCred => ~Live(disk) \/ overtaken(Callers)
       /\ \A p \in Procs : inner[p] # NoCred /\ inner'[p] = NoCred =>
             ~Live(inner[p]) \/ broken \/ overtaken(OfProc(p))

LiveKept == [][NothingLiveDiscarded]_vars

\* The system never suspends with an exchange on the wire, unless that
\* process's listener held its acknowledgement for as long as it may, or the
\* process was started again after the sleep was announced.
NothingStraddles ==
    power = "announced" /\ power' = "awake" =>
       \A c \in Callers :
          OnWire(c) /\ Home[c] \in Listening => ack[Home[c]] \in {"forced", "missed"}

NoStraddle == [][NothingStraddles]_vars
============================================================================
