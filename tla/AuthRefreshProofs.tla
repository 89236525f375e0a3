------------------------- MODULE AuthRefreshProofs -------------------------
(***************************************************************************)
(* What holds of AuthRefresh for every set of processes and calls and      *)
(* every bound on logins, suspends and faults: the locals a call keeps at  *)
(* each await, the sleep gate, the spending of a refresh token, and what a *)
(* refused refresh may discard.                                            *)
(***************************************************************************)
EXTENDS AuthRefresh, TLAPS

----------------------------------------------------------------------------
(* The locals a call keeps, for each place it can wait at.                 *)

MutexJob == [pc : {"mutex"}, reason : Reasons, preKey : 0 .. MaxMint]
LockJob == [pc : {"lock", "relock", "defer", "claim", "gate"}, reason : Reasons]
ClearJob == [pc : {"clear"}, reason : Reasons, seen : 0 .. MaxSleeps, slot : BOOLEAN]
WireJob(pc, reply, got) ==
    [pc : {pc}, reason : Reasons, tried : Cred, sends : 1 .. MaxSends,
     retried : BOOLEAN, straddled : BOOLEAN, reply : reply, got : got]
SendJob == WireJob("send", {"none"}, {NoCred})
GrantedJob == WireJob("reply", {"ok"}, Cred)
RefusedJob == WireJob("reply", {"refused", "other"}, {NoCred})
SaveJob == [pc : {"apply"}, reason : Reasons, tried : Cred \cup {NoCred},
            reply : {"ok"}, got : Cred]
RejectJob == [pc : {"apply"}, reason : Reasons, tried : Cred,
              reply : {"refused", "other"}, got : {NoCred}]
JudgeJob == [pc : {"judge"}, reason : Reasons, tried : Cred,
             reply : {"refused"}, got : {NoCred}]
RemoveJob == [pc : {"unfile"}, reason : Reasons, mem : BOOLEAN]
               \cup [pc : {"unmem"}, reason : Reasons, mem : {TRUE}]

Jobs == {Idle} \cup MutexJob \cup LockJob \cup ClearJob \cup SendJob
          \cup GrantedJob \cup RefusedJob \cup SaveJob \cup RejectJob
          \cup JudgeJob \cup RemoveJob

PastMutex(j) == j.pc \notin {"idle", "mutex"}

AuthorityOK ==
    /\ minted \in 1 .. MaxMint /\ expired \in 0 .. minted
    /\ current \in [Families -> -1 .. MaxMint]
    /\ grace \in [Families -> 0 .. MaxMint]
    /\ \A f \in Families : current[f] <= minted

CredsOK ==
    /\ disk \in Cred \cup {NoCred}
    /\ inner \in [Procs -> Cred \cup {NoCred}]
    /\ verdict \in [Procs -> [key : 0 .. MaxMint, sticky : BOOLEAN]]
    /\ enriching \in [Procs -> Cred \cup {NoCred}]

LocksOK ==
    /\ mutex \in [Procs -> Callers \cup {Free}]
    /\ holder \in Callers \cup {Free}
    /\ job \in [Callers -> Jobs]
    /\ \A c \in Callers : PastMutex(job[c]) => mutex[Home[c]] = c

HistoryOK ==
    /\ {reused, excused, broken} \subseteq BOOLEAN
    /\ raced \subseteq Callers
    /\ faults \in Nat

\* The inductive form of the type invariant.
TypeInv == AuthorityOK /\ CredsOK /\ LocksOK /\ HistoryOK /\ GateTypeOK

----------------------------------------------------------------------------
(* The invariants behind the three properties.                             *)

\* NoStraddle: while a sleep is announced, a listener that raised its gate finds
\* it up until the suspend, because a gate read as stale is older than the sleep;
\* so once it has answered, no call of its process gets on the wire.
GateInv ==
    /\ \A p \in Procs : gate[p] <= sleeps
    /\ power = "awake" => \A p \in Procs : ack[p] = "idle"
    /\ \A c \in Callers : job[c].pc = "clear" => job[c].seen <= sleeps
    /\ power = "announced" => sleeps > 0
    /\ power = "announced" =>
          \A p \in Procs : ack[p] \notin {"idle", "missed"} => gate[p] = sleeps
    /\ power = "announced" =>
          \A c \in Callers : job[c].pc = "clear" => job[c].seen < sleeps
    /\ power = "announced" =>
          \A c \in Callers : ack[Home[c]] = "acked" => ~OnWire(c)

\* SpentOnce: while nothing excuses a reuse, the file has an entry, the call past
\* the check of the lock file holds the lock and is alone, what it presents is
\* accepted, and the file names the live token unless that call is about to
\* write the successor.
Flight ==
    /\ ~reused
    /\ disk \in Cred
    /\ \A f \in Families : 0 <= current[f] /\ grace[f] <= current[f]
    /\ \A c \in Callers : Exchanging(c) => holder = c
    /\ \A c \in Callers : job[c].pc = "send" => Accepted(job[c].tried)
    /\ \A c \in Callers :
          job[c].pc = "reply" => job[c].straddled \/ Accepted(job[c].tried)
    /\ \A c \in Callers : job[c].pc \in {"reply", "apply"} =>
          /\ job[c].reply # "refused"
          /\ job[c].reply = "ok" => Live(job[c].got)
    /\ \A c \in Callers : job[c].pc # "judge" /\ ~Removing(c)
    /\ Live(disk) \/ \E c \in Callers : Unsaved(c)

FlightInv == ~excused => Flight

\* LiveKept: the credentials a process or the file still has, each minted once
\* and of a generation its family has reached; a refused token stays dead.
Carried(j) ==
    IF j.pc \in {"send", "reply", "apply", "judge"} THEN {j.tried, j.got} ELSE {}

Stored == ({disk} \cup {inner[p] : p \in Procs}
             \cup UNION {Carried(job[c]) : c \in Callers}) \ {NoCred}

Reached(x) == x.key <= minted /\ (current[x.fam] = -1 \/ x.gen <= current[x.fam])

TokenInv ==
    /\ \A x \in Stored : Reached(x)
    /\ \A x, y \in Stored : x.key = y.key => x = y
    /\ \A c \in Callers :
          job[c].pc \in {"reply", "apply", "judge"} /\ job[c].reply = "refused" =>
             ~Live(job[c].tried)

\* And what a refused call has found stays so until it has acted on it.  While no
\* lock file was replaced, the call past its check holds the lock;
LockInv == ~broken => \A c \in Callers : Exchanging(c) => holder = c

\* and the file still has what is being spent, or nothing (then neither does the
\* memory have anything else), or another refresh token;
Spending(j) == j.pc \in {"send", "reply", "apply", "judge"} /\ j.tried # NoCred

Matches(c) ==
    \/ disk = job[c].tried
    \/ disk = NoCred /\ inner[Home[c]] \in {job[c].tried, NoCred}
    \/ disk # NoCred /\ ~SameToken(disk, job[c].tried)

SpendInv == ~broken => \A c \in Callers : Spending(job[c]) => Matches(c)

\* so unless it is overtaken, what it is about to remove is dead.
CheckInv == \A c \in Callers \ raced : Removing(c) => ~Live(disk)

ClearInv ==
    ~broken => \A c \in Callers \ raced :
                  Removing(c) /\ job[c].mem => ~Live(inner[Home[c]])

----------------------------------------------------------------------------
(* What the place a call waits at says about its locals.                   *)

LEMMA JobShapes ==
    ASSUME NEW j \in Jobs
    PROVE  /\ j.pc \in PCs \cup {"idle"}
           /\ j.pc = "idle" <=> j = Idle
           /\ j.pc = "mutex" => j \in MutexJob
           /\ j.pc \in {"lock", "relock", "defer", "claim", "gate"} => j \in LockJob
           /\ j.pc = "clear" => j \in ClearJob
           /\ j.pc = "send" => j \in SendJob
           /\ j.pc = "reply" => j \in GrantedJob \cup RefusedJob
           /\ j.pc = "apply" => j \in SaveJob \cup RejectJob
           /\ j.pc = "judge" => j \in JudgeJob
           /\ j.pc \in {"unfile", "unmem"} => j \in RemoveJob
  <1>1. CASE j \in RemoveJob
    <2>1. j.pc \in {"unfile", "unmem"}
      BY <1>1 DEF RemoveJob
    <2> QED BY <1>1, <2>1 DEF Idle, PCs
  <1>2. CASE j \notin RemoveJob
    BY <1>2 DEF Jobs, Idle, MutexJob, LockJob, ClearJob, WireJob, SendJob, GrantedJob,
                RefusedJob, SaveJob, RejectJob, JudgeJob, PCs
  <1> QED BY <1>1, <1>2

LEMMA TypeImplies == TypeInv => AuthTypeOK
  <1> SUFFICES ASSUME TypeInv PROVE AuthTypeOK
    OBVIOUS
  <1>1. /\ GateTypeOK
        /\ minted \in 1 .. MaxMint /\ expired \in 0 .. minted
        /\ disk \in Cred \cup {NoCred}
        /\ inner \in [Procs -> Cred \cup {NoCred}]
        /\ verdict \in [Procs -> [key : 0 .. MaxMint, sticky : BOOLEAN]]
        /\ holder \in Callers \cup {Free}
        /\ enriching \in [Procs -> Cred \cup {NoCred}]
    BY DEF TypeInv, AuthorityOK, CredsOK, LocksOK
  <1>2. ASSUME NEW c \in Callers, job[c] # Idle
        PROVE  /\ job[c].pc \in PCs /\ job[c].reason \in Reasons
               /\ job[c].pc # "mutex" => mutex[Home[c]] = c
               /\ OnWire(c) => job[c].tried \in Cred /\ job[c].sends \in 1 .. MaxSends
               /\ job[c].pc = "apply" /\ job[c].reply = "ok" => job[c].got \in Cred
    <2> DEFINE j == job[c]
    <2>1. j \in Jobs
      BY DEF TypeInv, LocksOK
    <2>2. j.pc \in PCs
      BY <2>1, <1>2, JobShapes
    <2>3. j.reason \in Reasons
      BY <2>1, <1>2 DEF Jobs, Idle, MutexJob, LockJob, ClearJob, WireJob, SendJob,
                        GrantedJob, RefusedJob, SaveJob, RejectJob, JudgeJob, RemoveJob
    <2>4. j.pc # "mutex" => mutex[Home[c]] = c
      BY <2>1, <1>2, JobShapes DEF TypeInv, LocksOK, PastMutex
    <2>5. OnWire(c) => j.tried \in Cred /\ j.sends \in 1 .. MaxSends
      BY <2>1, JobShapes DEF OnWire, WireJob, SendJob, GrantedJob, RefusedJob
    <2>6. j.pc = "apply" /\ j.reply = "ok" => j.got \in Cred
      BY <2>1, JobShapes DEF SaveJob, RejectJob
    <2> QED BY <2>2, <2>3, <2>4, <2>5, <2>6
  <1> QED BY <1>1, <1>2 DEF AuthTypeOK

----------------------------------------------------------------------------
(* How the locks and the calls change.                                     *)

\* A call that moves on keeps the mutex it has, or never had one.
LEMMA GotoLocks ==
    ASSUME LocksOK, NEW c \in Callers, NEW j \in Jobs, Goto(c, j),
           mutex' = mutex, holder' \in Callers \cup {Free},
           PastMutex(j) => mutex[Home[c]] = c
    PROVE  LocksOK' /\ job'[c] = j /\ \A d \in Callers \ {c} : job'[d] = job[d]
  BY DEF LocksOK, Goto

\* A call that returns gives back what it held and nothing else.
LEMMA FinishLocks ==
    ASSUME LocksOK, NEW c \in Callers, Finish(c)
    PROVE  /\ LocksOK'
           /\ job'[c] = Idle /\ \A d \in Callers \ {c} : job'[d] = job[d]
           /\ \A d \in Callers \ {c} : holder = d <=> holder' = d
           /\ holder' # c
  <1>1. Idle \in Jobs /\ ~PastMutex(Idle)
    BY DEF Jobs, Idle, PastMutex
  <1>2. /\ job' = [job EXCEPT ![c] = Idle]
        /\ job' \in [Callers -> Jobs]
        /\ job'[c] = Idle /\ \A d \in Callers \ {c} : job'[d] = job[d]
    BY <1>1 DEF LocksOK, Finish, Goto
  <1>3. /\ mutex' \in [Procs -> Callers \cup {Free}]
        /\ holder' \in Callers \cup {Free}
        /\ \A d \in Callers \ {c} : holder = d <=> holder' = d
        /\ holder' # c
    BY CallAssumption DEF LocksOK, Finish
  <1>4. ASSUME NEW d \in Callers, PastMutex(job'[d]) PROVE mutex'[Home[d]] = d
    <2>1. d # c /\ PastMutex(job[d])
      BY <1>1, <1>2, <1>4
    <2>2. mutex[Home[d]] = d /\ Home[d] \in Procs
      BY <2>1, HomeAssumption DEF LocksOK
    <2> QED BY <2>1, <2>2 DEF Finish
  <1> QED BY <1>2, <1>3, <1>4 DEF LocksOK

\* What the reading operators return.
LEMMA Reads ==
    ASSUME CredsOK, NEW p \in Procs, NEW r
    PROVE  /\ Current(p) \in Cred \cup {NoCred}
           /\ Resolve(p, r) \in Cred \cup {NoCred}
           /\ disk \in Cred \cup {NoCred} /\ inner[p] \in Cred \cup {NoCred}
  BY DEF CredsOK, Current, Resolve

LEMMA KeyOfType == \A c \in Cred \cup {NoCred} : KeyOf(c) \in 0 .. MaxMint
  BY AuthorityAssumption DEF KeyOf, Cred

LEMMA HotSwapCreds ==
    ASSUME CredsOK, NEW p \in Procs, NEW c \in Cred, HotSwap(p, c), UNCHANGED enriching
    PROVE  CredsOK'
  BY AuthorityAssumption DEF CredsOK, HotSwap, NoVerdict

LEMMA AdoptCreds ==
    ASSUME CredsOK, NEW p \in Procs, NEW r, MayAdopt(p, r), HotSwap(p, disk),
           UNCHANGED enriching
    PROVE  CredsOK'
  <1>1. disk \in Cred
    BY DEF CredsOK, MayAdopt
  <1> QED BY <1>1, HotSwapCreds

LEMMA SameCreds ==
    ASSUME CredsOK, UNCHANGED <<cvars, enriching>>
    PROVE  CredsOK'
  BY DEF CredsOK, cvars

\* The call adopts a sibling's token and returns it.
LEMMA AdoptOK ==
    ASSUME TypeInv, NEW c \in Callers, UNCHANGED enriching,
           MayAdopt(Home[c], job[c].reason), HotSwap(Home[c], disk), Finish(c)
    PROVE  CredsOK' /\ LocksOK'
  BY AdoptCreds, FinishLocks, HomeAssumption DEF TypeInv

\* The call takes a step and keeps the credentials as they are.
LEMMA PlainOK ==
    ASSUME TypeInv, NEW c \in Callers, UNCHANGED <<cvars, enriching>>,
           \/ Finish(c)
           \/ \E j \in Jobs : /\ Goto(c, j) /\ mutex' = mutex
                              /\ holder' \in Callers \cup {Free}
                              /\ PastMutex(j) => mutex[Home[c]] = c
    PROVE  CredsOK' /\ LocksOK'
  BY SameCreds, FinishLocks, GotoLocks DEF TypeInv

LEMMA RestOK ==
    ASSUME TypeInv
    PROVE  /\ UNCHANGED <<expired, ivars>> => AuthorityOK'
           /\ UNCHANGED <<hvars, ivars>> => HistoryOK'
           /\ UNCHANGED gvars => GateTypeOK'
           /\ UNCHANGED <<lvars, job>> => LocksOK'
  BY DEF TypeInv, AuthorityOK, HistoryOK, GateTypeOK, LocksOK,
         ivars, hvars, gvars, lvars

----------------------------------------------------------------------------
(* Every step keeps the types.                                             *)

LEMMA StartTypes ==
    ASSUME TypeInv, NEW c \in Callers, NEW r \in Reasons, job[c] = Idle,
           StartChain(c, r) \/ LiftVerdict(c, r), UNCHANGED <<lvars, enriching>>
    PROVE  CredsOK' /\ LocksOK'
  <1> Home[c] \in Procs
    BY HomeAssumption
  <1>1. CASE StartChain(c, r)
    <2> DEFINE j == [pc |-> "mutex", reason |-> r, preKey |-> KeyOf(Current(Home[c]))]
    <2>1. KeyOf(Current(Home[c])) \in 0 .. MaxMint
      BY Reads, KeyOfType DEF TypeInv
    <2>2. j \in Jobs /\ ~PastMutex(j)
      BY <2>1 DEF Jobs, MutexJob, PastMutex
    <2>3. Goto(c, j) /\ UNCHANGED <<cvars, enriching, mutex, holder>>
      BY <1>1 DEF StartChain, lvars
    <2> HIDE DEF j
    <2> QED BY <2>2, <2>3, PlainOK DEF TypeInv, LocksOK
  <1>2. CASE LiftVerdict(c, r)
    <2>1. CredsOK'
      BY <1>2, AdoptCreds DEF LiftVerdict, TypeInv
    <2>2. LocksOK'
      BY <1>2, RestOK DEF LiftVerdict
    <2> QED BY <2>1, <2>2
  <1> QED BY <1>1, <1>2

LEMMA AuthCallType ==
    ASSUME TypeInv, NEW c \in Callers, AuthCall(c) PROVE TypeInv'
  <1>1. CredsOK' /\ LocksOK'
    BY StartTypes DEF AuthCall, Reasons
  <1> QED BY <1>1, RestOK DEF AuthCall, TypeInv

LEMMA RecoverType ==
    ASSUME TypeInv, NEW c \in Callers, Recover(c) PROVE TypeInv'
  <1> Home[c] \in Procs
    BY HomeAssumption
  <1>1. CredsOK' /\ LocksOK'
    <2>1. CASE disk # NoCred /\ HotSwap(Home[c], disk) /\ UNCHANGED job
      <3>1. CredsOK'
        BY <2>1, HotSwapCreds DEF Recover, TypeInv, CredsOK
      <3>2. LocksOK'
        BY <2>1, RestOK DEF Recover
      <3> QED BY <3>1, <3>2
    <2>2. CASE StartChain(c, "ServerRejected") \/ LiftVerdict(c, "ServerRejected")
      BY <2>2, StartTypes DEF Recover, Reasons
    <2> QED BY <2>1, <2>2 DEF Recover
  <1> QED BY <1>1, RestOK DEF Recover, TypeInv

LEMMA PickUpType ==
    ASSUME TypeInv, NEW p \in Procs, PickUp(p) PROVE TypeInv'
  <1>1. CredsOK'
    BY AdoptCreds DEF PickUp, TypeInv
  <1> QED BY <1>1, RestOK DEF PickUp, TypeInv

LEMMA RecheckType ==
    ASSUME TypeInv, NEW c \in Callers, Recheck(c) PROVE TypeInv'
  <1> DEFINE p == Home[c]
             j == [pc |-> "lock", reason |-> job[c].reason]
  <1>1. p \in Procs /\ job[c] \in MutexJob /\ mutex[p] = Free
    BY HomeAssumption, JobShapes DEF Recheck, TypeInv, LocksOK
  <1>2. CredsOK' /\ LocksOK'
    <2>1. CASE Finish(c) /\ UNCHANGED cvars
      BY <2>1, PlainOK DEF Recheck
    <2>2. CASE /\ MayAdopt(p, job[c].reason)
               /\ HotSwap(p, disk) /\ Finish(c)
      BY <2>2, AdoptOK DEF Recheck
    <2>3. CASE /\ mutex' = [mutex EXCEPT ![p] = c]
               /\ Goto(c, j) /\ UNCHANGED holder /\ UNCHANGED cvars
      <3>1. j \in Jobs /\ job'[c] = j /\ \A d \in Callers \ {c} : job'[d] = job[d]
        BY <2>3, <1>1 DEF Jobs, LockJob, MutexJob, Goto, TypeInv, LocksOK
      <3>2. job' \in [Callers -> Jobs]
        BY <2>3, <3>1 DEF Goto, TypeInv, LocksOK
      <3>3. /\ mutex' \in [Procs -> Callers \cup {Free}]
            /\ mutex'[p] = c /\ \A q \in Procs \ {p} : mutex'[q] = mutex[q]
        BY <2>3, <1>1 DEF TypeInv, LocksOK
      <3>4. ASSUME NEW d \in Callers, d # c, PastMutex(job[d])
            PROVE  mutex'[Home[d]] = d
        <4>1. mutex[Home[d]] = d /\ d # Free /\ Home[d] \in Procs
          BY <3>4, CallAssumption, HomeAssumption DEF TypeInv, LocksOK
        <4> QED BY <4>1, <1>1, <3>3
      <3>5. holder' \in Callers \cup {Free}
        BY <2>3 DEF TypeInv, LocksOK
      <3>6. CredsOK'
        BY <2>3, SameCreds DEF Recheck, TypeInv
      <3> QED BY <3>1, <3>2, <3>3, <3>4, <3>5, <3>6 DEF LocksOK
    <2> QED BY <2>1, <2>2, <2>3 DEF Recheck, AdoptOr
  <1> QED BY <1>2, RestOK DEF Recheck, TypeInv

LEMMA AcquireLockType ==
    ASSUME TypeInv, NEW c \in Callers, AcquireLock(c) PROVE TypeInv'
  <1> DEFINE pc == IF job[c].pc = "lock" THEN "defer" ELSE "claim"
             j == [job[c] EXCEPT !.pc = pc]
  <1>1. job[c] \in LockJob /\ PastMutex(job[c]) /\ mutex[Home[c]] = c
    BY JobShapes DEF AcquireLock, TypeInv, LocksOK, PastMutex
  <1>2. CredsOK' /\ LocksOK'
    <2>1. CASE /\ MayAdopt(Home[c], job[c].reason)
               /\ HotSwap(Home[c], disk) /\ Finish(c)
      BY <2>1, AdoptOK DEF AcquireLock
    <2>2. CASE holder' = c /\ Step(c, pc) /\ UNCHANGED mutex /\ UNCHANGED cvars
      <3>1. j \in Jobs
        BY <1>1 DEF LockJob, Jobs
      <3>2. Goto(c, j)
        BY <2>2 DEF Step
      <3> HIDE DEF j
      <3> QED BY <3>1, <3>2, <2>2, <1>1, PlainOK DEF AcquireLock
    <2> QED BY <2>1, <2>2 DEF AcquireLock, AdoptOr
  <1> QED BY <1>2, RestOK DEF AcquireLock, TypeInv

LEMMA LockTimedOutType ==
    ASSUME TypeInv, NEW c \in Callers, LockTimedOut(c) PROVE TypeInv'
  <1>1. CredsOK' /\ LocksOK'
    <2>1. CASE /\ MayAdopt(Home[c], job[c].reason)
               /\ HotSwap(Home[c], disk) /\ Finish(c)
      BY <2>1, AdoptOK DEF LockTimedOut
    <2>2. CASE Finish(c) /\ UNCHANGED cvars
      BY <2>2, PlainOK DEF LockTimedOut
    <2> QED BY <2>1, <2>2 DEF LockTimedOut, AdoptOr
  <1> QED BY <1>1, RestOK DEF LockTimedOut, TypeInv

LEMMA UndeferredLocks ==
    ASSUME TypeInv, NEW c \in Callers, Undeferred(c), job[c].pc \in {"defer", "clear"},
           UNCHANGED <<cvars, enriching>>
    PROVE  CredsOK' /\ LocksOK'
  <1> DEFINE j == [pc |-> IF holder = c THEN "claim" ELSE "relock",
                   reason |-> job[c].reason]
  <1>1. job[c] \in LockJob \cup ClearJob /\ mutex[Home[c]] = c
    BY JobShapes DEF TypeInv, LocksOK, PastMutex
  <1>2. j \in Jobs
    BY <1>1 DEF Jobs, LockJob, ClearJob
  <1>3. CASE Finish(c)
    BY <1>3, PlainOK
  <1>4. CASE Goto(c, j) /\ UNCHANGED lvars
    <2> HIDE DEF j
    <2> QED BY <1>4, <1>1, <1>2, PlainOK DEF lvars, TypeInv, LocksOK
  <1> QED BY <1>3, <1>4 DEF Undeferred

LEMMA StaleLocks ==
    ASSUME TypeInv, NEW c \in Callers, NEW s \in BOOLEAN, FoundStale(c, s),
           job[c].pc \in {"defer", "gate"}, UNCHANGED <<cvars, enriching>>
    PROVE  CredsOK' /\ LocksOK'
  <1> DEFINE j == [pc |-> "clear", reason |-> job[c].reason,
                   seen |-> gate[Home[c]], slot |-> s]
  <1>1. job[c] \in LockJob /\ mutex[Home[c]] = c
    BY JobShapes DEF TypeInv, LocksOK, PastMutex
  <1>2. j \in Jobs
    BY <1>1, HomeAssumption DEF Jobs, LockJob, ClearJob, TypeInv, GateTypeOK
  <1>3. Goto(c, j) /\ UNCHANGED lvars
    BY DEF FoundStale
  <1> HIDE DEF j
  <1> QED BY <1>1, <1>2, <1>3, PlainOK DEF lvars, TypeInv, LocksOK

\* The jobs the exchange starts from and ends with.
LEMMA SendLocks ==
    ASSUME TypeInv, NEW c \in Callers, PastMutex(job[c]), NEW x \in Cred,
           NEW b \in BOOLEAN, Send(c, x, b), UNCHANGED <<cvars, enriching, lvars>>
    PROVE  CredsOK' /\ LocksOK'
  <1> DEFINE j == [pc |-> "send", reason |-> job[c].reason, tried |-> x, sends |-> 1,
                   retried |-> b, straddled |-> FALSE, reply |-> "none", got |-> NoCred]
  <1>1. job[c].reason \in Reasons /\ mutex[Home[c]] = c
    <2>1. job[c] \in Jobs /\ job[c] # Idle /\ mutex[Home[c]] = c
      BY DEF TypeInv, LocksOK, PastMutex, Idle
    <2> QED BY <2>1 DEF Jobs, MutexJob, LockJob, ClearJob, WireJob, SendJob, GrantedJob,
                        RefusedJob, SaveJob, RejectJob, JudgeJob, RemoveJob
  <1>2. j \in Jobs
    BY <1>1, CallAssumption DEF Jobs, SendJob, WireJob
  <1>3. Goto(c, j)
    BY DEF Send
  <1> HIDE DEF j
  <1> QED BY <1>1, <1>2, <1>3, PlainOK DEF lvars, TypeInv, LocksOK

LEMMA OutcomeLocks ==
    ASSUME TypeInv, NEW c \in Callers, PastMutex(job[c]),
           NEW x \in Cred \cup {NoCred}, NEW r, NEW y \in Cred \cup {NoCred},
           \/ r = "ok" /\ y # NoCred
           \/ r \in {"refused", "other"} /\ x # NoCred /\ y = NoCred,
           Outcome(c, x, r, y), UNCHANGED <<cvars, enriching, lvars>>
    PROVE  CredsOK' /\ LocksOK'
  <1> DEFINE j == [pc |-> "apply", reason |-> job[c].reason, tried |-> x,
                   reply |-> r, got |-> y]
  <1>1. job[c].reason \in Reasons /\ mutex[Home[c]] = c
    <2>1. job[c] \in Jobs /\ job[c] # Idle /\ mutex[Home[c]] = c
      BY DEF TypeInv, LocksOK, PastMutex, Idle
    <2> QED BY <2>1 DEF Jobs, MutexJob, LockJob, ClearJob, WireJob, SendJob, GrantedJob,
                        RefusedJob, SaveJob, RejectJob, JudgeJob, RemoveJob
  <1>2. j \in Jobs
    BY <1>1 DEF Jobs, SaveJob, RejectJob
  <1>3. Goto(c, j)
    BY DEF Outcome
  <1> HIDE DEF j
  <1> QED BY <1>1, <1>2, <1>3, PlainOK DEF lvars, TypeInv, LocksOK

LEMMA ChooseLocks ==
    ASSUME TypeInv, NEW c \in Callers, Choose(c), PastMutex(job[c]),
           UNCHANGED <<cvars, enriching>>
    PROVE  CredsOK' /\ LocksOK'
  <1> DEFINE spend == Resolve(Home[c], job[c].reason)
  <1>1. /\ spend \in Cred \cup {NoCred} /\ disk \in Cred \cup {NoCred}
        /\ NoCred \notin Cred
    BY Reads, HomeAssumption, NoCredAssumption DEF TypeInv
  <1>2. CASE disk # NoCred /\ Outcome(c, NoCred, "ok", disk) /\ UNCHANGED lvars
    BY <1>1, <1>2, OutcomeLocks
  <1>3. CASE Finish(c)
    BY <1>3, PlainOK
  <1>4. CASE spend # NoCred /\ Send(c, spend, FALSE) /\ UNCHANGED lvars
    BY <1>1, <1>4, SendLocks
  <1> QED BY <1>2, <1>3, <1>4 DEF Choose

LEMMA DeferType ==
    ASSUME TypeInv, NEW c \in Callers, Defer(c) PROVE TypeInv'
  <1>1. CredsOK' /\ LocksOK'
    <2>1. CASE Finish(c)
      BY <2>1, PlainOK DEF Defer
    <2>2. CASE Undeferred(c)
      BY <2>2, UndeferredLocks DEF Defer
    <2>3. CASE FoundStale(c, FALSE)
      BY <2>3, StaleLocks DEF Defer
    <2> QED BY <2>1, <2>2, <2>3 DEF Defer
  <1> QED BY <1>1, RestOK DEF Defer, TypeInv

LEMMA ClaimSlotType ==
    ASSUME TypeInv, NEW c \in Callers, ClaimSlot(c) PROVE TypeInv'
  <1> DEFINE j == [job[c] EXCEPT !.pc = "gate"]
  <1>1. job[c] \in LockJob /\ mutex[Home[c]] = c
    BY JobShapes DEF ClaimSlot, TypeInv, LocksOK, PastMutex
  <1>2. j \in Jobs
    BY <1>1 DEF Jobs, LockJob
  <1>3. CredsOK' /\ LocksOK'
    <2>1. Goto(c, j) /\ UNCHANGED <<cvars, enriching, lvars>>
      BY DEF ClaimSlot, Step
    <2> HIDE DEF j
    <2> QED BY <2>1, <1>1, <1>2, PlainOK DEF lvars, TypeInv, LocksOK
  <1> QED BY <1>3, RestOK DEF ClaimSlot, TypeInv

LEMMA CheckGateType ==
    ASSUME TypeInv, NEW c \in Callers, CheckGate(c) PROVE TypeInv'
  <1>1. CredsOK' /\ LocksOK'
    <2>1. CASE Finish(c)
      BY <2>1, PlainOK DEF CheckGate
    <2>2. CASE Choose(c)
      BY <2>2, ChooseLocks DEF CheckGate, PastMutex
    <2>3. CASE FoundStale(c, TRUE)
      BY <2>3, StaleLocks DEF CheckGate
    <2> QED BY <2>1, <2>2, <2>3 DEF CheckGate
  <1> QED BY <1>1, RestOK DEF CheckGate, TypeInv

LEMMA LowerGateType ==
    ASSUME GateTypeOK, NEW p \in Procs, LowerGate(p) PROVE GateTypeOK'
  BY SleepAssumption DEF GateTypeOK, LowerGate

LEMMA ClearGateType ==
    ASSUME TypeInv, NEW c \in Callers, ClearGate(c) PROVE TypeInv'
  <1>1. CredsOK' /\ LocksOK'
    <2>1. CASE Finish(c)
      BY <2>1, PlainOK DEF ClearGate
    <2>2. CASE Choose(c)
      BY <2>2, ChooseLocks DEF ClearGate, PastMutex
    <2>3. CASE Undeferred(c)
      BY <2>3, UndeferredLocks DEF ClearGate
    <2> QED BY <2>1, <2>2, <2>3 DEF ClearGate
  <1>2. GateTypeOK'
    BY LowerGateType, RestOK, HomeAssumption DEF ClearGate, TypeInv
  <1> QED BY <1>1, <1>2, RestOK DEF ClearGate, TypeInv

\* What the authority hands out is a credential.
LEMMA GrantedCred ==
    ASSUME AuthorityOK, NEW x \in Cred, NEW b \in BOOLEAN, Grant(x, b)
    PROVE  Granted(x, b) \in Cred
  <1>1. /\ x.fam \in Families /\ x.gen \in 1 .. MaxMint
        /\ current[x.fam] \in -1 .. MaxMint /\ current[x.fam] <= minted
        /\ minted + 1 \in 1 .. MaxMint /\ current[x.fam] > 0
    BY AuthorityAssumption DEF AuthorityOK, Grant, Cred
  <1>2. current[x.fam] + 1 \in 1 .. MaxMint
    BY <1>1, AuthorityAssumption DEF AuthorityOK
  <1> QED BY <1>1, <1>2 DEF Granted, Cred

LEMMA GrantType ==
    ASSUME AuthorityOK, NEW x \in Cred, NEW b \in BOOLEAN, Grant(x, b), UNCHANGED expired
    PROVE  AuthorityOK'
  <1>1. /\ minted' = minted + 1 /\ minted < MaxMint
        /\ x.fam \in Families /\ x.gen \in 1 .. MaxMint /\ current[x.fam] <= minted
        /\ current' = [current EXCEPT ![x.fam] = Granted(x, b).gen]
        /\ grace' = [grace EXCEPT ![x.fam] = IF b THEN x.gen ELSE @]
    BY DEF AuthorityOK, Grant, Cred
  <1>2. /\ Granted(x, b).gen \in 1 .. MaxMint
        /\ Granted(x, b).gen <= minted'
    <2>1. CASE b
      BY <2>1, <1>1, AuthorityAssumption DEF AuthorityOK, Granted, Grant
    <2>2. CASE ~b
      BY <2>2, <1>1 DEF AuthorityOK, Granted, Grant, Live
    <2> QED BY <2>1, <2>2
  <1>3. current' \in [Families -> -1 .. MaxMint]
    BY <1>1, <1>2, AuthorityAssumption DEF AuthorityOK
  <1>4. grace' \in [Families -> 0 .. MaxMint]
    BY <1>1, AuthorityAssumption DEF AuthorityOK
  <1>5. \A f \in Families : current'[f] <= minted'
    BY <1>1, <1>2, AuthorityAssumption DEF AuthorityOK
  <1>6. minted' \in 1 .. MaxMint /\ expired' \in 0 .. minted'
    BY <1>1, AuthorityAssumption DEF AuthorityOK
  <1> QED BY <1>3, <1>4, <1>5, <1>6 DEF AuthorityOK

LEMMA GrantingType ==
    ASSUME TypeInv, NEW c \in Callers, Granting(c) PROVE TypeInv'
  <1>1. job[c] \in SendJob /\ mutex[Home[c]] = c /\ job[c].tried \in Cred
    BY JobShapes DEF Granting, TypeInv, LocksOK, PastMutex, SendJob, WireJob
  <1>2. PICK b \in Rotations :
          /\ Grant(job[c].tried, b)
          /\ Goto(c, [job[c] EXCEPT !.pc = "reply", !.reply = "ok",
                                    !.got = Granted(job[c].tried, b)])
    BY DEF Granting
  <1>3. b \in BOOLEAN
    BY CallAssumption
  <1> DEFINE j == [job[c] EXCEPT !.pc = "reply", !.reply = "ok",
                                 !.got = Granted(job[c].tried, b)]
  <1>4. j \in Jobs
    BY <1>1, <1>2, <1>3, GrantedCred DEF TypeInv, Jobs, SendJob, GrantedJob, WireJob
  <1>5. CredsOK' /\ LocksOK'
    <2>1. Goto(c, j)
      BY <1>2
    <2> HIDE DEF j
    <2> QED BY <2>1, <1>1, <1>4, PlainOK DEF Granting, lvars, TypeInv, LocksOK
  <1>6. AuthorityOK' /\ UNCHANGED reused
    BY <1>1, <1>2, <1>3, GrantType DEF Granting, TypeInv, Grant
  <1>7. HistoryOK'
    BY <1>6 DEF Granting, TypeInv, HistoryOK, hvars
  <1> QED BY <1>5, <1>6, <1>7, RestOK DEF Granting, TypeInv

LEMMA RefuseType ==
    ASSUME AuthorityOK, NEW x \in Cred, Refuse(x), UNCHANGED expired
    PROVE  AuthorityOK'
  <1>1. x.fam \in Families
    BY DEF Cred
  <1>2. grace' \in [Families -> 0 .. MaxMint]
    <2>1. 0 \in 0 .. MaxMint
      BY AuthorityAssumption
    <2> QED BY <1>1, <2>1 DEF AuthorityOK, Refuse
  <1>3. /\ current' \in [Families -> -1 .. MaxMint]
        /\ \A f \in Families : current'[f] <= minted
    <2>1. -1 \in -1 .. MaxMint /\ minted \in Nat /\ -1 <= minted
      BY AuthorityAssumption DEF AuthorityOK
    <2>2. CASE UNCHANGED current
      BY <2>2 DEF AuthorityOK
    <2>3. CASE current' = [current EXCEPT ![x.fam] = -1]
      BY <2>1, <2>3 DEF AuthorityOK
    <2> QED BY <2>2, <2>3 DEF Refuse
  <1> QED BY <1>2, <1>3 DEF AuthorityOK, Refuse

LEMMA RefusingType ==
    ASSUME TypeInv, NEW c \in Callers, Refusing(c) PROVE TypeInv'
  <1> DEFINE j == [job[c] EXCEPT !.pc = "reply", !.reply = "refused"]
  <1>1. job[c] \in SendJob /\ mutex[Home[c]] = c /\ job[c].tried \in Cred
    BY JobShapes DEF Refusing, TypeInv, LocksOK, PastMutex, SendJob, WireJob
  <1>2. j \in Jobs
    BY <1>1 DEF Jobs, SendJob, RefusedJob, WireJob
  <1>3. CredsOK' /\ LocksOK'
    <2>1. Goto(c, j)
      BY DEF Refusing
    <2> HIDE DEF j
    <2> QED BY <2>1, <1>1, <1>2, PlainOK DEF Refusing, lvars, TypeInv, LocksOK
  <1>4. AuthorityOK'
    BY <1>1, RefuseType DEF Refusing, TypeInv
  <1>5. HistoryOK'
    BY DEF Refusing, Refuse, TypeInv, HistoryOK, hvars
  <1> QED BY <1>3, <1>4, <1>5, RestOK DEF Refusing, TypeInv

LEMMA RefusingClientType ==
    ASSUME TypeInv, NEW c \in Callers, RefusingClient(c) PROVE TypeInv'
  <1> DEFINE j == [job[c] EXCEPT !.pc = "reply", !.reply = "other"]
  <1>1. job[c] \in SendJob /\ mutex[Home[c]] = c
    BY JobShapes DEF RefusingClient, TypeInv, LocksOK, PastMutex
  <1>2. j \in Jobs
    BY <1>1 DEF Jobs, SendJob, RefusedJob, WireJob
  <1>3. CredsOK' /\ LocksOK'
    <2>1. Goto(c, j)
      BY DEF RefusingClient
    <2> HIDE DEF j
    <2> QED BY <2>1, <1>1, <1>2, PlainOK DEF RefusingClient, lvars, TypeInv, LocksOK
  <1> QED BY <1>3, RestOK DEF RefusingClient, TypeInv

LEMMA WireShape ==
    ASSUME TypeInv, NEW c \in Callers, OnWire(c)
    PROVE  /\ job[c] \in SendJob \cup GrantedJob \cup RefusedJob
           /\ mutex[Home[c]] = c /\ PastMutex(job[c])
           /\ job[c].tried \in Cred
  BY JobShapes DEF OnWire, TypeInv, LocksOK, PastMutex, SendJob, GrantedJob, RefusedJob,
                   WireJob

LEMMA ResendType ==
    ASSUME TypeInv, NEW c \in Callers, Resend(c) PROVE TypeInv'
  <1> DEFINE j == [job[c] EXCEPT !.pc = "send", !.sends = @ + 1,
                                 !.reply = "none", !.got = NoCred]
  <1>1. job[c] \in SendJob \cup GrantedJob \cup RefusedJob /\ mutex[Home[c]] = c
    BY WireShape DEF Resend
  <1>2. j \in Jobs
    <2>1. job[c].sends + 1 \in 1 .. MaxSends
      BY <1>1, CallAssumption DEF Resend, SendJob, GrantedJob, RefusedJob, WireJob
    <2> QED BY <1>1, <2>1 DEF Jobs, SendJob, GrantedJob, RefusedJob, WireJob
  <1>3. CredsOK' /\ LocksOK'
    <2>1. Goto(c, j)
      BY DEF Resend
    <2> HIDE DEF j
    <2> QED BY <2>1, <1>1, <1>2, PlainOK DEF Resend, lvars, TypeInv, LocksOK
  <1> QED BY <1>3, RestOK DEF Resend, TypeInv

LEMMA GiveUpType ==
    ASSUME TypeInv, NEW c \in Callers, GiveUp(c) PROVE TypeInv'
  <1>1. job[c].tried \in Cred /\ PastMutex(job[c])
    BY WireShape DEF GiveUp
  <1>2. CredsOK' /\ LocksOK'
    <2>1. CASE Finish(c)
      BY <2>1, PlainOK DEF GiveUp
    <2>2. CASE Outcome(c, job[c].tried, "other", NoCred) /\ UNCHANGED lvars
      BY <2>2, <1>1, OutcomeLocks, NoCredAssumption DEF GiveUp
    <2> QED BY <2>1, <2>2 DEF GiveUp
  <1>3. HistoryOK'
    BY DEF GiveUp, TypeInv, HistoryOK, ivars, Unsaved, Live
  <1> QED BY <1>2, <1>3, RestOK DEF GiveUp, TypeInv

LEMMA DeliverType ==
    ASSUME TypeInv, NEW c \in Callers, Deliver(c) PROVE TypeInv'
  <1>1. /\ job[c] \in GrantedJob \cup RefusedJob
        /\ job[c].tried \in Cred /\ PastMutex(job[c])
        /\ disk \in Cred \cup {NoCred} /\ NoCred \notin Cred
    BY WireShape, JobShapes, NoCredAssumption
       DEF Deliver, OnWire, TypeInv, LocksOK, CredsOK
  <1>2. CredsOK' /\ LocksOK'
    <2>1. CASE disk # NoCred /\ Outcome(c, job[c].tried, "ok", disk)
      BY <2>1, <1>1, OutcomeLocks DEF Deliver
    <2>2. CASE disk # NoCred /\ Send(c, disk, TRUE)
      BY <2>2, <1>1, SendLocks DEF Deliver
    <2>3. CASE Outcome(c, job[c].tried, "refused", NoCred)
      BY <2>3, <1>1, OutcomeLocks DEF Deliver
    <2>4. CASE Outcome(c, job[c].tried, job[c].reply, job[c].got)
      <3>1. \/ job[c].reply = "ok" /\ job[c].got \in Cred
            \/ job[c].reply \in {"refused", "other"} /\ job[c].got = NoCred
        BY <1>1 DEF GrantedJob, RefusedJob, WireJob
      <3> QED BY <2>4, <3>1, <1>1, OutcomeLocks DEF Deliver
    <2> QED BY <2>1, <2>2, <2>3, <2>4 DEF Deliver, RetryWithDisk, Superseded
  <1> QED BY <1>2, RestOK DEF Deliver, TypeInv

LEMMA SpawnedType ==
    ASSUME CredsOK, NEW p \in Procs, NEW x \in Cred
    PROVE  Spawned(p, x) \in [Procs -> Cred \cup {NoCred}]
  BY DEF CredsOK, Spawned

LEMMA NoVerdictType == NoVerdict \in [key : 0 .. MaxMint, sticky : BOOLEAN]
  BY AuthorityAssumption DEF NoVerdict

LEMMA SaveShape ==
    ASSUME TypeInv, NEW c \in Callers, job[c].pc = "apply", job[c].reply = "ok"
    PROVE  job[c] \in SaveJob /\ job[c].got \in Cred /\ Home[c] \in Procs
  BY JobShapes, HomeAssumption DEF TypeInv, LocksOK, SaveJob, RejectJob

LEMMA SaveType ==
    ASSUME TypeInv, NEW c \in Callers, Save(c) PROVE TypeInv'
  <1>1. job[c].got \in Cred /\ Home[c] \in Procs
    BY SaveShape DEF Save
  <1>2. enriching' \in [Procs -> Cred \cup {NoCred}]
    BY <1>1, SpawnedType DEF Save, TypeInv
  <1>3. CredsOK'
    BY <1>1, <1>2, NoVerdictType DEF Save, TypeInv, CredsOK
  <1>4. LocksOK'
    BY FinishLocks DEF Save, TypeInv
  <1>5. HistoryOK'
    BY DEF Save, Overtake, TypeInv, HistoryOK, ivars
  <1> QED BY <1>3, <1>4, <1>5, RestOK DEF Save, TypeInv

LEMMA SaveFailsType ==
    ASSUME TypeInv, NEW c \in Callers, SaveFails(c) PROVE TypeInv'
  <1>1. job[c].got \in Cred /\ Home[c] \in Procs
    BY SaveShape DEF SaveFails
  <1>2. enriching' \in [Procs -> Cred \cup {NoCred}]
    BY <1>1, SpawnedType DEF SaveFails, TypeInv
  <1>3. CredsOK'
    BY <1>1, <1>2, NoVerdictType DEF SaveFails, TypeInv, CredsOK
  <1>4. LocksOK'
    BY FinishLocks DEF SaveFails, TypeInv
  <1>5. HistoryOK'
    BY DEF SaveFails, Disturb, TypeInv, HistoryOK, ivars
  <1> QED BY <1>3, <1>4, <1>5, RestOK DEF SaveFails, TypeInv

LEMMA RejectShape ==
    ASSUME TypeInv, NEW c \in Callers, job[c].pc = "apply", job[c].reply # "ok"
    PROVE  /\ job[c] \in RejectJob /\ job[c].tried \in Cred /\ Home[c] \in Procs
           /\ job[c].reply \in {"refused", "other"}
           /\ job[c].tried.key \in 1 .. MaxMint
  <1>1. job[c] \in RejectJob
    BY JobShapes DEF TypeInv, LocksOK, SaveJob, RejectJob
  <1> QED BY <1>1, HomeAssumption DEF RejectJob, Cred

LEMMA RecordCreds ==
    ASSUME TypeInv, NEW c \in Callers, Record(c), UNCHANGED <<disk, inner, enriching>>,
           job[c].pc \in {"apply", "judge"}, job[c].reply # "ok"
    PROVE  CredsOK'
  <1> DEFINE v == [key |-> job[c].tried.key, sticky |-> job[c].reply = "refused"]
  <1>1. job[c].tried.key \in 1 .. MaxMint /\ Home[c] \in Procs
    <2>1. job[c] \in RejectJob \cup JudgeJob
      BY JobShapes DEF TypeInv, LocksOK, SaveJob
    <2> QED BY <2>1, HomeAssumption DEF RejectJob, JudgeJob, Cred
  <1>2. v \in [key : 0 .. MaxMint, sticky : BOOLEAN]
    BY <1>1
  <1>3. verdict' = [verdict EXCEPT ![Home[c]] = v]
    BY DEF Record
  <1>4. verdict' \in [Procs -> [key : 0 .. MaxMint, sticky : BOOLEAN]]
    <2> HIDE DEF v
    <2> QED BY <1>1, <1>2, <1>3 DEF TypeInv, CredsOK
  <1> QED BY <1>4 DEF TypeInv, CredsOK

LEMMA RejectType ==
    ASSUME TypeInv, NEW c \in Callers, Reject(c) PROVE TypeInv'
  <1>1. job[c] \in RejectJob /\ Home[c] \in Procs /\ mutex[Home[c]] = c
    BY RejectShape DEF Reject, TypeInv, LocksOK, PastMutex
  <1>2. CredsOK' /\ LocksOK'
    <2>1. CASE /\ MayAdopt(Home[c], job[c].reason)
               /\ HotSwap(Home[c], disk) /\ Finish(c)
      BY <2>1, AdoptOK DEF Reject
    <2>2. CASE Record(c) /\ Finish(c) /\ UNCHANGED <<disk, inner>>
      <3>1. CredsOK'
        BY <2>2, RecordCreds DEF Reject
      <3> QED BY <2>2, <3>1, FinishLocks DEF TypeInv
    <2>3. CASE job[c].reply = "refused" /\ Step(c, "judge") /\ UNCHANGED <<cvars, lvars>>
      <3> DEFINE j == [job[c] EXCEPT !.pc = "judge"]
      <3>1. j \in Jobs
        BY <1>1, <2>3 DEF RejectJob, JudgeJob, Jobs
      <3>2. Goto(c, j) /\ UNCHANGED <<cvars, enriching, mutex, holder>>
        BY <2>3 DEF Step, Reject, lvars
      <3> HIDE DEF j
      <3> QED BY <1>1, <3>1, <3>2, PlainOK DEF TypeInv, LocksOK
    <2> QED BY <2>1, <2>2, <2>3 DEF Reject
  <1>3. excused' \in BOOLEAN
    BY DEF Reject, Unsaved, Live, TypeInv, HistoryOK
  <1>4. HistoryOK'
    BY <1>3 DEF Reject, TypeInv, HistoryOK, ivars
  <1> QED BY <1>2, <1>4, RestOK DEF Reject, TypeInv

LEMMA JudgeShape ==
    ASSUME TypeInv, NEW c \in Callers, job[c].pc = "judge"
    PROVE  /\ job[c] \in JudgeJob /\ job[c].tried \in Cred /\ Home[c] \in Procs
           /\ mutex[Home[c]] = c /\ job[c].reply = "refused"
  BY JobShapes, HomeAssumption DEF TypeInv, LocksOK, PastMutex, JudgeJob

LEMMA JudgeType ==
    ASSUME TypeInv, NEW c \in Callers, Judge(c) PROVE TypeInv'
  <1>1. job[c] \in JudgeJob /\ mutex[Home[c]] = c
    BY JudgeShape DEF Judge
  <1>2. CASE Finish(c) /\ UNCHANGED <<verdict, raced>>
    <2>1. CredsOK' /\ LocksOK'
      BY <1>2, PlainOK DEF Judge, cvars
    <2>2. HistoryOK'
      BY <1>2 DEF Judge, TypeInv, HistoryOK, ivars
    <2> QED BY <2>1, <2>2, RestOK DEF Judge, TypeInv
  <1>3. CASE ~Superseded(job[c].tried) /\ Record(c) /\ raced' = raced \ {c}
    <2>1. CredsOK'
      BY <1>1, <1>3, RecordCreds DEF Judge, JudgeJob
    <2>2. PICK j \in RemoveJob : Goto(c, j) /\ UNCHANGED lvars
      <3> DEFINE key == job[c].tried.key
                 neither == key \notin {KeyOf(inner[Home[c]]), KeyOf(disk)}
                 file == neither \/ KeyOf(disk) = key
                 mem == neither \/ KeyOf(inner[Home[c]]) = key
                 j == [pc |-> IF file THEN "unfile" ELSE "unmem",
                       reason |-> job[c].reason, mem |-> mem]
      <3>1. Goto(c, j) /\ UNCHANGED lvars
        BY <1>3 DEF Judge
      <3>2. mem \in BOOLEAN /\ (~file => mem = TRUE) /\ job[c].reason \in Reasons
        BY <1>1 DEF JudgeJob
      <3> HIDE DEF mem, file
      <3>3. j \in RemoveJob
        <4>1. CASE file
          BY <3>2, <4>1 DEF RemoveJob
        <4>2. CASE ~file
          BY <3>2, <4>2 DEF RemoveJob
        <4> QED BY <4>1, <4>2
      <3> QED BY <3>1, <3>3
    <2>3. LocksOK'
      <3>1. j \in Jobs
        BY DEF Jobs
      <3> QED BY <1>1, <2>2, <3>1, GotoLocks DEF lvars, TypeInv, LocksOK
    <2>4. HistoryOK'
      BY <1>3 DEF Judge, TypeInv, HistoryOK, ivars
    <2> QED BY <2>1, <2>3, <2>4, RestOK DEF Judge, TypeInv
  <1> QED BY <1>2, <1>3 DEF Judge

LEMMA RemoveShape ==
    ASSUME TypeInv, NEW c \in Callers, Removing(c)
    PROVE  job[c] \in RemoveJob /\ Home[c] \in Procs /\ mutex[Home[c]] = c
  BY JobShapes, HomeAssumption DEF Removing, TypeInv, LocksOK, PastMutex

LEMMA RemoveEntryType ==
    ASSUME TypeInv, NEW c \in Callers, RemoveEntry(c) PROVE TypeInv'
  <1>1. job[c] \in RemoveJob /\ mutex[Home[c]] = c
    BY RemoveShape DEF RemoveEntry, Removing
  <1>2. CredsOK'
    BY DEF RemoveEntry, TypeInv, CredsOK
  <1>3. LocksOK'
    <2>1. CASE Finish(c)
      BY <2>1, FinishLocks DEF TypeInv
    <2>2. CASE job[c].mem /\ Step(c, "unmem") /\ UNCHANGED lvars
      <3> DEFINE j == [job[c] EXCEPT !.pc = "unmem"]
      <3>1. j \in Jobs
        <4>1. job[c].mem = TRUE
          BY <1>1, <2>2 DEF RemoveEntry, RemoveJob
        <4>2. j \in RemoveJob
          BY <1>1, <4>1 DEF RemoveJob
        <4> QED BY <4>2 DEF Jobs
      <3>2. Goto(c, j)
        BY <2>2 DEF Step
      <3> HIDE DEF j
      <3> QED BY <1>1, <2>2, <3>1, <3>2, GotoLocks DEF lvars, TypeInv, LocksOK
    <2> QED BY <2>1, <2>2 DEF RemoveEntry
  <1>4. HistoryOK'
    BY DEF RemoveEntry, Disturb, TypeInv, HistoryOK, ivars
  <1> QED BY <1>2, <1>3, <1>4, RestOK DEF RemoveEntry, TypeInv

\* A call that still has the memory to clear.
LEMMA RemoveMove ==
    ASSUME TypeInv, NEW c \in Callers, RemoveEntry(c), ~Finish(c)
    PROVE  job[c].mem = TRUE /\ job'[c].pc = "unmem" /\ job'[c].mem = TRUE
  <1>1. job[c] \in RemoveJob
    BY RemoveShape DEF RemoveEntry, Removing
  <1>2. job[c].pc = "unfile" /\ job[c].mem /\ Step(c, "unmem")
    BY DEF RemoveEntry
  <1>3. job[c] \in [pc : {"unfile"}, reason : Reasons, mem : BOOLEAN]
    BY <1>1, <1>2 DEF RemoveJob
  <1>4. job[c].mem = TRUE
    BY <1>2, <1>3
  <1>5. job'[c] = [job[c] EXCEPT !.pc = "unmem"]
    BY <1>2 DEF Step, Goto, TypeInv, LocksOK
  <1> QED BY <1>3, <1>4, <1>5

LEMMA ClearInnerType ==
    ASSUME TypeInv, NEW c \in Callers, ClearInner(c) PROVE TypeInv'
  <1>1. CredsOK'
    BY HomeAssumption DEF ClearInner, TypeInv, CredsOK
  <1>2. LocksOK'
    BY FinishLocks DEF ClearInner, TypeInv
  <1> QED BY <1>1, <1>2, RestOK DEF ClearInner, TypeInv

LEMMA EnrichType ==
    ASSUME TypeInv, NEW p \in Procs, Enrich(p) PROVE TypeInv'
  <1>1. CredsOK'
    BY DEF Enrich, TypeInv, CredsOK
  <1> QED BY <1>1, RestOK DEF Enrich, TypeInv

LEMMA LoginType ==
    ASSUME TypeInv, NEW p \in Procs, Login(p) PROVE TypeInv'
  <1>1. PICK f \in Families :
          /\ StartFamily(f) /\ disk' = FirstOf(f)
          /\ inner' = [inner EXCEPT ![p] = FirstOf(f)]
          /\ enriching' = Spawned(p, FirstOf(f))
    BY DEF Login
  <1>2. minted + 1 \in 1 .. MaxMint /\ 1 \in 1 .. MaxMint
    BY <1>1, AuthorityAssumption DEF TypeInv, AuthorityOK, StartFamily
  <1>3. FirstOf(f) \in Cred
    BY <1>2 DEF FirstOf, Cred
  <1>4. enriching' \in [Procs -> Cred \cup {NoCred}]
    BY <1>1, <1>3, SpawnedType DEF TypeInv
  <1>5. CredsOK'
    BY <1>1, <1>3, <1>4, NoVerdictType DEF Login, TypeInv, CredsOK
  <1>6. AuthorityOK'
    <2>1. /\ current' \in [Families -> -1 .. MaxMint]
          /\ \A g \in Families : current'[g] <= minted'
      BY <1>1, AuthorityAssumption DEF TypeInv, AuthorityOK, StartFamily
    <2>2. expired' \in 0 .. minted'
      BY <1>1, <1>2 DEF Login, TypeInv, AuthorityOK, StartFamily
    <2> QED BY <2>1, <2>2, <1>1, <1>2 DEF TypeInv, AuthorityOK, StartFamily
  <1>7. HistoryOK'
    BY <1>1 DEF Login, StartFamily, Disturb, Overtake, TypeInv, HistoryOK
  <1> QED BY <1>5, <1>6, <1>7, RestOK DEF Login, TypeInv

LEMMA LogoutType ==
    ASSUME TypeInv, NEW p \in Procs, Logout(p) PROVE TypeInv'
  <1>1. CredsOK'
    BY NoVerdictType DEF Logout, TypeInv, CredsOK
  <1>2. HistoryOK'
    BY DEF Logout, Disturb, TypeInv, HistoryOK, ivars
  <1> QED BY <1>1, <1>2, RestOK DEF Logout, TypeInv

LEMMA CrashType ==
    ASSUME TypeInv, NEW p \in Procs, Crash(p) PROVE TypeInv'
  <1>1. CredsOK'
    BY NoVerdictType DEF Crash, TypeInv, CredsOK
  <1>2. Idle \in Jobs /\ ~PastMutex(Idle)
    BY DEF Jobs, Idle, PastMutex
  <1>3. LocksOK'
    <2>1. job' \in [Callers -> Jobs]
      BY <1>2 DEF Crash, TypeInv, LocksOK
    <2>2. mutex' \in [Procs -> Callers \cup {Free}] /\ holder' \in Callers \cup {Free}
      BY DEF Crash, TypeInv, LocksOK
    <2>3. ASSUME NEW c \in Callers, PastMutex(job'[c]) PROVE mutex'[Home[c]] = c
      <3>1. Home[c] # p /\ PastMutex(job[c])
        BY <1>2, <2>3 DEF Crash
      <3> QED BY <3>1, HomeAssumption DEF Crash, TypeInv, LocksOK
    <2> QED BY <2>1, <2>2, <2>3 DEF LocksOK
  <1>4. GateTypeOK'
    BY SleepAssumption DEF Crash, StartUngated, TypeInv, GateTypeOK
  <1>5. excused' \in BOOLEAN
    BY DEF Crash
  <1>6. HistoryOK'
    BY <1>5 DEF Crash, Disturb, TypeInv, HistoryOK, ivars
  <1> QED BY <1>1, <1>3, <1>4, <1>6, RestOK DEF Crash, TypeInv

LEMMA ReplaceType ==
    ASSUME TypeInv, ReplaceLockFile PROVE TypeInv'
  <1>1. LocksOK'
    BY DEF ReplaceLockFile, TypeInv, LocksOK
  <1>2. CredsOK'
    BY SameCreds DEF ReplaceLockFile, TypeInv
  <1>3. excused' \in BOOLEAN /\ broken' \in BOOLEAN
    BY DEF ReplaceLockFile
  <1>4. HistoryOK'
    BY <1>3 DEF ReplaceLockFile, Disturb, TypeInv, HistoryOK, ivars
  <1> QED BY <1>1, <1>2, <1>4, RestOK DEF ReplaceLockFile, TypeInv

LEMMA ExpireType ==
    ASSUME TypeInv, Expire PROVE TypeInv'
  <1>1. AuthorityOK'
    BY DEF Expire, TypeInv, AuthorityOK, ivars
  <1>2. CredsOK'
    BY SameCreds DEF Expire, TypeInv
  <1> QED BY <1>1, <1>2, RestOK DEF Expire, TypeInv

LEMMA VerdictAgesType ==
    ASSUME TypeInv, NEW p \in Procs, VerdictAges(p) PROVE TypeInv'
  <1>1. CredsOK'
    BY NoVerdictType DEF VerdictAges, TypeInv, CredsOK
  <1> QED BY <1>1, RestOK DEF VerdictAges, TypeInv

LEMMA EndGraceType ==
    ASSUME AuthorityOK, EndGrace, UNCHANGED expired PROVE AuthorityOK'
  <1>1. 0 \in 0 .. MaxMint
    BY AuthorityAssumption
  <1>2. grace' \in [Families -> 0 .. MaxMint]
    BY <1>1 DEF EndGrace
  <1> QED BY <1>2 DEF AuthorityOK, EndGrace

LEMMA GraceRunsOutType ==
    ASSUME TypeInv, GraceRunsOut PROVE TypeInv'
  <1>1. AuthorityOK'
    BY EndGraceType DEF GraceRunsOut, TypeInv
  <1>2. CredsOK'
    BY SameCreds DEF GraceRunsOut, TypeInv
  <1>3. HistoryOK'
    BY DEF GraceRunsOut, EndGrace, TypeInv, HistoryOK, hvars
  <1> QED BY <1>1, <1>2, <1>3, RestOK DEF GraceRunsOut, TypeInv

\* A call on the wire that saw the suspend keeps its place.
LEMMA StraddledJob ==
    ASSUME TypeInv, NEW c \in Callers, OnWire(c)
    PROVE  /\ [job[c] EXCEPT !.straddled = TRUE] \in Jobs
           /\ [job[c] EXCEPT !.straddled = TRUE].pc = job[c].pc
  <1>1. job[c] \in SendJob \cup GrantedJob \cup RefusedJob
    BY WireShape
  <1> QED BY <1>1 DEF Jobs, SendJob, GrantedJob, RefusedJob, WireJob

\* The calls that notice the suspend.
SeenBy(seen) ==
    /\ \A c \in Callers \ seen : OnWire(c) => job[c].pc = "send" /\ job[c].sends = 1
    /\ job' = [c \in Callers |->
                IF c \in seen THEN [job[c] EXCEPT !.straddled = TRUE] ELSE job[c]]

LEMMA SystemSleepsType ==
    ASSUME TypeInv, SystemSleeps PROVE TypeInv'
  <1>1. CredsOK'
    BY SameCreds DEF SystemSleeps, TypeInv
  <1>2. GateTypeOK'
    BY DEF SystemSleeps, SuspendAndWake, TypeInv, GateTypeOK
  <1>3. AuthorityOK' /\ HistoryOK' /\ LocksOK'
    <2>1. CASE UNCHANGED <<job, ivars, excused>>
      <3>1. LocksOK' /\ AuthorityOK'
        BY <2>1, RestOK DEF SystemSleeps
      <3>2. HistoryOK'
        BY <2>1 DEF SystemSleeps, TypeInv, HistoryOK, ivars
      <3> QED BY <3>1, <3>2
    <2>2. CASE /\ EndGrace
               /\ excused' = (excused \/ \E c \in Callers :
                                            job[c].pc = "send" /\ Unsaved(c))
               /\ \E seen \in SUBSET {c \in Callers : OnWire(c)} : SeenBy(seen)
      <3>1. AuthorityOK'
        BY <2>2, EndGraceType DEF SystemSleeps, TypeInv
      <3>2. HistoryOK'
        BY <2>2 DEF SystemSleeps, EndGrace, TypeInv, HistoryOK
      <3>3. \A c \in Callers : job'[c] \in Jobs /\ job'[c].pc = job[c].pc
        BY <2>2, StraddledJob DEF SeenBy, TypeInv, LocksOK
      <3>4. job' \in [Callers -> Jobs]
        BY <2>2, <3>3 DEF SeenBy
      <3>5. LocksOK'
        BY <3>3, <3>4 DEF SystemSleeps, TypeInv, LocksOK, lvars, PastMutex
      <3> QED BY <3>1, <3>2, <3>5
    <2> QED BY <2>1, <2>2 DEF SystemSleeps, SeenBy
  <1> QED BY <1>1, <1>2, <1>3 DEF TypeInv

LEMMA ListenerType ==
    ASSUME TypeInv, NEW p \in Procs, Listener(p) PROVE TypeInv'
  <1>1. CredsOK'
    BY SameCreds DEF Listener, TypeInv
  <1>2. GateTypeOK'
    BY SleepAssumption DEF Listener, RaiseGate, Drained, HoldExpires, DidWake,
                           TypeInv, GateTypeOK
  <1> QED BY <1>1, <1>2, RestOK DEF Listener, TypeInv

LEMMA SleepAnnouncedType ==
    ASSUME TypeInv, SleepAnnounced PROVE TypeInv'
  <1>1. CredsOK'
    BY SameCreds DEF SleepAnnounced, TypeInv
  <1>2. GateTypeOK'
    BY SleepAssumption DEF SleepAnnounced, AnnounceSleep, TypeInv, GateTypeOK
  <1>3. HistoryOK'
    BY DEF SleepAnnounced, Disturb, TypeInv, HistoryOK, ivars
  <1> QED BY <1>1, <1>2, <1>3, RestOK DEF SleepAnnounced, TypeInv

LEMMA TypeInit == Init => TypeInv
  <1> SUFFICES ASSUME Init PROVE TypeInv
    OBVIOUS
  <1>1. 1 \in 1 .. MaxMint /\ 1 \in Families
    BY AuthorityAssumption DEF Families
  <1>2. First \in Cred
    BY <1>1 DEF First, Cred
  <1>3. AuthorityOK
    BY <1>1, AuthorityAssumption DEF Init, AuthorityInit, AuthorityOK
  <1>4. CredsOK
    BY <1>2, NoVerdictType DEF Init, CredsOK
  <1>5. LocksOK
    BY DEF Init, LocksOK, Jobs, Idle, PastMutex
  <1>6. HistoryOK
    BY DEF Init, AuthorityInit, HistoryOK
  <1>7. GateTypeOK
    BY SleepAssumption DEF Init, GateInit, GateTypeOK
  <1> QED BY <1>3, <1>4, <1>5, <1>6, <1>7 DEF TypeInv

LEMMA TypeStep == TypeInv /\ [Next]_vars => TypeInv'
  <1> SUFFICES ASSUME TypeInv, [Next]_vars PROVE TypeInv'
    OBVIOUS
  <1>1. CASE UNCHANGED vars
    <2>1. UNCHANGED <<cvars, enriching, expired, ivars, hvars, gvars, lvars, job>>
      BY <1>1 DEF vars
    <2> QED BY <2>1, RestOK, SameCreds DEF TypeInv
  <1>2. ASSUME NEW c \in Callers, AuthCall(c) \/ Recover(c) \/ Chain(c)
        PROVE  TypeInv'
    BY <1>2, AuthCallType, RecoverType, RecheckType, AcquireLockType, LockTimedOutType,
       DeferType, ClaimSlotType, CheckGateType, ClearGateType, GrantingType,
       RefusingType, RefusingClientType, ResendType, GiveUpType, DeliverType,
       SaveType, SaveFailsType, RejectType, JudgeType, RemoveEntryType, ClearInnerType
       DEF Chain
  <1>3. ASSUME NEW p \in Procs,
               \/ PickUp(p) \/ Enrich(p) \/ Login(p) \/ Logout(p)
               \/ Crash(p) \/ VerdictAges(p) \/ Listener(p)
        PROVE  TypeInv'
    BY <1>3, PickUpType, EnrichType, LoginType, LogoutType, CrashType,
       VerdictAgesType, ListenerType
  <1>4. CASE ReplaceLockFile \/ Expire \/ GraceRunsOut \/ SleepAnnounced \/ SystemSleeps
    BY <1>4, ReplaceType, ExpireType, GraceRunsOutType, SleepAnnouncedType,
       SystemSleepsType
  <1> QED BY <1>1, <1>2, <1>3, <1>4 DEF Next

\* Every process's memory, the file, the locks and the locals of every call stay
\* in their types, for any number of processes, calls, logins, suspends and
\* faults: a call past the mutex of refresh_chain is the one its process admits,
\* refresh_tokens makes at most MaxSends attempts, and only a credential that was
\* minted is presented or saved.
THEOREM AuthTypeCorrect == Spec => []AuthTypeOK
  <1>1. Spec => []TypeInv
    BY TypeInit, TypeStep, PTL DEF Spec
  <1> QED BY <1>1, TypeImplies, PTL
----------------------------------------------------------------------------
(* The sleep gate.                                                         *)

\* The two ways a call moves leave the other calls alone.
LEMMA OthersStay ==
    ASSUME TypeInv, NEW c \in Callers,
           (\E j : Goto(c, j)) \/ UNCHANGED job
    PROVE  \A d \in Callers \ {c} : job'[d] = job[d]
  BY DEF Goto, TypeInv, LocksOK

LEMMA MovesOne ==
    ASSUME TypeInv, NEW c \in Callers, AuthCall(c) \/ Recover(c) \/ Chain(c)
    PROVE  \A d \in Callers \ {c} : job'[d] = job[d]
  <1>1. (\E j : Goto(c, j)) \/ UNCHANGED job
    <2>1. CASE AuthCall(c) \/ Recover(c)
      BY <2>1 DEF AuthCall, Recover, StartChain, LiftVerdict
    <2>2. CASE Recheck(c) \/ AcquireLock(c) \/ LockTimedOut(c)
      BY <2>2 DEF Recheck, AcquireLock, LockTimedOut, AdoptOr, Finish, Step
    <2>3. CASE Defer(c) \/ ClaimSlot(c) \/ CheckGate(c) \/ ClearGate(c)
      BY <2>3 DEF Defer, ClaimSlot, CheckGate, ClearGate, FoundStale, Undeferred,
                  Choose, Finish, Step, Send, Outcome
    <2>4. CASE \/ Granting(c) \/ Refusing(c) \/ RefusingClient(c) \/ Resend(c)
               \/ GiveUp(c) \/ Deliver(c)
      BY <2>4 DEF Granting, Refusing, RefusingClient, Resend, GiveUp, Deliver,
                  RetryWithDisk, Finish, Send, Outcome
    <2>5. CASE Save(c) \/ SaveFails(c)
      BY <2>5 DEF Save, SaveFails, Finish
    <2>6. CASE Reject(c) \/ Judge(c) \/ RemoveEntry(c) \/ ClearInner(c)
      BY <2>6 DEF Reject, Judge, RemoveEntry, ClearInner, Finish, Step
    <2> QED BY <2>1, <2>2, <2>3, <2>4, <2>5, <2>6 DEF Chain
  <1> QED BY <1>1, OthersStay

\* A step that leaves the gates alone, marks no gate as stale and puts no call
\* on the wire.
LEMMA GateFrame ==
    ASSUME TypeInv, GateInv, UNCHANGED gvars,
           \A d \in Callers : \/ job'[d] = job[d]
                              \/ job'[d].pc \notin {"clear", "send", "reply"}
                              \/ OnWire(d) /\ job'[d].pc # "clear"
    PROVE  GateInv'
  BY DEF GateInv, OnWire, gvars

LEMMA GateFrameOne ==
    ASSUME TypeInv, GateInv, UNCHANGED gvars, NEW c \in Callers,
           \A d \in Callers \ {c} : job'[d] = job[d],
           \/ job'[c] = job[c]
           \/ job'[c].pc \notin {"clear", "send", "reply"}
           \/ OnWire(c) /\ job'[c].pc # "clear"
    PROVE  GateInv'
  BY GateFrame

\* While a listener holds or has given its answer, its gate reads as raised, and
\* no call of its process finds it stale.
LEMMA GateUp ==
    ASSUME TypeInv, GateInv, NEW c \in Callers,
           power = "announced", ack[Home[c]] \notin {"idle", "missed"}
    PROVE  /\ gate[Home[c]] # 0 /\ ~MayBeStale(Home[c])
           /\ job[c].pc = "clear" => gate[Home[c]] \notin {0, job[c].seen}
  <1>1. /\ Home[c] \in Procs /\ gate[Home[c]] = sleeps /\ sleeps > 0 /\ sleeps \in Nat
        /\ job[c].pc = "clear" => job[c].seen < sleeps
    BY HomeAssumption DEF GateInv, TypeInv, GateTypeOK
  <1>2. job[c].pc = "clear" => job[c].seen \in Nat
    BY JobShapes DEF TypeInv, LocksOK, ClearJob
  <1> QED BY <1>1, <1>2 DEF MayBeStale

\* The gate and the locals of c after one of its steps.
LEMMA GateMove ==
    ASSUME TypeInv, GateInv, NEW c \in Callers, UNCHANGED <<power, sleeps, ack>>,
           \A d \in Callers \ {c} : job'[d] = job[d],
           UNCHANGED gate \/ LowerGate(Home[c]),
           power = "announced" /\ ack[Home[c]] \notin {"idle", "missed"} =>
              UNCHANGED gate,
           job'[c].pc = "clear" => job'[c].seen <= sleeps,
           power = "announced" /\ job'[c].pc = "clear" => job'[c].seen < sleeps,
           power = "announced" /\ ack[Home[c]] = "acked" =>
              job'[c].pc \notin {"send", "reply"}
    PROVE  GateInv'
  <1> Home[c] \in Procs
    BY HomeAssumption
  <1>1. \A p \in Procs : gate'[p] <= sleeps'
    BY DEF TypeInv, GateTypeOK, GateInv, LowerGate
  <1>2. power' = "awake" => \A p \in Procs : ack'[p] = "idle"
    BY DEF GateInv
  <1>3. power' = "announced" => sleeps' > 0
    BY DEF GateInv
  <1>4. ASSUME power' = "announced", NEW p \in Procs, ack'[p] \notin {"idle", "missed"}
        PROVE  gate'[p] = sleeps'
    BY <1>4 DEF TypeInv, GateTypeOK, GateInv, LowerGate
  <1>5. ASSUME power' = "announced", NEW d \in Callers
        PROVE  /\ job'[d].pc = "clear" => job'[d].seen < sleeps'
               /\ ack'[Home[d]] = "acked" => job'[d].pc \notin {"send", "reply"}
    BY <1>5 DEF GateInv, OnWire
  <1>6. \A d \in Callers : job'[d].pc = "clear" => job'[d].seen <= sleeps'
    BY DEF GateInv
  <1> QED BY <1>1, <1>2, <1>3, <1>4, <1>5, <1>6 DEF GateInv, OnWire

LEMMA DeferGate ==
    ASSUME TypeInv, GateInv, NEW c \in Callers, Defer(c)
    PROVE  GateInv'
  <1>1. \A d \in Callers \ {c} : job'[d] = job[d]
    BY MovesOne DEF Chain
  <1>2. CASE Finish(c) \/ Undeferred(c)
    <2>1. job'[c].pc \in {"idle", "claim", "relock"}
      BY <1>2 DEF Finish, Undeferred, Goto, Idle, TypeInv, LocksOK
    <2> QED BY <1>1, <2>1, GateFrameOne DEF Defer
  <1>3. CASE FoundStale(c, FALSE)
    <2>1. job'[c].pc = "clear" /\ job'[c].seen = gate[Home[c]] /\ MayBeStale(Home[c])
      BY <1>3 DEF FoundStale, Goto, TypeInv, LocksOK
    <2>2. gate[Home[c]] <= sleeps /\ (power = "announced" => gate[Home[c]] < sleeps)
      BY <2>1, HomeAssumption DEF MayBeStale, GateInv
    <2> QED BY <1>1, <2>1, <2>2, GateMove DEF Defer, gvars
  <1> QED BY <1>2, <1>3 DEF Defer

LEMMA ChosenPc ==
    ASSUME TypeInv, NEW c \in Callers, Choose(c)
    PROVE  job'[c].pc \in {"idle", "send", "apply"}
  BY DEF Choose, Outcome, Send, Finish, Goto, Idle, TypeInv, LocksOK

LEMMA CheckGateGate ==
    ASSUME TypeInv, GateInv, NEW c \in Callers, CheckGate(c)
    PROVE  GateInv'
  <1>1. \A d \in Callers \ {c} : job'[d] = job[d]
    BY MovesOne DEF Chain
  <1>2. CASE Finish(c)
    <2>1. job'[c].pc = "idle"
      BY <1>2 DEF Finish, Goto, Idle, TypeInv, LocksOK
    <2> QED BY <1>1, <2>1, GateFrameOne DEF CheckGate
  <1>3. CASE gate[Home[c]] = 0 /\ Choose(c)
    <2>1. job'[c].pc \in {"idle", "send", "apply"}
      BY <1>3, ChosenPc
    <2>2. ~(power = "announced" /\ ack[Home[c]] = "acked")
      BY <1>3, GateUp
    <2> QED BY <1>1, <2>1, <2>2, GateMove DEF CheckGate, gvars
  <1>4. CASE FoundStale(c, TRUE)
    <2>1. job'[c].pc = "clear" /\ job'[c].seen = gate[Home[c]] /\ MayBeStale(Home[c])
      BY <1>4 DEF FoundStale, Goto, TypeInv, LocksOK
    <2>2. gate[Home[c]] <= sleeps /\ (power = "announced" => gate[Home[c]] < sleeps)
      BY <2>1, HomeAssumption DEF MayBeStale, GateInv
    <2> QED BY <1>1, <2>1, <2>2, GateMove DEF CheckGate, gvars
  <1> QED BY <1>2, <1>3, <1>4 DEF CheckGate

LEMMA ClearGateGate ==
    ASSUME TypeInv, GateInv, NEW c \in Callers, ClearGate(c)
    PROVE  GateInv'
  <1>1. \A d \in Callers \ {c} : job'[d] = job[d]
    BY MovesOne DEF Chain
  <1>2. CASE Finish(c) /\ UNCHANGED gvars
    <2>1. job'[c].pc = "idle"
      BY <1>2 DEF Finish, Goto, Idle, TypeInv, LocksOK
    <2> QED BY <1>1, <1>2, <2>1, GateFrameOne
  <1>3. CASE /\ gate[Home[c]] \in {0, job[c].seen} /\ LowerGate(Home[c])
             /\ Choose(c) \/ Undeferred(c)
    <2>1. job'[c].pc \in {"idle", "send", "apply", "claim", "relock"}
      BY <1>3, ChosenPc DEF Undeferred, Finish, Goto, Idle, TypeInv, LocksOK
    <2>2. ~(power = "announced" /\ ack[Home[c]] \notin {"idle", "missed"})
      BY <1>3, GateUp DEF ClearGate
    <2> QED BY <1>1, <1>3, <2>1, <2>2, GateMove DEF LowerGate
  <1> QED BY <1>2, <1>3 DEF ClearGate

\* Where the steps after a refusal leave the call.
LEMMA DiscardPc ==
    ASSUME TypeInv, NEW c \in Callers,
           Reject(c) \/ Judge(c) \/ RemoveEntry(c) \/ ClearInner(c)
    PROVE  job'[c].pc \in {"idle", "judge", "unfile", "unmem"}
  <1>1. CASE Finish(c)
    BY <1>1 DEF Finish, Goto, Idle, TypeInv, LocksOK
  <1>2. CASE Reject(c) /\ Step(c, "judge")
    <2>1. job[c] \in RejectJob
      BY <1>2, RejectShape DEF Reject
    <2> QED BY <1>2, <2>1 DEF Step, Goto, RejectJob, TypeInv, LocksOK
  <1>3. CASE Judge(c) /\ ~Finish(c)
    BY <1>3 DEF Judge, Goto, TypeInv, LocksOK
  <1>4. CASE RemoveEntry(c) /\ Step(c, "unmem")
    <2>1. job[c] \in RemoveJob
      BY <1>4, RemoveShape DEF RemoveEntry, Removing
    <2> QED BY <1>4, <2>1 DEF Step, Goto, RemoveJob, TypeInv, LocksOK
  <1> QED BY <1>1, <1>2, <1>3, <1>4 DEF Reject, Judge, RemoveEntry, ClearInner

\* The other steps of a call keep the gates; they leave it off the wire, or find
\* it there.
LEMMA CallGate ==
    ASSUME TypeInv, GateInv, NEW c \in Callers, AuthCall(c) \/ Recover(c) \/ Chain(c)
    PROVE  GateInv'
  <1>1. \A d \in Callers \ {c} : job'[d] = job[d]
    BY MovesOne
  <1>2. CASE AuthCall(c) \/ Recover(c)
    <2>1. job'[c] = job[c] \/ job'[c].pc = "mutex"
      BY <1>2 DEF AuthCall, Recover, StartChain, LiftVerdict, Goto, TypeInv, LocksOK
    <2> QED BY <1>1, <1>2, <2>1, GateFrameOne DEF AuthCall, Recover
  <1>3. CASE Recheck(c) \/ AcquireLock(c) \/ LockTimedOut(c) \/ ClaimSlot(c)
    <2>1. job'[c].pc \in {"idle", "lock", "defer", "claim", "gate"}
      <3>1. CASE Recheck(c) \/ LockTimedOut(c)
        BY <3>1 DEF Recheck, LockTimedOut, AdoptOr, Finish, Goto, Idle, TypeInv, LocksOK
      <3>2. CASE AcquireLock(c) \/ ClaimSlot(c)
        <4>1. job[c] \in LockJob
          BY <3>2, JobShapes DEF AcquireLock, ClaimSlot, TypeInv, LocksOK
        <4> QED BY <3>2, <4>1 DEF AcquireLock, ClaimSlot, AdoptOr, Finish, Goto, Step,
                                  Idle, LockJob, TypeInv, LocksOK
      <3> QED BY <1>3, <3>1, <3>2
    <2> QED BY <1>1, <1>3, <2>1, GateFrameOne
            DEF Recheck, AcquireLock, LockTimedOut, ClaimSlot
  <1>4. CASE Defer(c) \/ CheckGate(c) \/ ClearGate(c)
    BY <1>4, DeferGate, CheckGateGate, ClearGateGate
  <1>5. CASE \/ Granting(c) \/ Refusing(c) \/ RefusingClient(c) \/ Resend(c)
             \/ GiveUp(c) \/ Deliver(c)
    <2>1. OnWire(c)
      BY <1>5 DEF Granting, Refusing, RefusingClient, Resend, GiveUp, Deliver, OnWire
    <2>2. job'[c].pc # "clear"
      <3>1. job[c] \in SendJob \cup GrantedJob \cup RefusedJob
        BY <2>1, WireShape
      <3>2. CASE Granting(c) \/ Refusing(c) \/ RefusingClient(c) \/ Resend(c)
        <4>1. DOMAIN job = Callers /\ "pc" \in DOMAIN job[c]
          BY <3>1 DEF SendJob, GrantedJob, RefusedJob, WireJob, TypeInv, LocksOK
        <4>2. CASE Granting(c)
          BY <4>1, <4>2 DEF Granting, Goto
        <4>3. CASE Refusing(c)
          BY <4>1, <4>3 DEF Refusing, Goto
        <4>4. CASE RefusingClient(c)
          BY <4>1, <4>4 DEF RefusingClient, Goto
        <4>5. CASE Resend(c)
          BY <4>1, <4>5 DEF Resend, Goto
        <4> QED BY <3>2, <4>2, <4>3, <4>4, <4>5
      <3>3. CASE GiveUp(c) \/ Deliver(c)
        BY <3>3 DEF GiveUp, Deliver, RetryWithDisk, Finish, Send, Outcome, Goto, Idle,
                    TypeInv, LocksOK
      <3> QED BY <1>5, <3>2, <3>3
    <2> QED BY <1>1, <1>5, <2>1, <2>2, GateFrameOne
            DEF Granting, Refusing, RefusingClient, Resend, GiveUp, Deliver
  <1>6. CASE Save(c) \/ SaveFails(c)
    <2>1. job'[c].pc = "idle"
      BY <1>6 DEF Save, SaveFails, Finish, Goto, Idle, TypeInv, LocksOK
    <2> QED BY <1>1, <1>6, <2>1, GateFrameOne DEF Save, SaveFails
  <1>7. CASE Reject(c) \/ Judge(c) \/ RemoveEntry(c) \/ ClearInner(c)
    <2>1. job'[c].pc \in {"idle", "judge", "unfile", "unmem"}
      BY <1>7, DiscardPc
    <2> QED BY <1>1, <1>7, <2>1, GateFrameOne DEF Reject, Judge, RemoveEntry, ClearInner
  <1> QED BY <1>2, <1>3, <1>4, <1>5, <1>6, <1>7 DEF Chain

LEMMA CrashGate ==
    ASSUME TypeInv, GateInv, NEW p \in Procs, Crash(p)
    PROVE  GateInv'
  <1>1. /\ UNCHANGED <<power, sleeps>>
        /\ \A q \in Procs : gate'[q] \in {0, gate[q]}
        /\ \A q \in Procs \ {p} : gate'[q] = gate[q] /\ ack'[q] = ack[q]
        /\ power = "announced" => ack'[p] = "missed"
        /\ power = "awake" => ack' = ack
    BY DEF Crash, StartUngated, TypeInv, GateTypeOK
  <1>2. \A c \in Callers : job'[c] = job[c] \/ job'[c].pc = "idle"
    BY DEF Crash, Idle
  <1>3. sleeps \in Nat /\ \A c \in Callers : Home[c] \in Procs
    BY HomeAssumption DEF TypeInv, GateTypeOK
  <1>4. power = "announced" => \A q \in Procs :
          ack'[q] \notin {"idle", "missed"} => gate'[q] = sleeps
    BY <1>1 DEF GateInv
  <1>5. ASSUME power = "announced", NEW c \in Callers, ack'[Home[c]] = "acked"
        PROVE  job'[c].pc \notin {"send", "reply"}
    BY <1>1, <1>2, <1>3, <1>5 DEF GateInv, OnWire
  <1> QED BY <1>1, <1>2, <1>3, <1>4, <1>5 DEF GateInv, OnWire

LEMMA ListenerGate ==
    ASSUME TypeInv, GateInv, NEW p \in Procs, Listener(p)
    PROVE  GateInv'
  <1> UNCHANGED <<job, power, sleeps>>
    BY DEF Listener, RaiseGate, Drained, HoldExpires, DidWake
  <1>1. CASE RaiseGate(p)
    BY <1>1 DEF RaiseGate, GateInv, TypeInv, GateTypeOK, OnWire
  <1>2. CASE Drained(p, InFlight(p))
    <2>1. \A c \in Callers : Home[c] = p => ~OnWire(c)
      BY <1>2 DEF Drained, InFlight, OnWire, OfProc
    <2>2. power = "announced"
      BY <1>2 DEF Drained, GateInv, TypeInv, GateTypeOK
    <2> QED BY <1>2, <2>1, <2>2, HomeAssumption
            DEF Drained, GateInv, TypeInv, GateTypeOK, OnWire
  <1>3. CASE HoldExpires(p, InFlight(p))
    <2>1. power = "announced"
      BY <1>3 DEF HoldExpires, GateInv, TypeInv, GateTypeOK
    <2> QED BY <1>3, <2>1, HomeAssumption
            DEF HoldExpires, GateInv, TypeInv, GateTypeOK, OnWire
  <1>4. CASE DidWake(p)
    BY <1>4 DEF DidWake, GateInv, TypeInv, GateTypeOK, OnWire
  <1> QED BY <1>1, <1>2, <1>3, <1>4 DEF Listener

LEMMA SleepGateStep ==
    ASSUME TypeInv, GateInv, SleepAnnounced \/ SystemSleeps
    PROVE  GateInv'
  <1>1. CASE SleepAnnounced
    <2>1. \A c \in Callers : job[c].pc = "clear" => job[c].seen \in Nat
      BY JobShapes DEF TypeInv, LocksOK, ClearJob
    <2>2. \A c \in Callers : Home[c] \in Procs
      BY HomeAssumption
    <2>3. /\ sleeps' = sleeps + 1 /\ sleeps \in Nat /\ UNCHANGED <<gate, ack, job>>
          /\ power = "awake" /\ power' = "announced" /\ gate \in [Procs -> Nat]
      BY <1>1 DEF SleepAnnounced, AnnounceSleep, TypeInv, GateTypeOK
    <2>4. \A p \in Procs : gate'[p] <= sleeps'
      BY <2>3 DEF GateInv
    <2>5. \A c \in Callers : job'[c].pc = "clear" =>
             job'[c].seen <= sleeps' /\ job'[c].seen < sleeps'
      BY <2>1, <2>3 DEF GateInv
    <2>6. \A p \in Procs : ack'[p] = "idle"
      BY <2>3 DEF GateInv
    <2> QED BY <2>2, <2>3, <2>4, <2>5, <2>6 DEF GateInv
  <1>2. CASE SystemSleeps
    <2>1. /\ power' = "awake" /\ UNCHANGED <<sleeps, gate>>
          /\ \A p \in Procs : ack'[p] = "idle"
      BY <1>2 DEF SystemSleeps, SuspendAndWake
    <2>2. \A c \in Callers : job'[c].pc = "clear" => job'[c] = job[c]
      <3>1. \A c \in Callers : OnWire(c) =>
               [job[c] EXCEPT !.straddled = TRUE].pc \in {"send", "reply"}
        BY StraddledJob DEF OnWire
      <3>2. \A c \in Callers :
               \/ job'[c] = job[c]
               \/ OnWire(c) /\ job'[c] = [job[c] EXCEPT !.straddled = TRUE]
        BY <1>2 DEF SystemSleeps
      <3> QED BY <3>1, <3>2
    <2> QED BY <2>1, <2>2 DEF GateInv
  <1> QED BY <1>1, <1>2

LEMMA GateInit0 == Init => GateInv
  BY SleepAssumption DEF Init, GateInit, GateInv, OnWire, Idle

LEMMA GateStep == TypeInv /\ GateInv /\ [Next]_vars => GateInv'
  <1> SUFFICES ASSUME TypeInv, GateInv, [Next]_vars PROVE GateInv'
    OBVIOUS
  <1>1. CASE UNCHANGED vars
    BY <1>1, GateFrame DEF vars
  <1>2. ASSUME NEW c \in Callers, AuthCall(c) \/ Recover(c) \/ Chain(c)
        PROVE  GateInv'
    BY <1>2, CallGate
  <1>3. ASSUME NEW p \in Procs,
               \/ PickUp(p) \/ Enrich(p) \/ Login(p) \/ Logout(p)
               \/ Crash(p) \/ VerdictAges(p) \/ Listener(p)
        PROVE  GateInv'
    <2>1. CASE PickUp(p) \/ Enrich(p) \/ Login(p) \/ Logout(p) \/ VerdictAges(p)
      BY <2>1, GateFrame DEF PickUp, Enrich, Login, Logout, VerdictAges
    <2> QED BY <1>3, <2>1, CrashGate, ListenerGate
  <1>4. CASE ReplaceLockFile \/ Expire \/ GraceRunsOut
    BY <1>4, GateFrame DEF ReplaceLockFile, Expire, GraceRunsOut
  <1>5. CASE SleepAnnounced \/ SystemSleeps
    BY <1>5, SleepGateStep
  <1> QED BY <1>1, <1>2, <1>3, <1>4, <1>5 DEF Next

\* The suspend is the only step that ends an announcement.
LEMMA NothingStraddlesStep == TypeInv /\ GateInv /\ [Next]_vars => NothingStraddles
  <1> SUFFICES ASSUME TypeInv, GateInv, [Next]_vars,
                      power = "announced", power' = "awake",
                      NEW c \in Callers, OnWire(c), Home[c] \in Listening
               PROVE  ack[Home[c]] \in {"forced", "missed"}
    BY DEF NothingStraddles
  <1>1. SuspendAndWake
    <2>1. ~UNCHANGED power
      OBVIOUS
    <2>2. \A d \in Callers : ~(AuthCall(d) \/ Recover(d) \/ Chain(d))
      BY <2>1 DEF AuthCall, Recover, Chain, Recheck, AcquireLock, LockTimedOut, Defer,
                  ClaimSlot, CheckGate, ClearGate, LowerGate, Granting, Refusing,
                  RefusingClient, Resend, GiveUp, Deliver, Save, SaveFails, Reject,
                  Judge, RemoveEntry, ClearInner, gvars
    <2>3. \A p \in Procs : ~(\/ PickUp(p) \/ Enrich(p) \/ Login(p) \/ Logout(p)
                             \/ Crash(p) \/ VerdictAges(p) \/ Listener(p))
      BY <2>1 DEF PickUp, Enrich, Login, Logout, Crash, StartUngated, VerdictAges,
                  Listener, RaiseGate, Drained, HoldExpires, DidWake, gvars
    <2>4. ~(ReplaceLockFile \/ Expire \/ GraceRunsOut \/ SleepAnnounced)
      BY <2>1 DEF ReplaceLockFile, Expire, GraceRunsOut, SleepAnnounced, AnnounceSleep,
                  gvars
    <2>5. SystemSleeps
      BY <2>1, <2>2, <2>3, <2>4 DEF Next, vars, gvars
    <2> QED BY <2>5 DEF SystemSleeps
  <1> QED BY <1>1 DEF SuspendAndWake, GateInv

\* The system never suspends with an exchange of a listening process on the wire
\* unless hold_sleep_ack_until_refresh_drains ran out or the process was started
\* after the announcement, for any number of processes and calls, however the listener, the two gate checks of a refresh, and the
\* lowering of a stale gate interleave.
THEOREM AuthNoStraddle == Spec => NoStraddle
  <1>1. Spec => [](TypeInv /\ GateInv)
    BY TypeInit, TypeStep, GateInit0, GateStep, PTL DEF Spec
  <1> QED BY <1>1, NothingStraddlesStep, PTL DEF Spec, NoStraddle

----------------------------------------------------------------------------
(* The single flight.                                                      *)

LEMMA UnsavedExchanges == \A c \in Callers : Unsaved(c) => Exchanging(c)
  BY DEF Unsaved, Exchanging

\* Only one call is past the check of the lock file.
LEMMA Alone ==
    ASSUME Flight, NEW c \in Callers, Exchanging(c)
    PROVE  \A d \in Callers \ {c} : ~Exchanging(d) /\ ~Unsaved(d)
  BY UnsavedExchanges DEF Flight

\* What is asked of the locals of one call.
Fits(j) ==
    /\ j.pc = "send" => Accepted(j.tried)
    /\ j.pc = "reply" => j.straddled \/ Accepted(j.tried)
    /\ j.pc \in {"reply", "apply"} => /\ j.reply # "refused"
                                      /\ j.reply = "ok" => Live(j.got)
    /\ j.pc \notin {"judge", "unfile", "unmem"}

Busy(j) ==
    \/ j.pc \in {"claim", "gate", "send", "reply", "apply", "judge", "unfile", "unmem"}
    \/ j.pc = "clear" /\ j.slot

\* A step of one call that leaves the file and the authority alone.
LEMMA FlightMove ==
    ASSUME TypeInv, Flight, NEW c \in Callers, UNCHANGED <<disk, ivars>>,
           \A d \in Callers \ {c} : job'[d] = job[d],
           \A d \in Callers \ {c} : holder = d => holder' = d,
           Busy(job'[c]) => holder' = c,
           Fits(job'[c]),
           Live(disk) \/ (Unsaved(c) => /\ job'[c].pc \in {"send", "reply", "apply"}
                                        /\ job'[c].tried = job[c].tried)
    PROVE  Flight'
  <1>1. ~reused' /\ disk' \in Cred
        /\ \A f \in Families : 0 <= current'[f] /\ grace'[f] <= current'[f]
    BY DEF Flight, ivars
  <1>2. \A d \in Callers : Exchanging(d)' => holder' = d
    BY DEF Flight, Exchanging, Removing, Busy
  <1>3. \A d \in Callers :
          /\ job'[d].pc = "send" => Accepted(job[d].tried)' 
          /\ job'[d].pc = "reply" => job'[d].straddled \/ Accepted(job[d].tried)'
          /\ job'[d].pc \in {"reply", "apply"} =>
               /\ job'[d].reply # "refused"
               /\ job'[d].reply = "ok" => Live(job[d].got)'
    BY DEF Flight, Fits, Accepted, Live, ivars
  <1>4. Live(disk)' \/ \E d \in Callers : Unsaved(d)'
    <2>1. CASE Live(disk)
      BY <2>1 DEF Live, ivars
    <2>2. CASE ~Live(disk)
      <3>1. PICK d \in Callers : Unsaved(d)
        BY <2>2 DEF Flight
      <3>2. job'[d].pc \in {"send", "reply", "apply"} /\ job'[d].tried = job[d].tried
        BY <2>2, <3>1 DEF Unsaved
      <3>3. Unsaved(d)'
        BY <3>1, <3>2 DEF Unsaved, Live, ivars
      <3> QED BY <3>3
    <2> QED BY <2>1, <2>2
  <1>5. \A d \in Callers : job'[d].pc \notin {"judge", "unfile", "unmem"}
    BY DEF Flight, Fits, Removing
  <1> QED BY <1>1, <1>2, <1>3, <1>4, <1>5 DEF Flight, Removing

LEMMA FinishFlight ==
    ASSUME TypeInv, Flight, NEW c \in Callers, UNCHANGED <<disk, ivars>>,
           Finish(c), Live(disk) \/ ~Unsaved(c)
    PROVE  Flight'
  <1>1. /\ job'[c] = Idle
        /\ \A d \in Callers \ {c} : job'[d] = job[d]
        /\ \A d \in Callers \ {c} : holder = d => holder' = d
    BY FinishLocks DEF TypeInv
  <1>2. ~Busy(job'[c]) /\ Fits(job'[c])
    BY <1>1 DEF Busy, Fits, Idle
  <1> QED BY <1>1, <1>2, FlightMove

\* Waiting for the locks, and the first look at the gate.
LEMMA WaitFlight ==
    ASSUME TypeInv, Flight, NEW c \in Callers,
           \/ AuthCall(c) \/ Recover(c) \/ Recheck(c) \/ AcquireLock(c)
           \/ LockTimedOut(c) \/ Defer(c) \/ ClaimSlot(c)
    PROVE  Flight'
  <1>1. UNCHANGED <<disk, ivars>>
    BY DEF AuthCall, Recover, Recheck, AcquireLock, LockTimedOut, Defer, ClaimSlot,
           StartChain, LiftVerdict, AdoptOr, HotSwap, cvars
  <1>2. \A d \in Callers \ {c} : job'[d] = job[d]
    BY MovesOne DEF Chain
  <1>3. job[c].pc \in {"idle", "mutex", "lock", "relock", "defer", "claim"}
    <2>1. CASE AuthCall(c) \/ Recover(c)
      BY <2>1 DEF AuthCall, Recover, Idle
    <2>2. CASE Recheck(c) \/ AcquireLock(c) \/ LockTimedOut(c)
      BY <2>2 DEF Recheck, AcquireLock, LockTimedOut
    <2>3. CASE Defer(c) \/ ClaimSlot(c)
      BY <2>3 DEF Defer, ClaimSlot
    <2> QED BY <2>1, <2>2, <2>3
  <1>4. ~Unsaved(c)
    BY <1>3 DEF Unsaved
  <1>5. CASE AuthCall(c) \/ Recover(c)
    <2>1. UNCHANGED holder /\ (job'[c] = job[c] \/ job'[c].pc = "mutex")
      BY <1>5 DEF AuthCall, Recover, StartChain, LiftVerdict, Goto, lvars, TypeInv, LocksOK
    <2>2. ~Busy(job'[c]) /\ Fits(job'[c])
      BY <1>5, <2>1 DEF AuthCall, Recover, Busy, Fits, Idle
    <2> QED BY <1>1, <1>2, <1>4, <2>1, <2>2, FlightMove
  <1>6. CASE Finish(c)
    BY <1>1, <1>4, <1>6, FinishFlight
  <1>7. CASE Recheck(c) /\ ~Finish(c)
    <2>1. UNCHANGED holder /\ job'[c].pc = "lock"
      BY <1>7 DEF Recheck, AdoptOr, Goto, TypeInv, LocksOK
    <2>2. ~Busy(job'[c]) /\ Fits(job'[c])
      BY <2>1 DEF Busy, Fits
    <2> QED BY <1>1, <1>2, <1>4, <2>1, <2>2, FlightMove
  <1>8. CASE AcquireLock(c) /\ ~Finish(c)
    <2>1. holder = Free /\ holder' = c
      BY <1>8 DEF AcquireLock, AdoptOr
    <2>2. job'[c].pc \in {"defer", "claim"}
      <3>1. job[c] \in LockJob
        BY <1>8, JobShapes DEF AcquireLock, TypeInv, LocksOK
      <3> QED BY <1>8, <3>1 DEF AcquireLock, AdoptOr, Step, Goto, LockJob, TypeInv, LocksOK
    <2>3. Fits(job'[c])
      BY <2>2 DEF Fits
    <2> QED BY <1>1, <1>2, <1>4, <2>1, <2>3, FlightMove, CallAssumption
  <1>9. CASE Defer(c) /\ ~Finish(c)
    <2>1. /\ UNCHANGED holder
          /\ \/ job'[c].pc = "relock" \/ (job'[c].pc = "claim" /\ holder = c)
             \/ job'[c].pc = "clear" /\ job'[c].slot = FALSE
      BY <1>9 DEF Defer, Undeferred, FoundStale, Goto, lvars, TypeInv, LocksOK
    <2>2. Fits(job'[c]) /\ (Busy(job'[c]) => holder' = c)
      BY <2>1 DEF Fits, Busy
    <2> QED BY <1>1, <1>2, <1>4, <2>1, <2>2, FlightMove
  <1>10. CASE ClaimSlot(c)
    <2>1. job[c] \in LockJob /\ UNCHANGED holder
      BY <1>10, JobShapes DEF ClaimSlot, TypeInv, LocksOK, lvars
    <2>2. job'[c].pc = "gate"
      BY <1>10, <2>1 DEF ClaimSlot, Step, Goto, LockJob, TypeInv, LocksOK
    <2>3. holder = c
      BY <1>10 DEF ClaimSlot, Flight, Exchanging
    <2>4. Fits(job'[c])
      BY <2>2 DEF Fits
    <2> QED BY <1>1, <1>2, <1>4, <2>1, <2>3, <2>4, FlightMove
  <1>11. CASE LockTimedOut(c)
    BY <1>6, <1>11 DEF LockTimedOut, AdoptOr
  <1> QED BY <1>5, <1>6, <1>7, <1>8, <1>9, <1>10, <1>11

\* Past the second look at the gate: the file names a live token, and that is
\* what is spent.
LEMMA ChooseFlight ==
    ASSUME TypeInv, Flight, NEW c \in Callers, Exchanging(c), Choose(c),
           job[c].pc \in {"gate", "clear"}, UNCHANGED <<disk, ivars>>
    PROVE  Flight'
  <1>1. ~Unsaved(c) /\ Live(disk)
    BY Alone DEF Unsaved, Flight
  <1>2. disk # NoCred /\ holder = c
    BY NoCredAssumption DEF Flight
  <1>3. \A d \in Callers \ {c} : job'[d] = job[d]
    BY OthersStay DEF Choose, Outcome, Send, Finish
  <1>4. Resolve(Home[c], job[c].reason) = disk
    BY <1>2 DEF Resolve
  <1>5. CASE Outcome(c, NoCred, "ok", disk) /\ UNCHANGED lvars
    <2>1. /\ job'[c].pc = "apply" /\ job'[c].reply = "ok" /\ job'[c].got = disk
          /\ UNCHANGED holder
      BY <1>5 DEF Outcome, Goto, lvars, TypeInv, LocksOK
    <2>2. Fits(job'[c])
      BY <1>1, <2>1 DEF Fits
    <2> QED BY <1>1, <1>2, <1>3, <2>1, <2>2, FlightMove
  <1>6. CASE Finish(c)
    BY <1>1, <1>6, FinishFlight
  <1>7. CASE Send(c, disk, FALSE) /\ UNCHANGED lvars
    <2>1. job'[c].pc = "send" /\ job'[c].tried = disk /\ UNCHANGED holder
      BY <1>7 DEF Send, Goto, lvars, TypeInv, LocksOK
    <2>2. Fits(job'[c])
      BY <1>1, <2>1 DEF Fits, Accepted
    <2> QED BY <1>1, <1>2, <1>3, <2>1, <2>2, FlightMove
  <1> QED BY <1>4, <1>5, <1>6, <1>7 DEF Choose

LEMMA GateCheckFlight ==
    ASSUME TypeInv, Flight, NEW c \in Callers, CheckGate(c) \/ ClearGate(c)
    PROVE  Flight'
  <1>1. UNCHANGED <<disk, ivars>> /\ ~Unsaved(c)
    BY DEF CheckGate, ClearGate, Unsaved, cvars
  <1>2. \A d \in Callers \ {c} : job'[d] = job[d]
    BY MovesOne DEF Chain
  <1>3. CASE Finish(c)
    BY <1>1, <1>3, FinishFlight
  <1>4. CASE CheckGate(c) /\ Choose(c)
    BY <1>1, <1>4, ChooseFlight DEF CheckGate, Exchanging
  <1>5. CASE CheckGate(c) /\ FoundStale(c, TRUE)
    <2>1. job'[c].pc = "clear" /\ UNCHANGED holder
      BY <1>5 DEF FoundStale, Goto, lvars, TypeInv, LocksOK
    <2>2. holder = c /\ Fits(job'[c])
      BY <1>5, <2>1 DEF CheckGate, Flight, Exchanging, Fits
    <2> QED BY <1>1, <1>2, <2>1, <2>2, FlightMove
  <1>6. CASE ClearGate(c) /\ job[c].slot /\ Choose(c)
    BY <1>1, <1>6, ChooseFlight DEF ClearGate, Exchanging
  <1>7. CASE ClearGate(c) /\ Undeferred(c) /\ ~Finish(c)
    <2>1. /\ UNCHANGED holder
          /\ job'[c].pc = "relock" \/ (job'[c].pc = "claim" /\ holder = c)
      BY <1>7 DEF Undeferred, Goto, lvars, TypeInv, LocksOK
    <2>2. Fits(job'[c]) /\ (Busy(job'[c]) => holder' = c)
      BY <2>1 DEF Fits, Busy
    <2> QED BY <1>1, <1>2, <2>1, <2>2, FlightMove
  <1> QED BY <1>3, <1>4, <1>5, <1>6, <1>7 DEF CheckGate, ClearGate

\* The answers that reach the call, and the requests sent again.
LEMMA WireFlight ==
    ASSUME TypeInv, Flight, NEW c \in Callers, ~excused',
           RefusingClient(c) \/ Resend(c) \/ GiveUp(c) \/ Deliver(c)
    PROVE  Flight'
  <1>1. UNCHANGED <<disk, ivars>> /\ OnWire(c)
    BY DEF RefusingClient, Resend, GiveUp, Deliver, OnWire, cvars
  <1>2. /\ job[c] \in SendJob \cup GrantedJob \cup RefusedJob
        /\ \A d \in Callers \ {c} : job'[d] = job[d]
    BY <1>1, WireShape, MovesOne DEF Chain
  <1>3. holder = c
    BY <1>1 DEF OnWire, Flight, Exchanging
  <1>4. CASE RefusingClient(c)
    <2>1. /\ job'[c].pc = "reply" /\ job'[c].reply = "other"
          /\ job'[c].tried = job[c].tried /\ UNCHANGED holder
      BY <1>2, <1>4 DEF RefusingClient, Goto, lvars, TypeInv, LocksOK, SendJob,
                        GrantedJob, RefusedJob, WireJob
    <2>2. Fits(job'[c])
      BY <1>4, <2>1 DEF RefusingClient, Flight, Fits
    <2> QED BY <1>1, <1>2, <1>3, <2>1, <2>2, FlightMove
  <1>5. CASE Resend(c)
    <2>1. job'[c].pc = "send" /\ job'[c].tried = job[c].tried /\ UNCHANGED holder
      BY <1>2, <1>5 DEF Resend, Goto, lvars, TypeInv, LocksOK, SendJob,
                        GrantedJob, RefusedJob, WireJob
    <2>2. Accepted(job[c].tried)
      BY <1>1, <1>5 DEF Resend, OnWire, Flight
    <2>3. Fits(job'[c])
      BY <2>1, <2>2 DEF Fits
    <2> QED BY <1>1, <1>2, <1>3, <2>1, <2>3, FlightMove
  <1>6. CASE GiveUp(c) /\ Finish(c) /\ excused' = (excused \/ Unsaved(c))
    BY <1>1, <1>6, FinishFlight
  <1>7. CASE Outcome(c, job[c].tried, "other", NoCred) /\ UNCHANGED lvars
    <2>1. /\ job'[c].pc = "apply" /\ job'[c].reply = "other"
          /\ job'[c].tried = job[c].tried /\ UNCHANGED holder
      BY <1>7 DEF Outcome, Goto, lvars, TypeInv, LocksOK
    <2>2. Fits(job'[c])
      BY <2>1 DEF Fits
    <2> QED BY <1>1, <1>2, <1>3, <2>1, <2>2, FlightMove
  <1>8. CASE Deliver(c)
    <2>1. job[c].reply # "refused" /\ (job[c].reply = "ok" => Live(job[c].got))
      BY <1>8 DEF Deliver, Flight
    <2>2. /\ job'[c].pc = "apply" /\ job'[c].reply = job[c].reply
          /\ job'[c].tried = job[c].tried /\ job'[c].got = job[c].got /\ UNCHANGED holder
      BY <1>8, <2>1 DEF Deliver, Outcome, Goto, lvars, TypeInv, LocksOK
    <2>3. Fits(job'[c])
      BY <2>1, <2>2 DEF Fits
    <2> QED BY <1>1, <1>2, <1>3, <2>2, <2>3, FlightMove
  <1> QED BY <1>4, <1>5, <1>6, <1>7, <1>8 DEF GiveUp

\* A grant: the token of the call is rotated, and stays accepted in its grace.
LEMMA GrantingFlight ==
    ASSUME TypeInv, Flight, NEW c \in Callers, Granting(c)
    PROVE  Flight'
  <1> DEFINE x == job[c].tried
  <1>1. job[c] \in SendJob /\ x \in Cred /\ Exchanging(c) /\ holder = c
    BY JobShapes DEF Granting, TypeInv, LocksOK, SendJob, WireJob, Flight, Exchanging
  <1>2. PICK b \in Rotations :
          /\ Grant(x, b)
          /\ Goto(c, [job[c] EXCEPT !.pc = "reply", !.reply = "ok", !.got = Granted(x, b)])
    BY DEF Granting
  <1>3. b \in BOOLEAN
    BY CallAssumption
  <1>4. /\ job'[c].pc = "reply" /\ job'[c].reply = "ok" /\ job'[c].got = Granted(x, b)
        /\ job'[c].tried = x
        /\ \A d \in Callers \ {c} : job'[d] = job[d]
        /\ UNCHANGED <<disk, holder>>
    BY <1>1, <1>2 DEF Granting, Goto, cvars, lvars, TypeInv, LocksOK, SendJob, WireJob
  <1>5. /\ x.fam \in Families /\ x.gen \in Nat /\ x # NoCred
        /\ current[x.fam] \in Nat /\ grace[x.fam] \in Nat
        /\ grace[x.fam] <= current[x.fam] /\ x.gen <= current[x.fam]
    <2>1. x.fam \in Families /\ x.gen \in Nat /\ x # NoCred
      BY <1>1, NoCredAssumption DEF Cred
    <2>2. /\ current[x.fam] \in Nat /\ grace[x.fam] \in Nat
          /\ grace[x.fam] <= current[x.fam]
      BY <2>1 DEF Flight, TypeInv, AuthorityOK
    <2> QED BY <1>2, <2>1, <2>2 DEF Grant, Accepted, Live
  <1>6. /\ UNCHANGED reused
        /\ current' = [current EXCEPT ![x.fam] = IF b THEN current[x.fam] + 1 ELSE x.gen]
        /\ grace' = [grace EXCEPT ![x.fam] = IF b THEN x.gen ELSE @]
        /\ ~b => x.gen = current[x.fam]
    BY <1>2, <1>3 DEF Grant, Granted, Live
  <1>7. /\ current'[x.fam] = IF b THEN current[x.fam] + 1 ELSE current[x.fam]
        /\ grace'[x.fam] = IF b THEN x.gen ELSE grace[x.fam]
        /\ \A f \in Families \ {x.fam} : current'[f] = current[f] /\ grace'[f] = grace[f]
    BY <1>5, <1>6 DEF TypeInv, AuthorityOK
  <1>8. \A f \in Families : 0 <= current'[f] /\ grace'[f] <= current'[f]
    BY <1>5, <1>7 DEF Flight
  <1>9. /\ Granted(x, b) # NoCred /\ Granted(x, b).fam = x.fam
        /\ Granted(x, b).gen = current'[x.fam]
    BY <1>1, <1>2, <1>3, <1>5, <1>6, <1>7, GrantedCred, NoCredAssumption
       DEF TypeInv, Granted
  <1>10. Live(job[c].got)' /\ Accepted(job[c].tried)'
    BY <1>4, <1>5, <1>6, <1>7, <1>9 DEF Live, Accepted
  <1>11. \A d \in Callers \ {c} : ~Exchanging(d)
    BY <1>1, Alone
  <1>12. \A d \in Callers : Exchanging(d)' => holder' = d
    BY <1>1, <1>4, <1>11 DEF Exchanging, Removing
  <1>13. \A d \in Callers \ {c} : job'[d].pc \notin {"send", "reply", "apply"}
    BY <1>4, <1>11 DEF Exchanging
  <1>14. Live(disk)' \/ Unsaved(c)'
    <2>1. CASE b
      <3>1. ~Live(job[c].tried)'
        BY <2>1, <1>4, <1>5, <1>7 DEF Live
      <3> QED BY <1>4, <1>5, <3>1 DEF Unsaved
    <2>2. CASE ~b
      <3>1. Live(disk) /\ current' = current
        BY <2>2, <1>1, <1>5, <1>6, <1>11, UnsavedExchanges
           DEF Flight, Unsaved, Live, TypeInv, AuthorityOK
      <3> QED BY <1>4, <3>1 DEF Live
    <2> QED BY <1>3, <2>1, <2>2
  <1>15. ~reused' /\ disk' \in Cred
    BY <1>4, <1>6 DEF Flight
  <1>16. \A d \in Callers : job'[d].pc \notin {"judge", "unfile", "unmem"}
    BY <1>4 DEF Flight, Removing
  <1> QED BY <1>4, <1>8, <1>10, <1>12, <1>13, <1>14, <1>15, <1>16 DEF Flight, Removing

\* The authority refuses nothing: what is presented is accepted.
LEMMA NoRefusal ==
    ASSUME Flight, NEW c \in Callers PROVE ~Refusing(c)
  BY DEF Flight, Refusing, Refuse

LEMMA SaveFlight ==
    ASSUME TypeInv, Flight, NEW c \in Callers, Save(c)
    PROVE  Flight'
  <1>1. /\ job[c].got \in Cred /\ Live(job[c].got) /\ disk' = job[c].got
        /\ UNCHANGED ivars
    BY SaveShape DEF Save, Flight
  <1>2. /\ job'[c] = Idle
        /\ \A d \in Callers \ {c} : job'[d] = job[d]
        /\ \A d \in Callers \ {c} : holder = d => holder' = d
    BY FinishLocks DEF TypeInv, Save
  <1>3. Live(disk)'
    BY <1>1 DEF Live, ivars
  <1>4. \A d \in Callers : Exchanging(d)' => holder' = d
    BY <1>2 DEF Flight, Exchanging, Removing, Idle
  <1>5. \A d \in Callers :
          /\ job'[d].pc = "send" => Accepted(job[d].tried)'
          /\ job'[d].pc = "reply" => job'[d].straddled \/ Accepted(job[d].tried)'
          /\ job'[d].pc \in {"reply", "apply"} =>
               /\ job'[d].reply # "refused"
               /\ job'[d].reply = "ok" => Live(job[d].got)'
    BY <1>1, <1>2 DEF Flight, Accepted, Live, Idle, ivars
  <1>6. /\ ~reused' /\ disk' \in Cred
        /\ \A f \in Families : 0 <= current'[f] /\ grace'[f] <= current'[f]
    BY <1>1 DEF Flight, ivars
  <1>7. \A d \in Callers : job'[d].pc \notin {"judge", "unfile", "unmem"}
    BY <1>2 DEF Flight, Removing, Idle
  <1> QED BY <1>3, <1>4, <1>5, <1>6, <1>7 DEF Flight, Removing

LEMMA SettleFlight ==
    ASSUME TypeInv, Flight, NEW c \in Callers, ~excused',
           SaveFails(c) \/ Reject(c) \/ Judge(c) \/ RemoveEntry(c) \/ ClearInner(c)
    PROVE  Flight'
  <1>1. CASE SaveFails(c)
    <2>1. Live(job[c].got) /\ disk = job[c].got
      BY <1>1 DEF SaveFails, Flight
    <2> QED BY <1>1, <2>1, FinishFlight DEF SaveFails
  <1>2. CASE Reject(c)
    <2>1. job[c].reply # "refused" /\ ~Unsaved(c)
      BY <1>2 DEF Reject, Flight
    <2>2. UNCHANGED <<disk, ivars>> /\ Finish(c)
      BY <1>2, <2>1 DEF Reject, HotSwap, cvars
    <2> QED BY <2>1, <2>2, FinishFlight
  <1>3. ~Judge(c) /\ ~RemoveEntry(c) /\ ~ClearInner(c)
    BY DEF Judge, RemoveEntry, ClearInner, Flight, Removing
  <1> QED BY <1>1, <1>2, <1>3

LEMMA FlightFrame ==
    ASSUME TypeInv, Flight, UNCHANGED <<disk, ivars, job, holder>>
    PROVE  Flight'
  BY DEF Flight, Removing, Exchanging, Unsaved, Accepted, Live, ivars

\* A login: its family is new, so what is carried stays as it is.
LEMMA LoginFlight ==
    ASSUME TypeInv, Flight, NEW p \in Procs, Login(p)
    PROVE  Flight'
  <1>1. PICK f \in Families : StartFamily(f) /\ disk' = FirstOf(f)
    BY DEF Login
  <1>2. /\ current[f] = 0 /\ current' = [current EXCEPT ![f] = 1]
        /\ minted + 1 \in 1 .. MaxMint
        /\ UNCHANGED <<grace, reused, job, holder>>
    <2>1. minted + 1 \in 1 .. MaxMint
      BY <1>1, AuthorityAssumption DEF StartFamily, TypeInv, AuthorityOK
    <2>2. UNCHANGED <<job, holder>>
      BY DEF Login, lvars
    <2> QED BY <1>1, <2>1, <2>2 DEF StartFamily
  <1>3. /\ current'[f] = 1 /\ \A g \in Families \ {f} : current'[g] = current[g]
        /\ current \in [Families -> Int]
    BY <1>2 DEF TypeInv, AuthorityOK
  <1>4. ASSUME NEW x \in Cred, Live(x) PROVE Live(x)'
    <2>1. x.fam \in Families /\ x.gen # 0
      BY DEF Cred
    <2> QED BY <1>2, <1>3, <1>4, <2>1 DEF Live
  <1>5. 1 \in 1 .. MaxMint
    BY AuthorityAssumption
  <1>6. disk' \in Cred /\ Live(disk)'
    BY <1>1, <1>2, <1>3, <1>5, NoCredAssumption DEF FirstOf, Live, Cred
  <1>7. ~reused' /\ \A g \in Families : 0 <= current'[g] /\ grace'[g] <= current'[g]
    <2>1. grace \in [Families -> Int]
      BY DEF TypeInv, AuthorityOK
    <2> QED BY <1>2, <1>3, <2>1 DEF Flight
  <1>8. \A c \in Callers : Exchanging(c)' => holder' = c
    BY <1>2 DEF Flight, Exchanging, Removing
  <1>9. ASSUME NEW c \in Callers
        PROVE  /\ job'[c].pc = "send" => Accepted(job[c].tried)'
               /\ job'[c].pc = "reply" => job'[c].straddled \/ Accepted(job[c].tried)'
               /\ job'[c].pc \in {"reply", "apply"} =>
                    /\ job'[c].reply # "refused"
                    /\ job'[c].reply = "ok" => Live(job[c].got)'
    <2>1. /\ OnWire(c) => job[c].tried \in Cred
          /\ job[c].pc \in {"reply", "apply"} /\ job[c].reply = "ok" => job[c].got \in Cred
      BY WireShape, JobShapes
         DEF OnWire, TypeInv, LocksOK, GrantedJob, RefusedJob, SaveJob, RejectJob, WireJob
    <2> QED BY <2>1, <1>2, <1>4 DEF Flight, Accepted, OnWire
  <1>10. \A d \in Callers : job'[d].pc \notin {"judge", "unfile", "unmem"}
    BY <1>2 DEF Flight, Removing
  <1> QED BY <1>6, <1>7, <1>8, <1>9, <1>10 DEF Flight, Removing

LEMMA CrashFlight ==
    ASSUME TypeInv, Flight, NEW p \in Procs, Crash(p), ~excused'
    PROVE  Flight'
  <1>1. /\ \A c \in Callers : job'[c] = Idle \/ (Home[c] # p /\ job'[c] = job[c])
        /\ \A c \in Callers : Home[c] = p => ~Unsaved(c)
        /\ \A c \in Callers : Home[c] # p => job'[c] = job[c]
        /\ \A c \in Callers : Home[c] # p /\ holder = c => holder' = c
        /\ UNCHANGED <<disk, ivars>>
    BY DEF Crash, OfProc
  <1>2. \A c \in Callers : Exchanging(c)' => holder' = c
    BY <1>1 DEF Flight, Exchanging, Removing, Idle
  <1>3. \A c \in Callers :
          /\ job'[c].pc = "send" => Accepted(job[c].tried)'
          /\ job'[c].pc = "reply" => job'[c].straddled \/ Accepted(job[c].tried)'
          /\ job'[c].pc \in {"reply", "apply"} =>
               /\ job'[c].reply # "refused"
               /\ job'[c].reply = "ok" => Live(job[c].got)'
    BY <1>1 DEF Flight, Accepted, Live, Idle, ivars
  <1>4. Live(disk)' \/ \E c \in Callers : Unsaved(c)'
    <2>1. \A c \in Callers : Unsaved(c) => Unsaved(c)'
      BY <1>1 DEF Unsaved, Live, ivars
    <2> QED BY <1>1, <2>1 DEF Flight, Live, ivars
  <1>5. \A d \in Callers : job'[d].pc \notin {"judge", "unfile", "unmem"}
    BY <1>1 DEF Flight, Removing, Idle
  <1> QED BY <1>1, <1>2, <1>3, <1>4, <1>5 DEF Flight, Removing, ivars

LEMMA ReplaceFlight ==
    ASSUME TypeInv, Flight, ReplaceLockFile, ~excused'
    PROVE  Flight'
  <1>1. \A c \in Callers : ~Exchanging(c)
    BY DEF ReplaceLockFile, Flight
  <1>2. UNCHANGED <<disk, ivars, job>>
    BY DEF ReplaceLockFile, cvars
  <1> QED BY <1>1, <1>2 DEF Flight, Exchanging, Removing, Unsaved, Accepted, Live, ivars

LEMMA GraceFlight ==
    ASSUME TypeInv, Flight, GraceRunsOut
    PROVE  Flight'
  <1>1. /\ UNCHANGED <<disk, job, holder, minted, current, reused>>
        /\ \A c \in Callers : ~OnWire(c)
        /\ \A f \in Families : grace'[f] = 0
    BY DEF GraceRunsOut, EndGrace, cvars, lvars
  <1>2. \A f \in Families : 0 <= current'[f] /\ grace'[f] <= current'[f]
    BY <1>1 DEF Flight
  <1> QED BY <1>1, <1>2 DEF Flight, Exchanging, Removing, Unsaved, Live, OnWire

\* A suspend past the grace: a call waiting for its answer will not send again,
\* and one whose request is on its way still holds the live token.
LEMMA SleepFlight ==
    ASSUME TypeInv, Flight, SystemSleeps, ~excused'
    PROVE  Flight'
  <1>1. UNCHANGED <<disk, holder>>
    BY DEF SystemSleeps, cvars, lvars
  <1>2. CASE UNCHANGED <<job, ivars, excused>>
    BY <1>1, <1>2, FlightFrame
  <1>3. ASSUME EndGrace, NEW seen \in SUBSET {c \in Callers : OnWire(c)}, SeenBy(seen),
               \A c \in Callers : ~(job[c].pc = "send" /\ Unsaved(c))
        PROVE  Flight'
    <2>1. ASSUME NEW c \in Callers
          PROVE  /\ job'[c].pc = job[c].pc
                 /\ job[c].pc = "clear" => job'[c].slot = job[c].slot
                 /\ job[c].pc \in {"send", "reply", "apply"} =>
                      /\ job'[c].tried = job[c].tried
                      /\ job'[c].reply = job[c].reply
                      /\ job'[c].got = job[c].got
                 /\ job[c].pc = "reply" => job'[c].straddled
      <3>1. CASE c \in seen
        <4>1. OnWire(c) /\ job[c] \in SendJob \cup GrantedJob \cup RefusedJob
          BY <3>1, WireShape
        <4>2. job'[c] = [job[c] EXCEPT !.straddled = TRUE]
          BY <1>3, <3>1 DEF SeenBy
        <4> QED BY <4>1, <4>2 DEF OnWire, SendJob, GrantedJob, RefusedJob, WireJob
      <3>2. CASE c \notin seen
        BY <1>3, <3>2 DEF SeenBy, OnWire
      <3> QED BY <3>1, <3>2
    <2>2. /\ UNCHANGED <<minted, current, reused>>
          /\ \A f \in Families : grace'[f] = 0
      BY <1>3 DEF EndGrace
    <2>3. ~reused' /\ disk' \in Cred
          /\ \A f \in Families : 0 <= current'[f] /\ grace'[f] <= current'[f]
      BY <1>1, <2>2 DEF Flight
    <2>4. \A c \in Callers : Exchanging(c)' => holder' = c
      BY <1>1, <2>1 DEF Flight, Exchanging, Removing
    <2>5. ASSUME NEW c \in Callers
          PROVE  /\ job'[c].pc = "send" => Accepted(job[c].tried)'
                 /\ job'[c].pc = "reply" => job'[c].straddled \/ Accepted(job[c].tried)'
                 /\ job'[c].pc \in {"reply", "apply"} =>
                      /\ job'[c].reply # "refused"
                      /\ job'[c].reply = "ok" => Live(job[c].got)'
      <3>1. job[c].pc = "send" => Live(job[c].tried)
        <4>1. job[c].pc = "send" => job[c].tried # NoCred
          BY WireShape, NoCredAssumption DEF OnWire
        <4> QED BY <4>1, <1>3 DEF Unsaved
      <3> QED BY <2>1, <2>2, <3>1 DEF Flight, Accepted, Live
    <2>6. Live(disk)' \/ \E c \in Callers : Unsaved(c)'
      <3>1. \A c \in Callers : Unsaved(c) => Unsaved(c)'
        BY <2>1, <2>2 DEF Unsaved, Live
      <3> QED BY <1>1, <2>2, <3>1 DEF Flight, Live
    <2>7. \A d \in Callers : job'[d].pc \notin {"judge", "unfile", "unmem"}
      BY <2>1 DEF Flight, Removing
    <2> QED BY <2>3, <2>4, <2>5, <2>6, <2>7 DEF Flight, Removing
  <1> QED BY <1>2, <1>3 DEF SystemSleeps, SeenBy

LEMMA FlightInit == Init => FlightInv
  <1> SUFFICES ASSUME Init PROVE Flight
    BY DEF FlightInv
  <1>1. First \in Cred /\ 1 \in Families
    BY AuthorityAssumption DEF First, Cred, Families
  <1>2. Live(disk)
    BY <1>1, NoCredAssumption DEF Init, AuthorityInit, Live, First
  <1>3. \A f \in Families : 0 <= current[f] /\ grace[f] <= current[f]
    BY DEF Init, AuthorityInit
  <1>4. \A c \in Callers : job[c].pc = "idle"
    BY DEF Init, Idle
  <1> QED BY <1>1, <1>2, <1>3, <1>4 DEF Init, AuthorityInit, Flight, Exchanging, Removing

LEMMA FlightStep == TypeInv /\ FlightInv /\ [Next]_vars => FlightInv'
  <1> SUFFICES ASSUME TypeInv, FlightInv, [Next]_vars, ~excused' PROVE Flight'
    BY DEF FlightInv
  <1>1. ~excused
    <2>1. CASE UNCHANGED excused
      BY <2>1
    <2>2. ASSUME NEW c \in Callers, AuthCall(c) \/ Recover(c) \/ Chain(c)
          PROVE  ~excused
      BY <2>1, <2>2 DEF AuthCall, Recover, Chain, Recheck, AcquireLock, LockTimedOut,
           Defer, ClaimSlot, CheckGate, ClearGate, Granting, Refusing, RefusingClient,
           Resend, GiveUp, Deliver, Save, SaveFails, Reject, Judge, RemoveEntry, ClearInner,
           hvars
    <2>3. ASSUME NEW p \in Procs,
                 \/ PickUp(p) \/ Enrich(p) \/ Login(p) \/ Logout(p)
                 \/ Crash(p) \/ VerdictAges(p) \/ Listener(p)
          PROVE  ~excused
      BY <2>1, <2>3 DEF PickUp, Enrich, Login, Logout, Crash, VerdictAges, Listener, hvars
    <2>4. CASE ReplaceLockFile \/ Expire \/ GraceRunsOut \/ SleepAnnounced \/ SystemSleeps
      BY <2>1, <2>4 DEF ReplaceLockFile, Expire, GraceRunsOut, SleepAnnounced,
                        SystemSleeps, hvars
    <2> QED BY <2>1, <2>2, <2>3, <2>4 DEF Next, vars, hvars
  <1>2. Flight
    BY <1>1 DEF FlightInv
  <1>3. CASE UNCHANGED vars
    BY <1>2, <1>3, FlightFrame DEF vars, cvars, lvars
  <1>4. ASSUME NEW c \in Callers, AuthCall(c) \/ Recover(c) \/ Chain(c)
        PROVE  Flight'
    BY <1>2, <1>4, WaitFlight, GateCheckFlight, GrantingFlight, NoRefusal, WireFlight,
       SaveFlight, SettleFlight DEF Chain
  <1>5. ASSUME NEW p \in Procs,
               \/ PickUp(p) \/ Enrich(p) \/ Login(p) \/ Logout(p)
               \/ Crash(p) \/ VerdictAges(p) \/ Listener(p)
        PROVE  Flight'
    <2>1. CASE PickUp(p) \/ Enrich(p) \/ VerdictAges(p) \/ Listener(p)
      <3>1. UNCHANGED <<disk, ivars, job, holder>>
        BY <2>1 DEF PickUp, Enrich, VerdictAges, Listener, HotSwap, cvars, lvars
      <3> QED BY <1>2, <3>1, FlightFrame
    <2>2. ~Logout(p)
      BY DEF Logout
    <2> QED BY <1>2, <1>5, <2>1, <2>2, LoginFlight, CrashFlight
  <1>6. CASE Expire \/ SleepAnnounced
    <2>1. UNCHANGED <<disk, ivars, job, holder>>
      BY <1>6 DEF Expire, SleepAnnounced, cvars, lvars
    <2> QED BY <1>2, <2>1, FlightFrame
  <1>7. CASE ReplaceLockFile \/ GraceRunsOut \/ SystemSleeps
    BY <1>2, <1>7, ReplaceFlight, GraceFlight, SleepFlight
  <1> QED BY <1>3, <1>4, <1>5, <1>6, <1>7 DEF Next

\* A refresh token is spent once: as long as no successor was lost on its way to
\* auth.json, no lock file was replaced in mid-exchange, no suspend held a retry
\* past the grace and nobody logged out, the authority never sees a refresh token
\* it has rotated, for any number of processes, calls, logins, crashes and retries.
THEOREM AuthSpentOnce == Spec => []SpentOnce
  <1>1. Spec => [](TypeInv /\ FlightInv)
    BY TypeInit, TypeStep, FlightInit, FlightStep, PTL DEF Spec
  <1>2. TypeInv /\ FlightInv => SpentOnce
    BY DEF FlightInv, Flight, SpentOnce, TypeInv, HistoryOK
  <1> QED BY <1>1, <1>2, PTL

----------------------------------------------------------------------------
(* What a refusal discards.                                                *)

\* Where a credential that is still held can be, now and after a step.
LEMMA StoredIs ==
    ASSUME NEW x
    PROVE  x \in Stored <=> /\ x # NoCred
                            /\ \/ x = disk
                               \/ \E p \in Procs : x = inner[p]
                               \/ \E c \in Callers : x \in Carried(job[c])
  BY DEF Stored

LEMMA StoredNext ==
    ASSUME NEW x
    PROVE  x \in Stored' <=> /\ x # NoCred
                             /\ \/ x = disk'
                                \/ \E p \in Procs : x = inner'[p]
                                \/ \E c \in Callers : x \in Carried(job'[c])
  BY DEF Stored, Carried

LEMMA Held ==
    /\ disk \in Stored \cup {NoCred}
    /\ \A p \in Procs : inner[p] \in Stored \cup {NoCred}
    /\ \A c \in Callers : Carried(job[c]) \subseteq Stored \cup {NoCred}
  BY StoredIs

LEMMA CarriedCreds ==
    ASSUME NEW j \in Jobs PROVE Carried(j) \subseteq Cred \cup {NoCred}
  <1>1. CASE j.pc \in {"send", "reply", "apply", "judge"}
    <2>1. j \in SendJob \cup GrantedJob \cup RefusedJob \cup SaveJob \cup RejectJob
                 \cup JudgeJob
      BY <1>1, JobShapes
    <2> QED BY <2>1 DEF Carried, SendJob, GrantedJob, RefusedJob, SaveJob, RejectJob,
                        JudgeJob, WireJob
  <1>2. CASE j.pc \notin {"send", "reply", "apply", "judge"}
    BY <1>2 DEF Carried
  <1> QED BY <1>1, <1>2

LEMMA StoredCreds == TypeInv => Stored \subseteq Cred
  <1> SUFFICES ASSUME TypeInv, NEW x \in Stored PROVE x \in Cred
    OBVIOUS
  <1>1. \A c \in Callers : Carried(job[c]) \subseteq Cred \cup {NoCred}
    BY CarriedCreds DEF TypeInv, LocksOK
  <1> QED BY <1>1, StoredIs DEF TypeInv, CredsOK

\* A refused token is not live.
RefusedDead(j) ==
    j.pc \in {"reply", "apply", "judge"} /\ j.reply = "refused" => ~Live(j.tried)

\* A step that mints nothing only moves credentials about.
LEMMA TokenKeep ==
    ASSUME TypeInv, TokenInv, UNCHANGED minted,
           disk' \in Stored \cup {NoCred},
           \A p \in Procs : inner'[p] \in Stored \cup {NoCred},
           \A c \in Callers : Carried(job'[c]) \subseteq Stored \cup {NoCred},
           \A f \in Families : current'[f] \in {current[f], -1},
           \A c \in Callers : RefusedDead(job[c])'
    PROVE  TokenInv'
  <1>1. Stored' \subseteq Stored
    BY StoredNext
  <1>2. \A x \in Stored : x.fam \in Families
    BY StoredCreds DEF Cred
  <1>3. \A x \in Stored' : Reached(x)'
    BY <1>1, <1>2 DEF TokenInv, Reached
  <1>4. \A c \in Callers :
          job'[c].pc \in {"reply", "apply", "judge"} /\ job'[c].reply = "refused" =>
             ~Live(job[c].tried)'
    BY DEF RefusedDead
  <1> QED BY <1>1, <1>3, <1>4 DEF TokenInv

\* The same for a step of one call that the authority has no part in.
LEMMA TokenMove ==
    ASSUME TypeInv, TokenInv, NEW c \in Callers, UNCHANGED ivars,
           \A d \in Callers \ {c} : job'[d] = job[d],
           disk' \in Stored \cup {NoCred},
           \A p \in Procs : inner'[p] \in Stored \cup {NoCred},
           Carried(job'[c]) \subseteq Stored \cup {NoCred},
           \/ job'[c].pc \notin {"reply", "apply", "judge"} \/ job'[c].reply # "refused"
           \/ job'[c].tried = job[c].tried /\ ~Live(job[c].tried)
    PROVE  TokenInv'
  <1>1. \A d \in Callers : Carried(job'[d]) \subseteq Stored \cup {NoCred}
    BY Held
  <1>2. \A d \in Callers : RefusedDead(job[d])'
    BY DEF RefusedDead, TokenInv, Live, ivars
  <1> QED BY <1>1, <1>2, TokenKeep DEF ivars

\* A credential minted by a step: a new key, and a new refresh token of its
\* family unless the grant did not rotate.
LEMMA TokenMint ==
    ASSUME TypeInv, TokenInv, NEW x \in Cred, x.key = minted + 1, minted' = minted + 1,
           Stored' \subseteq Stored \cup {x},
           \A f \in Families \ {x.fam} : current'[f] = current[f],
           current'[x.fam] = x.gen /\ current[x.fam] >= 0 /\ current[x.fam] <= x.gen,
           \A c \in Callers : RefusedDead(job[c])'
    PROVE  TokenInv'
  <1>1. \A y \in Stored :
          /\ y \in Cred /\ y.key \in Nat /\ y.key <= minted /\ y.fam \in Families
          /\ y.gen \in Nat
          /\ y.fam = x.fam => y.gen <= current[x.fam]
    BY StoredCreds DEF TokenInv, Reached, Cred
  <1>2. /\ minted \in Nat /\ x.gen \in Nat /\ x.fam \in Families
        /\ \A f \in Families : current[f] \in Int
    BY DEF TypeInv, AuthorityOK, Cred
  <1>3. \A y \in Stored' : Reached(y)'
    BY <1>1, <1>2 DEF TokenInv, Reached
  <1>4. \A y, z \in Stored' : y.key = z.key => y = z
    BY <1>1, <1>2 DEF TokenInv
  <1>5. \A c \in Callers :
          job'[c].pc \in {"reply", "apply", "judge"} /\ job'[c].reply = "refused" =>
             ~Live(job[c].tried)'
    BY DEF RefusedDead
  <1> QED BY <1>3, <1>4, <1>5 DEF TokenInv

LEMMA AdoptStored ==
    ASSUME TypeInv, NEW p \in Procs, HotSwap(p, disk)
    PROVE  /\ disk' \in Stored \cup {NoCred}
           /\ \A q \in Procs : inner'[q] \in Stored \cup {NoCred}
  BY Held DEF HotSwap, TypeInv, CredsOK

LEMMA SameStored ==
    ASSUME UNCHANGED cvars
    PROVE  /\ disk' \in Stored \cup {NoCred}
           /\ \A q \in Procs : inner'[q] \in Stored \cup {NoCred}
  BY Held DEF cvars

\* Before anything is sent.
LEMMA WaitTokens ==
    ASSUME TypeInv, TokenInv, NEW c \in Callers,
           \/ AuthCall(c) \/ Recover(c) \/ Recheck(c) \/ AcquireLock(c)
           \/ LockTimedOut(c) \/ Defer(c) \/ ClaimSlot(c) \/ CheckGate(c) \/ ClearGate(c)
    PROVE  TokenInv'
  <1> Home[c] \in Procs
    BY HomeAssumption
  <1>1. UNCHANGED ivars /\ \A d \in Callers \ {c} : job'[d] = job[d]
    <2>1. \A d \in Callers \ {c} : job'[d] = job[d]
      BY MovesOne DEF Chain
    <2> QED BY <2>1 DEF AuthCall, Recover, Recheck, AcquireLock, LockTimedOut, Defer,
                        ClaimSlot, CheckGate, ClearGate
  <1>2. UNCHANGED cvars \/ HotSwap(Home[c], disk)
    <2>1. CASE AuthCall(c) \/ Recover(c)
      BY <2>1 DEF AuthCall, Recover, StartChain, LiftVerdict
    <2>2. CASE Recheck(c) \/ AcquireLock(c) \/ LockTimedOut(c)
      BY <2>2 DEF Recheck, AcquireLock, LockTimedOut, AdoptOr
    <2>3. CASE Defer(c) \/ ClaimSlot(c) \/ CheckGate(c) \/ ClearGate(c)
      BY <2>3 DEF Defer, ClaimSlot, CheckGate, ClearGate
    <2> QED BY <2>1, <2>2, <2>3
  <1>3. /\ disk' \in Stored \cup {NoCred}
        /\ \A q \in Procs : inner'[q] \in Stored \cup {NoCred}
    BY <1>2, AdoptStored, SameStored
  <1>4. \/ job'[c].pc \notin {"send", "reply", "apply", "judge"}
        \/ /\ job'[c].pc = "apply" /\ job'[c].reply = "ok"
           /\ job'[c].tried = NoCred /\ job'[c].got = disk
        \/ /\ job'[c].pc = "send" /\ job'[c].tried \in {disk, inner[Home[c]]}
           /\ job'[c].got = NoCred
    <2>1. CASE Finish(c)
      BY <2>1 DEF Finish, Goto, Idle, TypeInv, LocksOK
    <2>2. CASE AuthCall(c) \/ Recover(c)
      BY <2>2 DEF AuthCall, Recover, StartChain, LiftVerdict, Goto, Idle, TypeInv, LocksOK
    <2>3. CASE Recheck(c) \/ LockTimedOut(c)
      BY <2>1, <2>3 DEF Recheck, LockTimedOut, AdoptOr, Goto, TypeInv, LocksOK
    <2>4. CASE AcquireLock(c) \/ ClaimSlot(c)
      <3>1. job[c] \in LockJob
        BY <2>4, JobShapes DEF AcquireLock, ClaimSlot, TypeInv, LocksOK
      <3> QED BY <2>1, <2>4, <3>1 DEF AcquireLock, ClaimSlot, AdoptOr, Goto, Step,
                                LockJob, TypeInv, LocksOK
    <2>5. CASE Undeferred(c) \/ FoundStale(c, TRUE) \/ FoundStale(c, FALSE)
      BY <2>1, <2>5 DEF Undeferred, FoundStale, Goto, TypeInv, LocksOK
    <2>6. CASE Choose(c)
      <3>1. Resolve(Home[c], job[c].reason) \in {disk, inner[Home[c]], NoCred}
        BY DEF Resolve
      <3> QED BY <2>1, <2>6, <3>1 DEF Choose, Outcome, Send, Goto, TypeInv, LocksOK
    <2>7. CASE Defer(c) \/ CheckGate(c) \/ ClearGate(c)
      BY <2>1, <2>5, <2>6, <2>7 DEF Defer, CheckGate, ClearGate
    <2> QED BY <2>2, <2>3, <2>4, <2>7
  <1>5. Carried(job'[c]) \subseteq Stored \cup {NoCred}
    BY <1>4, Held DEF Carried
  <1> QED BY <1>1, <1>3, <1>4, <1>5, TokenMove

\* On the wire, apart from the authority's answers.
LEMMA WireTokens ==
    ASSUME TypeInv, TokenInv, NEW c \in Callers,
           RefusingClient(c) \/ Resend(c) \/ GiveUp(c) \/ Deliver(c)
    PROVE  TokenInv'
  <1>1. UNCHANGED <<cvars, ivars>> /\ OnWire(c)
    BY DEF RefusingClient, Resend, GiveUp, Deliver, OnWire
  <1>2. /\ job[c] \in SendJob \cup GrantedJob \cup RefusedJob
        /\ \A d \in Callers \ {c} : job'[d] = job[d]
    BY <1>1, WireShape, MovesOne DEF Chain
  <1>3. {job[c].tried, job[c].got, disk} \subseteq Stored \cup {NoCred}
    BY <1>1, Held DEF Carried, OnWire
  <1>4. /\ \/ job'[c].pc \notin {"send", "reply", "apply", "judge"}
           \/ {job'[c].tried, job'[c].got} \subseteq {job[c].tried, job[c].got, disk, NoCred}
        /\ \/ job'[c].pc \notin {"reply", "apply", "judge"} \/ job'[c].reply # "refused"
           \/ /\ job'[c].tried = job[c].tried
              /\ job[c].pc = "reply" /\ job[c].reply = "refused"
    <2>1. CASE Finish(c)
      BY <2>1 DEF Finish, Goto, Idle, TypeInv, LocksOK
    <2>2. CASE RefusingClient(c) \/ Resend(c)
      <3>1. /\ job'[c].tried = job[c].tried
            /\ job'[c].got \in {job[c].got, NoCred}
            /\ job'[c].reply \in {"other", "none"}
        <4>1. CASE RefusingClient(c)
          BY <1>2, <4>1 DEF RefusingClient, Goto, TypeInv, LocksOK, SendJob,
                            GrantedJob, RefusedJob, WireJob
        <4>2. CASE Resend(c)
          BY <1>2, <4>2 DEF Resend, Goto, TypeInv, LocksOK, SendJob,
                            GrantedJob, RefusedJob, WireJob
        <4> QED BY <2>2, <4>1, <4>2
      <3> QED BY <3>1
    <2>3. CASE GiveUp(c)
      BY <2>1, <2>3 DEF GiveUp, Outcome, Goto, TypeInv, LocksOK
    <2>4. CASE Deliver(c)
      <3>1. CASE Send(c, disk, TRUE)
        BY <3>1 DEF Send, Goto, TypeInv, LocksOK
      <3>2. CASE Outcome(c, job[c].tried, "ok", disk)
        BY <3>2 DEF Outcome, Goto, TypeInv, LocksOK
      <3>3. CASE job[c].reply = "refused" /\ Outcome(c, job[c].tried, "refused", NoCred)
        BY <2>4, <3>3 DEF Deliver, Outcome, Goto, TypeInv, LocksOK
      <3>4. CASE Outcome(c, job[c].tried, job[c].reply, job[c].got)
        BY <2>4, <3>4 DEF Deliver, Outcome, Goto, TypeInv, LocksOK
      <3> QED BY <2>4, <3>1, <3>2, <3>3, <3>4 DEF Deliver, RetryWithDisk
    <2> QED BY <2>2, <2>3, <2>4
  <1>5. Carried(job'[c]) \subseteq Stored \cup {NoCred}
    BY <1>3, <1>4 DEF Carried
  <1>6. job[c].pc = "reply" /\ job[c].reply = "refused" => ~Live(job[c].tried)
    BY DEF TokenInv
  <1> QED BY <1>1, <1>2, <1>4, <1>5, <1>6, SameStored, TokenMove

\* apply_refresh_outcome.
LEMMA SaveTokens ==
    ASSUME TypeInv, TokenInv, NEW c \in Callers, Save(c) \/ SaveFails(c)
    PROVE  TokenInv'
  <1>1. /\ job'[c] = Idle /\ UNCHANGED ivars
        /\ \A d \in Callers \ {c} : job'[d] = job[d]
    BY FinishLocks DEF TypeInv, Save, SaveFails
  <1>2. /\ disk' \in Stored \cup {NoCred}
        /\ \A q \in Procs : inner'[q] \in Stored \cup {NoCred}
    <2>1. job[c].got \in Stored \cup {NoCred}
      BY Held DEF Save, SaveFails, Carried
    <2> QED BY <2>1, Held DEF Save, SaveFails, TypeInv, CredsOK
  <1>3. Carried(job'[c]) = {} /\ job'[c].pc = "idle"
    BY <1>1 DEF Carried, Idle
  <1> QED BY <1>1, <1>2, <1>3, TokenMove

LEMMA DiscardTokens ==
    ASSUME TypeInv, TokenInv, NEW c \in Callers,
           Reject(c) \/ Judge(c) \/ RemoveEntry(c) \/ ClearInner(c)
    PROVE  TokenInv'
  <1> Home[c] \in Procs
    BY HomeAssumption
  <1>1. UNCHANGED ivars /\ \A d \in Callers \ {c} : job'[d] = job[d]
    <2>1. \A d \in Callers \ {c} : job'[d] = job[d]
      BY MovesOne DEF Chain
    <2> QED BY <2>1 DEF Reject, Judge, RemoveEntry, ClearInner
  <1>2. /\ disk' \in Stored \cup {NoCred}
        /\ \A q \in Procs : inner'[q] \in Stored \cup {NoCred}
    <2>1. CASE HotSwap(Home[c], disk)
      BY <2>1, AdoptStored
    <2>2. CASE disk' \in {disk, NoCred} /\ \A q \in Procs : inner'[q] \in {inner[q], NoCred}
      BY <2>2, Held
    <2>3. CASE Reject(c)
      BY <2>1, <2>2, <2>3 DEF Reject, cvars
    <2>4. CASE Judge(c) \/ RemoveEntry(c)
      BY <2>2, <2>4 DEF Judge, RemoveEntry
    <2>5. CASE ClearInner(c)
      BY <2>2, <2>5 DEF ClearInner, TypeInv, CredsOK
    <2> QED BY <2>3, <2>4, <2>5
  <1>3. \/ Carried(job'[c]) = {} /\ job'[c].pc \in {"idle", "unfile", "unmem"}
        \/ /\ job[c].pc = "apply" /\ job[c].reply = "refused"
           /\ job'[c].pc = "judge" /\ job'[c].tried = job[c].tried
           /\ job'[c].got = job[c].got
    <2>1. CASE job'[c].pc \in {"idle", "unfile", "unmem"}
      BY <2>1 DEF Carried
    <2>2. CASE job'[c].pc = "judge"
      <3>1. Reject(c) /\ job[c].reply = "refused" /\ Step(c, "judge")
        <4>1. ~Finish(c)
          BY <2>2 DEF Finish, Goto, Idle, TypeInv, LocksOK
        <4>2. CASE Judge(c)
          BY <2>2, <4>1, <4>2 DEF Judge, Goto, TypeInv, LocksOK
        <4>3. CASE RemoveEntry(c)
          BY <2>2, <4>1, <4>3, RemoveMove
        <4> QED BY <4>1, <4>2, <4>3 DEF Reject, ClearInner
      <3>2. job[c] \in RejectJob
        BY <3>1, RejectShape DEF Reject
      <3> QED BY <3>1, <3>2 DEF Reject, Step, Goto, RejectJob, TypeInv, LocksOK
    <2> QED BY <2>1, <2>2, DiscardPc
  <1>4. Carried(job'[c]) \subseteq Stored \cup {NoCred}
    BY <1>3, Held DEF Carried
  <1>5. job[c].pc = "apply" /\ job[c].reply = "refused" => ~Live(job[c].tried)
    BY DEF TokenInv
  <1> QED BY <1>1, <1>2, <1>3, <1>4, <1>5, TokenMove

\* A refresh token the authority no longer takes is not taken again.
LEMMA DeadStays ==
    ASSUME TypeInv, TokenInv, [Next]_vars, NEW x \in Stored, ~Live(x)
    PROVE  ~Live(x)'
  <1>1. /\ x.fam \in Families /\ x.gen \in Nat \ {0} /\ x # NoCred
        /\ current[x.fam] = -1 \/ x.gen <= current[x.fam]
        /\ current[x.fam] # x.gen /\ current \in [Families -> Int]
    BY StoredCreds, NoCredAssumption DEF TokenInv, Reached, Cred, Live, TypeInv, AuthorityOK
  <1>2. CASE UNCHANGED current
    BY <1>1, <1>2 DEF Live
  <1>3. ASSUME NEW c \in Callers, Granting(c) PROVE ~Live(x)'
    <2> DEFINE y == job[c].tried
    <2>1. PICK b \in Rotations : Grant(y, b)
      BY <1>3 DEF Granting
    <2>2. b \in BOOLEAN /\ y \in Cred
      BY <1>3, CallAssumption, JobShapes DEF Granting, TypeInv, LocksOK, SendJob, WireJob
    <2>3. /\ y.fam \in Families /\ current[y.fam] > 0
          /\ current' = [current EXCEPT ![y.fam] = IF b THEN current[y.fam] + 1 ELSE y.gen]
          /\ ~b => y.gen = current[y.fam]
      BY <2>1, <2>2 DEF Grant, Granted, Live, Cred
    <2>4. current'[x.fam] # x.gen
      <3>1. CASE x.fam = y.fam /\ b
        BY <1>1, <2>3, <3>1
      <3>2. CASE x.fam # y.fam \/ ~b
        BY <1>1, <2>2, <2>3, <3>2
      <3> QED BY <3>1, <3>2
    <2> QED BY <2>4 DEF Live
  <1>4. ASSUME NEW c \in Callers, Refusing(c) PROVE ~Live(x)'
    <2>1. current' \in {current, [current EXCEPT ![job[c].tried.fam] = -1]}
      BY <1>4 DEF Refusing, Refuse
    <2>2. current'[x.fam] # x.gen
      BY <1>1, <2>1
    <2> QED BY <2>2 DEF Live
  <1>5. ASSUME NEW p \in Procs, Login(p) PROVE ~Live(x)'
    <2>1. PICK f \in Families : current[f] = 0 /\ current' = [current EXCEPT ![f] = 1]
      BY <1>5 DEF Login, StartFamily
    <2>2. current'[x.fam] # x.gen
      BY <1>1, <2>1
    <2> QED BY <2>2 DEF Live
  <1>6. ASSUME NEW c \in Callers, AuthCall(c) \/ Recover(c) \/ Chain(c),
               ~Granting(c), ~Refusing(c)
        PROVE  UNCHANGED current
    BY <1>6 DEF AuthCall, Recover, Chain, Recheck, AcquireLock, LockTimedOut, Defer,
         ClaimSlot, CheckGate, ClearGate, RefusingClient, Resend, GiveUp, Deliver, Save,
         SaveFails, Reject, Judge, RemoveEntry, ClearInner, ivars
  <1>7. ASSUME NEW p \in Procs,
               \/ PickUp(p) \/ Enrich(p) \/ Logout(p)
               \/ Crash(p) \/ VerdictAges(p) \/ Listener(p)
        PROVE  UNCHANGED current
    BY <1>7 DEF PickUp, Enrich, Logout, Crash, VerdictAges, Listener, ivars
  <1>8. ASSUME \/ ReplaceLockFile \/ Expire \/ GraceRunsOut \/ SleepAnnounced
               \/ SystemSleeps \/ UNCHANGED vars
        PROVE  UNCHANGED current
    BY <1>8 DEF ReplaceLockFile, Expire, GraceRunsOut, SleepAnnounced, SystemSleeps,
                EndGrace, ivars, vars
  <1> QED BY <1>2, <1>3, <1>4, <1>5, <1>6, <1>7, <1>8 DEF Next

LEMMA RefusedStays ==
    ASSUME TypeInv, TokenInv, [Next]_vars, NEW d \in Callers, job'[d] = job[d]
    PROVE  RefusedDead(job[d])'
  <1>1. CASE job[d].pc \in {"reply", "apply", "judge"} /\ job[d].reply = "refused"
    <2> DEFINE t == job[d].tried
    <2>1. t \in Cred
      BY <1>1, JobShapes DEF TypeInv, LocksOK, GrantedJob, RefusedJob, SaveJob,
                             RejectJob, JudgeJob, WireJob
    <2>2. t \in Stored /\ ~Live(t)
      BY <1>1, <2>1, StoredIs, NoCredAssumption DEF Carried, TokenInv
    <2>3. ~Live(t)'
      BY <2>2, DeadStays
    <2> QED BY <2>3 DEF RefusedDead, Live
  <1>2. CASE ~(job[d].pc \in {"reply", "apply", "judge"} /\ job[d].reply = "refused")
    BY <1>2 DEF RefusedDead
  <1> QED BY <1>1, <1>2

LEMMA GrantingTokens ==
    ASSUME TypeInv, TokenInv, NEW c \in Callers, Granting(c)
    PROVE  TokenInv'
  <1> DEFINE x == job[c].tried
  <1>1. job[c] \in SendJob /\ x \in Cred
    BY JobShapes DEF Granting, TypeInv, LocksOK, SendJob, WireJob
  <1>2. PICK b \in Rotations :
          /\ Grant(x, b)
          /\ Goto(c, [job[c] EXCEPT !.pc = "reply", !.reply = "ok", !.got = Granted(x, b)])
    BY DEF Granting
  <1>3. b \in BOOLEAN
    BY CallAssumption
  <1> DEFINE y == Granted(x, b)
  <1>4. y \in Cred /\ y.key = minted + 1 /\ y.fam = x.fam
        /\ y.gen = (IF b THEN current[x.fam] + 1 ELSE x.gen)
    BY <1>1, <1>2, <1>3, GrantedCred DEF TypeInv, Granted
  <1>5. /\ job'[c].pc = "reply" /\ job'[c].reply = "ok" /\ job'[c].got = y
        /\ job'[c].tried = x
        /\ \A d \in Callers \ {c} : job'[d] = job[d]
        /\ UNCHANGED <<disk, inner>>
    BY <1>1, <1>2 DEF Granting, Goto, cvars, TypeInv, LocksOK, SendJob, WireJob
  <1>6. /\ x.fam \in Families /\ current \in [Families -> Int]
        /\ current[x.fam] > 0 /\ (~b => x.gen = current[x.fam])
        /\ minted' = minted + 1
        /\ current' = [current EXCEPT ![x.fam] = y.gen]
    BY <1>1, <1>2, <1>3 DEF Grant, Live, Cred, TypeInv, AuthorityOK
  <1>7. x \in Stored
    BY <1>1, StoredIs, NoCredAssumption DEF Granting, Carried
  <1>8. Stored' \subseteq Stored \cup {y}
    <2> SUFFICES ASSUME NEW z \in Stored' PROVE z \in Stored \cup {y}
      OBVIOUS
    <2>1. Carried(job'[c]) = {x, y}
      BY <1>5 DEF Carried
    <2> HIDE DEF x, y
    <2> QED BY <1>5, <1>7, <2>1, StoredIs, StoredNext
  <1>9. /\ \A f \in Families \ {y.fam} : current'[f] = current[f]
        /\ current'[y.fam] = y.gen /\ current[y.fam] >= 0 /\ current[y.fam] <= y.gen
    BY <1>3, <1>4, <1>6
  <1>11. ASSUME NEW d \in Callers PROVE RefusedDead(job[d])'
    <2>1. CASE d = c
      BY <1>5, <2>1 DEF RefusedDead
    <2>2. CASE d # c
      BY <1>5, <2>2, RefusedStays DEF Next, Chain
    <2> QED BY <2>1, <2>2
  <1> HIDE DEF y
  <1> QED BY <1>4, <1>6, <1>8, <1>9, <1>11, TokenMint

LEMMA RefusingTokens ==
    ASSUME TypeInv, TokenInv, NEW c \in Callers, Refusing(c)
    PROVE  TokenInv'
  <1> DEFINE x == job[c].tried
  <1>1. job[c] \in SendJob /\ x \in Cred
    BY JobShapes DEF Refusing, TypeInv, LocksOK, SendJob, WireJob
  <1>2. /\ job'[c].pc = "reply" /\ job'[c].tried = x /\ job'[c].got = job[c].got
        /\ \A d \in Callers \ {c} : job'[d] = job[d]
        /\ UNCHANGED <<cvars, minted>>
    BY <1>1 DEF Refusing, Refuse, Goto, TypeInv, LocksOK, SendJob, WireJob
  <1>3. /\ ~Live(x) /\ x.fam \in Families /\ x.gen \in Nat
        /\ current' \in {current, [current EXCEPT ![x.fam] = -1]}
    BY <1>1 DEF Refusing, Refuse, Accepted, Cred
  <1>4. \A f \in Families : current'[f] \in {current[f], -1}
    BY <1>3 DEF TypeInv, AuthorityOK
  <1>5. \A d \in Callers : Carried(job'[d]) \subseteq Stored \cup {NoCred}
    BY <1>2, Held DEF Refusing, Carried
  <1>6. ASSUME NEW d \in Callers PROVE RefusedDead(job[d])'
    <2>1. CASE d = c
      <3>1. current'[x.fam] # x.gen
        BY <1>1, <1>3, <1>4, NoCredAssumption DEF Live
      <3> QED BY <1>2, <2>1, <3>1 DEF RefusedDead, Live
    <2>2. CASE d # c
      BY <1>2, <2>2, RefusedStays DEF Next, Chain
    <2> QED BY <2>1, <2>2
  <1> QED BY <1>2, <1>4, <1>5, <1>6, SameStored, TokenKeep

LEMMA LoginTokens ==
    ASSUME TypeInv, TokenInv, NEW p \in Procs, Login(p)
    PROVE  TokenInv'
  <1>1. PICK f \in Families :
          /\ StartFamily(f) /\ disk' = FirstOf(f)
          /\ inner' = [inner EXCEPT ![p] = FirstOf(f)]
    BY DEF Login
  <1> DEFINE x == FirstOf(f)
  <1>2. minted + 1 \in 1 .. MaxMint /\ 1 \in 1 .. MaxMint
    BY <1>1, AuthorityAssumption DEF TypeInv, AuthorityOK, StartFamily
  <1>3. x \in Cred /\ x.key = minted + 1 /\ x.fam = f /\ x.gen = 1
    BY <1>2 DEF FirstOf, Cred
  <1>4. /\ current \in [Families -> Int] /\ current[f] = 0 /\ minted' = minted + 1
        /\ current' = [current EXCEPT ![f] = 1] /\ UNCHANGED job
    <2>1. UNCHANGED job
      BY DEF Login
    <2>2. current \in [Families -> Int]
      BY DEF TypeInv, AuthorityOK
    <2> QED BY <1>1, <2>1, <2>2 DEF StartFamily
  <1>5. Stored' \subseteq Stored \cup {x}
    <2> SUFFICES ASSUME NEW z \in Stored' PROVE z \in Stored \cup {x}
      OBVIOUS
    <2>1. \A q \in Procs : inner'[q] \in {x, inner[q]}
      BY <1>1 DEF TypeInv, CredsOK
    <2>2. disk' = x /\ UNCHANGED job
      BY <1>1, <1>4
    <2> HIDE DEF x
    <2> QED BY <2>1, <2>2, StoredIs, StoredNext
  <1>6. \A d \in Callers : RefusedDead(job[d])'
    BY <1>4, RefusedStays DEF Next
  <1>7. /\ \A g \in Families \ {x.fam} : current'[g] = current[g]
        /\ current'[x.fam] = x.gen /\ current[x.fam] >= 0 /\ current[x.fam] <= x.gen
    BY <1>3, <1>4
  <1> HIDE DEF x
  <1> QED BY <1>3, <1>4, <1>5, <1>6, <1>7, TokenMint

LEMMA CrashTokens ==
    ASSUME TypeInv, TokenInv, NEW p \in Procs, Crash(p)
    PROVE  TokenInv'
  <1>1. /\ UNCHANGED <<disk, ivars>>
        /\ \A q \in Procs : inner'[q] \in {inner[q], disk}
        /\ \A c \in Callers : job'[c] \in {Idle, job[c]}
    <2>1. \A q \in Procs : inner'[q] \in {inner[q], disk}
      BY DEF Crash, TypeInv, CredsOK
    <2>2. \A c \in Callers : job'[c] \in {Idle, job[c]}
      BY DEF Crash
    <2> QED BY <2>1, <2>2 DEF Crash
  <1>2. \A c \in Callers : Carried(job'[c]) \subseteq Stored \cup {NoCred}
    BY <1>1, Held DEF Carried, Idle
  <1>3. \A c \in Callers : RefusedDead(job[c])'
    BY <1>1 DEF RefusedDead, Idle, TokenInv, Live, ivars
  <1> QED BY <1>1, <1>2, <1>3, Held, TokenKeep DEF ivars

\* The steps of one process or of time that leave the calls and the tokens alone.
LEMMA PlainTokens ==
    ASSUME TypeInv, TokenInv, UNCHANGED <<minted, current>>, UNCHANGED job,
           disk' \in {disk, NoCred},
           \A p \in Procs : inner'[p] \in {inner[p], disk, NoCred}
    PROVE  TokenInv'
  <1>1. \A c \in Callers : RefusedDead(job[c])'
    BY DEF RefusedDead, TokenInv, Live
  <1> QED BY <1>1, Held, TokenKeep

LEMMA SleepTokens ==
    ASSUME TypeInv, TokenInv, SystemSleeps
    PROVE  TokenInv'
  <1>1. UNCHANGED <<cvars, minted, current>>
    BY DEF SystemSleeps, EndGrace, ivars
  <1>2. ASSUME NEW c \in Callers
        PROVE  /\ job'[c].pc = job[c].pc
               /\ job[c].pc \in {"send", "reply", "apply", "judge"} =>
                    /\ job'[c].tried = job[c].tried /\ job'[c].got = job[c].got
                    /\ job'[c].reply = job[c].reply
    <2>1. CASE job'[c] = job[c]
      BY <2>1
    <2>2. CASE OnWire(c) /\ job'[c] = [job[c] EXCEPT !.straddled = TRUE]
      <3>1. job[c] \in SendJob \cup GrantedJob \cup RefusedJob
        BY <2>2, WireShape
      <3> QED BY <2>2, <3>1 DEF SendJob, GrantedJob, RefusedJob, WireJob
    <2> QED BY <2>1, <2>2 DEF SystemSleeps
  <1>3. \A c \in Callers : Carried(job'[c]) \subseteq Stored \cup {NoCred}
    BY <1>2, Held DEF Carried
  <1>4. \A c \in Callers : RefusedDead(job[c])'
    BY <1>1, <1>2 DEF RefusedDead, TokenInv, Live
  <1> QED BY <1>1, <1>3, <1>4, SameStored, TokenKeep

LEMMA TokenInit == Init => TokenInv
  <1> SUFFICES ASSUME Init PROVE TokenInv
    OBVIOUS
  <1>1. \A c \in Callers : job[c].pc = "idle" /\ Carried(job[c]) = {}
    BY DEF Init, Idle, Carried
  <1>2. Stored \subseteq {First}
    <2>1. disk = First /\ \A p \in Procs : inner[p] = First
      BY DEF Init
    <2> QED BY <1>1, <2>1, StoredIs
  <1>3. Reached(First)
    BY AuthorityAssumption DEF Init, AuthorityInit, Reached, First, Families
  <1> QED BY <1>1, <1>2, <1>3 DEF TokenInv

LEMMA TokenStep == TypeInv /\ TokenInv /\ [Next]_vars => TokenInv'
  <1> SUFFICES ASSUME TypeInv, TokenInv, [Next]_vars PROVE TokenInv'
    OBVIOUS
  <1>1. CASE UNCHANGED vars
    BY <1>1, PlainTokens DEF vars, cvars, ivars
  <1>2. ASSUME NEW c \in Callers, AuthCall(c) \/ Recover(c) \/ Chain(c)
        PROVE  TokenInv'
    BY <1>2, WaitTokens, WireTokens, SaveTokens, DiscardTokens, GrantingTokens,
       RefusingTokens DEF Chain
  <1>3. ASSUME NEW p \in Procs,
               \/ PickUp(p) \/ Enrich(p) \/ Login(p) \/ Logout(p)
               \/ Crash(p) \/ VerdictAges(p) \/ Listener(p)
        PROVE  TokenInv'
    <2>1. CASE PickUp(p) \/ Enrich(p) \/ Logout(p) \/ VerdictAges(p) \/ Listener(p)
      <3>1. UNCHANGED <<minted, current, job>> /\ disk' \in {disk, NoCred}
        BY <2>1 DEF PickUp, Enrich, Logout, VerdictAges, Listener, HotSwap, cvars, ivars
      <3>2. \A q \in Procs : inner'[q] \in {inner[q], disk, NoCred}
        BY <2>1 DEF PickUp, Enrich, Logout, VerdictAges, Listener, HotSwap, cvars,
                    TypeInv, CredsOK
      <3> QED BY <3>1, <3>2, PlainTokens
    <2> QED BY <1>3, <2>1, LoginTokens, CrashTokens
  <1>4. CASE ReplaceLockFile \/ Expire \/ GraceRunsOut \/ SleepAnnounced
    <2>1. UNCHANGED <<minted, current, job, cvars>>
      BY <1>4 DEF ReplaceLockFile, Expire, GraceRunsOut, SleepAnnounced, EndGrace, ivars
    <2> QED BY <2>1, PlainTokens DEF cvars
  <1>5. CASE SystemSleeps
    BY <1>5, SleepTokens
  <1> QED BY <1>1, <1>2, <1>3, <1>4, <1>5 DEF Next


----------------------------------------------------------------------------
(* What a refused call has checked still holds when it acts on it.         *)

\* A step of one call leaves the lock with the call that is exchanging.
LEMMA HolderMove ==
    ASSUME TypeInv, NEW c \in Callers, AuthCall(c) \/ Recover(c) \/ Chain(c)
    PROVE  \/ Finish(c)
           \/ holder = Free /\ holder' = c
           \/ UNCHANGED holder /\ (~Busy(job'[c]) \/ holder = c \/ Exchanging(c))
  <1>1. CASE AuthCall(c) \/ Recover(c)
    <2>1. UNCHANGED holder /\ job'[c].pc \in {"idle", "mutex"}
      BY <1>1 DEF AuthCall, Recover, StartChain, LiftVerdict, Goto, Idle, lvars,
                  TypeInv, LocksOK
    <2> QED BY <2>1 DEF Busy
  <1>2. CASE Recheck(c) \/ LockTimedOut(c)
    <2>1. CASE ~Finish(c)
      <3>1. UNCHANGED holder /\ job'[c].pc = "lock"
        BY <1>2, <2>1 DEF Recheck, LockTimedOut, AdoptOr, Goto, TypeInv, LocksOK
      <3> QED BY <3>1 DEF Busy
    <2> QED BY <2>1
  <1>3. CASE AcquireLock(c)
    BY <1>3 DEF AcquireLock, AdoptOr
  <1>4. CASE Defer(c)
    <2>1. CASE ~Finish(c)
      <3>1. /\ UNCHANGED holder
            /\ \/ job'[c].pc = "relock" \/ holder = c
               \/ job'[c].pc = "clear" /\ job'[c].slot = FALSE
        BY <1>4, <2>1 DEF Defer, Undeferred, FoundStale, Goto, lvars, TypeInv, LocksOK
      <3> QED BY <3>1 DEF Busy
    <2> QED BY <2>1
  <1>5. CASE ClearGate(c) /\ ~job[c].slot
    <2>1. CASE ~Finish(c)
      <3>1. UNCHANGED holder /\ (job'[c].pc = "relock" \/ holder = c)
        BY <1>5, <2>1 DEF ClearGate, Undeferred, Goto, lvars, TypeInv, LocksOK
      <3> QED BY <3>1 DEF Busy
    <2> QED BY <2>1
  <1>6. CASE ClaimSlot(c) \/ CheckGate(c) \/ (ClearGate(c) /\ job[c].slot)
    BY <1>6 DEF ClaimSlot, CheckGate, ClearGate, Choose, FoundStale, Exchanging, lvars
  <1>7. CASE \/ Granting(c) \/ Refusing(c) \/ RefusingClient(c) \/ Resend(c)
             \/ GiveUp(c) \/ Deliver(c)
    BY <1>7 DEF Granting, Refusing, RefusingClient, Resend, GiveUp, Deliver, OnWire,
                Exchanging, lvars
  <1>8. CASE Save(c) \/ SaveFails(c)
    BY <1>8 DEF Save, SaveFails
  <1>9. CASE Reject(c) \/ Judge(c) \/ RemoveEntry(c) \/ ClearInner(c)
    BY <1>9 DEF Reject, Judge, RemoveEntry, ClearInner, Exchanging, Removing, lvars
  <1> QED BY <1>1, <1>2, <1>3, <1>4, <1>5, <1>6, <1>7, <1>8, <1>9 DEF Chain, ClearGate

\* A replaced lock file is not forgotten.
LEMMA BrokenStays == [Next]_vars /\ broken => broken'
  <1> SUFFICES ASSUME [Next]_vars, broken PROVE broken'
    OBVIOUS
  <1>1. CASE UNCHANGED broken
    BY <1>1
  <1>2. ASSUME NEW c \in Callers, AuthCall(c) \/ Recover(c) \/ Chain(c)
        PROVE  UNCHANGED broken
    BY <1>2 DEF AuthCall, Recover, Chain, Recheck, AcquireLock, LockTimedOut,
           Defer, ClaimSlot, CheckGate, ClearGate, Granting, Refusing, RefusingClient,
           Resend, GiveUp, Deliver, Save, SaveFails, Reject, Judge, RemoveEntry,
           ClearInner, hvars
  <1>3. ASSUME NEW p \in Procs,
               \/ PickUp(p) \/ Enrich(p) \/ Login(p) \/ Logout(p)
               \/ Crash(p) \/ VerdictAges(p) \/ Listener(p)
        PROVE  UNCHANGED broken
    BY <1>3 DEF PickUp, Enrich, Login, Logout, Crash, VerdictAges, Listener, hvars
  <1>4. CASE Expire \/ GraceRunsOut \/ SleepAnnounced \/ SystemSleeps
    BY <1>4 DEF Expire, GraceRunsOut, SleepAnnounced, SystemSleeps, hvars
  <1>5. CASE ReplaceLockFile
    BY <1>5 DEF ReplaceLockFile
  <1> QED BY <1>1, <1>2, <1>3, <1>4, <1>5 DEF Next, vars, hvars

\* A suspend keeps every call where it is, with what it spends.
LEMMA SleepKeeps ==
    ASSUME TypeInv, SystemSleeps, NEW c \in Callers
    PROVE  /\ job'[c].pc = job[c].pc
           /\ job[c].pc \in {"send", "reply", "apply", "judge"} =>
                job'[c].tried = job[c].tried
           /\ job[c].pc \notin {"send", "reply"} => job'[c] = job[c]
  <1>1. CASE job'[c] = job[c]
    BY <1>1
  <1>2. CASE OnWire(c) /\ job'[c] = [job[c] EXCEPT !.straddled = TRUE]
    <2>1. job[c] \in SendJob \cup GrantedJob \cup RefusedJob
      BY <1>2, WireShape
    <2> QED BY <1>2, <2>1 DEF OnWire, SendJob, GrantedJob, RefusedJob, WireJob
  <1> QED BY <1>1, <1>2 DEF SystemSleeps

LEMMA LockStep == TypeInv /\ LockInv /\ [Next]_vars => LockInv'
  <1> SUFFICES ASSUME TypeInv, LockInv, [Next]_vars, ~broken',
                      NEW d \in Callers, Exchanging(d)'
               PROVE  holder' = d
    BY DEF LockInv
  <1>1. ~broken /\ (Exchanging(d) => holder = d)
    BY BrokenStays DEF LockInv
  <1>2. CASE job'[d] = job[d] /\ (holder = d => holder' = d)
    BY <1>1, <1>2 DEF Exchanging, Removing
  <1>3. ASSUME NEW c \in Callers, AuthCall(c) \/ Recover(c) \/ Chain(c)
        PROVE  holder' = d
    <2>1. \A e \in Callers \ {c} : job'[e] = job[e]
      BY <1>3, MovesOne
    <2>2. Exchanging(d)' <=> Busy(job'[d])
      BY DEF Exchanging, Removing, Busy
    <2>3. CASE Finish(c)
      BY <1>2, <2>1, <2>2, <2>3, FinishLocks DEF TypeInv, Busy, Idle
    <2>4. CASE holder = Free /\ holder' = c
      <3>1. ~Exchanging(d)
        BY <1>1, <2>4, CallAssumption
      <3>2. d = c
        BY <2>1, <3>1 DEF Exchanging, Removing
      <3> QED BY <2>4, <3>2
    <2>5. CASE UNCHANGED holder /\ (~Busy(job'[c]) \/ holder = c \/ Exchanging(c))
      BY <1>1, <1>2, <2>1, <2>2, <2>5
    <2> QED BY <1>3, <2>3, <2>4, <2>5, HolderMove
  <1>4. ASSUME NEW p \in Procs,
               \/ PickUp(p) \/ Enrich(p) \/ Login(p) \/ Logout(p)
               \/ Crash(p) \/ VerdictAges(p) \/ Listener(p)
        PROVE  holder' = d
    <2>1. CASE Crash(p)
      <3>1. Home[d] # p /\ job'[d] = job[d]
        BY <2>1 DEF Crash, Exchanging, Removing, Idle
      <3>2. holder = d => holder' = d
        BY <2>1, <3>1 DEF Crash, OfProc
      <3> QED BY <1>2, <3>1, <3>2
    <2>2. CASE ~Crash(p)
      <3>1. UNCHANGED <<job, holder>>
        BY <1>4, <2>2 DEF PickUp, Enrich, Login, Logout, VerdictAges, Listener, lvars
      <3> QED BY <1>2, <3>1
    <2> QED BY <2>1, <2>2
  <1>5. CASE Expire \/ GraceRunsOut \/ SleepAnnounced \/ UNCHANGED vars
    <2>1. UNCHANGED <<job, holder>>
      BY <1>5 DEF Expire, GraceRunsOut, SleepAnnounced, lvars, vars
    <2> QED BY <1>2, <2>1
  <1>6. CASE SystemSleeps
    <2>1. UNCHANGED holder
      BY <1>6 DEF SystemSleeps, lvars
    <2>2. Exchanging(d)
      BY <1>6, SleepKeeps DEF Exchanging, Removing
    <2> QED BY <1>1, <2>1, <2>2
  <1>7. ~ReplaceLockFile
    <2>1. SUFFICES ASSUME ReplaceLockFile PROVE FALSE
      OBVIOUS
    <2>2. Exchanging(d)
      BY <2>1 DEF ReplaceLockFile, Exchanging, Removing
    <2> QED BY <1>1, <2>1, <2>2 DEF ReplaceLockFile
  <1> QED BY <1>3, <1>4, <1>5, <1>6, <1>7 DEF Next

\* The three ways a step changes the file and the memories: entries are adopted
\* from the file or dropped, a user logs in, or a call saves what it was granted.
LEMMA StoreStep ==
    ASSUME TypeInv, [Next]_vars
    PROVE  \/ /\ disk' \in {disk, NoCred}
              /\ \A p \in Procs : inner'[p] \in {inner[p], disk, NoCred}
           \/ \E p \in Procs : Login(p)
           \/ \E c \in Callers : Save(c) \/ SaveFails(c)
  <1> DEFINE Moved == /\ disk' \in {disk, NoCred}
                      /\ \A p \in Procs : inner'[p] \in {inner[p], disk, NoCred}
  <1>1. ASSUME UNCHANGED <<disk, inner>> PROVE Moved
    BY <1>1
  <1>2. ASSUME NEW p \in Procs, HotSwap(p, disk) PROVE Moved
    BY <1>2 DEF HotSwap, TypeInv, CredsOK
  <1>3. \A c \in Callers : Home[c] \in Procs
    BY HomeAssumption
  <1>4. ASSUME UNCHANGED vars PROVE Moved
    BY <1>1, <1>4 DEF vars, cvars
  <1>5. ASSUME NEW c \in Callers, AuthCall(c) \/ Recover(c) PROVE Moved
    BY <1>1, <1>2, <1>3, <1>5 DEF AuthCall, Recover, StartChain, LiftVerdict, cvars
  <1>6. ASSUME NEW c \in Callers, Recheck(c) \/ AcquireLock(c) \/ LockTimedOut(c)
        PROVE  Moved
    BY <1>1, <1>2, <1>3, <1>6 DEF Recheck, AcquireLock, LockTimedOut, AdoptOr, cvars
  <1>7. ASSUME NEW c \in Callers,
               \/ Defer(c) \/ ClaimSlot(c) \/ CheckGate(c) \/ ClearGate(c)
               \/ Granting(c) \/ Refusing(c) \/ RefusingClient(c) \/ Resend(c)
               \/ GiveUp(c) \/ Deliver(c)
        PROVE  Moved
    BY <1>1, <1>7 DEF Defer, ClaimSlot, CheckGate, ClearGate, Granting, Refusing,
                      RefusingClient, Resend, GiveUp, Deliver, cvars
  <1>8. ASSUME NEW c \in Callers, Reject(c) \/ Judge(c) PROVE Moved
    BY <1>1, <1>2, <1>3, <1>8 DEF Reject, Judge, cvars
  <1>9. ASSUME NEW c \in Callers, RemoveEntry(c) \/ ClearInner(c) PROVE Moved
    BY <1>9 DEF RemoveEntry, ClearInner, TypeInv, CredsOK
  <1>10. ASSUME NEW p \in Procs, PickUp(p) \/ Enrich(p) PROVE Moved
    BY <1>1, <1>2, <1>10 DEF PickUp, Enrich, TypeInv, CredsOK
  <1>11. ASSUME NEW p \in Procs, Logout(p) \/ Crash(p) PROVE Moved
    BY <1>11 DEF Logout, Crash, TypeInv, CredsOK
  <1>12. ASSUME NEW p \in Procs, VerdictAges(p) \/ Listener(p) PROVE Moved
    BY <1>1, <1>12 DEF VerdictAges, Listener, cvars
  <1>13. ASSUME \/ ReplaceLockFile \/ Expire \/ GraceRunsOut \/ SleepAnnounced
                \/ SystemSleeps
         PROVE  Moved
    BY <1>1, <1>13 DEF ReplaceLockFile, Expire, GraceRunsOut, SleepAnnounced, SystemSleeps,
                       cvars
  <1> HIDE DEF Moved
  <1>14. Moved \/ (\E p \in Procs : Login(p)) \/ (\E c \in Callers : Save(c) \/ SaveFails(c))
    BY <1>4, <1>5, <1>6, <1>7, <1>8, <1>9, <1>10, <1>11, <1>12, <1>13 DEF Next, Chain
  <1> QED BY <1>14 DEF Moved

\* What a call spends when it starts to: the file's entry, or the memory's.
LEMMA SpendStart ==
    ASSUME TypeInv, NEW c \in Callers, AuthCall(c) \/ Recover(c) \/ Chain(c),
           Spending(job'[c])
    PROVE  \/ UNCHANGED cvars /\ Spending(job[c]) /\ job'[c].tried = job[c].tried
           \/ UNCHANGED cvars /\ disk # NoCred /\ job'[c].tried = disk
           \/ UNCHANGED cvars /\ disk = NoCred /\ job'[c].tried = inner[Home[c]]
  <1>1. ~Finish(c)
    BY DEF Finish, Goto, Idle, Spending, TypeInv, LocksOK
  <1>2. CASE AuthCall(c) \/ Recover(c)
    BY <1>2 DEF AuthCall, Recover, StartChain, LiftVerdict, Goto, Idle, Spending,
                TypeInv, LocksOK
  <1>3. CASE Recheck(c) \/ LockTimedOut(c)
    BY <1>1, <1>3 DEF Recheck, LockTimedOut, AdoptOr, Goto, Spending, TypeInv, LocksOK
  <1>4. CASE AcquireLock(c) \/ ClaimSlot(c)
    <2>1. job[c] \in LockJob
      BY <1>4, JobShapes DEF AcquireLock, ClaimSlot, TypeInv, LocksOK
    <2> QED BY <1>1, <1>4, <2>1 DEF AcquireLock, ClaimSlot, AdoptOr, Goto, Step, LockJob,
                                    Spending, TypeInv, LocksOK
  <1>5. CASE Defer(c) \/ CheckGate(c) \/ ClearGate(c)
    <2>1. UNCHANGED cvars
      BY <1>5 DEF Defer, CheckGate, ClearGate
    <2>2. ~Undeferred(c) /\ ~FoundStale(c, TRUE) /\ ~FoundStale(c, FALSE)
      BY <1>1 DEF Undeferred, FoundStale, Goto, Spending, TypeInv, LocksOK
    <2>3. Choose(c)
      BY <1>1, <1>5, <2>2 DEF Defer, CheckGate, ClearGate
    <2>4. job'[c].tried = Resolve(Home[c], job[c].reason) /\ job'[c].tried # NoCred
      BY <1>1, <2>3 DEF Choose, Outcome, Send, Goto, Spending, TypeInv, LocksOK
    <2> QED BY <2>1, <2>4 DEF Resolve
  <1>6. CASE Granting(c) \/ Refusing(c) \/ RefusingClient(c) \/ Resend(c)
    <2>1. /\ job[c] \in SendJob \cup GrantedJob \cup RefusedJob /\ UNCHANGED cvars
          /\ job[c].pc \in {"send", "reply"} /\ job[c].tried \in Cred
      BY <1>6, WireShape DEF Granting, Refusing, RefusingClient, Resend, OnWire
    <2>2. job'[c].tried = job[c].tried
      <3>1. CASE Granting(c)
        BY <2>1, <3>1 DEF Granting, Goto, TypeInv, LocksOK, SendJob, GrantedJob,
                          RefusedJob, WireJob
      <3>2. CASE Refusing(c)
        BY <2>1, <3>2 DEF Refusing, Goto, TypeInv, LocksOK, SendJob, GrantedJob,
                          RefusedJob, WireJob
      <3>3. CASE RefusingClient(c)
        BY <2>1, <3>3 DEF RefusingClient, Goto, TypeInv, LocksOK, SendJob, GrantedJob,
                          RefusedJob, WireJob
      <3>4. CASE Resend(c)
        BY <2>1, <3>4 DEF Resend, Goto, TypeInv, LocksOK, SendJob, GrantedJob,
                          RefusedJob, WireJob
      <3> QED BY <1>6, <3>1, <3>2, <3>3, <3>4
    <2> QED BY <2>1, <2>2, NoCredAssumption DEF Spending
  <1>7. CASE GiveUp(c) \/ Deliver(c)
    <2>1. UNCHANGED cvars /\ job[c].pc \in {"send", "reply"} /\ job[c].tried \in Cred
      BY <1>7, WireShape DEF GiveUp, Deliver, OnWire
    <2>2. \/ job'[c].tried = job[c].tried
          \/ disk # NoCred /\ job'[c].tried = disk
      BY <1>1, <1>7 DEF GiveUp, Deliver, RetryWithDisk, Superseded, Outcome, Send, Goto,
                        TypeInv, LocksOK
    <2> QED BY <2>1, <2>2, NoCredAssumption DEF Spending
  <1>8. ~Save(c) /\ ~SaveFails(c) /\ ~ClearInner(c)
    BY <1>1 DEF Save, SaveFails, ClearInner
  <1>9. CASE Reject(c)
    <2>1. job[c] \in RejectJob /\ Step(c, "judge") /\ UNCHANGED cvars
      BY <1>1, <1>9, RejectShape DEF Reject
    <2>2. job'[c].tried = job[c].tried /\ Spending(job[c])
      BY <1>9, <2>1, NoCredAssumption DEF Step, Goto, RejectJob, Spending, TypeInv, LocksOK
    <2> QED BY <2>1, <2>2
  <1>10. ~Judge(c) /\ ~RemoveEntry(c)
    <2>1. CASE Judge(c)
      BY <1>1, <2>1 DEF Judge, Goto, Spending, TypeInv, LocksOK
    <2>2. CASE RemoveEntry(c)
      BY <1>1, <2>2, RemoveMove DEF Spending
    <2> QED BY <2>1, <2>2
  <1> QED BY <1>2, <1>3, <1>4, <1>5, <1>6, <1>7, <1>8, <1>9, <1>10 DEF Chain

\* What is spent keeps matching while the call holds the lock.
LEMMA MatchKeeps ==
    ASSUME TypeInv, TokenInv, [Next]_vars, NEW d \in Callers, holder = d, ~broken, LockInv,
           Spending(job[d]), Matches(d), job'[d] # Idle, job'[d].tried = job[d].tried,
           \A c \in Callers : ~(Save(c) \/ SaveFails(c) \/ RemoveEntry(c) \/ ClearInner(c))
    PROVE  Matches(d)'
  <1> DEFINE t == job[d].tried
             q == Home[d]
  <1>1. /\ q \in Procs /\ holder # Free /\ job'[d].tried = t
        /\ t \in Stored /\ t \in Cred
    <2>1. t \in Carried(job[d]) /\ t # NoCred
      BY DEF Spending, Carried
    <2> QED BY <2>1, StoredIs, StoredCreds, HomeAssumption, CallAssumption
  <1>2. ASSUME NEW p \in Procs, Login(p) PROVE Matches(d)'
    <2>1. PICK f \in Families : StartFamily(f) /\ disk' = FirstOf(f)
      BY <1>2 DEF Login
    <2>2. t.fam # f
      BY <1>1, <2>1 DEF TokenInv, Reached, StartFamily, Cred
    <2>3. minted + 1 \in 1 .. MaxMint /\ 1 \in 1 .. MaxMint
      BY <2>1, AuthorityAssumption DEF TypeInv, AuthorityOK, StartFamily
    <2>4. disk' \in Cred /\ disk'.fam = f
      BY <2>1, <2>3 DEF FirstOf, Cred
    <2>5. disk' # NoCred /\ ~SameToken(disk', t)
      BY <2>2, <2>4, NoCredAssumption DEF SameToken
    <2> QED BY <1>1, <2>5 DEF Matches, SameToken
  <1>3. ASSUME UNCHANGED disk, inner'[q] \in {inner[q], NoCred} \/ disk # NoCred
        PROVE  Matches(d)'
    BY <1>1, <1>3 DEF Matches, SameToken
  <1>4. ASSUME NEW p \in Procs, HotSwap(p, disk), disk # NoCred PROVE Matches(d)'
    BY <1>3, <1>4 DEF HotSwap
  <1>5. ASSUME UNCHANGED <<disk, inner>> PROVE Matches(d)'
    BY <1>3, <1>5
  <1>6. ASSUME NEW c \in Callers, AuthCall(c) \/ Recover(c) \/ Chain(c) PROVE Matches(d)'
    <2>1. Home[c] \in Procs
      BY HomeAssumption
    <2>2. CASE AuthCall(c) \/ Recover(c)
      BY <1>4, <1>5, <2>1, <2>2 DEF AuthCall, Recover, StartChain, LiftVerdict, MayAdopt,
                                    cvars
    <2>3. CASE Recheck(c) \/ AcquireLock(c) \/ LockTimedOut(c)
      BY <1>4, <1>5, <2>1, <2>3 DEF Recheck, AcquireLock, LockTimedOut, AdoptOr, MayAdopt,
                                    cvars
    <2>4. CASE \/ Defer(c) \/ ClaimSlot(c) \/ CheckGate(c) \/ ClearGate(c)
               \/ Granting(c) \/ Refusing(c) \/ RefusingClient(c) \/ Resend(c)
               \/ GiveUp(c) \/ Deliver(c)
      BY <1>5, <2>4 DEF Defer, ClaimSlot, CheckGate, ClearGate, Granting, Refusing,
                        RefusingClient, Resend, GiveUp, Deliver, cvars
    <2>5. CASE Reject(c) \/ Judge(c)
      BY <1>4, <1>5, <2>1, <2>5 DEF Reject, Judge, MayAdopt, cvars
    <2> QED BY <1>6, <2>2, <2>3, <2>4, <2>5 DEF Chain
  <1>7. ASSUME NEW p \in Procs,
               \/ PickUp(p) \/ Enrich(p) \/ Logout(p)
               \/ Crash(p) \/ VerdictAges(p) \/ Listener(p)
        PROVE  Matches(d)'
    <2>1. CASE PickUp(p)
      BY <1>4, <2>1 DEF PickUp, MayAdopt
    <2>2. CASE Enrich(p)
      BY <1>1, <1>5, <2>2 DEF Enrich
    <2>3. CASE Logout(p)
      BY <1>1, <1>3, <2>3 DEF Logout, TypeInv, CredsOK
    <2>4. CASE Crash(p)
      <3>1. q # p
        BY <2>4 DEF Crash
      <3> QED BY <1>1, <1>3, <2>4, <3>1 DEF Crash, TypeInv, CredsOK
    <2>5. CASE VerdictAges(p) \/ Listener(p)
      BY <1>5, <2>5 DEF VerdictAges, Listener, cvars
    <2> QED BY <1>7, <2>1, <2>2, <2>3, <2>4, <2>5
  <1>8. ASSUME \/ ReplaceLockFile \/ Expire \/ GraceRunsOut \/ SleepAnnounced
               \/ SystemSleeps \/ UNCHANGED vars
        PROVE  Matches(d)'
    BY <1>5, <1>8 DEF ReplaceLockFile, Expire, GraceRunsOut, SleepAnnounced, SystemSleeps,
                      cvars, vars
  <1> QED BY <1>2, <1>6, <1>7, <1>8 DEF Next

LEMMA SpendStep ==
    TypeInv /\ TokenInv /\ LockInv /\ SpendInv /\ [Next]_vars => SpendInv'
  <1> SUFFICES ASSUME TypeInv, TokenInv, LockInv, SpendInv, [Next]_vars, ~broken',
                      NEW d \in Callers, Spending(job'[d])
               PROVE  Matches(d)'
    BY DEF SpendInv, Spending
  <1>1. ~broken /\ (Spending(job[d]) => Matches(d) /\ holder = d)
    BY BrokenStays DEF LockInv, SpendInv, Spending, Exchanging
  <1>2. CASE \E c \in Callers : d = c /\ (AuthCall(c) \/ Recover(c) \/ Chain(c))
    BY <1>1, <1>2, SpendStart DEF Matches, SameToken, cvars
  <1>3. CASE \A c \in Callers : AuthCall(c) \/ Recover(c) \/ Chain(c) => d # c
    <2>1. Spending(job[d]) /\ job'[d].tried = job[d].tried
      <3>1. CASE job'[d] = job[d]
        BY <3>1
      <3>2. CASE SystemSleeps
        BY <3>2, SleepKeeps DEF Spending
      <3>3. ASSUME NEW p \in Procs, Crash(p) PROVE job'[d] = job[d]
        BY <3>3 DEF Crash, Spending, Idle
      <3>4. ASSUME NEW c \in Callers, AuthCall(c) \/ Recover(c) \/ Chain(c)
            PROVE  job'[d] = job[d]
        BY <1>3, <3>4, MovesOne
      <3>5. ASSUME NEW p \in Procs,
                   \/ PickUp(p) \/ Enrich(p) \/ Login(p) \/ Logout(p)
                   \/ VerdictAges(p) \/ Listener(p)
            PROVE  job'[d] = job[d]
        BY <3>5 DEF PickUp, Enrich, Login, Logout, VerdictAges, Listener
      <3>6. ASSUME \/ ReplaceLockFile \/ Expire \/ GraceRunsOut \/ SleepAnnounced
                   \/ UNCHANGED vars
            PROVE  job'[d] = job[d]
        BY <3>6 DEF ReplaceLockFile, Expire, GraceRunsOut, SleepAnnounced, vars
      <3> QED BY <3>1, <3>2, <3>3, <3>4, <3>5, <3>6 DEF Next
    <2>2. \A c \in Callers : ~(Save(c) \/ SaveFails(c) \/ RemoveEntry(c) \/ ClearInner(c))
      <3>1. SUFFICES ASSUME NEW c \in Callers,
                            Save(c) \/ SaveFails(c) \/ RemoveEntry(c) \/ ClearInner(c)
                     PROVE  FALSE
        OBVIOUS
      <3>2. Exchanging(c)
        BY <3>1 DEF Save, SaveFails, RemoveEntry, ClearInner, Exchanging, Removing
      <3>3. holder = c /\ d # c
        BY <1>1, <1>3, <3>1, <3>2 DEF LockInv, Chain
      <3> QED BY <1>1, <2>1, <3>3
    <2>3. job'[d] # Idle
      BY DEF Spending, Idle
    <2> QED BY <1>1, <2>1, <2>2, <2>3, MatchKeeps
  <1> QED BY <1>2, <1>3

\* A call is about to remove because it has just checked, or was before.
LEMMA RemovalMove ==
    ASSUME TypeInv, [Next]_vars, NEW c \in Callers, Removing(c)', c \notin raced'
    PROVE  \/ Judge(c) /\ ~Superseded(job[c].tried)
           \/ Removing(c) /\ c \notin raced /\ job'[c].mem = job[c].mem
  <1>1. ~Finish(c)
    BY DEF Finish, Goto, Idle, Removing, TypeInv, LocksOK
  <1>2. ASSUME AuthCall(c) \/ Recover(c) \/ Recheck(c) \/ LockTimedOut(c) PROVE FALSE
    BY <1>1, <1>2 DEF AuthCall, Recover, StartChain, LiftVerdict, Recheck, LockTimedOut,
                      AdoptOr, Goto, Idle, Removing, TypeInv, LocksOK
  <1>3. ASSUME AcquireLock(c) \/ ClaimSlot(c) PROVE FALSE
    <2>1. job[c] \in LockJob
      BY <1>3, JobShapes DEF AcquireLock, ClaimSlot, TypeInv, LocksOK
    <2> QED BY <1>1, <1>3, <2>1 DEF AcquireLock, ClaimSlot, AdoptOr, Goto, Step, LockJob,
                                    Removing, TypeInv, LocksOK
  <1>4. ASSUME Defer(c) \/ CheckGate(c) \/ ClearGate(c) PROVE FALSE
    <2>1. ~Undeferred(c) /\ ~FoundStale(c, TRUE) /\ ~FoundStale(c, FALSE)
      BY <1>1 DEF Undeferred, FoundStale, Goto, Removing, TypeInv, LocksOK
    <2>2. ~Choose(c)
      BY ChosenPc DEF Removing
    <2> QED BY <1>1, <1>4, <2>1, <2>2 DEF Defer, CheckGate, ClearGate
  <1>5. ASSUME Granting(c) \/ Refusing(c) \/ RefusingClient(c) \/ Resend(c) PROVE FALSE
    <2>1. job[c] \in SendJob \cup GrantedJob \cup RefusedJob
      BY <1>5, WireShape DEF Granting, Refusing, RefusingClient, Resend, OnWire
    <2>2. DOMAIN job = Callers /\ "pc" \in DOMAIN job[c]
      BY <2>1 DEF SendJob, GrantedJob, RefusedJob, WireJob, TypeInv, LocksOK
    <2>3. CASE Granting(c)
      BY <2>2, <2>3 DEF Granting, Goto, Removing
    <2>4. CASE Refusing(c)
      BY <2>2, <2>4 DEF Refusing, Goto, Removing
    <2>5. CASE RefusingClient(c)
      BY <2>2, <2>5 DEF RefusingClient, Goto, Removing
    <2>6. CASE Resend(c)
      BY <2>2, <2>6 DEF Resend, Goto, Removing
    <2> QED BY <1>5, <2>3, <2>4, <2>5, <2>6
  <1>6. ASSUME GiveUp(c) \/ Deliver(c) PROVE FALSE
    BY <1>1, <1>6 DEF GiveUp, Deliver, RetryWithDisk, Outcome, Send, Goto, Removing,
                      TypeInv, LocksOK
  <1>7. ASSUME Save(c) \/ SaveFails(c) \/ ClearInner(c) PROVE FALSE
    BY <1>1, <1>7 DEF Save, SaveFails, ClearInner
  <1>8. ASSUME Reject(c) PROVE FALSE
    <2>1. job[c] \in RejectJob
      BY <1>8, RejectShape DEF Reject
    <2> QED BY <1>1, <1>8, <2>1 DEF Reject, Step, Goto, RejectJob, Removing, TypeInv, LocksOK
  <1>9. CASE Judge(c)
    BY <1>1, <1>9 DEF Judge
  <1>10. CASE RemoveEntry(c)
    <2>1. job'[c].mem = job[c].mem
      BY <1>1, <1>10, RemoveMove
    <2> QED BY <1>10, <2>1 DEF RemoveEntry, Removing
  <1>11. CASE job'[c] = job[c] /\ (c \in raced => c \in raced')
    BY <1>11 DEF Removing
  <1>12. ASSUME NEW d \in Callers, d # c, AuthCall(d) \/ Recover(d) \/ Chain(d)
         PROVE  job'[c] = job[c] /\ (c \in raced => c \in raced')
    <2>1. job'[c] = job[c]
      BY <1>12, MovesOne
    <2>2. c \in raced => c \in raced'
      BY <1>12 DEF AuthCall, Recover, Chain, Recheck, AcquireLock, LockTimedOut, Defer,
           ClaimSlot, CheckGate, ClearGate, Granting, Refusing, RefusingClient, Resend,
           GiveUp, Deliver, Save, SaveFails, Reject, Judge, RemoveEntry, ClearInner,
           Overtake, hvars
    <2> QED BY <2>1, <2>2
  <1>13. ASSUME NEW p \in Procs,
                \/ PickUp(p) \/ Enrich(p) \/ Login(p) \/ Logout(p)
                \/ Crash(p) \/ VerdictAges(p) \/ Listener(p)
         PROVE  job'[c] = job[c] /\ (c \in raced => c \in raced')
    <2>1. CASE Crash(p)
      BY <2>1 DEF Crash, Removing, Idle
    <2>2. CASE ~Crash(p)
      BY <1>13, <2>2 DEF PickUp, Enrich, Login, Logout, VerdictAges, Listener, Overtake,
                         hvars
    <2> QED BY <2>1, <2>2
  <1>14. ASSUME \/ ReplaceLockFile \/ Expire \/ GraceRunsOut \/ SleepAnnounced
                \/ SystemSleeps \/ UNCHANGED vars
         PROVE  job'[c] = job[c] /\ (c \in raced => c \in raced')
    <2>1. CASE SystemSleeps
      <3>1. job'[c].pc = job[c].pc /\ (job[c].pc \notin {"send", "reply"} => job'[c] = job[c])
        BY <2>1, SleepKeeps
      <3> QED BY <2>1, <3>1 DEF SystemSleeps, Removing
    <2>2. CASE ~SystemSleeps
      BY <1>14, <2>2 DEF ReplaceLockFile, Expire, GraceRunsOut, SleepAnnounced, vars, hvars
    <2> QED BY <2>1, <2>2
  <1> QED BY <1>2, <1>3, <1>4, <1>5, <1>6, <1>7, <1>8, <1>9, <1>10, <1>11, <1>12, <1>13,
             <1>14 DEF Next, Chain

\* A writer that a call about to remove does not exclude marks it.
LEMMA OvertakenBy ==
    ASSUME TypeInv, LockInv, NEW c \in Callers, Removing(c), c \notin raced'
    PROVE  /\ \A p \in Procs : ~Login(p)
           /\ \A d \in Callers : ~Save(d) /\ (~broken => ~SaveFails(d))
  <1>1. \A p \in Procs : ~Login(p)
    BY DEF Login, Overtake
  <1>2. ASSUME NEW d \in Callers, Save(d) \/ SaveFails(d), ~broken PROVE FALSE
    <2>1. holder = c /\ holder = d
      BY <1>2 DEF LockInv, Exchanging, Save, SaveFails
    <2> QED BY <1>2, <2>1 DEF Save, SaveFails, Removing
  <1>3. ASSUME NEW d \in Callers, Save(d), broken PROVE FALSE
    BY <1>3 DEF Save, Overtake
  <1> QED BY <1>1, <1>2, <1>3

\* The token of a refused call, and what it finds in the file if not superseded.
LEMMA Judged ==
    ASSUME TypeInv, TokenInv, NEW c \in Callers, Judge(c), ~Superseded(job[c].tried)
    PROVE  /\ job[c].tried \in Stored /\ job[c].tried \in Cred /\ ~Live(job[c].tried)
           /\ ~Live(disk)
  <1>1. job[c].tried \in Cred /\ job[c].reply = "refused"
    BY JudgeShape DEF Judge
  <1>2. job[c].tried \in Stored /\ ~Live(job[c].tried)
    BY <1>1, StoredIs, NoCredAssumption DEF Judge, Carried, TokenInv
  <1>3. ~Live(disk)
    BY <1>1, <1>2, NoCredAssumption DEF Superseded, SameToken, Live
  <1> QED BY <1>1, <1>2, <1>3

LEMMA CheckStep ==
    TypeInv /\ TokenInv /\ LockInv /\ CheckInv /\ [Next]_vars => CheckInv'
  <1> SUFFICES ASSUME TypeInv, TokenInv, LockInv, CheckInv, [Next]_vars,
                      NEW c \in Callers, c \notin raced', Removing(c)'
               PROVE  ~Live(disk)'
    BY DEF CheckInv
  <1>1. CASE Judge(c) /\ ~Superseded(job[c].tried)
    BY <1>1, Judged DEF Judge, Live, ivars
  <1>2. CASE Removing(c) /\ c \notin raced
    <2>1. ~Live(disk)
      BY <1>2 DEF CheckInv
    <2>2. disk' \in {disk, NoCred}
      BY <1>2, StoreStep, OvertakenBy DEF SaveFails
    <2>3. CASE disk' = NoCred
      BY <2>3 DEF Live
    <2>4. CASE disk' = disk /\ disk # NoCred
      <3>1. disk \in Stored
        BY <2>4, Held
      <3>2. PICK x \in Stored : x = disk /\ ~Live(x)
        BY <2>1, <3>1
      <3>3. ~Live(x)'
        BY <3>2, DeadStays
      <3> QED BY <2>4, <3>2, <3>3 DEF Live
    <2> QED BY <2>2, <2>3, <2>4
  <1> QED BY <1>1, <1>2, RemovalMove

LEMMA ClearStep ==
    /\ TypeInv /\ TokenInv /\ LockInv /\ SpendInv /\ CheckInv /\ ClearInv
    /\ [Next]_vars
    => ClearInv'
  <1> SUFFICES ASSUME TypeInv, TokenInv, LockInv, SpendInv, CheckInv, ClearInv, [Next]_vars,
                      ~broken', NEW c \in Callers, c \notin raced', Removing(c)',
                      job'[c].mem
               PROVE  ~Live(inner[Home[c]])'
    BY DEF ClearInv
  <1> DEFINE q == Home[c]
  <1>1. ~broken /\ q \in Procs
    BY BrokenStays, HomeAssumption
  <1>2. CASE Judge(c) /\ ~Superseded(job[c].tried)
    <2> DEFINE t == job[c].tried
    <2>1. t \in Stored /\ t \in Cred /\ ~Live(t) /\ t.key \in 1 .. MaxMint
      BY <1>2, Judged DEF Cred
    <2>2. Matches(c)
      BY <1>1, <1>2, <2>1, NoCredAssumption DEF SpendInv, Spending, Judge
    <2>3. ~Live(inner[q])
      <3>1. CASE disk = t
        <4>1. KeyOf(disk) = t.key
          BY <2>1, <3>1, NoCredAssumption DEF KeyOf
        <4>2. KeyOf(inner[q]) = t.key
          <5> DEFINE neither == t.key \notin {KeyOf(inner[q]), KeyOf(disk)}
                     file == neither \/ KeyOf(disk) = t.key
                     mem == neither \/ KeyOf(inner[q]) = t.key
                     j == [pc |-> IF file THEN "unfile" ELSE "unmem",
                           reason |-> job[c].reason, mem |-> mem]
          <5>1. Goto(c, j)
            BY <1>2 DEF Judge
          <5>2. mem <=> KeyOf(inner[q]) = t.key
            BY <4>1
          <5> HIDE DEF mem, file
          <5>3. j.mem = mem
            OBVIOUS
          <5> HIDE DEF j
          <5>4. job'[c] = j
            BY <5>1 DEF Goto, TypeInv, LocksOK
          <5> QED BY <5>2, <5>3, <5>4
        <4>3. inner[q] # NoCred /\ inner[q].key = t.key
          BY <2>1, <4>2 DEF KeyOf
        <4>4. inner[q] \in Stored
          BY <1>1, <4>3, Held
        <4>5. inner[q] = t
          BY <2>1, <4>3, <4>4 DEF TokenInv
        <4> QED BY <2>1, <4>5
      <3>2. CASE inner[q] \in {t, NoCred}
        BY <2>1, <3>2 DEF Live
      <3>3. ~(disk # NoCred /\ ~SameToken(disk, t))
        BY <1>2 DEF Superseded
      <3> QED BY <2>2, <3>1, <3>2, <3>3 DEF Matches
    <2> QED BY <1>2, <2>3 DEF Judge, Live, ivars
  <1>3. CASE Removing(c) /\ c \notin raced /\ job[c].mem
    <2>1. ~Live(disk) /\ ~Live(inner[q])
      BY <1>1, <1>3 DEF CheckInv, ClearInv
    <2>2. inner'[q] \in {inner[q], disk, NoCred}
      BY <1>1, <1>3, StoreStep, OvertakenBy
    <2>3. CASE inner'[q] = NoCred
      BY <2>3 DEF Live
    <2>4. CASE inner'[q] # NoCred
      <3>1. PICK x \in Stored : x = inner'[q] /\ ~Live(x)
        BY <1>1, <2>1, <2>2, <2>4, Held
      <3>2. ~Live(x)'
        BY <3>1, DeadStays
      <3> QED BY <3>1, <3>2 DEF Live
    <2> QED BY <2>3, <2>4
  <1> QED BY <1>2, <1>3, RemovalMove

\* Apart from faults and logouts, the entry of the file is only removed by
\* RemoveEntry, and that of a memory only cleared by ClearInner.
LEMMA OnlyRemoval ==
    ASSUME TypeInv, [Next]_vars, UNCHANGED faults
    PROVE  /\ disk # NoCred /\ disk' = NoCred => \E c \in Callers : RemoveEntry(c)
           /\ \A p \in Procs : inner[p] # NoCred /\ inner'[p] = NoCred =>
                 \E c \in OfProc(p) : ClearInner(c)
  <1> DEFINE Kept == /\ disk # NoCred => disk' # NoCred
                     /\ \A p \in Procs : inner[p] # NoCred => inner'[p] # NoCred
  <1>1. ASSUME UNCHANGED <<disk, inner>> PROVE Kept
    BY <1>1
  <1>2. ASSUME NEW p \in Procs, HotSwap(p, disk), disk # NoCred PROVE Kept
    BY <1>2 DEF HotSwap, TypeInv, CredsOK
  <1>3. ASSUME NEW p \in Procs, NEW x \in Cred, inner' = [inner EXCEPT ![p] = x],
               disk' \in {disk, x}
        PROVE  Kept
    BY <1>3, NoCredAssumption DEF TypeInv, CredsOK
  <1>4. \A c \in Callers : Home[c] \in Procs
    BY HomeAssumption
  <1>5. ASSUME UNCHANGED vars PROVE Kept
    BY <1>1, <1>5 DEF vars, cvars
  <1>6. ASSUME NEW c \in Callers, AuthCall(c) \/ Recover(c) PROVE Kept
    BY <1>1, <1>2, <1>4, <1>6 DEF AuthCall, Recover, StartChain, LiftVerdict, MayAdopt, cvars
  <1>7. ASSUME NEW c \in Callers, Recheck(c) \/ AcquireLock(c) \/ LockTimedOut(c) PROVE Kept
    BY <1>1, <1>2, <1>4, <1>7 DEF Recheck, AcquireLock, LockTimedOut, AdoptOr, MayAdopt, cvars
  <1>8. ASSUME NEW c \in Callers,
               \/ Defer(c) \/ ClaimSlot(c) \/ CheckGate(c) \/ ClearGate(c)
               \/ Granting(c) \/ Refusing(c) \/ RefusingClient(c) \/ Resend(c)
               \/ GiveUp(c) \/ Deliver(c)
        PROVE  Kept
    BY <1>1, <1>8 DEF Defer, ClaimSlot, CheckGate, ClearGate, Granting, Refusing,
                      RefusingClient, Resend, GiveUp, Deliver, cvars
  <1>9. ASSUME NEW c \in Callers, Save(c) PROVE Kept
    <2>1. job[c].got \in Cred
      BY <1>9, SaveShape DEF Save
    <2> QED BY <1>3, <1>4, <1>9, <2>1 DEF Save
  <1>10. ASSUME NEW c \in Callers, Reject(c) \/ Judge(c) PROVE Kept
    BY <1>1, <1>2, <1>4, <1>10 DEF Reject, Judge, MayAdopt, cvars
  <1>11. ASSUME NEW p \in Procs, PickUp(p) PROVE Kept
    BY <1>2, <1>11 DEF PickUp, MayAdopt
  <1>12. ASSUME NEW p \in Procs, Enrich(p) PROVE Kept
    BY <1>1, <1>12 DEF Enrich, TypeInv, CredsOK
  <1>13. ASSUME NEW p \in Procs, VerdictAges(p) \/ Listener(p) PROVE Kept
    BY <1>1, <1>13 DEF VerdictAges, Listener, cvars
  <1>14. ASSUME ReplaceLockFile \/ Expire \/ GraceRunsOut \/ SleepAnnounced \/ SystemSleeps
         PROVE  Kept
    BY <1>1, <1>14 DEF ReplaceLockFile, Expire, GraceRunsOut, SleepAnnounced, SystemSleeps,
                       cvars
  <1>15. /\ \A p \in Procs : ~Login(p) /\ ~Logout(p) /\ ~Crash(p)
         /\ \A c \in Callers : ~SaveFails(c)
    BY DEF Login, Logout, Crash, SaveFails, Disturb, TypeInv, HistoryOK
  <1>16. ASSUME NEW c \in Callers, RemoveEntry(c)
         PROVE  \A p \in Procs : inner'[p] = inner[p]
    BY <1>16 DEF RemoveEntry
  <1>17. ASSUME NEW c \in Callers, ClearInner(c)
         PROVE  UNCHANGED disk /\ \A p \in Procs \ {Home[c]} : inner'[p] = inner[p]
    BY <1>17 DEF ClearInner, TypeInv, CredsOK
  <1> HIDE DEF Kept
  <1>18. Kept \/ \E c \in Callers : RemoveEntry(c) \/ ClearInner(c)
    BY <1>5, <1>6, <1>7, <1>8, <1>9, <1>10, <1>11, <1>12, <1>13, <1>14, <1>15
       DEF Next, Chain
  <1> QED BY <1>16, <1>17, <1>18 DEF Kept, OfProc

RemovalInv == TokenInv /\ LockInv /\ SpendInv /\ CheckInv /\ ClearInv

LEMMA RemovalInit == Init => RemovalInv
  <1> SUFFICES ASSUME Init PROVE RemovalInv
    OBVIOUS
  <1>1. \A c \in Callers : job[c].pc = "idle"
    BY DEF Init, Idle
  <1> QED BY <1>1, TokenInit
          DEF RemovalInv, LockInv, SpendInv, CheckInv, ClearInv, Exchanging, Removing, Spending

LEMMA RemovalStep == TypeInv /\ RemovalInv /\ [Next]_vars => RemovalInv'
  BY TokenStep, LockStep, SpendStep, CheckStep, ClearStep DEF RemovalInv

LEMMA NothingLiveStep == TypeInv /\ RemovalInv /\ [Next]_vars => NothingLiveDiscarded
  <1> SUFFICES ASSUME TypeInv, RemovalInv, [Next]_vars, UNCHANGED faults
               PROVE  /\ disk # NoCred /\ disk' = NoCred =>
                           \/ ~Live(disk)
                           \/ \E c \in Callers \cap raced : Removing(c) /\ job'[c] # job[c]
                      /\ \A p \in Procs : inner[p] # NoCred /\ inner'[p] = NoCred =>
                           \/ ~Live(inner[p]) \/ broken
                           \/ \E c \in OfProc(p) \cap raced :
                                 Removing(c) /\ job'[c] # job[c]
    BY DEF NothingLiveDiscarded
  <1>1. ASSUME NEW c \in Callers, RemoveEntry(c) \/ ClearInner(c)
        PROVE  Removing(c) /\ job'[c] # job[c]
    <2>1. Removing(c) /\ job[c] \in RemoveJob
      BY <1>1, RemoveShape DEF RemoveEntry, ClearInner, Removing
    <2>2. CASE Finish(c)
      BY <2>1, <2>2 DEF Finish, Goto, Idle, Removing, TypeInv, LocksOK
    <2>3. CASE RemoveEntry(c) /\ Step(c, "unmem")
      BY <2>1, <2>3 DEF RemoveEntry, Step, Goto, RemoveJob, TypeInv, LocksOK
    <2> QED BY <1>1, <2>1, <2>2, <2>3 DEF RemoveEntry, ClearInner
  <1>2. ASSUME disk # NoCred, disk' = NoCred
        PROVE  \/ ~Live(disk)
               \/ \E c \in Callers \cap raced : Removing(c) /\ job'[c] # job[c]
    <2>1. PICK c \in Callers : RemoveEntry(c)
      BY <1>2, OnlyRemoval
    <2> QED BY <1>1, <2>1 DEF RemovalInv, CheckInv
  <1>3. ASSUME NEW p \in Procs, inner[p] # NoCred, inner'[p] = NoCred
        PROVE  \/ ~Live(inner[p]) \/ broken
               \/ \E c \in OfProc(p) \cap raced : Removing(c) /\ job'[c] # job[c]
    <2>1. PICK c \in OfProc(p) : ClearInner(c)
      BY <1>3, OnlyRemoval
    <2>2. c \in Callers /\ Home[c] = p
      BY DEF OfProc
    <2>3. Removing(c) /\ job[c].mem
      BY <2>1, <2>2, RemoveShape DEF ClearInner, Removing, RemoveJob
    <2> QED BY <1>1, <2>1, <2>2, <2>3 DEF RemovalInv, ClearInv, ClearInner
  <1> QED BY <1>2, <1>3

\* LiveKept, for any number of processes, calls, faults and sleeps, and whether or
\* not the authority rotates: apply_refresh_outcome removes from auth.json, and
\* clears from memory, only what the authority no longer takes, whatever happens
\* between the check, write_scope_removal and clear_inner, unless that very check
\* was overtaken by a writer outside the single flight (for the memory, unless a
\* lock file was ever replaced in mid-exchange).
THEOREM AuthLiveKept == Spec => LiveKept
  <1>1. Spec => [](TypeInv /\ RemovalInv)
    BY TypeInit, TypeStep, RemovalInit, RemovalStep, PTL DEF Spec
  <1> QED BY <1>1, NothingLiveStep, PTL DEF Spec, LiveKept

============================================================================
