---------------------- MODULE ActiveMessageLeaseProofs ----------------------
(***************************************************************************)
(* For every set of messages: the lease keeps its types, the answers are   *)
(* true, and the specification implements AdmissionContract.  The          *)
(* inductive invariant is LeaseHeld, which ties the position of both sides *)
(* to the value of the lease.                                              *)
(***************************************************************************)
EXTENDS ActiveMessageLease, TLAPS

Inv == TypeOK /\ LeaseHeld

\* The type invariant holds in every reachable state.
THEOREM LeaseTypeCorrect == Spec => []TypeOK
<1>1. Init => TypeOK
  BY DEF Init, TypeOK, Lease, Host, Reply, Poll, Outcome, Answers
<1>2. TypeOK /\ [Next]_vars => TypeOK'
  <2> SUFFICES ASSUME TypeOK, [Next]_vars PROVE TypeOK'
    OBVIOUS
  <2> USE DEF TypeOK, Lease, Host, Reply, Poll, Outcome, Answers
  <2>1. CASE UNCHANGED vars
    BY <2>1 DEF vars
  <2>2. ASSUME NEW m \in Messages, Session(m) PROVE TypeOK'
    BY <2>2 DEF Session, HostRefuses, Claim, Insert, Commit, HostReplies, HostDies
  <2>3. ASSUME NEW m \in Messages, Coordinator(m) PROVE TypeOK'
    <3>1. CASE SettleLoad(m)
      BY <3>1 DEF SettleLoad, Ready
    <3>2. CASE SettleRevoke(m)
      BY <3>2 DEF SettleRevoke, Ready
    <3>3. CASE GiveUp(m)
      BY <3>3 DEF GiveUp
    <3>4. CASE Revoke(m)
      BY <3>4 DEF Revoke, Ready
    <3>5. CASE Finish(m)
      BY <3>5 DEF Finish, Protocol
    <3>6. CASE LoseCompletion(m)
      BY <3>6 DEF LoseCompletion, Protocol
    <3>7. CASE DropFuture(m)
      BY <3>7 DEF DropFuture
    <3> QED
      BY <2>3, <3>1, <3>2, <3>3, <3>4, <3>5, <3>6, <3>7 DEF Coordinator
  <2> QED
    BY <2>1, <2>2, <2>3 DEF Next
<1> QED
  BY <1>1, <1>2, PTL DEF Spec

\* A step of the child's session keeps the relation between the sides.
LEMMA SessionKeepsLease ==
  ASSUME Inv, NEW m \in Messages, Session(m)
  PROVE  LeaseHeld'
<1> USE DEF Inv, TypeOK, LeaseHeld
<1>1. CASE HostRefuses(m)
  BY <1>1 DEF HostRefuses
<1>2. CASE Claim(m)
  BY <1>2 DEF Claim
<1>3. CASE Insert(m)
  BY <1>3 DEF Insert
<1>4. CASE Commit(m)
  BY <1>4 DEF Commit
<1>5. CASE HostReplies(m)
  BY <1>5 DEF HostReplies
<1>6. CASE HostDies(m)
  BY <1>6 DEF HostDies
<1> QED
  BY <1>1, <1>2, <1>3, <1>4, <1>5, <1>6 DEF Session

\* A step of the coordinator's future keeps it.
LEMMA CoordinatorKeepsLease ==
  ASSUME Inv, NEW m \in Messages, Coordinator(m)
  PROVE  LeaseHeld'
<1> USE DEF Inv, TypeOK, LeaseHeld, Lease, Outcome
<1>1. CASE SettleLoad(m)
  BY <1>1 DEF SettleLoad, Ready
<1>2. CASE SettleRevoke(m)
  BY <1>2 DEF SettleRevoke, Ready
<1>3. CASE GiveUp(m)
  BY <1>3 DEF GiveUp
<1>4. CASE Revoke(m)
  BY <1>4 DEF Revoke, Ready
<1>5. CASE Finish(m)
  BY <1>5 DEF Finish, Protocol
<1>6. CASE LoseCompletion(m)
  BY <1>6 DEF LoseCompletion, Protocol
<1>7. CASE DropFuture(m)
  BY <1>7 DEF DropFuture
<1> QED
  BY <1>1, <1>2, <1>3, <1>4, <1>5, <1>6, <1>7 DEF Coordinator

\* The inductive invariant.
THEOREM LeaseInvariant == Spec => [](TypeOK /\ LeaseHeld)
<1>1. Init => LeaseHeld
  BY DEF Init, LeaseHeld
<1>2. Inv /\ [Next]_vars => LeaseHeld'
  <2> SUFFICES ASSUME Inv, [Next]_vars PROVE LeaseHeld'
    OBVIOUS
  <2>1. CASE UNCHANGED vars
    BY <2>1 DEF vars, Inv, LeaseHeld
  <2>2. CASE Next
    BY <2>2, SessionKeepsLease, CoordinatorKeepsLease DEF Next
  <2> QED
    BY <2>1, <2>2
<1> QED
  BY <1>1, <1>2, LeaseTypeCorrect, PTL DEF Spec, Inv

\* A sender told Accepted or Rejected was told the truth, for good.
THEOREM LeaseAnswersTrue == Spec => []AnswersTrue
<1>1. Inv => AnswersTrue
  BY DEF Inv, TypeOK, LeaseHeld, AnswersTrue
<1> QED
  BY <1>1, LeaseInvariant, PTL DEF Inv

\* A message nobody claimed is never answered AdmissionUncertain.
THEOREM LeaseUncertain == Spec => []UncertainMeansClaimed
<1>1. Inv => UncertainMeansClaimed
  BY DEF Inv, LeaseHeld, UncertainMeansClaimed
<1> QED
  BY <1>1, LeaseInvariant, PTL DEF Inv

\* Every step of the lease is a step of the contract or changes neither the
\* rows nor the answers.
THEOREM LeaseImplementsContract == Spec => ImplementsContract
<1>1. Init => Contract!Init
  BY DEF Init, Contract!Init
<1>2. Inv /\ [Next]_vars => [Contract!Next]_<<rows, answer>>
  <2> SUFFICES ASSUME Inv, Next PROVE [Contract!Next]_<<rows, answer>>
    BY DEF vars
  <2> PICK m \in Messages : Session(m) \/ Coordinator(m)
    BY DEF Next
  <2>1. CASE Insert(m)
    BY <2>1 DEF Insert, Inv, LeaseHeld, TypeOK, Contract!Next, Contract!Take
  <2>2. ASSUME NEW a \in {"Accepted", "Rejected", "Uncertain"},
               answer[m] = "none", answer' = [answer EXCEPT ![m] = a],
               a = "Accepted" => m \in rows, a = "Rejected" => m \notin rows,
               rows' = rows
        PROVE  Contract!Next
    BY <2>2 DEF Contract!Next, Contract!Tell, Contract!Answers
  <2>3. CASE Finish(m)
    BY <2>2, <2>3 DEF Finish, Protocol, Inv, LeaseHeld, TypeOK, Outcome
  <2>4. CASE LoseCompletion(m)
    BY <2>2, <2>4 DEF LoseCompletion, Protocol, Inv, LeaseHeld, TypeOK, Outcome
  <2>5. CASE DropFuture(m)
    BY <2>2, <2>5 DEF DropFuture, Inv, LeaseHeld, TypeOK, Lease
  <2>6. CASE UNCHANGED <<rows, answer>>
    BY <2>6
  <2> QED
    BY <2>1, <2>3, <2>4, <2>5, <2>6
    DEF Session, Coordinator, HostRefuses, Claim, Commit, HostReplies, HostDies,
        SettleLoad, SettleRevoke, GiveUp, Revoke
<1> QED
  BY <1>1, <1>2, LeaseInvariant, PTL DEF Spec, Inv, ImplementsContract, Contract!Spec
============================================================================
