-------------------------- MODULE CompletedHistory --------------------------
(***************************************************************************)
(* The coordinator's history of finished children, with the two structures *)
(* the code keeps in step: the map `completed` and the eviction order      *)
(* `completed_order` (coordinator.rs, coordinator/wake.rs).                *)
(*                                                                         *)
(* SubagentCoordinator abstracts the pair to "the MaxCompleted newest      *)
(* records".  Here the deque is exact: a completion is pushed at the back, *)
(* a wake takes a record out of the middle, a wake that failed puts it     *)
(* back by age, and overflow pops the front.                               *)
(***************************************************************************)
EXTENDS Integers, Sequences, SequencesExt, FiniteSets

CONSTANTS Ids,          \* subagent ids
          MaxCompleted, \* MAX_COMPLETED_ENTRIES
          MaxAge        \* bound on completions for model checking

ASSUME HistoryAssumption == MaxCompleted \in Nat \ {0} /\ MaxAge \in Nat

VARIABLES completed,    \* ids with a terminal record
          order,        \* completed_order
          age,          \* completion_age of a record, kept or displaced
          nextAge,      \* next_completion_age
          displaced,    \* ids whose record a wake holds
          evicted       \* highest age evicted so far (history variable)

vars == <<completed, order, age, nextAge, displaced, evicted>>

Init ==
    /\ completed = {} /\ order = <<>>
    /\ age = [id \in Ids |-> 0]
    /\ nextAge = 1
    /\ displaced = {}
    /\ evicted = 0

\* evict_completed_overflow at the end of the iteration that left the record
\* set `c` in the order `o` with ages `g`.
EvictOverflow(c, o, g) ==
    LET excess == IF Cardinality(c) > MaxCompleted THEN Cardinality(c) - MaxCompleted ELSE 0
        popped == {o[i] : i \in 1..excess}
    IN /\ completed' = c \ popped
       /\ order' = SubSeq(o, excess + 1, Len(o))
       /\ age' = [id \in Ids |-> IF id \in popped THEN 0 ELSE g[id]]
       /\ evicted' = IF excess = 0 THEN evicted ELSE g[o[excess]]

\* finish_child for the children of `batch`, in that order, in one iteration;
\* a successful wake drops the record it displaced.
Complete(batch) ==
    LET n == Len(batch)
        ids == Range(batch)
        ages == [id \in Ids |-> IF id \in ids
                                THEN nextAge + (CHOOSE i \in 1..n : batch[i] = id) - 1
                                ELSE age[id]]
    IN /\ ids \cap completed = {}
       /\ nextAge + n <= MaxAge + 1
       /\ nextAge' = nextAge + n
       /\ displaced' = displaced \ ids
       /\ EvictOverflow(completed \cup ids, order \o batch, ages)

\* wake_completed_child: remove and retain, which drops one position, since the
\* order lists a record once (OrderExact).
Displace(id) ==
    /\ id \in completed
    /\ completed' = completed \ {id}
    /\ order' = RemoveFirst(order, id)
    /\ displaced' = displaced \cup {id}
    /\ UNCHANGED <<age, nextAge, evicted>>

\* Faulty: a record that comes back is taken for the newest.
AppendIndex(id) == Len(order) + 1

\* restore_displaced_completion: before the first newer record, unless the
\* record is older than the retention floor.
RestoreIndex(id) ==
    LET newer == {i \in 1..Len(order) : age[order[i]] > age[id]}
    IN IF newer = {} THEN Len(order) + 1 ELSE CHOOSE i \in newer : \A j \in newer : i <= j

\* Faulty: nothing is too old to come back.
NoFloor == 0

\* The age below which restore_displaced_completion drops the record.
Floor == IF nextAge > MaxCompleted THEN nextAge - MaxCompleted ELSE 0

Restore(id) ==
    /\ id \in displaced
    /\ displaced' = displaced \ {id}
    /\ UNCHANGED nextAge
    /\ IF age[id] < Floor
       THEN /\ age' = [age EXCEPT ![id] = 0]
            /\ UNCHANGED <<completed, order, evicted>>
       ELSE EvictOverflow(completed \cup {id},
                          InsertAt(order, RestoreIndex(id), id), age)

Batches == {<<id>> : id \in Ids} \cup {<<x, y>> : x, y \in Ids}

Next ==
    \/ \E batch \in {s \in Batches : IsInjective(s)} : Complete(batch)
    \/ \E id \in Ids : Displace(id) \/ Restore(id)

Spec == Init /\ [][Next]_vars

----------------------------------------------------------------------------
\* The eviction order lists every record once, oldest first, whatever wakes
\* took out and put back.
OrderExact ==
    /\ Range(order) = completed /\ IsInjective(order)
    /\ \A i, j \in 1..Len(order) : i < j => age[order[i]] < age[order[j]]
    /\ completed \cap displaced = {}

\* A record that comes back from a failed wake never outlives one that was
\* evicted while it was away: what is retained is newer than what is gone.
NoResurrection == \A id \in completed : age[id] > evicted

\* Popping the front keeps exactly the newest records, the abstraction
\* SubagentCoordinator uses.
KeepsNewest ==
    LET known == completed' \cup {id \in completed : id \notin displaced'}
        AgeOf(id) == IF id \in completed' THEN age'[id] ELSE age[id]
    IN completed' = {id \in known :
            Cardinality({o \in known : AgeOf(o) > AgeOf(id)}) < MaxCompleted}

KeepsNewestProp == [][KeepsNewest]_vars
============================================================================
