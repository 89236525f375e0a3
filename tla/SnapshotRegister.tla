-------------------------- MODULE SnapshotRegister --------------------------
(***************************************************************************)
(* What the users of a session's state file rely on, without the channel,  *)
(* the debounce or the flushes that implement it: snapshots reach the      *)
(* file in the order they were issued, some never reach it, none comes     *)
(* back after a later one was considered, and a positive acknowledgement   *)
(* is given only in the step that stores the snapshot it is about.         *)
(***************************************************************************)
EXTENDS Naturals, Sequences

CONSTANT Snapshot

VARIABLES stored,   \* what a restart would load
          later,    \* snapshots issued after it that may still be stored
          told      \* the answer to the caller that waits: none, ok, err

Init == stored \in Snapshot /\ later = <<>> /\ told = "none"

Issue ==
    /\ Len(later') = Len(later) + 1
    /\ SubSeq(later', 1, Len(later)) = later
    /\ told' \in {told, "none"}
    /\ UNCHANGED stored

\* The first i are considered: the last of them is stored, or none is.
Consider(i) ==
    /\ later' = SubSeq(later, i + 1, Len(later))
    /\ stored' \in {stored, later[i]}
    /\ told' \in {told, "err"} \cup (IF stored' = later[i] THEN {"ok"} ELSE {})

\* A crash, or a caller that stops waiting.
Lose == later' \in {later, <<>>} /\ told' = "none" /\ UNCHANGED stored

Next ==
    \/ Issue
    \/ \E i \in 1..Len(later) : Consider(i)
    \/ Lose

Spec == Init /\ [][Next]_<<stored, later, told>>
============================================================================
