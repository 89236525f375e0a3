------------------------- MODULE AdmissionContract -------------------------
(***************************************************************************)
(* What a sender is promised about a message to a running child, without   *)
(* the lease that implements it: the child's session may take the message  *)
(* at some point, the sender gets one answer, and an answer that is not    *)
(* "Uncertain" tells the truth then and ever after.                        *)
(***************************************************************************)
CONSTANT Messages

VARIABLES rows,     \* messages inserted into the child's prompt queue
          answer    \* what each sender was told

Answers == {"none", "Accepted", "Rejected", "Uncertain"}

Init == rows = {} /\ answer = [m \in Messages |-> "none"]

\* A message that was refused is never taken later.
Take(m) ==
    /\ m \notin rows /\ answer[m] # "Rejected"
    /\ rows' = rows \cup {m}
    /\ UNCHANGED answer

Tell(m, a) ==
    /\ answer[m] = "none"
    /\ a = "Accepted" => m \in rows
    /\ a = "Rejected" => m \notin rows
    /\ answer' = [answer EXCEPT ![m] = a]
    /\ UNCHANGED rows

Next == \E m \in Messages : Take(m) \/ \E a \in Answers \ {"none"} : Tell(m, a)

Spec == Init /\ [][Next]_<<rows, answer>>
============================================================================
