--------------------------- MODULE MCAuthRefresh ---------------------------
(***************************************************************************)
(* A small instance of AuthRefresh: two processes with the same auth.json, *)
(* and one call in each.                                                   *)
(***************************************************************************)
EXTENDS AuthRefresh

CONSTANTS p1, p2, a1, b1

MCHome == [c \in Callers |-> IF c = b1 THEN p2 ELSE p1]
============================================================================
