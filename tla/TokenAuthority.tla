--------------------------- MODULE TokenAuthority ---------------------------
(***************************************************************************)
(* The token endpoint a refresh talks to, as oidc/refresh.rs and           *)
(* oidc/protocol.rs rely on it (external: the server is not in the         *)
(* repository).  Every login starts a family of refresh tokens, and a      *)
(* refresh token is a generation of its family.  A grant may rotate it;    *)
(* the rotated one is accepted for a while more (the grace that in-call    *)
(* retries count on), and presenting it later is refused and may revoke    *)
(* the family.                                                             *)
(*                                                                         *)
(* A credential is an access token (its key, numbered by mint, so the      *)
(* number orders create_time) and the refresh token minted with it.        *)
(***************************************************************************)
EXTENDS Integers

CONSTANTS MaxLogins,  \* bound: logins, the first one included
          MaxMint,    \* bound: credentials minted
          NoCred

ASSUME AuthorityAssumption == {MaxLogins, MaxMint} \subseteq Nat \ {0}

Families == 1 .. MaxLogins

VARIABLES minted,   \* credentials minted so far
          current,  \* the generation each family accepts; 0 unused, -1 revoked
          grace,    \* a rotated generation it still accepts, or 0
          reused    \* history: a rotated refresh token was refused

ivars == <<minted, current, grace, reused>>

Cred == [key : 1 .. MaxMint, fam : Families, gen : 1 .. MaxMint]

ASSUME NoCredAssumption == NoCred \notin Cred

First == [key |-> 1, fam |-> 1, gen |-> 1]

Live(c) == c # NoCred /\ current[c.fam] = c.gen

Accepted(c) == Live(c) \/ grace[c.fam] = c.gen

SameToken(c, d) == <<c.fam, c.gen>> = <<d.fam, d.gen>>

AuthorityInit ==
    /\ minted = 1
    /\ current = [f \in Families |-> IF f = 1 THEN 1 ELSE 0]
    /\ grace = [f \in Families |-> 0]
    /\ reused = FALSE

\* The successor of c: a new key, and a new refresh token if it rotates.
Granted(c, rotates) ==
    [key |-> minted + 1, fam |-> c.fam,
     gen |-> IF rotates THEN current[c.fam] + 1 ELSE c.gen]

Grant(c, rotates) ==
    /\ minted < MaxMint
    /\ Accepted(c) /\ current[c.fam] > 0
    /\ rotates \/ Live(c)
    /\ minted' = minted + 1
    /\ current' = [current EXCEPT ![c.fam] = Granted(c, rotates).gen]
    /\ grace' = [grace EXCEPT ![c.fam] = IF rotates THEN c.gen ELSE @]
    /\ UNCHANGED reused

Refuse(c) ==
    /\ ~Accepted(c)
    /\ \/ UNCHANGED current
       \/ current' = [current EXCEPT ![c.fam] = -1]
    /\ grace' = [grace EXCEPT ![c.fam] = 0]
    /\ reused' = TRUE
    /\ UNCHANGED minted

\* An interactive login starts the next family.
FirstOf(f) == [key |-> minted + 1, fam |-> f, gen |-> 1]

StartFamily(f) ==
    /\ minted < MaxMint
    /\ current[f] = 0 /\ \A g \in 1 .. f - 1 : current[g] # 0
    /\ minted' = minted + 1
    /\ current' = [current EXCEPT ![f] = 1]
    /\ UNCHANGED <<grace, reused>>

\* More than the grace has passed.
EndGrace ==
    /\ grace' = [f \in Families |-> 0]
    /\ UNCHANGED <<minted, current, reused>>
=============================================================================
