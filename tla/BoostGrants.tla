----------------------------- MODULE BoostGrants -----------------------------
(***************************************************************************)
(* What a GPU boost promises (gateway/app/models.py:141-169): a request    *)
(* waits for one admin decision; a grant is good for exactly one session;  *)
(* nothing that has been decided or spent is ever reopened.  The grants    *)
(* are in the order they were asked for.                                   *)
(***************************************************************************)
EXTENDS Naturals, Sequences

CONSTANT Users

VARIABLE grants   \* user, status, and the sessions the grant has been used for

Ask(u) ==
  grants' = Append([b \in DOMAIN grants |->
                     IF grants[b].user = u /\ grants[b].status = "pending"
                     THEN [grants[b] EXCEPT !.status = "expired"] ELSE grants[b]],
                  [user |-> u, status |-> "pending", sessions |-> 0])

Decide(b, verdict) ==
  /\ grants[b].status = "pending"
  /\ grants' = [grants EXCEPT ![b].status = verdict]

\* The whole grant goes with the one session it is used for.
Use(b) ==
  /\ grants[b].status = "approved"
  /\ grants' = [grants EXCEPT ![b].status = "consumed", ![b].sessions = 1]

\* The account is gone, and everything it was given with it.
Forget(u) ==
  grants' = [b \in DOMAIN grants |-> IF grants[b].user = u
                                     THEN [grants[b] EXCEPT !.status = "deleted"] ELSE grants[b]]

Init == grants = <<>>

Next ==
  \/ \E u \in Users : Ask(u) \/ Forget(u)
  \/ \E b \in DOMAIN grants : Decide(b, "approved") \/ Decide(b, "denied") \/ Use(b)

Spec == Init /\ [][Next]_grants
=============================================================================
