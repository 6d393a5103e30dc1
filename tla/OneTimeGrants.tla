--------------------------- MODULE OneTimeGrants ----------------------------
(***************************************************************************)
(* What is good for a limited number of uses: the token that hands a       *)
(* browser over to the Hub (routers/notebooks.py issues it,                *)
(* routers/internal.py redeems it, jupyterhub/satyameba_authenticator.py   *)
(* asks for that), and an invite code (routers/admin.py, routers/auth.py). *)
(* One of each.  As in Accounts a handler reads, then commits the columns  *)
(* it changed; redeem_ott looks at the account only after that commit.     *)
(*                                                                         *)
(* entered and admitted are history: who came in with the token, and with  *)
(* the code.                                                               *)
(***************************************************************************)
EXTENDS Naturals, FiniteSets, Combinatorics, Orm

CONSTANTS Reqs,    \* bound: requests in flight
          MaxUses  \* max_uses of the invite

ASSUME OneTimeGrantsAssumption == IsFiniteSet(Reqs) /\ MaxUses \in Nat \ {0}

VARIABLES token, approved, entered, invite, admitted, req

vars == <<token, approved, entered, invite, admitted, req>>

Token == [row : BOOLEAN, used : BOOLEAN, expired : BOOLEAN]

Invite == [uses : 0..MaxUses, active : BOOLEAN, revoked : BOOLEAN, expired : BOOLEAN]

Idle == [pc |-> "idle"]

\* launch has issued the token to an approved user; an admin has made the invite.
Init ==
  /\ token = [row |-> TRUE, used |-> FALSE, expired |-> FALSE]
  /\ approved = TRUE
  /\ entered = 0
  /\ invite = [uses |-> 0, active |-> TRUE, revoked |-> FALSE, expired |-> FALSE]
  /\ admitted = 0
  /\ req = [q \in Reqs |-> Idle]

Become(q, r) == req' = [req EXCEPT ![q] = r]

-----------------------------------------------------------------------------
(* The token. *)

\* A plausible slip: the mark is not looked at.
RedeemableTwice == token.row /\ ~token.expired

Redeemable == token.row /\ ~token.used /\ ~token.expired

Redeem(q) ==
  /\ req[q] = Idle /\ Redeemable
  /\ Become(q, [pc |-> "marking"])
  /\ UNCHANGED <<token, approved, entered, invite, admitted>>

\* Without the row the UPDATE fails: RequestLost.
MarkUsed(q) ==
  /\ req[q].pc = "marking" /\ token.row
  /\ token' = [token EXCEPT !.used = TRUE]
  /\ Become(q, [pc |-> "answering"])
  /\ UNCHANGED <<approved, entered, invite, admitted>>

\* 200 and the Hub logs the browser in, or 403 and the token is spent for nothing.
Answer(q) ==
  /\ req[q].pc = "answering"
  /\ entered' = IF approved THEN entered + 1 ELSE entered
  /\ Become(q, Idle)
  /\ UNCHANGED <<token, approved, invite, admitted>>

\* cleanup_once
SweepToken ==
  /\ token.row /\ (token.used \/ token.expired)
  /\ token' = [token EXCEPT !.row = FALSE]
  /\ UNCHANGED <<approved, entered, invite, admitted, req>>

TokenExpires ==
  /\ ~token.expired
  /\ token' = [token EXCEPT !.expired = TRUE]
  /\ UNCHANGED <<approved, entered, invite, admitted, req>>

\* An admin suspends, or reinstates.
Decide ==
  /\ approved' = ~approved
  /\ UNCHANGED <<token, entered, invite, admitted, req>>

-----------------------------------------------------------------------------
(* The invite. *)

Valid == invite.active /\ invite.uses < MaxUses /\ ~invite.expired

\* A plausible slip: the last place is not given.
CountedEarly ==
  [uses |-> invite.uses + 1, active |-> invite.active /\ invite.uses + 2 < MaxUses]

\* A plausible slip: the count alone closes the code.
CountedOnly == [uses |-> invite.uses + 1]

Counted ==
  [uses |-> invite.uses + 1, active |-> invite.active /\ invite.uses + 1 < MaxUses]

Register(q) ==
  /\ req[q] = Idle /\ Valid
  /\ Become(q, [pc |-> "registering", change |-> Changed(invite, Counted)])
  /\ UNCHANGED <<token, approved, entered, invite, admitted>>

\* The account and the use are one transaction.
CommitRegister(q) ==
  /\ req[q].pc = "registering"
  /\ invite' = Updated(invite, req[q].change)
  /\ admitted' = admitted + 1
  /\ Become(q, Idle)
  /\ UNCHANGED <<token, approved, entered>>

RevokeInvite ==
  /\ ~invite.revoked
  /\ invite' = [invite EXCEPT !.active = FALSE, !.revoked = TRUE]
  /\ UNCHANGED <<token, approved, entered, admitted, req>>

InviteExpires ==
  /\ ~invite.expired
  /\ invite' = [invite EXCEPT !.expired = TRUE]
  /\ UNCHANGED <<token, approved, entered, admitted, req>>

-----------------------------------------------------------------------------
\* A failed commit, a crash, or an answer that does not reach the Hub.
RequestLost(q) ==
  /\ req[q] # Idle
  /\ Become(q, Idle)
  /\ UNCHANGED <<token, approved, entered, invite, admitted>>

Next ==
  \/ \E q \in Reqs : \/ Redeem(q) \/ MarkUsed(q) \/ Answer(q)
                     \/ Register(q) \/ CommitRegister(q) \/ RequestLost(q)
  \/ SweepToken \/ TokenExpires \/ Decide \/ RevokeInvite \/ InviteExpires

Spec == Init /\ [][Next]_vars

-----------------------------------------------------------------------------
(* redeem_ott: "Redeem a single-use SSO token".  Redemptions under way     *)
(* together may all find the token unused; nobody else gets in with it, so *)
(* it logs in at most as many browsers as requests overlap, and one where  *)
(* none do, whatever the sweep, the expiry and the admins do meanwhile.    *)
TokenBounded == entered =< Cardinality(Reqs)

(* Registrations under way together count as one use, and a slow one       *)
(* writes an old count back.  With n requests in flight an invite still    *)
(* admits no more than this, and with one, max_uses.                       *)
InviteBounded ==
  LET n == Cardinality(Reqs) IN admitted =< choose(MaxUses + n - 1, n) + n - 1

(* And never fewer: unless it is revoked, an invite is closed only after   *)
(* max_uses accounts were made with it.                                    *)
InviteUsedUp == ~invite.active /\ ~invite.revoked => admitted >= MaxUses
=============================================================================
