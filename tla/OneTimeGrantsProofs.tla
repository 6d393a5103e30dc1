------------------------ MODULE OneTimeGrantsProofs -------------------------
(***************************************************************************)
(* What a one-time token and an invite keep however many requests overlap: *)
(* the token's bound, a count of the requests that found it unused; that   *)
(* an invite is not closed early; and that it admits no more than          *)
(* max_uses where registrations come one by one, and no more than a bound  *)
(* of the requests in flight where they overlap.                           *)
(*                                                                         *)
(* The lemmas on lost updates speak of any requests that read a count and  *)
(* write its successor: LoginGuardProofs uses them for failed attempts.    *)
(***************************************************************************)
EXTENDS OneTimeGrants, FiniteSetTheorems, WellFoundedInduction, TLAPS

\* The columns a registration writes: the count, and active when it closes the code.
IsChange(c) ==
  /\ DOMAIN c \in {{"uses"}, {"uses", "active"}}
  /\ c.uses \in 1..MaxUses
  /\ "active" \in DOMAIN c => c.active = FALSE
  /\ c.uses = MaxUses => "active" \in DOMAIN c

IsRequest(r) ==
  /\ r.pc \in {"idle", "marking", "answering", "registering"}
  /\ r.pc = "registering" => IsChange(r.change)

TypeOK ==
  /\ token \in Token /\ approved \in BOOLEAN /\ entered \in Nat
  /\ invite \in Invite /\ admitted \in Nat
  /\ req = [q \in Reqs |-> req[q]] /\ \A q \in Reqs : IsRequest(req[q])

\* The requests that found the token unused and have not entered yet.
Going == {q \in Reqs : req[q].pc \in {"marking", "answering"}}

TokenInv ==
  /\ entered + Cardinality(Going) =< Cardinality(Reqs)
  /\ ~token.used => entered = 0 /\ \A q \in Reqs : req[q].pc # "answering"

\* What a registration in flight is about to write, against who was admitted.
InviteInv ==
  /\ invite.uses =< admitted
  /\ InviteUsedUp
  /\ \A q \in Reqs : req[q].pc = "registering" =>
       /\ req[q].change.uses =< admitted + 1
       /\ "active" \in DOMAIN req[q].change => MaxUses =< admitted + 1

IInv == TypeOK /\ TokenInv /\ InviteInv

-----------------------------------------------------------------------------
(* The counting.                                                           *)

LEMMA Steps == /\ Idle.pc = "idle" /\ IsRequest(Idle)
               /\ IsRequest([pc |-> "marking"]) /\ IsRequest([pc |-> "answering"])
BY DEF IsRequest, Idle

LEMMA SubsetsOfReqs ==
  ASSUME NEW S, S \subseteq Reqs
  PROVE  /\ IsFiniteSet(S) /\ Cardinality(S) \in Nat
         /\ Cardinality(S) =< Cardinality(Reqs) /\ Cardinality(Reqs) \in Nat
BY OneTimeGrantsAssumption, FS_Subset, FS_CardinalityType

\* One request takes a step: what becomes of those that are going.
LEMMA GoingAfter ==
  ASSUME TypeOK, NEW q \in Reqs, NEW r, IsRequest(r), Become(q, r)
  PROVE  /\ req' = [p \in Reqs |-> req'[p]] /\ \A p \in Reqs : IsRequest(req'[p])
         /\ \A p \in Reqs : req'[p] = IF p = q THEN r ELSE req[p]
         /\ Going' = IF r.pc \in {"marking", "answering"} THEN Going \cup {q} ELSE Going \ {q}
<1>1. req' = [p \in Reqs |-> IF p = q THEN r ELSE req[p]]
  BY DEF TypeOK, Become
<1>2. \A p \in Reqs : req'[p] = IF p = q THEN r ELSE req[p]
  BY <1>1
<1>3. \A p \in Reqs : IsRequest(req'[p])
  BY <1>2 DEF TypeOK
<1>4. Going' = IF r.pc \in {"marking", "answering"} THEN Going \cup {q} ELSE Going \ {q}
  BY <1>2 DEF Going
<1> QED  BY <1>1, <1>2, <1>3, <1>4

-----------------------------------------------------------------------------
(* What a registration writes.                                             *)

LEMMA WhatIsCounted ==
  ASSUME invite \in Invite, Valid
  PROVE  /\ IsChange(Changed(invite, Counted))
         /\ Changed(invite, Counted).uses = invite.uses + 1
         /\ "active" \in DOMAIN Changed(invite, Counted) => MaxUses =< invite.uses + 1
<1>1. /\ invite.uses \in 0..MaxUses /\ invite.uses < MaxUses /\ invite.active = TRUE
      /\ MaxUses \in Nat
  BY OneTimeGrantsAssumption DEF Invite, Valid
<1>2. /\ DOMAIN Counted = {"uses", "active"} /\ Counted["uses"] = invite.uses + 1
      /\ Counted["active"] = (invite.uses + 1 < MaxUses)
  BY <1>1 DEF Counted
<1>3. Changed(invite, Counted) =
        [d \in {e \in {"uses", "active"} : Counted[e] # invite[e]} |-> Counted[d]]
  BY <1>2 DEF Changed
<1>4. Counted["uses"] # invite["uses"]
  BY <1>1, <1>2
<1>5. CASE invite.uses + 1 < MaxUses
  <2>1. {e \in {"uses", "active"} : Counted[e] # invite[e]} = {"uses"}
    BY <1>1, <1>2, <1>4, <1>5
  <2> QED  BY <1>1, <1>2, <1>3, <1>5, <2>1 DEF IsChange
<1>6. CASE ~(invite.uses + 1 < MaxUses)
  <2> DEFINE more == invite.uses + 1 < MaxUses
  <2>0. Counted["active"] = more /\ ~more /\ more \in BOOLEAN  BY <1>2, <1>6
  <2> HIDE DEF more
  <2>1. Counted["active"] = FALSE  BY <2>0, Zenon
  <2>2. Counted["active"] # invite["active"]  BY <1>1, <2>1
  <2>3. {e \in {"uses", "active"} : Counted[e] # invite[e]} = {"uses", "active"}
    BY <1>4, <2>2
  <2> QED  BY <1>1, <1>2, <1>3, <1>6, <2>1, <2>3 DEF IsChange
<1> QED  BY <1>5, <1>6

LEMMA WhatIsWritten ==
  ASSUME invite \in Invite, NEW c, IsChange(c)
  PROVE  /\ Updated(invite, c) \in Invite
         /\ Updated(invite, c).uses = c.uses
         /\ Updated(invite, c).revoked = invite.revoked
         /\ ~Updated(invite, c).active <=> ~invite.active \/ "active" \in DOMAIN c
<1>1. DOMAIN invite = {"uses", "active", "revoked", "expired"}  BY DEF Invite
<1>2. Updated(invite, c) =
        [uses |-> c.uses, active |-> IF "active" \in DOMAIN c THEN FALSE ELSE invite.active,
         revoked |-> invite.revoked, expired |-> invite.expired]
  <2>1. CASE DOMAIN c = {"uses"}  BY <1>1, <2>1 DEF Updated
  <2>2. CASE DOMAIN c = {"uses", "active"}
    <3>1. c["active"] = FALSE  BY <2>2 DEF IsChange
    <3>2. Updated(invite, c) = [f \in {"uses", "active", "revoked", "expired"} |->
                                  IF f \in {"uses", "active"} THEN c[f] ELSE invite[f]]
      BY <1>1, <2>2 DEF Updated
    <3>3. Updated(invite, c) = [uses |-> c.uses, active |-> c["active"],
                                revoked |-> invite.revoked, expired |-> invite.expired]
      BY <3>2
    <3> QED  BY <2>2, <3>1, <3>3
  <2> QED  BY <2>1, <2>2 DEF IsChange
<1>3. c.uses \in 0..MaxUses  BY OneTimeGrantsAssumption DEF IsChange
<1>4. invite.active \in BOOLEAN /\ invite.revoked \in BOOLEAN /\ invite.expired \in BOOLEAN
  BY DEF Invite
<1>5. CASE "active" \in DOMAIN c
  <2>1. Updated(invite, c) = [uses |-> c.uses, active |-> FALSE,
                              revoked |-> invite.revoked, expired |-> invite.expired]
    BY <1>2, <1>5
  <2> QED  BY <1>3, <1>4, <1>5, <2>1 DEF Invite
<1>6. CASE "active" \notin DOMAIN c
  <2>1. Updated(invite, c) = [uses |-> c.uses, active |-> invite.active,
                              revoked |-> invite.revoked, expired |-> invite.expired]
    BY <1>2, <1>6
  <2> QED  BY <1>3, <1>4, <1>6, <2>1 DEF Invite
<1> QED  BY <1>5, <1>6

-----------------------------------------------------------------------------
(* The invariant.                                                          *)

LEMMA InitIInv == Init => IInv
<1> SUFFICES ASSUME Init PROVE IInv  OBVIOUS
<1>1. TypeOK
  BY Steps, OneTimeGrantsAssumption DEF Init, TypeOK, Token, Invite
<1>2. Going = {} /\ \A q \in Reqs : req[q].pc = "idle"
  BY Steps DEF Init, Going
<1>3. TokenInv
  BY <1>2, SubsetsOfReqs, FS_EmptySet DEF Init, TokenInv
<1>4. InviteInv
  BY <1>2 DEF Init, InviteInv, InviteUsedUp
<1> QED  BY <1>1, <1>3, <1>4 DEF IInv

\* Steps of a request that holds the token, or asks for it.
LEMMA TokenStep ==
  ASSUME IInv, NEW q \in Reqs, Redeem(q) \/ MarkUsed(q) \/ Answer(q)
  PROVE  IInv'
<1>0. TypeOK /\ TokenInv /\ InviteInv  BY DEF IInv
<1>1. CASE Redeem(q)
  <2>1. Become(q, [pc |-> "marking"]) /\ UNCHANGED <<token, approved, entered, invite, admitted>>
        /\ ~token.used
    BY <1>1 DEF Redeem, Redeemable
  <2>2. /\ req' = [p \in Reqs |-> req'[p]] /\ \A p \in Reqs : IsRequest(req'[p])
        /\ \A p \in Reqs : req'[p] = IF p = q THEN [pc |-> "marking"] ELSE req[p]
        /\ Going' \subseteq Reqs
    BY <1>0, <2>1, Steps, GoingAfter DEF Going
  <2>3. TypeOK'  BY <1>0, <2>1, <2>2 DEF TypeOK
  <2>4. TokenInv'
    BY <1>0, <2>1, <2>2, SubsetsOfReqs DEF TokenInv
  <2>5. InviteInv'
    BY <1>0, <2>1, <2>2 DEF InviteInv, InviteUsedUp
  <2> QED  BY <2>3, <2>4, <2>5 DEF IInv
<1>2. CASE MarkUsed(q)
  <2>1. /\ Become(q, [pc |-> "answering"]) /\ UNCHANGED <<approved, entered, invite, admitted>>
        /\ token' = [token EXCEPT !.used = TRUE] /\ q \in Going
    BY <1>2 DEF MarkUsed, Going
  <2>2. /\ req' = [p \in Reqs |-> req'[p]] /\ \A p \in Reqs : IsRequest(req'[p])
        /\ \A p \in Reqs : req'[p] = IF p = q THEN [pc |-> "answering"] ELSE req[p]
        /\ Going' = Going \cup {q}
    BY <1>0, <2>1, Steps, GoingAfter
  <2>3. TypeOK' /\ token'.used = TRUE  BY <1>0, <2>1, <2>2 DEF TypeOK, Token
  <2>4. TokenInv'
    <3>1. Going' = Going  BY <2>1, <2>2
    <3> QED  BY <1>0, <2>1, <2>2, <2>3, <3>1 DEF TokenInv
  <2>5. InviteInv'
    BY <1>0, <2>1, <2>2 DEF InviteInv, InviteUsedUp
  <2> QED  BY <2>3, <2>4, <2>5 DEF IInv
<1>3. CASE Answer(q)
  <2>1. /\ Become(q, Idle) /\ UNCHANGED <<token, approved, invite, admitted>>
        /\ req[q].pc = "answering" /\ q \in Going
    BY <1>3 DEF Answer, Going
  <2>2. /\ req' = [p \in Reqs |-> req'[p]] /\ \A p \in Reqs : IsRequest(req'[p])
        /\ \A p \in Reqs : req'[p] = IF p = q THEN Idle ELSE req[p]
        /\ Going' = Going \ {q}
    BY <1>0, <2>1, Steps, GoingAfter
  <2>3. entered' \in {entered, entered + 1}  BY <1>3 DEF Answer
  <2>4. token.used = TRUE
    BY <1>0, <2>1 DEF TypeOK, Token, TokenInv
  <2>5. Cardinality(Going') = Cardinality(Going) - 1
    BY <2>1, <2>2, SubsetsOfReqs, FS_RemoveElement DEF Going
  <2>6. TypeOK'  BY <1>0, <2>1, <2>2, <2>3 DEF TypeOK
  <2>7. Cardinality(Going) \in Nat /\ Cardinality(Reqs) \in Nat
    BY SubsetsOfReqs DEF Going
  <2>8. TokenInv'
    BY <1>0, <2>1, <2>3, <2>4, <2>5, <2>7 DEF TokenInv, TypeOK
  <2>9. InviteInv'
    BY <1>0, <2>1, <2>2, Steps DEF InviteInv, InviteUsedUp
  <2> QED  BY <2>6, <2>8, <2>9 DEF IInv
<1> QED  BY <1>1, <1>2, <1>3

\* Steps of a registration, and the end of any request that fails.
LEMMA InviteStep ==
  ASSUME IInv, NEW q \in Reqs, Register(q) \/ CommitRegister(q) \/ RequestLost(q)
  PROVE  IInv'
<1>0. TypeOK /\ TokenInv /\ InviteInv  BY DEF IInv
<1>1. CASE Register(q)
  <2> DEFINE c == Changed(invite, Counted)
  <2>1. /\ Become(q, [pc |-> "registering", change |-> c])
        /\ UNCHANGED <<token, approved, entered, invite, admitted>>
        /\ req[q] = Idle /\ Valid
    BY <1>1 DEF Register
  <2>2. IsChange(c) /\ c.uses = invite.uses + 1 /\ ("active" \in DOMAIN c => MaxUses =< invite.uses + 1)
    BY <1>0, <2>1, WhatIsCounted DEF TypeOK
  <2>9. IsRequest([pc |-> "registering", change |-> c])
    BY <2>2 DEF IsRequest
  <2> HIDE DEF c
  <2>3. /\ req' = [p \in Reqs |-> req'[p]] /\ \A p \in Reqs : IsRequest(req'[p])
        /\ \A p \in Reqs : req'[p] = IF p = q THEN [pc |-> "registering", change |-> c] ELSE req[p]
        /\ Going' = Going \ {q}
    BY <1>0, <2>1, <2>9, GoingAfter
  <2>4. Going' = Going  BY <2>1, <2>3, Steps DEF Going
  <2>5. TypeOK'  BY <1>0, <2>1, <2>3 DEF TypeOK
  <2>6. TokenInv'
    BY <1>0, <2>1, <2>3, <2>4 DEF TokenInv
  <2>7. invite.uses \in Nat /\ admitted \in Nat /\ MaxUses \in Nat
    BY <1>0, OneTimeGrantsAssumption DEF TypeOK, Invite
  <2>8. InviteInv'
    BY <1>0, <2>1, <2>2, <2>3, <2>7 DEF InviteInv, InviteUsedUp
  <2> QED  BY <2>5, <2>6, <2>8 DEF IInv
<1>2. CASE CommitRegister(q)
  <2>1. /\ Become(q, Idle) /\ UNCHANGED <<token, approved, entered>>
        /\ req[q].pc = "registering" /\ admitted' = admitted + 1
        /\ invite' = Updated(invite, req[q].change)
    BY <1>2 DEF CommitRegister
  <2>2. IsChange(req[q].change) /\ invite \in Invite
    BY <1>0, <2>1 DEF TypeOK, IsRequest
  <2>3. /\ invite' \in Invite /\ invite'.uses = req[q].change.uses
        /\ invite'.revoked = invite.revoked
        /\ ~invite'.active => ~invite.active \/ "active" \in DOMAIN req[q].change
    BY <2>1, <2>2, WhatIsWritten
  <2>4. /\ req' = [p \in Reqs |-> req'[p]] /\ \A p \in Reqs : IsRequest(req'[p])
        /\ \A p \in Reqs : req'[p] = IF p = q THEN Idle ELSE req[p]
        /\ Going' = Going \ {q}
    BY <1>0, <2>1, Steps, GoingAfter
  <2>5. Going' = Going  BY <2>1, <2>4 DEF Going
  <2>6. TypeOK'  BY <1>0, <2>1, <2>3, <2>4 DEF TypeOK
  <2>7. TokenInv'
    BY <1>0, <2>1, <2>4, <2>5, Steps DEF TokenInv
  <2>8. admitted \in Nat /\ MaxUses \in Nat
        /\ \A p \in Reqs : req[p].pc = "registering" => req[p].change.uses \in Nat
    BY <1>0, OneTimeGrantsAssumption DEF TypeOK, IsRequest, IsChange
  <2>9. InviteInv'
    <3>1. invite'.uses =< admitted'
      BY <1>0, <2>1, <2>3 DEF InviteInv
    <3>2. InviteUsedUp'
      BY <1>0, <2>1, <2>3, <2>8 DEF InviteInv, InviteUsedUp
    <3>3. ASSUME NEW p \in Reqs, req'[p].pc = "registering"
          PROVE  /\ req'[p].change.uses =< admitted' + 1
                 /\ "active" \in DOMAIN req'[p].change => MaxUses =< admitted' + 1
      BY <1>0, <2>1, <2>4, <2>8, <3>3, Steps DEF InviteInv
    <3> QED  BY <3>1, <3>2, <3>3 DEF InviteInv
  <2> QED  BY <2>6, <2>7, <2>9 DEF IInv
<1>3. CASE RequestLost(q)
  <2>1. Become(q, Idle) /\ UNCHANGED <<token, approved, entered, invite, admitted>>
    BY <1>3 DEF RequestLost
  <2>2. /\ req' = [p \in Reqs |-> req'[p]] /\ \A p \in Reqs : IsRequest(req'[p])
        /\ \A p \in Reqs : req'[p] = IF p = q THEN Idle ELSE req[p]
        /\ Going' = Going \ {q}
    BY <1>0, <2>1, Steps, GoingAfter
  <2>3. /\ Cardinality(Going') =< Cardinality(Going)
        /\ Cardinality(Going) \in Nat /\ Cardinality(Going') \in Nat /\ Cardinality(Reqs) \in Nat
    <3>1. Going \subseteq Reqs /\ Going' \subseteq Going  BY <2>2 DEF Going
    <3> QED  BY <3>1, SubsetsOfReqs, FS_Subset
  <2>4. TypeOK'  BY <1>0, <2>1, <2>2 DEF TypeOK
  <2>5. TokenInv'
    BY <1>0, <2>1, <2>2, <2>3, Steps DEF TokenInv, TypeOK
  <2>6. InviteInv'
    BY <1>0, <2>1, <2>2, Steps DEF InviteInv, InviteUsedUp
  <2> QED  BY <2>4, <2>5, <2>6 DEF IInv
<1> QED  BY <1>1, <1>2, <1>3

\* The sweep, time, and the admins.
LEMMA OutsideStep ==
  ASSUME IInv, SweepToken \/ TokenExpires \/ Decide \/ RevokeInvite \/ InviteExpires
  PROVE  IInv'
<1>0. TypeOK /\ TokenInv /\ InviteInv  BY DEF IInv
<1>1. UNCHANGED <<entered, admitted, req>>
  BY DEF SweepToken, TokenExpires, Decide, RevokeInvite, InviteExpires
<1>2. TypeOK' /\ token'.used = token.used
  BY <1>0 DEF TypeOK, Token, Invite, SweepToken, TokenExpires, Decide, RevokeInvite, InviteExpires
<1>3. /\ invite'.uses = invite.uses
      /\ ~invite'.active /\ ~invite'.revoked => ~invite.active /\ ~invite.revoked
  BY <1>0 DEF TypeOK, Invite, SweepToken, TokenExpires, Decide, RevokeInvite, InviteExpires
<1>4. TokenInv'  BY <1>0, <1>1, <1>2 DEF TokenInv, Going
<1>5. InviteInv'  BY <1>0, <1>1, <1>3 DEF InviteInv, InviteUsedUp
<1> QED  BY <1>2, <1>4, <1>5 DEF IInv

(* However redemptions and registrations overlap: those that found the     *)
(* token unused and those it let in are together no more than the requests *)
(* there are, and a use is written back only after an admission.           *)
THEOREM Invariant == Spec => []IInv
<1>1. Init => IInv  BY InitIInv
<1>2. IInv /\ [Next]_vars => IInv'
  <2> SUFFICES ASSUME IInv, [Next]_vars PROVE IInv'  OBVIOUS
  <2>1. CASE Next
    BY <2>1, TokenStep, InviteStep, OutsideStep DEF Next
  <2>2. CASE UNCHANGED vars
    BY <2>2 DEF vars, IInv, TypeOK, TokenInv, InviteInv, InviteUsedUp, Going
  <2> QED  BY <2>1, <2>2
<1> QED  BY <1>1, <1>2, PTL DEF Spec

(* redeem_ott: a token logs in at most as many browsers as requests overlap.*)
THEOREM TokenIsBounded == Spec => []TokenBounded
<1>1. IInv => TokenBounded
  <2> SUFFICES ASSUME IInv PROVE entered =< Cardinality(Reqs)  BY DEF TokenBounded
  <2>1. Cardinality(Going) \in Nat /\ Cardinality(Reqs) \in Nat /\ entered \in Nat
    BY SubsetsOfReqs DEF Going, IInv, TypeOK
  <2> QED  BY <2>1 DEF IInv, TokenInv
<1> QED  BY <1>1, Invariant, PTL

(* register: an invite nobody revoked closes only after max_uses accounts. *)
THEOREM InviteServesAll == Spec => []InviteUsedUp
<1>1. IInv => InviteUsedUp  BY DEF IInv, InviteInv
<1> QED  BY <1>1, Invariant, PTL

-----------------------------------------------------------------------------
(* Factorials and choices: what the bound on overlapping requests is       *)
(* made of.  The numbers are well-founded, and a set that holds 0 and is   *)
(* closed under the successor is all of them.                              *)

\* No number below it is no other number above it.
LEMMA MinimalIsLeast ==
  ASSUME NEW R, NEW S \in SUBSET Nat,
         \A x, y \in Nat : <<x, y>> \in R <=> x < y,
         \E i \in S : \A j \in S : <<j, i>> \notin R
  PROVE  \E i \in S : \A j \in S : i =< j
<1>1. PICK i \in S : \A j \in S : <<j, i>> \notin R
  OBVIOUS
<1>2. \A j \in S : ~(j < i)
  BY <1>1
<1> QED BY <1>2

LEMMA HasLeast ==
  ASSUME NEW S \in SUBSET Nat, S # {}
  PROVE  \E i \in S : \A j \in S : i =< j
<1> DEFINE R == OpToRel(<, Nat)
<1>1. IsWellFoundedOn(R, Nat)
  BY NatLessThanWellFounded, Zenon
<1>2. \A x, y \in Nat : <<x, y>> \in R <=> x < y
  BY DEF OpToRel
<1> HIDE DEF R
<1>3. \E i \in S : \A j \in S : <<j, i>> \notin R
  BY <1>1, WFMin, Zenon
<1> QED BY <1>2, <1>3, MinimalIsLeast, Zenon

\* Induction over the numbers.
LEMMA NumbersInduction ==
  ASSUME NEW G, 0 \in G, \A n \in Nat : n \in G => n + 1 \in G
  PROVE  Nat \subseteq G
<1> DEFINE Bad == Nat \ G
<1>1. ASSUME Bad # {} PROVE FALSE
  <2>1. PICK i \in Bad : \A j \in Bad : i =< j
    BY <1>1, HasLeast
  <2>2. i # 0 /\ i \in Nat
    OBVIOUS
  <2>3. i - 1 \in Nat /\ ~(i =< i - 1)
    BY <2>2
  <2>4. i - 1 \in G
    BY <2>1, <2>3
  <2>5. (i - 1) + 1 \in G
    BY <2>3, <2>4
  <2> QED BY <2>2, <2>5
<1> QED BY <1>1

\* f is the factorial up to n.
Factorial(f, n) ==
  /\ f \in [Nat -> Nat] /\ f[0] = 1
  /\ \A m \in Nat : m < n => f[m + 1] = (m + 1) * f[m]

LEMMA FactorialsExist ==
  ASSUME NEW n \in Nat
  PROVE  \E f : Factorial(f, n)
<1> DEFINE G == {m \in Nat : \E f : Factorial(f, m)}
<1>1. 0 \in G
  <2> DEFINE f == [m \in Nat |-> 1]
  <2>1. Factorial(f, 0)
    BY DEF Factorial
  <2> QED BY <2>1
<1>2. ASSUME NEW m \in Nat, m \in G PROVE m + 1 \in G
  <2>1. PICK f : Factorial(f, m)
    BY <1>2
  <2> DEFINE h == [f EXCEPT ![m + 1] = (m + 1) * f[m]]
  <2>2. f \in [Nat -> Nat] /\ f[0] = 1 /\ f[m] \in Nat /\ (m + 1) * f[m] \in Nat
    BY <2>1 DEF Factorial
  <2>3. /\ h \in [Nat -> Nat] /\ h[m + 1] = (m + 1) * f[m]
        /\ \A i \in Nat : i # m + 1 => h[i] = f[i]
    BY <2>2
  <2> HIDE DEF h
  <2>4. ASSUME NEW i \in Nat, i < m + 1 PROVE h[i + 1] = (i + 1) * h[i]
    <3>1. h[i] = f[i]
      BY <2>3, <2>4
    <3>2. CASE i = m
      BY <2>3, <3>1, <3>2
    <3>3. CASE i < m
      <4>1. f[i + 1] = (i + 1) * f[i] /\ h[i + 1] = f[i + 1]
        BY <2>1, <2>3, <3>3 DEF Factorial
      <4> QED BY <3>1, <4>1
    <3> QED BY <2>4, <3>2, <3>3
  <2>5. Factorial(h, m + 1)
    BY <2>2, <2>3, <2>4 DEF Factorial
  <2> QED BY <2>5
<1> HIDE DEF G
<1>3. Nat \subseteq G
  BY <1>1, <1>2, NumbersInduction
<1> QED BY <1>3 DEF G

LEMMA FactorialsAgree ==
  ASSUME NEW n \in Nat, NEW f, NEW g, Factorial(f, n), Factorial(g, n)
  PROVE  f[n] = g[n]
<1> DEFINE G == {m \in Nat : m =< n => f[m] = g[m]}
<1>1. 0 \in G
  BY DEF Factorial
<1>2. ASSUME NEW m \in Nat, m \in G PROVE m + 1 \in G
  <2>1. CASE m + 1 =< n
    <3>1. m < n /\ m =< n
      BY <2>1
    <3>2. f[m + 1] = (m + 1) * f[m] /\ g[m + 1] = (m + 1) * g[m] /\ f[m] = g[m]
      BY <1>2, <3>1 DEF Factorial
    <3> QED BY <3>2
  <2>2. CASE ~(m + 1 =< n)
    BY <2>2
  <2> QED BY <2>1, <2>2
<1> HIDE DEF G
<1>3. Nat \subseteq G
  BY <1>1, <1>2, NumbersInduction
<1> QED BY <1>3 DEF G

LEMMA FactorialIs ==
  /\ factorial[0] = 1
  /\ \A n \in Nat : factorial[n + 1] = (n + 1) * factorial[n]
<1> DEFINE Unfolds(g) == g = [n \in Nat |-> IF n = 0 THEN 1 ELSE n * g[n - 1]]
           upto(n) == CHOOSE f : Factorial(f, n)
           it == [n \in Nat |-> upto(n)[n]]
<1>1. \A n \in Nat : Factorial(upto(n), n)
  BY FactorialsExist
<1> HIDE DEF upto
<1>2. it[0] = 1
  BY <1>1 DEF Factorial
<1>3. ASSUME NEW n \in Nat PROVE it[n + 1] = (n + 1) * it[n]
  <2>1. n + 1 \in Nat /\ n < n + 1
    OBVIOUS
  <2>2. Factorial(upto(n + 1), n + 1) /\ Factorial(upto(n), n)
    BY <1>1, <2>1
  <2>3. Factorial(upto(n + 1), n)
    BY <2>2 DEF Factorial
  <2>4. upto(n + 1)[n] = upto(n)[n]
    BY <2>2, <2>3, FactorialsAgree
  <2>5. upto(n + 1)[n + 1] = (n + 1) * upto(n + 1)[n]
    BY <2>1, <2>2 DEF Factorial
  <2> QED BY <2>1, <2>4, <2>5
<1>4. it = [n \in Nat |-> it[n]]
  OBVIOUS
<1> HIDE DEF it
<1>5. ASSUME NEW n \in Nat PROVE it[n] = IF n = 0 THEN 1 ELSE n * it[n - 1]
  <2>1. CASE n = 0
    BY <1>2, <2>1
  <2>2. CASE n # 0
    <3>1. n - 1 \in Nat /\ (n - 1) + 1 = n
      BY <2>2
    <3> QED BY <1>3, <2>2, <3>1
  <2> QED BY <2>1, <2>2
<1>6. Unfolds(it)
  BY <1>4, <1>5
<1>7. Unfolds(factorial)
  BY <1>6 DEF factorial
<1>8. \A n \in Nat : factorial[n] = IF n = 0 THEN 1 ELSE n * factorial[n - 1]
  BY <1>7
<1>9. ASSUME NEW n \in Nat PROVE factorial[n + 1] = (n + 1) * factorial[n]
  <2>1. n + 1 \in Nat /\ n + 1 # 0 /\ (n + 1) - 1 = n
    OBVIOUS
  <2> QED BY <1>8, <2>1
<1> QED BY <1>8, <1>9

LEMMA FactorialIsPositive == \A n \in Nat : factorial[n] \in Nat \ {0}
<1> DEFINE G == {n \in Nat : factorial[n] \in Nat \ {0}}
<1>1. 0 \in G
  BY FactorialIs
<1>2. ASSUME NEW n \in Nat, n \in G PROVE n + 1 \in G
  <2>1. factorial[n + 1] = (n + 1) * factorial[n] /\ factorial[n] \in Nat \ {0}
    BY <1>2, FactorialIs
  <2> QED BY <2>1
<1> HIDE DEF G
<1>3. Nat \subseteq G
  BY <1>1, <1>2, NumbersInduction
<1> QED BY <1>3 DEF G

LEMMA Quotient ==
  ASSUME NEW c \in Nat, NEW d \in Nat \ {0}
  PROVE  (c * d) \div d = c
OBVIOUS

\* c is the number of k-sets of n things.
IsChoice(c, n, k) == c \in Nat \ {0} /\ c * (factorial[k] * factorial[n - k]) = factorial[n]

LEMMA ChooseIs ==
  ASSUME NEW n \in Nat, NEW k \in 0..n, NEW c, IsChoice(c, n, k)
  PROVE  choose(n, k) = c
<1> DEFINE d == factorial[k] * factorial[n - k]
<1>1. factorial[k] \in Nat \ {0} /\ factorial[n - k] \in Nat \ {0}
  BY FactorialIsPositive
<1>2. d \in Nat \ {0} /\ c \in Nat /\ c * d = factorial[n]
  BY <1>1 DEF IsChoice
<1> HIDE DEF d
<1>3. (c * d) \div d = c
  BY <1>2, Quotient
<1>4. choose(n, k) = factorial[n] \div d
  BY DEF choose, d
<1> QED BY <1>2, <1>3, <1>4

LEMMA ChoiceOfNone ==
  ASSUME NEW n \in Nat
  PROVE  IsChoice(1, n, 0) /\ IsChoice(1, n, n)
<1>1. factorial[n] \in Nat \ {0} /\ factorial[0] = 1 /\ n - n = 0 /\ n - 0 = n
  BY FactorialIsPositive, FactorialIs
<1> QED BY <1>1 DEF IsChoice

\* a, b are the factorials of k and n - k - 1, f that of n.
LEMMA PascalArithmetic ==
  ASSUME NEW a \in Nat, NEW b \in Nat, NEW f \in Nat, NEW c \in Nat, NEW e \in Nat,
         NEW i \in Nat, NEW j \in Nat,
         c * (a * (i * b)) = f, e * ((j * a) * b) = f
  PROVE  (c + e) * ((j * a) * (i * b)) = (j + i) * f
<1>1. c * (a * (i * b)) * j = f * j
  OBVIOUS
<1>2. e * ((j * a) * b) * i = f * i
  OBVIOUS
<1>3. (c + e) * ((j * a) * (i * b)) = c * (a * (i * b)) * j + e * ((j * a) * b) * i
  OBVIOUS
<1>4. (j + i) * f = f * j + f * i
  OBVIOUS
<1> QED BY <1>1, <1>2, <1>3, <1>4

LEMMA ChoicesAdd ==
  ASSUME NEW n \in Nat, NEW k \in Nat, k + 1 =< n, NEW c, NEW e,
         IsChoice(c, n, k), IsChoice(e, n, k + 1)
  PROVE  IsChoice(c + e, n + 1, k + 1)
<1> DEFINE m == n - (k + 1)
           a == factorial[k]
           b == factorial[m]
           f == factorial[n]
           i == m + 1
           j == k + 1
<1>1. m \in Nat /\ n - k = m + 1 /\ (n + 1) - (k + 1) = m + 1 /\ i \in Nat /\ j \in Nat /\ j + i = n + 1
  OBVIOUS
<1>2. /\ a \in Nat /\ b \in Nat /\ f \in Nat
      /\ factorial[k + 1] = j * a /\ factorial[m + 1] = i * b /\ factorial[n + 1] = (n + 1) * f
  BY <1>1, FactorialIs, FactorialIsPositive
<1>3. c \in Nat /\ e \in Nat /\ c + e \in Nat \ {0}
  BY DEF IsChoice
<1>4. c * (factorial[k] * factorial[n - k]) = f /\ e * (factorial[k + 1] * factorial[m]) = f
  BY DEF IsChoice
<1>5. factorial[n - k] = i * b
  BY <1>1, <1>2
<1>6. factorial[k] = a /\ factorial[m] = b /\ factorial[(n + 1) - (k + 1)] = i * b
  BY <1>1, <1>2
<1> HIDE DEF m, a, b, f, i, j
<1>7. c * (a * (i * b)) = f /\ e * ((j * a) * b) = f
  BY <1>2, <1>4, <1>5, <1>6
<1>8. (c + e) * ((j * a) * (i * b)) = (j + i) * f
  BY <1>1, <1>2, <1>3, <1>7, PascalArithmetic
<1>9. (c + e) * (factorial[k + 1] * factorial[(n + 1) - (k + 1)]) = factorial[n + 1]
  BY <1>1, <1>2, <1>6, <1>8
<1> QED BY <1>3, <1>9 DEF IsChoice

LEMMA ChoicesExist == \A n \in Nat : \A k \in 0..n : \E c : IsChoice(c, n, k)
<1> DEFINE G == {n \in Nat : \A k \in 0..n : \E c : IsChoice(c, n, k)}
<1>1. 0 \in G
  BY ChoiceOfNone
<1>2. ASSUME NEW n \in Nat, n \in G PROVE n + 1 \in G
  <2>1. ASSUME NEW k \in 0..(n + 1) PROVE \E c : IsChoice(c, n + 1, k)
    <3>1. CASE k = 0 \/ k = n + 1
      BY <3>1, ChoiceOfNone
    <3>2. CASE k # 0 /\ k # n + 1
      <4> DEFINE l == k - 1
      <4>1. l \in Nat /\ l + 1 = k /\ l + 1 =< n /\ l \in 0..n /\ k \in 0..n
        BY <3>2
      <4>2. PICK c : IsChoice(c, n, l)
        BY <1>2, <4>1
      <4>3. PICK e : IsChoice(e, n, l + 1)
        BY <1>2, <4>1
      <4> HIDE DEF l
      <4>4. IsChoice(c + e, n + 1, l + 1)
        BY <4>1, <4>2, <4>3, ChoicesAdd
      <4> QED BY <4>1, <4>4
    <3> QED BY <3>1, <3>2
  <2> QED BY <2>1
<1> HIDE DEF G
<1>3. Nat \subseteq G
  BY <1>1, <1>2, NumbersInduction
<1> QED BY <1>3 DEF G

\* Pascal's triangle.
LEMMA Pascal ==
  ASSUME NEW n \in Nat, NEW k \in Nat, k + 1 =< n
  PROVE  choose(n + 1, k + 1) = choose(n, k) + choose(n, k + 1)
<1>1. k \in 0..n /\ k + 1 \in 0..n /\ n + 1 \in Nat /\ k + 1 \in 0..(n + 1)
  OBVIOUS
<1>2. PICK c : IsChoice(c, n, k)
  BY <1>1, ChoicesExist
<1>3. PICK e : IsChoice(e, n, k + 1)
  BY <1>1, ChoicesExist
<1>4. IsChoice(c + e, n + 1, k + 1)
  BY <1>2, <1>3, ChoicesAdd
<1> QED BY <1>1, <1>2, <1>3, <1>4, ChooseIs

LEMMA ChooseIsPositive ==
  ASSUME NEW n \in Nat, NEW k \in 0..n
  PROVE  choose(n, k) \in Nat \ {0}
<1>1. PICK c : IsChoice(c, n, k)
  BY ChoicesExist
<1>2. choose(n, k) = c
  BY <1>1, ChooseIs
<1> QED BY <1>1, <1>2 DEF IsChoice

LEMMA ChooseNone == \A n \in Nat : choose(n, 0) = 1
BY ChoiceOfNone, ChooseIs

LEMMA ChooseOne == \A n \in Nat \ {0} : choose(n, 1) = n
<1> SUFFICES ASSUME NEW n \in Nat \ {0} PROVE choose(n, 1) = n
  OBVIOUS
<1>1. n - 1 \in Nat /\ (n - 1) + 1 = n /\ 0 + 1 = 1 /\ 0 \in Nat /\ 1 \in 0..n
  OBVIOUS
<1>2. factorial[n] = n * factorial[n - 1] /\ factorial[1] = 1 * factorial[0] /\ factorial[0] = 1
  BY <1>1, FactorialIs
<1>3. factorial[n - 1] \in Nat
  BY <1>1, FactorialIsPositive
<1>4. IsChoice(n, n, 1)
  BY <1>2, <1>3 DEF IsChoice
<1> QED BY <1>1, <1>4, ChooseIs

-----------------------------------------------------------------------------
(* Lost updates.  Requests read a count, and each writes the successor of  *)
(* what it has read, m at most: in w, with m where there is nothing to     *)
(* write.  The count is u, and has been written a times.                   *)

\* With k requests, d short of m: the ways to choose k of d, with repetition.
Ways(d, k) == choose(d + k - 1, k)

\* How many writes level t is good for when k requests can write more than t.
Share(m, t, k) == IF k = 0 THEN 0 ELSE Ways(m - t + 1, k - 1)

LEMMA WaysAre ==
  ASSUME NEW d \in Nat \ {0}, NEW k \in Nat
  PROVE  /\ Ways(d, k) \in Nat \ {0} /\ Ways(d, 0) = 1
         /\ Ways(d + 1, k + 1) = Ways(d + 1, k) + Ways(d, k + 1)
<1>1. d + k - 1 \in Nat /\ k \in 0..(d + k - 1) /\ d - 1 \in Nat /\ d + 0 - 1 = d - 1
  OBVIOUS
<1>2. Ways(d, k) \in Nat \ {0}
  BY <1>1, ChooseIsPositive DEF Ways
<1>3. Ways(d, 0) = 1
  BY <1>1, ChooseNone DEF Ways
<1> DEFINE n == d + k
<1>4. /\ n \in Nat /\ k + 1 =< n /\ (d + 1) + (k + 1) - 1 = n + 1
      /\ (d + 1) + k - 1 = n /\ d + (k + 1) - 1 = n
  OBVIOUS
<1> HIDE DEF n
<1>5. choose(n + 1, k + 1) = choose(n, k) + choose(n, k + 1)
  BY <1>4, Pascal
<1>6. /\ Ways(d + 1, k + 1) = choose(n + 1, k + 1)
      /\ Ways(d + 1, k) = choose(n, k)
      /\ Ways(d, k + 1) = choose(n, k + 1)
  BY <1>4 DEF Ways
<1> QED BY <1>2, <1>3, <1>5, <1>6

LEMMA ShareIs ==
  ASSUME NEW m \in Nat, NEW t \in Nat \ {0}, t < m, NEW k \in Nat
  PROVE  /\ Ways(m - t + 1, k) = Share(m, t, k) + Ways(m - t, k)
         /\ Share(m, t, k + 1) = Share(m, t, k) + Ways(m - t, k)
         /\ Ways(m - t, k) \in Nat \ {0} /\ Share(m, t, k) \in Nat
<1> DEFINE d == m - t
<1>1. d \in Nat \ {0} /\ d + 1 \in Nat \ {0} /\ m - t + 1 = d + 1 /\ k + 1 # 0 /\ (k + 1) - 1 = k
  OBVIOUS
<1>2. m - t = d
  OBVIOUS
<1> HIDE DEF d
<1>3. Ways(d, k) \in Nat \ {0} /\ Ways(d + 1, k) \in Nat \ {0}
  BY <1>1, WaysAre
<1>4. Share(m, t, k + 1) = Ways(d + 1, k)
  BY <1>1 DEF Share
<1>5. CASE k = 0
  <2>1. Ways(d + 1, 0) = 1 /\ Ways(d, 0) = 1 /\ Share(m, t, 0) = 0
    BY <1>1, WaysAre DEF Share
  <2> QED BY <1>1, <1>2, <1>3, <1>4, <1>5, <2>1
<1>6. CASE k # 0
  <2> DEFINE l == k - 1
  <2>1. l \in Nat /\ k = l + 1
    BY <1>6
  <2>2. Share(m, t, k) = Ways(d + 1, l)
    BY <1>1, <1>6 DEF Share
  <2> HIDE DEF l
  <2>3. Ways(d + 1, l + 1) = Ways(d + 1, l) + Ways(d, l + 1) /\ Ways(d + 1, l) \in Nat
    BY <1>1, <2>1, WaysAre
  <2> QED BY <1>1, <1>2, <1>3, <1>4, <2>1, <2>2, <2>3
<1> QED BY <1>5, <1>6

LEMMA ShareGrows ==
  ASSUME NEW m \in Nat, NEW t \in Nat \ {0}, t < m, NEW k \in Nat, NEW l \in Nat, k =< l
  PROVE  Share(m, t, k) =< Share(m, t, l)
<1> DEFINE G == {i \in Nat : Share(m, t, k) =< Share(m, t, k + i)}
<1>1. 0 \in G
  <2>1. k + 0 = k /\ Share(m, t, k) \in Nat
    BY ShareIs
  <2> QED BY <2>1
<1>2. ASSUME NEW i \in Nat, i \in G PROVE i + 1 \in G
  <2> DEFINE j == k + i
  <2>1. j \in Nat /\ k + (i + 1) = j + 1 /\ Share(m, t, k) =< Share(m, t, j)
    BY <1>2
  <2> HIDE DEF j
  <2>2. /\ Share(m, t, j + 1) = Share(m, t, j) + Ways(m - t, j)
        /\ Ways(m - t, j) \in Nat /\ Share(m, t, j) \in Nat /\ Share(m, t, k) \in Nat
    BY <2>1, ShareIs
  <2> QED BY <2>1, <2>2
<1> HIDE DEF G
<1>3. Nat \subseteq G
  BY <1>1, <1>2, NumbersInduction
<1>4. l - k \in G /\ k + (l - k) = l
  BY <1>3
<1> QED BY <1>4 DEF G

\* From level v up to level u, no more than what k requests can write.
LEMMA Climb ==
  ASSUME NEW m \in Nat, NEW u \in 0..(m - 1), NEW v \in 0..u, NEW k \in Nat,
         NEW s \in [0..(m - 1) -> Nat],
         \A t \in (v + 1)..u : s[t] =< s[t - 1] + Share(m, t, k)
  PROVE  s[u] + Ways(m - u, k) =< s[v] + Ways(m - v, k)
<1> DEFINE G == {i \in Nat : v + i =< u => s[v + i] + Ways(m - (v + i), k) =< s[v] + Ways(m - v, k)}
<1>1. 0 \in G
  <2>1. v + 0 = v /\ s[v] \in Nat /\ m - v \in Nat \ {0}
    OBVIOUS
  <2>2. Ways(m - v, k) \in Nat
    BY <2>1, WaysAre
  <2> QED BY <2>1, <2>2
<1>2. ASSUME NEW i \in Nat, i \in G PROVE i + 1 \in G
  <2>1. CASE v + (i + 1) =< u
    <3> DEFINE t == v + (i + 1)
    <3>1. /\ t \in (v + 1)..u /\ t \in Nat \ {0} /\ t < m /\ t - 1 = v + i /\ v + i =< u
          /\ s[t] \in Nat /\ s[t - 1] \in Nat /\ s[v] \in Nat
          /\ m - (v + i) = m - t + 1 /\ m - t \in Nat \ {0} /\ m - v \in Nat \ {0}
      BY <2>1
    <3>2. s[t - 1] + Ways(m - t + 1, k) =< s[v] + Ways(m - v, k)
      BY <1>2, <3>1
    <3> HIDE DEF t
    <3>3. s[t] =< s[t - 1] + Share(m, t, k)
      BY <3>1
    <3>4. /\ Ways(m - t + 1, k) = Share(m, t, k) + Ways(m - t, k)
          /\ Ways(m - t, k) \in Nat /\ Share(m, t, k) \in Nat
      BY <3>1, ShareIs
    <3>5. Ways(m - v, k) \in Nat
      BY <3>1, WaysAre
    <3>6. s[t] + Ways(m - t, k) =< s[v] + Ways(m - v, k)
      <4>1. s[t] \in Nat /\ s[t - 1] \in Nat /\ s[v] \in Nat
        BY <3>1
      <4> DEFINE p == Ways(m - t + 1, k)
                 q == Ways(m - t, k)
                 r == Share(m, t, k)
                 o == Ways(m - v, k)
                 i0 == s[t - 1]
                 i1 == s[t]
                 i2 == s[v]
      <4>2. /\ p = r + q /\ q \in Nat /\ r \in Nat /\ o \in Nat
            /\ i0 + p =< i2 + o /\ i1 =< i0 + r
            /\ i0 \in Nat /\ i1 \in Nat /\ i2 \in Nat
        BY <3>2, <3>3, <3>4, <3>5, <4>1
      <4> HIDE DEF p, q, r, o, i0, i1, i2
      <4>3. i1 + q =< i2 + o
        BY ONLY <4>2
      <4> QED BY <4>3 DEF q, o, i1, i2
    <3> QED BY <3>6 DEF t
  <2>2. CASE ~(v + (i + 1) =< u)
    BY <2>2
  <2> QED BY <2>1, <2>2
<1> HIDE DEF G
<1>3. Nat \subseteq G
  BY <1>1, <1>2, NumbersInduction
<1>4. u - v \in G /\ v + (u - v) = u
  BY <1>3
<1> QED BY <1>4 DEF G

\* The requests that may still write more than t.
Ahead(Q, w, t) == {q \in Q : w[q] > t}

\* s[t] bounds the writes that left the count at t or below.
Accounted(Q, m, w, u, a, s) ==
  /\ s \in [0..(m - 1) -> Nat]
  /\ s[0] = 0
  /\ \A t \in 1..u : s[t] =< s[t - 1] + Share(m, t, Cardinality(Ahead(Q, w, t)))
  /\ a =< s[u]

LostUpdates(Q, m, w, u, a) ==
  /\ IsFiniteSet(Q) /\ m \in Nat \ {0} /\ w \in [Q -> 1..m] /\ u \in 0..(m - 1) /\ a \in Nat
  /\ \E s : Accounted(Q, m, w, u, a, s)

LEMMA SomeAhead ==
  ASSUME NEW Q, IsFiniteSet(Q), NEW w, NEW t
  PROVE  /\ Cardinality(Ahead(Q, w, t)) \in Nat /\ IsFiniteSet(Ahead(Q, w, t))
         /\ Cardinality(Ahead(Q, w, t)) =< Cardinality(Q) /\ Cardinality(Q) \in Nat
<1>1. Ahead(Q, w, t) \subseteq Q
  BY DEF Ahead
<1> QED BY <1>1, FS_Subset, FS_CardinalityType

\* As long as the count is below m, it has been written fewer times than this.
LEMMA WritesAreBounded ==
  ASSUME NEW Q, NEW m, NEW w, NEW u, NEW a, LostUpdates(Q, m, w, u, a)
  PROVE  a < Ways(m, Cardinality(Q)) /\ Ways(m, Cardinality(Q)) \in Nat
<1> DEFINE n == Cardinality(Q)
<1>1. /\ IsFiniteSet(Q) /\ m \in Nat \ {0} /\ u \in 0..(m - 1) /\ a \in Nat /\ n \in Nat
      /\ 0 \in 0..u /\ m - 0 = m /\ m - u \in Nat \ {0}
  BY FS_CardinalityType DEF LostUpdates
<1>2. PICK s : Accounted(Q, m, w, u, a, s)
  BY DEF LostUpdates
<1>3. s \in [0..(m - 1) -> Nat] /\ s[0] = 0 /\ a =< s[u] /\ s[u] \in Nat
  BY <1>1, <1>2 DEF Accounted
<1>4. ASSUME NEW t \in (0 + 1)..u PROVE s[t] =< s[t - 1] + Share(m, t, n)
  <2> DEFINE k == Cardinality(Ahead(Q, w, t))
  <2>1. k \in Nat /\ k =< n
    BY <1>1, SomeAhead
  <2>2. s[t] =< s[t - 1] + Share(m, t, k)
    BY <1>2 DEF Accounted
  <2>3. t \in Nat \ {0} /\ t < m /\ m \in Nat /\ s[t] \in Nat /\ s[t - 1] \in Nat
    BY <1>1, <1>3
  <2> HIDE DEF k, n
  <2>4. Share(m, t, k) =< Share(m, t, n)
    BY <1>1, <2>1, <2>3, ShareGrows
  <2>5. Share(m, t, k) \in Nat /\ Share(m, t, n) \in Nat
    BY <1>1, <2>1, <2>3, ShareIs
  <2> QED BY <2>2, <2>3, <2>4, <2>5
<1> HIDE DEF n
<1>5. s[u] + Ways(m - u, n) =< s[0] + Ways(m - 0, n)
  BY <1>1, <1>3, <1>4, Climb
<1>6. Ways(m - u, n) \in Nat \ {0} /\ Ways(m, n) \in Nat
  BY <1>1, WaysAre
<1>7. a < Ways(m, n)
  BY <1>1, <1>3, <1>5, <1>6
<1> QED BY <1>6, <1>7 DEF n

\* A request reads, or gives up: nobody is ahead of less than before.
LEMMA NothingWritten ==
  ASSUME NEW Q, NEW m, NEW w, NEW u, NEW a, LostUpdates(Q, m, w, u, a),
         NEW x \in [Q -> 1..m], \A q \in Q : x[q] >= w[q] \/ x[q] > u
  PROVE  LostUpdates(Q, m, x, u, a)
<1>1. IsFiniteSet(Q) /\ m \in Nat \ {0} /\ u \in 0..(m - 1) /\ w \in [Q -> 1..m] /\ a \in Nat
  BY DEF LostUpdates
<1>2. PICK s : Accounted(Q, m, w, u, a, s)
  BY DEF LostUpdates
<1>3. ASSUME NEW t \in 1..u PROVE s[t] =< s[t - 1] + Share(m, t, Cardinality(Ahead(Q, x, t)))
  <2> DEFINE k == Cardinality(Ahead(Q, w, t))
             l == Cardinality(Ahead(Q, x, t))
  <2>1. Ahead(Q, w, t) \subseteq Ahead(Q, x, t)
    BY <1>1 DEF Ahead
  <2>2. k \in Nat /\ l \in Nat /\ k =< l
    BY <1>1, <2>1, SomeAhead, FS_Subset
  <2>3. s[t] =< s[t - 1] + Share(m, t, k)
    BY <1>2 DEF Accounted
  <2>4. t \in Nat \ {0} /\ t < m /\ m \in Nat /\ s[t] \in Nat /\ s[t - 1] \in Nat
    BY <1>1, <1>2 DEF Accounted
  <2> HIDE DEF k, l
  <2>5. Share(m, t, k) =< Share(m, t, l) /\ Share(m, t, k) \in Nat /\ Share(m, t, l) \in Nat
    BY <2>2, <2>4, ShareGrows, ShareIs
  <2>6. s[t] =< s[t - 1] + Share(m, t, l)
    BY <2>3, <2>4, <2>5
  <2> QED BY <2>6 DEF l
<1>4. Accounted(Q, m, x, u, a, s)
  BY <1>2, <1>3 DEF Accounted
<1> QED BY <1>1, <1>4 DEF LostUpdates

\* A count that starts anew.
LEMMA CountRestarts ==
  ASSUME NEW Q, IsFiniteSet(Q), NEW m \in Nat \ {0}, NEW w \in [Q -> 1..m], NEW u \in 0..(m - 1)
  PROVE  LostUpdates(Q, m, w, u, 0)
<1> DEFINE s == [t \in 0..(m - 1) |-> 0]
<1>1. s \in [0..(m - 1) -> Nat] /\ s[0] = 0 /\ s[u] = 0
  OBVIOUS
<1>2. ASSUME NEW t \in 1..u PROVE s[t] =< s[t - 1] + Share(m, t, Cardinality(Ahead(Q, w, t)))
  <2> DEFINE k == Cardinality(Ahead(Q, w, t))
  <2>1. k \in Nat /\ t \in Nat \ {0} /\ t < m /\ m \in Nat /\ s[t] = 0 /\ s[t - 1] = 0
    BY SomeAhead
  <2> HIDE DEF k, s
  <2>2. Share(m, t, k) \in Nat
    BY <2>1, ShareIs
  <2>3. s[t] =< s[t - 1] + Share(m, t, k)
    BY <2>1, <2>2
  <2> QED BY <2>3 DEF k
<1> HIDE DEF s
<1>3. Accounted(Q, m, w, u, 0, s)
  BY <1>1, <1>2 DEF Accounted
<1> QED BY <1>3 DEF LostUpdates

\* One request writes v over a smaller count: the levels between are skipped.
LEMMA WrittenForward ==
  ASSUME NEW Q, NEW m, NEW w, NEW u, NEW a, LostUpdates(Q, m, w, u, a),
         NEW q \in Q, NEW v, v = w[q], v < m, v > u,
         NEW x \in [Q -> 1..m], x[q] = m, \A p \in Q : p # q => x[p] = w[p]
  PROVE  LostUpdates(Q, m, x, v, a + 1)
<1>1. /\ IsFiniteSet(Q) /\ m \in Nat \ {0} /\ u \in 0..(m - 1) /\ w \in [Q -> 1..m] /\ a \in Nat
      /\ v \in 1..(m - 1)
  BY DEF LostUpdates
<1>2. PICK s : Accounted(Q, m, w, u, a, s)
  BY DEF LostUpdates
<1>3. /\ s \in [0..(m - 1) -> Nat] /\ s[0] = 0 /\ a =< s[u] /\ s[u] \in Nat
      /\ \A t \in 1..u : s[t] =< s[t - 1] + Share(m, t, Cardinality(Ahead(Q, w, t)))
  BY <1>1, <1>2 DEF Accounted
<1> DEFINE z == [t \in 0..(m - 1) |-> IF t =< u THEN s[t] ELSE IF t = v THEN s[u] + 1 ELSE s[u]]
<1>4. /\ z \in [0..(m - 1) -> Nat] /\ z[0] = 0 /\ z[v] = s[u] + 1
      /\ \A t \in 0..u : z[t] = s[t]
      /\ \A t \in u..(v - 1) : z[t] = s[u]
  BY <1>1, <1>3, SMTT(30)
<1> HIDE DEF z
<1>5. ASSUME NEW t \in 1..v PROVE z[t] =< z[t - 1] + Share(m, t, Cardinality(Ahead(Q, x, t)))
  <2> DEFINE k == Cardinality(Ahead(Q, x, t))
  <2>1. /\ k \in Nat /\ IsFiniteSet(Ahead(Q, x, t)) /\ t \in Nat \ {0} /\ t < m /\ m \in Nat
        /\ z[t - 1] \in Nat
    BY <1>1, <1>4, SomeAhead
  <2>2. Share(m, t, k) \in Nat
    <3> HIDE DEF k
    <3> QED BY <2>1, ShareIs
  <2>3. CASE t =< u
    <3>1. Ahead(Q, x, t) = Ahead(Q, w, t)
      BY <1>1, <2>1, <2>3 DEF Ahead
    <3>2. t \in 1..u /\ z[t] = s[t] /\ z[t - 1] = s[t - 1]
      BY <1>1, <1>4, <2>3
    <3> QED BY <1>3, <3>1, <3>2
  <2>4. CASE t > u /\ t < v
    <3>0. t \in u..(v - 1) /\ t - 1 \in u..(v - 1)
      BY <1>1, <2>1, <2>4
    <3>1. z[t] = s[u] /\ z[t - 1] = s[u]
      BY <1>4, <3>0
    <3> HIDE DEF k
    <3>2. z[t] =< z[t - 1] + Share(m, t, k)
      BY <1>3, <2>2, <3>1
    <3> QED BY <3>2 DEF k
  <2>5. CASE t = v
    <3>1. z[t] = s[u] + 1 /\ z[t - 1] = s[u]
      BY <1>1, <1>4, <2>5, SMTT(30)
    <3>2. q \in Ahead(Q, x, t)
      BY <2>1 DEF Ahead
    <3>3. k # 0
      BY <2>1, <3>2, FS_EmptySet
    <3> HIDE DEF k
    <3>4. 0 \in Nat /\ 1 \in Nat /\ 1 =< k /\ m - t + 1 \in Nat \ {0}
      BY <2>1, <3>3
    <3>5. Share(m, t, 1) =< Share(m, t, k)
      BY <2>1, <3>4, ShareGrows
    <3>6. Share(m, t, 1) = 1
      <4>1. Ways(m - t + 1, 0) = 1
        BY <3>4, WaysAre
      <4>2. 1 - 1 = 0 /\ 1 # 0
        OBVIOUS
      <4> QED BY <4>1, <4>2 DEF Share
    <3>7. z[t] =< z[t - 1] + Share(m, t, k)
      BY <1>3, <2>2, <3>1, <3>5, <3>6
    <3> QED BY <3>7 DEF k
  <2> QED BY <1>1, <2>1, <2>3, <2>4, <2>5
<1>6. a + 1 =< z[v]
  BY <1>1, <1>3, <1>4
<1>7. Accounted(Q, m, x, v, a + 1, z)
  BY <1>4, <1>5, <1>6 DEF Accounted
<1>8. v \in 0..(m - 1) /\ a + 1 \in Nat
  BY <1>1
<1> QED BY <1>1, <1>7, <1>8 DEF LostUpdates

\* One request writes v over a count that is as great or greater: what was written above v
\* since makes room for it, because nobody who could write more than v was lost.
LEMMA WrittenBack ==
  ASSUME NEW Q, NEW m, NEW w, NEW u, NEW a, LostUpdates(Q, m, w, u, a),
         NEW q \in Q, NEW v, v = w[q], v < m, v =< u,
         NEW x \in [Q -> 1..m], x[q] = m, \A p \in Q : p # q => x[p] = w[p]
  PROVE  LostUpdates(Q, m, x, v, a + 1)
<1> DEFINE k == Cardinality(Ahead(Q, w, v))
<1>1. /\ IsFiniteSet(Q) /\ m \in Nat \ {0} /\ u \in 0..(m - 1) /\ w \in [Q -> 1..m] /\ a \in Nat
      /\ v \in 1..(m - 1) /\ v \in 0..u
  BY DEF LostUpdates
<1>2. PICK s : Accounted(Q, m, w, u, a, s)
  BY DEF LostUpdates
<1>3. /\ s \in [0..(m - 1) -> Nat] /\ s[0] = 0 /\ a =< s[u] /\ s[u] \in Nat
      /\ s[v] \in Nat /\ s[v - 1] \in Nat
      /\ \A t \in 1..u : s[t] =< s[t - 1] + Share(m, t, Cardinality(Ahead(Q, w, t)))
  BY <1>1, <1>2, SMTT(30) DEF Accounted
<1>4. k \in Nat /\ IsFiniteSet(Ahead(Q, w, v))
  BY <1>1, SomeAhead
<1>5. Cardinality(Ahead(Q, x, v)) = k + 1
  <2>1. q \notin Ahead(Q, w, v) /\ Ahead(Q, x, v) = Ahead(Q, w, v) \cup {q}
    BY <1>1 DEF Ahead
  <2> QED BY <1>4, <2>1, FS_AddElement
<1>6. ASSUME NEW t \in (v + 1)..u PROVE s[t] =< s[t - 1] + Share(m, t, k)
  <2> DEFINE l == Cardinality(Ahead(Q, w, t))
  <2>1. Ahead(Q, w, t) \subseteq Ahead(Q, w, v)
    BY <1>1 DEF Ahead
  <2>2. l \in Nat /\ l =< k
    BY <1>1, <1>4, <2>1, SomeAhead, FS_Subset
  <2>3. s[t] =< s[t - 1] + Share(m, t, l)
    BY <1>1, <1>3, SMTT(30)
  <2>4. t \in Nat \ {0} /\ t < m /\ m \in Nat /\ s[t] \in Nat /\ s[t - 1] \in Nat
    BY <1>1, <1>3, SMTT(30)
  <2> HIDE DEF k, l
  <2>5. Share(m, t, l) =< Share(m, t, k) /\ Share(m, t, k) \in Nat /\ Share(m, t, l) \in Nat
    BY <1>4, <2>2, <2>4, ShareGrows, ShareIs
  <2> QED BY <2>3, <2>4, <2>5
<1> HIDE DEF k
<1>7. s[u] + Ways(m - u, k) =< s[v] + Ways(m - v, k)
  BY <1>1, <1>3, <1>4, <1>6, Climb
<1>8. m \in Nat /\ v \in Nat \ {0} /\ v < m /\ m - u \in Nat \ {0} /\ k + 1 \in Nat
  BY <1>1, <1>4
<1>9. /\ Share(m, v, k + 1) = Share(m, v, k) + Ways(m - v, k)
      /\ Ways(m - v, k) \in Nat /\ Share(m, v, k) \in Nat /\ Share(m, v, k + 1) \in Nat
      /\ Ways(m - u, k) \in Nat \ {0}
  <2>0. m \in Nat /\ v \in Nat \ {0} /\ v < m /\ k \in Nat
    BY <1>4, <1>8
  <2>3. Share(m, v, k + 1) = Share(m, v, k) + Ways(m - v, k)
    BY ONLY <2>0, ShareIs
  <2>4. Ways(m - v, k) \in Nat \ {0} /\ Share(m, v, k) \in Nat
    BY ONLY <2>0, ShareIs
  <2>1. /\ Share(m, v, k + 1) = Share(m, v, k) + Ways(m - v, k)
        /\ Ways(m - v, k) \in Nat \ {0} /\ Share(m, v, k) \in Nat
    BY <2>3, <2>4
  <2>2. Ways(m - u, k) \in Nat \ {0}
    BY <1>4, <1>8, WaysAre
  <2> QED BY <2>1, <2>2
<1>10. s[v] =< s[v - 1] + Share(m, v, k)
  BY <1>1, <1>3, SMTT(30) DEF k
<1> DEFINE top == s[v - 1] + Share(m, v, k + 1)
           z == [s EXCEPT ![v] = top]
<1>11. top \in Nat /\ a + 1 =< top
  <2> DEFINE p == Ways(m - u, k)
             o == Ways(m - v, k)
             h == Share(m, v, k)
             g == Share(m, v, k + 1)
  <2>1. /\ g = h + o /\ o \in Nat /\ h \in Nat /\ g \in Nat /\ p \in Nat \ {0}
        /\ s[u] + p =< s[v] + o /\ s[v] =< s[v - 1] + h
    BY <1>7, <1>9, <1>10
  <2>2. a \in Nat /\ a =< s[u] /\ s[u] \in Nat /\ s[v] \in Nat /\ s[v - 1] \in Nat
    BY <1>1, <1>3
  <2> HIDE DEF p, o, h, g
  <2>3. s[v - 1] + g \in Nat /\ a + 1 =< s[v - 1] + g
    BY ONLY <2>1, <2>2
  <2> QED BY <2>3 DEF g
<1>12. /\ z \in [0..(m - 1) -> Nat] /\ z[v] = top
       /\ \A t \in 0..(m - 1) : t # v => z[t] = s[t]
  BY <1>1, <1>3, <1>11
<1> HIDE DEF z
<1>13. ASSUME NEW t \in 1..v PROVE z[t] =< z[t - 1] + Share(m, t, Cardinality(Ahead(Q, x, t)))
  <2>1. t \in 1..u /\ t \in 0..(m - 1) /\ t - 1 \in 0..(m - 1) /\ t - 1 # v /\ z[t - 1] = s[t - 1]
    BY <1>1, <1>12, SMTT(30)
  <2>2. CASE t < v
    <3>1. Ahead(Q, x, t) = Ahead(Q, w, t)
      BY <1>1, <2>2 DEF Ahead
    <3>2. z[t] = s[t]
      BY <1>12, <2>1, <2>2
    <3> QED BY <1>3, <2>1, <3>1, <3>2
  <2>3. CASE t = v
    <3>1. z[t] = z[t - 1] + Share(m, t, k + 1)
      BY <1>12, <2>1, <2>3
    <3>2. z[t] \in Nat
      BY <1>12, <2>1
    <3>3. z[t] =< z[t - 1] + Share(m, t, k + 1)
      BY <3>1, <3>2
    <3> QED BY <1>5, <2>3, <3>3
  <2> QED BY <1>1, <2>2, <2>3
<1>14. z[0] = 0 /\ a + 1 =< z[v] /\ v \in 0..(m - 1) /\ a + 1 \in Nat
  BY <1>1, <1>3, <1>11, <1>12
<1>15. Accounted(Q, m, x, v, a + 1, z)
  BY <1>12, <1>13, <1>14 DEF Accounted
<1> QED BY <1>1, <1>14, <1>15 DEF LostUpdates

LEMMA OneWrites ==
  ASSUME NEW Q, NEW m, NEW w, NEW u, NEW a, LostUpdates(Q, m, w, u, a),
         NEW q \in Q, w[q] < m,
         NEW x \in [Q -> 1..m], x[q] = m, \A p \in Q : p # q => x[p] = w[p]
  PROVE  LostUpdates(Q, m, x, w[q], a + 1)
<1> DEFINE v == w[q]
<1>1. u \in Nat /\ v \in Nat
  BY DEF LostUpdates
<1>2. CASE v > u
  BY <1>2, WrittenForward
<1>3. CASE v =< u
  BY <1>3, WrittenBack
<1> QED BY <1>1, <1>2, <1>3

-----------------------------------------------------------------------------
(* Registrations that overlap.                                             *)

\* What a request may still write: one that writes nothing counts as writing MaxUses.
WritesOf(r) == IF r.pc = "registering" THEN r.change.uses ELSE MaxUses

Writes == [q \in Reqs |-> WritesOf(req[q])]

Registering == {q \in Reqs : req[q].pc = "registering"}

\* The code is closed, and those on their way in are the last.
Closed ==
  /\ ~invite.active
  /\ admitted + Cardinality(Registering)
       =< Ways(MaxUses, Cardinality(Reqs)) + Cardinality(Reqs) - 1

OverlapInv == LostUpdates(Reqs, MaxUses, Writes, invite.uses, admitted) \/ Closed

LEMMA WhatWaits ==
  ASSUME TypeOK
  PROVE  /\ MaxUses \in Nat \ {0} /\ IsFiniteSet(Reqs)
         /\ invite.uses \in 0..MaxUses /\ admitted \in Nat /\ invite \in Invite
         /\ Writes \in [Reqs -> 1..MaxUses]
         /\ Registering \subseteq Reqs /\ IsFiniteSet(Registering)
         /\ Cardinality(Registering) \in Nat /\ Cardinality(Reqs) \in Nat
         /\ Ways(MaxUses, Cardinality(Reqs)) \in Nat \ {0}
<1>1. MaxUses \in Nat \ {0} /\ IsFiniteSet(Reqs)
  BY OneTimeGrantsAssumption
<1>2. \A q \in Reqs : WritesOf(req[q]) \in 1..MaxUses
  BY <1>1 DEF TypeOK, IsRequest, IsChange, WritesOf
<1>3. Writes \in [Reqs -> 1..MaxUses]
  BY <1>2 DEF Writes
<1>4. Registering \subseteq Reqs
  BY DEF Registering
<1>5. /\ IsFiniteSet(Registering) /\ Cardinality(Registering) \in Nat /\ Cardinality(Reqs) \in Nat
  BY <1>4, SubsetsOfReqs
<1>6. Ways(MaxUses, Cardinality(Reqs)) \in Nat \ {0}
  BY <1>1, <1>5, WaysAre
<1> QED BY <1>1, <1>3, <1>4, <1>5, <1>6 DEF TypeOK, Invite

\* One request takes a step: what becomes of what waits to be written.
LEMMA WritesAfter ==
  ASSUME TypeOK, NEW q \in Reqs, NEW r, IsRequest(r), Become(q, r)
  PROVE  /\ Writes'[q] = WritesOf(r) /\ \A p \in Reqs : p # q => Writes'[p] = Writes[p]
         /\ Writes' \in [Reqs -> 1..MaxUses]
         /\ Registering' = IF r.pc = "registering" THEN Registering \cup {q} ELSE Registering \ {q}
<1>1. \A p \in Reqs : req'[p] = IF p = q THEN r ELSE req[p]
  BY DEF TypeOK, Become
<1>2. WritesOf(r) \in 1..MaxUses
  BY OneTimeGrantsAssumption DEF IsRequest, IsChange, WritesOf
<1>3. Writes' = [p \in Reqs |-> WritesOf(req'[p])]
  BY DEF Writes
<1>4. Writes'[q] = WritesOf(r) /\ \A p \in Reqs : p # q => Writes'[p] = Writes[p]
  BY <1>1, <1>3 DEF Writes
<1>5. Writes \in [Reqs -> 1..MaxUses]
  BY WhatWaits
<1>6. \A p \in Reqs : WritesOf(req'[p]) \in 1..MaxUses
  BY <1>2, <1>3, <1>4, <1>5
<1>7. Writes' \in [Reqs -> 1..MaxUses]
  BY <1>3, <1>6
<1>8. Registering' = IF r.pc = "registering" THEN Registering \cup {q} ELSE Registering \ {q}
  BY <1>1 DEF Registering
<1> QED BY <1>4, <1>7, <1>8

\* A request of the token, or one that fails, writes no count.
LEMMA OverlapOther ==
  ASSUME TypeOK, OverlapInv, NEW q \in Reqs,
         Redeem(q) \/ MarkUsed(q) \/ Answer(q) \/ RequestLost(q)
  PROVE  OverlapInv'
<1>1. UNCHANGED <<invite, admitted>>
  BY DEF Redeem, MarkUsed, Answer, RequestLost
<1>2. PICK r \in {[pc |-> "marking"], [pc |-> "answering"], Idle} : Become(q, r)
  BY DEF Redeem, MarkUsed, Answer, RequestLost
<1>3. IsRequest(r) /\ r.pc # "registering"
  BY <1>2, Steps
<1>4. /\ Writes'[q] = WritesOf(r) /\ \A p \in Reqs : p # q => Writes'[p] = Writes[p]
      /\ Writes' \in [Reqs -> 1..MaxUses] /\ Registering' = Registering \ {q}
  BY <1>2, <1>3, WritesAfter
<1>5. /\ MaxUses \in Nat \ {0} /\ Writes \in [Reqs -> 1..MaxUses] /\ admitted \in Nat
      /\ IsFiniteSet(Registering) /\ Cardinality(Registering) \in Nat
      /\ Ways(MaxUses, Cardinality(Reqs)) \in Nat /\ Cardinality(Reqs) \in Nat
  BY WhatWaits
<1>6. CASE LostUpdates(Reqs, MaxUses, Writes, invite.uses, admitted)
  <2>1. Writes'[q] = MaxUses
    BY <1>3, <1>4 DEF WritesOf
  <2>2. \A p \in Reqs : Writes'[p] >= Writes[p]
    BY <1>4, <1>5, <2>1
  <2>3. LostUpdates(Reqs, MaxUses, Writes', invite.uses, admitted)
    BY <1>4, <1>6, <2>2, NothingWritten
  <2> QED BY <1>1, <2>3 DEF OverlapInv
<1>7. CASE Closed
  <2>1. Cardinality(Registering') =< Cardinality(Registering) /\ Cardinality(Registering') \in Nat
    BY <1>4, <1>5, FS_Subset, FS_CardinalityType
  <2>2. Closed'
    BY <1>1, <1>5, <1>7, <2>1 DEF Closed
  <2> QED BY <2>2 DEF OverlapInv
<1> QED BY <1>6, <1>7 DEF OverlapInv

LEMMA OverlapRegister ==
  ASSUME TypeOK, OverlapInv, NEW q \in Reqs, Register(q)
  PROVE  OverlapInv'
<1> DEFINE c == Changed(invite, Counted)
           r == [pc |-> "registering", change |-> c]
<1>1. /\ Become(q, r) /\ UNCHANGED <<invite, admitted>> /\ Valid /\ req[q] = Idle
  BY DEF Register
<1>2. /\ MaxUses \in Nat \ {0} /\ Writes \in [Reqs -> 1..MaxUses] /\ invite \in Invite
      /\ invite.uses \in 0..MaxUses
  BY WhatWaits
<1>3. IsChange(c) /\ c.uses = invite.uses + 1
  BY <1>1, <1>2, WhatIsCounted
<1>4. IsRequest(r) /\ WritesOf(r) = invite.uses + 1
  BY <1>3 DEF IsRequest, WritesOf
<1> HIDE DEF r
<1>5. /\ Writes'[q] = WritesOf(r) /\ \A p \in Reqs : p # q => Writes'[p] = Writes[p]
      /\ Writes' \in [Reqs -> 1..MaxUses]
  BY <1>1, <1>4, WritesAfter
<1>6. LostUpdates(Reqs, MaxUses, Writes, invite.uses, admitted)
  BY <1>1 DEF OverlapInv, Closed, Valid
<1>7. \A p \in Reqs : Writes'[p] >= Writes[p] \/ Writes'[p] > invite.uses
  BY <1>2, <1>4, <1>5
<1>8. LostUpdates(Reqs, MaxUses, Writes', invite.uses, admitted)
  BY <1>5, <1>6, <1>7, NothingWritten
<1> QED BY <1>1, <1>8 DEF OverlapInv

LEMMA OverlapCommit ==
  ASSUME TypeOK, OverlapInv, NEW q \in Reqs, CommitRegister(q)
  PROVE  OverlapInv'
<1> DEFINE c == req[q].change
           n == Cardinality(Reqs)
           k == Cardinality(Registering)
<1>1. /\ Become(q, Idle) /\ req[q].pc = "registering" /\ admitted' = admitted + 1
      /\ invite' = Updated(invite, c)
  BY DEF CommitRegister
<1>2. /\ MaxUses \in Nat \ {0} /\ Writes \in [Reqs -> 1..MaxUses] /\ admitted \in Nat
      /\ invite \in Invite /\ IsFiniteSet(Registering) /\ k \in Nat
      /\ Ways(MaxUses, n) \in Nat /\ n \in Nat
      /\ Registering \subseteq Reqs
  BY WhatWaits
<1>3. IsChange(c)
  BY <1>1 DEF TypeOK, IsRequest
<1>4. /\ invite'.uses = c.uses
      /\ ~invite'.active <=> ~invite.active \/ "active" \in DOMAIN c
  BY <1>1, <1>2, <1>3, WhatIsWritten
<1>5. /\ Writes'[q] = MaxUses /\ \A p \in Reqs : p # q => Writes'[p] = Writes[p]
      /\ Writes' \in [Reqs -> 1..MaxUses] /\ Registering' = Registering \ {q}
  BY <1>1, Steps, WritesAfter DEF WritesOf
<1>6. Writes[q] = c.uses /\ q \in Registering
  BY <1>1 DEF Writes, WritesOf, Registering
<1>7. Cardinality(Registering') = k - 1
  BY <1>2, <1>5, <1>6, FS_RemoveElement
<1>8. k \in 1..n
  <2>1. k =< n
    BY <1>2, SubsetsOfReqs
  <2>2. k # 0
    BY <1>2, <1>6, FS_EmptySet
  <2> HIDE DEF n, k
  <2> QED BY <1>2, <2>1, <2>2
<1> HIDE DEF n, k, c
<1>9. CASE LostUpdates(Reqs, MaxUses, Writes, invite.uses, admitted) /\ Writes[q] < MaxUses
  <2>1. LostUpdates(Reqs, MaxUses, Writes', Writes[q], admitted + 1)
    BY <1>5, <1>9, OneWrites
  <2> QED BY <1>1, <1>4, <1>6, <2>1 DEF OverlapInv
<1>10. CASE LostUpdates(Reqs, MaxUses, Writes, invite.uses, admitted) /\ ~(Writes[q] < MaxUses)
  <2>1. c.uses = MaxUses
    BY <1>2, <1>6, <1>10
  <2>2. ~invite'.active
    BY <1>3, <1>4, <2>1 DEF IsChange
  <2>3. admitted < Ways(MaxUses, n)
    BY <1>10, WritesAreBounded DEF n
  <2>4. admitted' + Cardinality(Registering') =< Ways(MaxUses, n) + n - 1
    BY <1>1, <1>2, <1>7, <1>8, <2>3
  <2> QED BY <2>2, <2>4 DEF OverlapInv, Closed, n
<1>11. CASE Closed
  <2>1. admitted + k =< Ways(MaxUses, n) + n - 1
    BY <1>11 DEF Closed, n, k
  <2>2. admitted' + Cardinality(Registering') =< Ways(MaxUses, n) + n - 1
    BY <1>1, <1>2, <1>7, <1>8, <2>1
  <2>3. ~invite'.active
    BY <1>4, <1>11 DEF Closed
  <2> QED BY <2>2, <2>3 DEF OverlapInv, Closed, n
<1> QED BY <1>9, <1>10, <1>11 DEF OverlapInv

LEMMA OverlapOutside ==
  ASSUME TypeOK, OverlapInv,
         SweepToken \/ TokenExpires \/ Decide \/ RevokeInvite \/ InviteExpires
  PROVE  OverlapInv'
<1>1. UNCHANGED <<admitted, req>>
  BY DEF SweepToken, TokenExpires, Decide, RevokeInvite, InviteExpires
<1>2. invite'.uses = invite.uses /\ (~invite.active => ~invite'.active)
  BY DEF TypeOK, Invite, SweepToken, TokenExpires, Decide, RevokeInvite, InviteExpires
<1>3. Writes' = Writes /\ Registering' = Registering
  BY <1>1 DEF Writes, Registering
<1> QED BY <1>1, <1>2, <1>3 DEF OverlapInv, Closed

(* register: with n requests in flight an invite of max_uses m admits at   *)
(* most choose(m + n - 1, n) + n - 1 accounts, however they overlap and    *)
(* whatever else goes on.  While the count is below m it has been written  *)
(* fewer than choose(m + n - 1, n) times; the write that reaches m closes  *)
(* the code, and only the other n - 1 are still on their way in.           *)
THEOREM InviteIsBounded == Spec => []InviteBounded
<1>1. Init /\ IInv => OverlapInv
  <2> SUFFICES ASSUME Init, IInv PROVE OverlapInv
    OBVIOUS
  <2>1. /\ MaxUses \in Nat \ {0} /\ IsFiniteSet(Reqs) /\ Writes \in [Reqs -> 1..MaxUses]
    BY WhatWaits DEF IInv
  <2>2. 0 \in 0..(MaxUses - 1)
    BY <2>1
  <2>3. LostUpdates(Reqs, MaxUses, Writes, 0, 0)
    BY <2>1, <2>2, CountRestarts
  <2> QED BY <2>3 DEF Init, OverlapInv
<1>2. IInv /\ OverlapInv /\ [Next]_vars => OverlapInv'
  <2> SUFFICES ASSUME IInv, OverlapInv, [Next]_vars PROVE OverlapInv'
    OBVIOUS
  <2>1. TypeOK
    BY DEF IInv
  <2>2. CASE Next
    BY <2>1, <2>2, OverlapOther, OverlapRegister, OverlapCommit, OverlapOutside DEF Next
  <2>3. CASE UNCHANGED vars
    BY <2>3 DEF vars, OverlapInv, Writes, Closed, Registering
  <2> QED BY <2>2, <2>3
<1>3. IInv /\ OverlapInv => InviteBounded
  <2> SUFFICES ASSUME IInv, OverlapInv PROVE InviteBounded
    OBVIOUS
  <2> DEFINE n == Cardinality(Reqs)
             k == Cardinality(Registering)
  <2>1. /\ admitted \in Nat /\ n \in Nat /\ k \in Nat /\ Ways(MaxUses, n) \in Nat
    BY WhatWaits DEF IInv
  <2>2. admitted < Ways(MaxUses, n) \/ admitted + k =< Ways(MaxUses, n) + n - 1
    BY WritesAreBounded DEF OverlapInv, Closed
  <2>3. InviteBounded <=> admitted =< Ways(MaxUses, n) + n - 1
    BY DEF InviteBounded, Ways
  <2> HIDE DEF n, k
  <2>4. admitted =< Ways(MaxUses, n) + n - 1
    BY <2>1, <2>2
  <2> QED BY <2>3, <2>4
<1> QED BY <1>1, <1>2, <1>3, Invariant, PTL DEF Spec

MaxUsesKept == admitted =< MaxUses

(* register: where registrations come one at a time, an invite admits at   *)
(* most max_uses accounts.                                                 *)
THEOREM InviteOneByOne ==
  ASSUME NEW CONSTANT c, Reqs = {c}
  PROVE  Spec => []MaxUsesKept
<1>1. Cardinality(Reqs) = 1
  BY FS_Singleton
<1>2. choose(MaxUses + 1 - 1, 1) + 1 - 1 = MaxUses
  <2>1. MaxUses \in Nat \ {0} /\ MaxUses + 1 - 1 = MaxUses
    BY OneTimeGrantsAssumption
  <2>2. choose(MaxUses, 1) = MaxUses
    BY <2>1, ChooseOne
  <2> QED BY <2>1, <2>2
<1>3. InviteBounded => MaxUsesKept
  BY <1>1, <1>2 DEF InviteBounded, MaxUsesKept
<1> QED BY <1>3, InviteIsBounded, PTL
=============================================================================
