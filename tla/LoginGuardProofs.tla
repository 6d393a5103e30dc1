-------------------------- MODULE LoginGuardProofs --------------------------
(***************************************************************************)
(* What the login of an account keeps however its requests overlap: the    *)
(* shape of the row, that a code is asked for only of a secret the user    *)
(* has shown a code of, and that the account locks: after MAX_FAILED       *)
(* failures where attempts come one by one, and within a bound of the      *)
(* requests in flight where they overlap.                                  *)
(***************************************************************************)
EXTENDS LoginGuard, FiniteSetTheorems, TLAPS

Columns == {"failed", "lock", "secret", "totp"}
Kinds == {"fail", "admit", "enrol", "confirm", "clear"}

\* Values the columns of c can be assigned.
Fits(c) ==
  /\ DOMAIN c \subseteq Columns
  /\ "failed" \in DOMAIN c => c["failed"] \in 0..(MaxFailed - 1)
  /\ "lock" \in DOMAIN c => c["lock"] \in {"none", "ahead", "past"}
  /\ "secret" \in DOMAIN c => c["secret"] \in BOOLEAN
  /\ "totp" \in DOMAIN c => c["totp"] \in BOOLEAN

IsRow(r) == DOMAIN r = Columns /\ Fits(r)

IsRequest(r) ==
  /\ r = [kind |-> r.kind, change |-> r.change, alone |-> r.alone]
  /\ r.kind \in Kinds /\ r.alone \in BOOLEAN /\ Fits(r.change)

TypeOK ==
  /\ IsRow(row)
  /\ req = [q \in Reqs |-> req[q]]
  /\ \A q \in Reqs : req[q] = Idle \/ IsRequest(req[q])
  /\ tries \in Nat /\ proof \in {"none", "shown", "contested"}

\* What a request will leave of the second factor, if nothing came in between.
Undisturbed(r) ==
  /\ r.kind \in {"fail", "admit"} => DOMAIN r.change \subseteq {"failed", "lock"}
  /\ r.alone /\ r.kind \in {"enrol", "clear"} => Updated(row, r.change)["totp"] = FALSE
  /\ r.alone /\ r.kind = "confirm" => Updated(row, r.change)["secret"] = TRUE

FactorInv ==
  /\ \A q \in Reqs : req[q] # Idle => Undisturbed(req[q])
  /\ \A q, p \in Reqs : req[q] # Idle /\ req[q].alone /\ p # q => req[p] = Idle
  /\ (row["totp"] = TRUE /\ proof # "contested") => (row["secret"] = TRUE /\ proof = "shown")

IInv == TypeOK /\ FactorInv

-----------------------------------------------------------------------------
(* Rows and requests.                                                      *)

LEMMA IdleIsNoRequest == \A r : IsRequest(r) => r # Idle
BY DEF IsRequest, Idle, Kinds

\* A row is a row after a commit.
LEMMA UpdatedIsRow ==
  ASSUME NEW r, IsRow(r), NEW c, Fits(c)
  PROVE  /\ IsRow(Updated(r, c))
         /\ \A d \in Columns : Updated(r, c)[d] = IF d \in DOMAIN c THEN c[d] ELSE r[d]
<1> DEFINE u == Updated(r, c)
<1>1. DOMAIN u = Columns /\ \A d \in Columns : u[d] = IF d \in DOMAIN c THEN c[d] ELSE r[d]
  BY DEF Updated, IsRow
<1> HIDE DEF u
<1>2. Fits(u)
  BY <1>1 DEF Fits, IsRow, Columns
<1> QED BY <1>1, <1>2 DEF IsRow, u

LEMMA ChangedFits ==
  ASSUME NEW r, IsRow(r), NEW c, Fits(c)
  PROVE  /\ Fits(Changed(r, c)) /\ DOMAIN Changed(r, c) \subseteq DOMAIN c
         /\ \A d \in DOMAIN c : Updated(r, Changed(r, c))[d] = c[d]
         /\ \A d \in Columns \ DOMAIN c : Updated(r, Changed(r, c))[d] = r[d]
<1> DEFINE ch == Changed(r, c)
<1>1. /\ DOMAIN ch = {d \in DOMAIN c : c[d] # r[d]}
      /\ \A d \in DOMAIN ch : ch[d] = c[d]
  BY DEF Changed
<1> HIDE DEF ch
<1>2. Fits(ch)
  BY <1>1 DEF Fits
<1>3. \A d \in Columns : Updated(r, ch)[d] = IF d \in DOMAIN ch THEN ch[d] ELSE r[d]
  BY <1>2, UpdatedIsRow
<1>4. DOMAIN c \subseteq Columns
  BY DEF Fits
<1> QED BY <1>1, <1>2, <1>3, <1>4 DEF ch

LEMMA ExceptAlone ==
  ASSUME NEW r, IsRequest(r), NEW v
  PROVE  [r EXCEPT !.alone = v] = [kind |-> r.kind, change |-> r.change, alone |-> v]
<1>1. r = [kind |-> r.kind, change |-> r.change, alone |-> r.alone]
  BY DEF IsRequest
<1> QED BY <1>1

\* A request begins: what is in flight then.
LEMMA Begins ==
  ASSUME TypeOK, NEW q \in Reqs, NEW kind \in Kinds, NEW cols, Fits(cols),
         Begin(q, kind, cols)
  PROVE  /\ req[q] = Idle /\ UNCHANGED <<row, tries, proof>>
         /\ req' = [p \in Reqs |-> req'[p]]
         /\ \A p \in Reqs : req'[p] = Idle \/ IsRequest(req'[p])
         /\ req'[q] # Idle /\ req'[q].kind = kind /\ req'[q].change = Changed(row, cols)
         /\ req'[q].alone <=> \A r \in Reqs : req[r] = Idle
         /\ \A p \in Reqs \ {q} :
              /\ req'[p] = Idle <=> req[p] = Idle
              /\ req[p] # Idle => /\ ~req'[p].alone /\ req'[p].kind = req[p].kind
                                  /\ req'[p].change = req[p].change
<1> DEFINE lone == \A r \in Reqs : req[r] = Idle
           new == [kind |-> kind, change |-> Changed(row, cols), alone |-> lone]
<1>1. /\ req[q] = Idle /\ UNCHANGED <<row, tries, proof>>
      /\ req' = [p \in Reqs |-> IF p = q THEN new
                                ELSE IF req[p] = Idle THEN Idle ELSE [req[p] EXCEPT !.alone = FALSE]]
  BY DEF Begin
<1>2. lone \in BOOLEAN /\ Fits(Changed(row, cols))
  BY ChangedFits DEF TypeOK
<1> HIDE DEF lone
<1>3. IsRequest(new) /\ new.kind = kind /\ new.change = Changed(row, cols) /\ new.alone = lone
  BY <1>2 DEF IsRequest
<1> HIDE DEF new
<1>4. req'[q] = new /\ new # Idle
  BY <1>1, <1>3, IdleIsNoRequest
<1>5. ASSUME NEW p \in Reqs \ {q}, req[p] # Idle
      PROVE  /\ IsRequest(req'[p]) /\ req'[p] # Idle
             /\ ~req'[p].alone /\ req'[p].kind = req[p].kind /\ req'[p].change = req[p].change
  <2>1. IsRequest(req[p])
    BY <1>5 DEF TypeOK
  <2>2. req'[p] = [req[p] EXCEPT !.alone = FALSE]
    BY <1>1, <1>5
  <2>3. req'[p] = [kind |-> req[p].kind, change |-> req[p].change, alone |-> FALSE]
    BY <2>1, <2>2, ExceptAlone
  <2>4. /\ req'[p].alone = FALSE /\ req'[p].kind = req[p].kind
        /\ req'[p].change = req[p].change
    BY <2>3
  <2>5. IsRequest(req'[p])
    BY <2>1, <2>3, <2>4 DEF IsRequest
  <2> QED BY <2>4, <2>5, IdleIsNoRequest
<1>6. \A p \in Reqs \ {q} : req[p] = Idle => req'[p] = Idle
  BY <1>1
<1>7. req' = [p \in Reqs |-> req'[p]]
  BY <1>1
<1> QED BY <1>1, <1>3, <1>4, <1>5, <1>6, <1>7 DEF lone

-----------------------------------------------------------------------------
(* The steps.                                                              *)

\* The columns a handler decides on, of the row it has read.
Decides(kind, cols) ==
  /\ Fits(cols)
  /\ kind \in {"fail", "admit"} => DOMAIN cols \subseteq {"failed", "lock"}
  /\ kind \in {"enrol", "clear"} => "totp" \in DOMAIN cols /\ cols["totp"] = FALSE
  /\ kind = "confirm" => DOMAIN cols = {"totp"} /\ row["secret"] = TRUE
  /\ kind \notin {"fail", "admit"} => "failed" \notin DOMAIN cols
  /\ kind = "fail" => row["lock"] # "ahead" /\ cols = Failure

LEMMA Handlers ==
  ASSUME TypeOK, NEW q \in Reqs,
         \/ FailLogin(q) \/ Login(q) \/ Refresh(q)
         \/ SetupTotp(q) \/ EnableTotp(q) \/ DisableTotp(q)
         \/ ResetTotp(q) \/ ResetPassword(q)
  PROVE  \E kind \in Kinds : \E cols : Begin(q, kind, cols) /\ Decides(kind, cols)
<1> USE DEF Decides
<1>0. MaxFailed \in Nat \ {0} /\ IsRow(row)
  BY LoginGuardAssumption DEF TypeOK
<1>1. CASE FailLogin(q)
  <2>1. Fits(Failure) /\ DOMAIN Failure \subseteq {"failed", "lock"}
    <3>1. CASE row.failed + 1 >= MaxFailed
      BY <1>0, <3>1 DEF Failure, Fits, Columns
    <3>2. CASE ~(row.failed + 1 >= MaxFailed)
      <4>1. row["failed"] \in 0..(MaxFailed - 1)
        BY <1>0 DEF IsRow, Fits, Columns
      <4>2. Failure = [failed |-> row.failed + 1] /\ row.failed + 1 \in 0..(MaxFailed - 1)
        BY <1>0, <3>2, <4>1 DEF Failure
      <4> QED BY <4>2 DEF Fits, Columns
    <3> QED BY <3>1, <3>2
  <2> QED BY <1>1, <2>1 DEF FailLogin, Kinds
<1>2. CASE Login(q) \/ Refresh(q) \/ ResetPassword(q)
  <2>1. /\ Fits([failed |-> 0]) /\ Fits([failed |-> 0, lock |-> "none"])
    BY <1>0 DEF Fits, Columns
  <2>2. \/ Begin(q, "admit", [failed |-> 0])
        \/ Begin(q, "admit", [failed |-> 0, lock |-> "none"])
    BY <1>2 DEF Login, Refresh, ResetPassword, Admit
  <2> QED BY <2>1, <2>2 DEF Kinds
<1>3. CASE SetupTotp(q)
  <2>1. /\ Fits(Enrol) /\ "totp" \in DOMAIN Enrol /\ Enrol["totp"] = FALSE
        /\ "failed" \notin DOMAIN Enrol
    BY DEF Enrol, Fits, Columns
  <2> QED BY <1>3, <2>1 DEF SetupTotp, Kinds
<1>4. CASE EnableTotp(q)
  <2>1. Fits([totp |-> TRUE])
    BY DEF Fits, Columns
  <2> QED BY <1>0, <1>4, <2>1 DEF EnableTotp, Kinds, IsRow, Fits, Columns
<1>5. CASE DisableTotp(q) \/ ResetTotp(q)
  <2>1. Fits([secret |-> FALSE, totp |-> FALSE])
    BY DEF Fits, Columns
  <2>2. Begin(q, "clear", [secret |-> FALSE, totp |-> FALSE])
    BY <1>5 DEF DisableTotp, ResetTotp
  <2> QED BY <2>1, <2>2 DEF Kinds
<1> QED BY <1>1, <1>2, <1>3, <1>4, <1>5

LEMMA BeginStep ==
  ASSUME IInv, NEW q \in Reqs,
         \/ FailLogin(q) \/ Login(q) \/ Refresh(q)
         \/ SetupTotp(q) \/ EnableTotp(q) \/ DisableTotp(q)
         \/ ResetTotp(q) \/ ResetPassword(q)
  PROVE  IInv'
<1>1. TypeOK /\ FactorInv
  BY DEF IInv
<1>2. PICK kind \in Kinds : \E cols : Begin(q, kind, cols) /\ Decides(kind, cols)
  BY <1>1, Handlers
<1>3. PICK cols : Begin(q, kind, cols) /\ Decides(kind, cols)
  BY <1>2
<1>4. /\ req[q] = Idle /\ UNCHANGED <<row, tries, proof>>
      /\ req' = [p \in Reqs |-> req'[p]]
      /\ \A p \in Reqs : req'[p] = Idle \/ IsRequest(req'[p])
      /\ req'[q] # Idle /\ req'[q].kind = kind /\ req'[q].change = Changed(row, cols)
      /\ req'[q].alone <=> \A r \in Reqs : req[r] = Idle
      /\ \A p \in Reqs \ {q} :
           /\ req'[p] = Idle <=> req[p] = Idle
           /\ req[p] # Idle => /\ ~req'[p].alone /\ req'[p].kind = req[p].kind
                               /\ req'[p].change = req[p].change
  BY <1>1, <1>3, Begins DEF Decides
<1>5. TypeOK'
  BY <1>1, <1>4 DEF TypeOK, IsRow
<1>6. /\ DOMAIN Changed(row, cols) \subseteq DOMAIN cols
      /\ \A d \in DOMAIN cols : Updated(row, Changed(row, cols))[d] = cols[d]
      /\ \A d \in Columns \ DOMAIN cols : Updated(row, Changed(row, cols))[d] = row[d]
  BY <1>1, <1>3, ChangedFits DEF TypeOK, Decides
<1>7. /\ req'[q].kind \in {"fail", "admit"} => DOMAIN req'[q].change \subseteq {"failed", "lock"}
      /\ req'[q].kind \in {"enrol", "clear"} => Updated(row', req'[q].change)["totp"] = FALSE
      /\ req'[q].kind = "confirm" => Updated(row', req'[q].change)["secret"] = TRUE
  BY <1>3, <1>4, <1>6 DEF Columns, Decides
<1>8. \A p \in Reqs : req'[p] # Idle => Undisturbed(req[p])'
  BY <1>1, <1>4, <1>7 DEF FactorInv, Undisturbed
<1>9. \A p, r \in Reqs : req'[p] # Idle /\ req'[p].alone /\ r # p => req'[r] = Idle
  BY <1>4
<1> QED BY <1>1, <1>4, <1>5, <1>8, <1>9 DEF IInv, FactorInv

LEMMA ExceptColumn ==
  ASSUME NEW r, DOMAIN r = Columns, NEW v
  PROVE  /\ [r EXCEPT !.lock = v] = [c \in DOMAIN r |-> IF c = "lock" THEN v ELSE r[c]]
         /\ [r EXCEPT !.secret = v] = [c \in DOMAIN r |-> IF c = "secret" THEN v ELSE r[c]]
BY Zenon

\* What a column can hold.
Holds(d, v) ==
  /\ d = "failed" => v \in 0..(MaxFailed - 1)
  /\ d = "lock" => v \in {"none", "ahead", "past"}
  /\ d \in {"secret", "totp"} => v \in BOOLEAN

\* The row with one column set.
LEMMA RowWith ==
  ASSUME NEW r, IsRow(r), NEW d \in Columns, NEW v, Holds(d, v),
         NEW s, s = [c \in DOMAIN r |-> IF c = d THEN v ELSE r[c]]
  PROVE  IsRow(s) /\ s[d] = v /\ \A c \in Columns \ {d} : s[c] = r[c]
<1>1. /\ DOMAIN s = Columns /\ s[d] = v
      /\ \A c \in Columns \ {d} : s[c] = r[c]
  BY DEF IsRow
<1>2. Fits(s)
  BY <1>1 DEF Fits, IsRow, Columns, Holds
<1> QED BY <1>1, <1>2 DEF IsRow

LEMMA CommitStep ==
  ASSUME IInv, NEW q \in Reqs, Commit(q)
  PROVE  IInv'
<1> DEFINE r == req[q]
           after == Updated(row, r.change)
<1>1. TypeOK /\ FactorInv
  BY DEF IInv
<1>2. /\ r # Idle /\ tries' = Tries(r) /\ proof' = Proof(r)
      /\ row' = IF r.kind = "enrol" THEN [after EXCEPT !.secret = TRUE] ELSE after
      /\ req' = [req EXCEPT ![q] = Idle]
  BY DEF Commit
<1>3. IsRequest(r) /\ Undisturbed(r) /\ IsRow(row)
  BY <1>1, <1>2 DEF TypeOK, FactorInv
<1>4. /\ r.kind \in Kinds /\ Fits(r.change) /\ r.alone \in BOOLEAN
      /\ r.kind \in {"fail", "admit"} => DOMAIN r.change \subseteq {"failed", "lock"}
      /\ r.alone /\ r.kind \in {"enrol", "clear"} => after["totp"] = FALSE
      /\ r.alone /\ r.kind = "confirm" => after["secret"] = TRUE
  BY <1>3 DEF IsRequest, Undisturbed
<1>5. /\ IsRow(after)
      /\ \A d \in Columns : after[d] = IF d \in DOMAIN r.change THEN r.change[d] ELSE row[d]
  BY <1>3, <1>4, UpdatedIsRow
<1>6. req' = [p \in Reqs |-> req'[p]] /\ \A p \in Reqs : req'[p] = IF p = q THEN Idle ELSE req[p]
  BY <1>1, <1>2 DEF TypeOK
<1>7. Holds("secret", TRUE) /\ "secret" \in Columns /\ "totp" \in Columns
  BY DEF Holds, Columns
<1> HIDE DEF after, r
<1>8. /\ IsRow(row')
      /\ row'["totp"] = after["totp"]
      /\ r.kind # "enrol" => row' = after
  <2>1. CASE r.kind = "enrol"
    <3>1. row' = [c \in DOMAIN after |-> IF c = "secret" THEN TRUE ELSE after[c]]
      BY <1>2, <1>5, <2>1, ExceptColumn, Zenon DEF IsRow
    <3>2. PICK v : v = TRUE
      OBVIOUS
    <3>3. row' = [c \in DOMAIN after |-> IF c = "secret" THEN v ELSE after[c]]
      BY <3>1, <3>2, Zenon
    <3>4. Holds("secret", v)
      BY <3>2 DEF Holds
    <3>5. IsRow(row') /\ \A c \in Columns \ {"secret"} : row'[c] = after[c]
      BY <1>5, <1>7, <3>3, <3>4, RowWith
    <3> QED BY <1>7, <2>1, <3>5
  <2>2. CASE r.kind # "enrol"
    BY <1>2, <1>5, <2>2
  <2> QED BY <2>1, <2>2
<1>9. tries' \in Nat
  BY <1>1, <1>2 DEF Tries, TypeOK
<1>10. proof' \in {"none", "shown", "contested"}
  BY <1>1, <1>2 DEF Proof, TypeOK
<1>11. TypeOK'
  BY <1>1, <1>6, <1>8, <1>9, <1>10 DEF TypeOK
<1>12. ASSUME NEW p \in Reqs, req'[p] # Idle
       PROVE  p # q /\ req'[p] = req[p] /\ ~req[p].alone /\ Undisturbed(req[p])
  <2>1. p # q /\ req'[p] = req[p] /\ req[p] # Idle
    BY <1>6, <1>12
  <2>2. ~req[p].alone /\ Undisturbed(req[p])
    BY <1>1, <1>2, <2>1 DEF FactorInv, r
  <2> QED BY <2>1, <2>2
<1>13. \A p \in Reqs : req'[p] # Idle => Undisturbed(req[p])'
  BY <1>12 DEF Undisturbed
<1>14. \A p, o \in Reqs : req'[p] # Idle /\ req'[p].alone /\ o # p => req'[o] = Idle
  BY <1>12
<1>15. row'["totp"] = TRUE /\ proof' # "contested" => row'["secret"] = TRUE /\ proof' = "shown"
  <2>1. CASE r.kind \in {"fail", "admit"}
    <3>1. proof' = proof
      BY <1>2, <2>1 DEF Proof
    <3>2. row'["totp"] = row["totp"] /\ row'["secret"] = row["secret"]
      BY <1>4, <1>5, <1>7, <1>8, <2>1
    <3> QED BY <1>1, <3>1, <3>2 DEF FactorInv
  <2>2. CASE r.kind \in {"enrol", "clear", "confirm"} /\ ~r.alone
    BY <1>2, <2>2 DEF Proof
  <2>3. CASE r.kind \in {"enrol", "clear"} /\ r.alone
    BY <1>4, <1>8, <2>3
  <2>4. CASE r.kind = "confirm" /\ r.alone
    <3>1. proof' = IF proof = "contested" THEN "contested" ELSE "shown"
      BY <1>2, <2>4 DEF Proof
    <3> QED BY <1>4, <1>8, <2>4, <3>1
  <2> QED BY <1>4, <2>1, <2>2, <2>3, <2>4 DEF Kinds
<1> QED BY <1>11, <1>13, <1>14, <1>15 DEF IInv, FactorInv

LEMMA LostStep ==
  ASSUME IInv, NEW q \in Reqs, RequestLost(q)
  PROVE  IInv'
<1>1. /\ UNCHANGED <<row, tries, proof>> /\ req' = [p \in Reqs |-> req'[p]]
      /\ \A p \in Reqs : req'[p] = IF p = q THEN Idle ELSE req[p]
  BY DEF RequestLost, IInv, TypeOK
<1>2. TypeOK'
  BY <1>1 DEF IInv, TypeOK, IsRow
<1>3. FactorInv'
  BY <1>1 DEF IInv, FactorInv, Undisturbed
<1> QED BY <1>2, <1>3 DEF IInv

LEMMA LapseStep ==
  ASSUME IInv, LockLapses
  PROVE  IInv'
<1>1. /\ row' = [c \in DOMAIN row |-> IF c = "lock" THEN "past" ELSE row[c]]
      /\ UNCHANGED <<req, tries, proof>>
  BY ExceptColumn, Zenon DEF LockLapses, IInv, TypeOK, IsRow
<1>2. IsRow(row) /\ "lock" \in Columns /\ Holds("lock", "past")
  BY DEF IInv, TypeOK, Holds, Columns
<1>3. IsRow(row') /\ \A c \in Columns \ {"lock"} : row'[c] = row[c]
  BY <1>1, <1>2, RowWith
<1>4. row'["totp"] = row["totp"] /\ row'["secret"] = row["secret"]
  BY <1>3 DEF Columns
<1>5. TypeOK'
  BY <1>1, <1>3 DEF IInv, TypeOK
<1>6. ASSUME NEW q \in Reqs, req[q] # Idle
      PROVE  Undisturbed(req[q])'
  <2>1. Undisturbed(req[q]) /\ Fits(req[q].change)
    BY <1>6 DEF IInv, FactorInv, TypeOK, IsRequest
  <2>2. /\ Updated(row', req[q].change)["totp"] = Updated(row, req[q].change)["totp"]
        /\ Updated(row', req[q].change)["secret"] = Updated(row, req[q].change)["secret"]
    BY <1>2, <1>3, <1>4, <2>1, UpdatedIsRow DEF Columns
  <2> QED BY <1>1, <2>1, <2>2 DEF Undisturbed
<1>7. FactorInv'
  BY <1>1, <1>4, <1>6 DEF IInv, FactorInv
<1> QED BY <1>5, <1>7 DEF IInv

(* Every reachable row is one, every request leaves what it decided on, and *)
(* one that nothing overlapped leaves the second factor consistent.        *)
THEOREM Invariant == Spec => []IInv
<1>1. Init => IInv
  <2> SUFFICES ASSUME Init PROVE IInv
    OBVIOUS
  <2>1. IsRow(row) /\ row["totp"] = FALSE
    BY LoginGuardAssumption DEF Init, IsRow, Fits, Columns
  <2> QED BY <2>1 DEF Init, IInv, TypeOK, FactorInv
<1>2. IInv /\ [Next]_vars => IInv'
  <2> SUFFICES ASSUME IInv, [Next]_vars PROVE IInv'
    OBVIOUS
  <2>1. CASE UNCHANGED vars
    BY <2>1 DEF vars, IInv, TypeOK, FactorInv, Undisturbed, IsRow
  <2>2. CASE LockLapses
    BY <2>2, LapseStep
  <2>3. ASSUME NEW q \in Reqs,
               \/ FailLogin(q) \/ Login(q) \/ Refresh(q)
               \/ SetupTotp(q) \/ EnableTotp(q) \/ DisableTotp(q)
               \/ ResetTotp(q) \/ ResetPassword(q)
        PROVE  IInv'
    BY <2>3, BeginStep
  <2> QED BY <2>1, <2>2, <2>3, CommitStep, LostStep DEF Next
<1> QED BY <1>1, <1>2, PTL DEF Spec

(* The login never asks for a code of a secret that is gone, nor of one    *)
(* the user has shown no code of, unless requests of the account overlapped *)
(* an enrolment, a confirmation or a reset: for any number in flight.      *)
THEOREM TotpIsConfirmed == Spec => []ConfirmedTotp
<1>1. IInv => ConfirmedTotp
  BY DEF IInv, FactorInv, ConfirmedTotp, TypeOK, IsRow, Fits, Columns
<1> QED BY <1>1, Invariant, PTL

-----------------------------------------------------------------------------
(* Attempts that overlap.                                                  *)

\* The counting of lost updates.  It speaks of no variable: any will do for them.
Counting == INSTANCE OneTimeGrantsProofs
  WITH MaxUses <- MaxFailed, token <- row, approved <- row, entered <- tries,
       invite <- row, admitted <- tries

LEMMA SameSets == \A S : Counting!IsFiniteSet(S) = IsFiniteSet(S)
BY DEF Counting!IsFiniteSet, IsFiniteSet

LEMMA SameCardinality == \A S : Counting!Cardinality(S) = Cardinality(S)
BY DEF Counting!Cardinality, Cardinality

LEMMA SameFactorial == Counting!factorial = factorial
BY DEF Counting!factorial, factorial

LEMMA SameChoices == \A n, k : Counting!choose(n, k) = choose(n, k)
BY SameFactorial DEF Counting!choose, choose

\* What OneTimeGrantsProofs assumes of its constants.
LEMMA CountingApplies == Counting!IsFiniteSet(Reqs) /\ MaxFailed \in Nat \ {0}
BY SameSets, LoginGuardAssumption

\* What a request may still write: one that counts no failure counts as writing MaxFailed.
WritesOf(r) ==
  IF r.kind = "fail" /\ "lock" \notin DOMAIN r.change THEN r.change["failed"] ELSE MaxFailed

Writes == [q \in Reqs |-> WritesOf(req[q])]

\* Only failures and admissions write the count, and a failure that does not lock adds one.
Adds(r) ==
  /\ r.kind \notin {"fail", "admit"} => "failed" \notin DOMAIN r.change
  /\ (r.kind = "fail" /\ "lock" \notin DOMAIN r.change)
       => "failed" \in DOMAIN r.change /\ r.change["failed"] # 0

OverlapInv ==
  /\ Counting!LostUpdates(Reqs, MaxFailed, Writes, row["failed"], tries)
  /\ \A q \in Reqs : req[q] # Idle => Adds(req[q])

LEMMA WhatWaits ==
  ASSUME TypeOK, \A q \in Reqs : req[q] # Idle => Adds(req[q])
  PROVE  /\ MaxFailed \in Nat \ {0} /\ IsFiniteSet(Reqs) /\ row["failed"] \in 0..(MaxFailed - 1)
         /\ Writes \in [Reqs -> 1..MaxFailed]
<1>1. MaxFailed \in Nat \ {0} /\ IsFiniteSet(Reqs)
  BY LoginGuardAssumption
<1>2. ASSUME NEW q \in Reqs PROVE WritesOf(req[q]) \in 1..MaxFailed
  <2>1. CASE req[q] = Idle
    <3>1. WritesOf(req[q]) = MaxFailed
      BY <2>1 DEF WritesOf, Idle
    <3> QED BY <1>1, <3>1
  <2>2. CASE req[q] # Idle
    <3>1. Adds(req[q]) /\ Fits(req[q].change)
      BY <2>2 DEF TypeOK, IsRequest
    <3> QED BY <1>1, <3>1 DEF Adds, Fits, WritesOf
  <2> QED BY <2>1, <2>2
<1>3. Writes \in [Reqs -> 1..MaxFailed]
  BY <1>2 DEF Writes
<1> QED BY <1>1, <1>3 DEF TypeOK, IsRow, Fits, Columns

\* What a handler that starts may write, of the row it has read.
LEMMA WhatBegins ==
  ASSUME TypeOK, NEW kind \in Kinds, NEW cols, Decides(kind, cols),
         NEW r, r.kind = kind, r.change = Changed(row, cols)
  PROVE  Adds(r) /\ (WritesOf(r) = MaxFailed \/ WritesOf(r) > row["failed"])
<1>1. /\ DOMAIN Changed(row, cols) = {d \in DOMAIN cols : cols[d] # row[d]}
      /\ \A d \in DOMAIN Changed(row, cols) : Changed(row, cols)[d] = cols[d]
  BY DEF Changed
<1>2. CASE kind # "fail"
  BY <1>1, <1>2 DEF Adds, WritesOf, Decides
<1>3. CASE kind = "fail"
  <2>1. row["lock"] # "ahead" /\ cols = Failure
    BY <1>3 DEF Decides
  <2>2. row["failed"] \in Nat
    BY LoginGuardAssumption DEF TypeOK, IsRow, Fits, Columns
  <2>3. CASE row.failed + 1 >= MaxFailed
    <3>1. "lock" \in DOMAIN cols /\ cols["lock"] = "ahead"
      BY <2>1, <2>3 DEF Failure
    <3>2. "lock" \in DOMAIN r.change
      BY <1>1, <2>1, <3>1
    <3> QED BY <1>3, <3>2 DEF Adds, WritesOf
  <2>4. CASE ~(row.failed + 1 >= MaxFailed)
    <3>1. DOMAIN cols = {"failed"} /\ cols["failed"] = row["failed"] + 1
      BY <2>1, <2>4 DEF Failure
    <3>2. cols["failed"] # row["failed"]
      BY <2>2, <3>1
    <3>3. /\ "failed" \in DOMAIN r.change /\ "lock" \notin DOMAIN r.change
          /\ r.change["failed"] = row["failed"] + 1
      BY <1>1, <3>1, <3>2
    <3> QED BY <1>3, <2>2, <3>3 DEF Adds, WritesOf
  <2> QED BY <2>3, <2>4
<1> QED BY <1>2, <1>3

LEMMA OverlapBegin ==
  ASSUME TypeOK, OverlapInv, NEW q \in Reqs,
         \/ FailLogin(q) \/ Login(q) \/ Refresh(q)
         \/ SetupTotp(q) \/ EnableTotp(q) \/ DisableTotp(q)
         \/ ResetTotp(q) \/ ResetPassword(q)
  PROVE  OverlapInv'
<1>1. PICK kind \in Kinds : \E cols : Begin(q, kind, cols) /\ Decides(kind, cols)
  BY Handlers
<1>2. PICK cols : Begin(q, kind, cols) /\ Decides(kind, cols)
  BY <1>1
<1>3. /\ UNCHANGED <<row, tries, proof>>
      /\ req' = [p \in Reqs |-> req'[p]]
      /\ \A p \in Reqs : req'[p] = Idle \/ IsRequest(req'[p])
      /\ req'[q].kind = kind /\ req'[q].change = Changed(row, cols)
      /\ \A p \in Reqs \ {q} :
           /\ req'[p] = Idle <=> req[p] = Idle
           /\ req[p] # Idle => req'[p].kind = req[p].kind /\ req'[p].change = req[p].change
  BY <1>2, Begins DEF Decides
<1>4. Adds(req'[q]) /\ (WritesOf(req'[q]) = MaxFailed \/ WritesOf(req'[q]) > row["failed"])
  BY <1>2, <1>3, WhatBegins
<1>5. \A p \in Reqs : req'[p] # Idle => Adds(req'[p])
  BY <1>3, <1>4 DEF OverlapInv, Adds
<1>6. \A p \in Reqs : p # q => WritesOf(req'[p]) = WritesOf(req[p])
  BY <1>3 DEF WritesOf
<1>7. Writes' = [p \in Reqs |-> WritesOf(req'[p])] /\ Writes = [p \in Reqs |-> WritesOf(req[p])]
  BY DEF Writes
<1>8. /\ MaxFailed \in Nat \ {0} /\ Writes \in [Reqs -> 1..MaxFailed]
  BY WhatWaits DEF OverlapInv
<1>9. Writes' \in [Reqs -> 1..MaxFailed]
  <2>1. WritesOf(req'[q]) \in 1..MaxFailed
    <3>1. CASE req'[q] = Idle
      BY <1>8, <3>1 DEF WritesOf, Idle
    <3>2. CASE req'[q] # Idle
      <4>1. Adds(req'[q]) /\ Fits(req'[q].change)
        BY <1>3, <1>4, <3>2 DEF IsRequest
      <4> QED BY <1>8, <4>1 DEF Adds, Fits, WritesOf
    <3> QED BY <3>1, <3>2
  <2> QED BY <1>6, <1>7, <1>8, <2>1
<1>10. \A p \in Reqs : Writes'[p] >= Writes[p] \/ Writes'[p] > row["failed"]
  BY <1>4, <1>6, <1>7, <1>8, <1>9
<1>11. Counting!LostUpdates(Reqs, MaxFailed, Writes', row["failed"], tries)
  BY <1>9, <1>10, Counting!NothingWritten, CountingApplies DEF OverlapInv
<1> QED BY <1>3, <1>5, <1>11 DEF OverlapInv

\* A request that ends leaves what the others wait to write as it was.
LEMMA OverlapEnds ==
  ASSUME TypeOK, OverlapInv, NEW q \in Reqs, req' = [req EXCEPT ![q] = Idle]
  PROVE  /\ \A p \in Reqs : req'[p] # Idle => Adds(req'[p])
         /\ Writes' \in [Reqs -> 1..MaxFailed] /\ Writes \in [Reqs -> 1..MaxFailed]
         /\ Writes'[q] = MaxFailed /\ \A p \in Reqs : p # q => Writes'[p] = Writes[p]
<1>1. \A p \in Reqs : req'[p] = IF p = q THEN Idle ELSE req[p]
  BY DEF TypeOK
<1>2. Writes' = [p \in Reqs |-> WritesOf(req'[p])] /\ Writes = [p \in Reqs |-> WritesOf(req[p])]
  BY DEF Writes
<1>3. WritesOf(Idle) = MaxFailed
  BY DEF WritesOf, Idle
<1>4. MaxFailed \in Nat \ {0} /\ Writes \in [Reqs -> 1..MaxFailed]
  BY WhatWaits DEF OverlapInv
<1>5. Writes'[q] = MaxFailed /\ \A p \in Reqs : p # q => Writes'[p] = Writes[p]
  BY <1>1, <1>2, <1>3
<1>6. \A p \in Reqs : WritesOf(req'[p]) \in 1..MaxFailed
  BY <1>2, <1>4, <1>5
<1>7. Writes' \in [Reqs -> 1..MaxFailed]
  BY <1>2, <1>6
<1> QED BY <1>1, <1>4, <1>5, <1>7 DEF OverlapInv

LEMMA OverlapCommit ==
  ASSUME TypeOK, TypeOK', OverlapInv, NEW q \in Reqs, Commit(q)
  PROVE  OverlapInv'
<1> DEFINE r == req[q]
           after == Updated(row, r.change)
<1>1. /\ r # Idle /\ tries' = Tries(r)
      /\ row' = IF r.kind = "enrol" THEN [after EXCEPT !.secret = TRUE] ELSE after
      /\ req' = [req EXCEPT ![q] = Idle]
  BY DEF Commit
<1>2. IsRequest(r) /\ IsRow(row) /\ tries \in Nat /\ Adds(r)
  BY <1>1 DEF TypeOK, OverlapInv
<1>3. r.kind \in Kinds /\ Fits(r.change)
  BY <1>2 DEF IsRequest
<1>4. /\ IsRow(after)
      /\ \A d \in Columns : after[d] = IF d \in DOMAIN r.change THEN r.change[d] ELSE row[d]
  BY <1>2, <1>3, UpdatedIsRow
<1>5. "failed" \in Columns
  BY DEF Columns
<1>6. Writes[q] = WritesOf(r)
  BY DEF Writes
<1>7. /\ \A p \in Reqs : req'[p] # Idle => Adds(req'[p])
      /\ Writes' \in [Reqs -> 1..MaxFailed] /\ Writes \in [Reqs -> 1..MaxFailed]
      /\ Writes'[q] = MaxFailed /\ \A p \in Reqs : p # q => Writes'[p] = Writes[p]
  BY <1>1, OverlapEnds
<1> HIDE DEF after, r
<1>8. row'["failed"] = after["failed"]
  <2>1. CASE r.kind = "enrol"
    <3>1. row' = [d \in DOMAIN after |-> IF d = "secret" THEN TRUE ELSE after[d]]
      BY <1>1, <1>4, <2>1, ExceptColumn, Zenon DEF IsRow
    <3> QED BY <1>4, <1>5, <3>1 DEF IsRow
  <2>2. CASE r.kind # "enrol"
    BY <1>1, <2>2
  <2> QED BY <2>1, <2>2
<1>9. /\ MaxFailed \in Nat \ {0} /\ IsFiniteSet(Reqs)
      /\ row'["failed"] \in 0..(MaxFailed - 1)
  BY LoginGuardAssumption DEF TypeOK, IsRow, Fits, Columns
<1>10. Counting!LostUpdates(Reqs, MaxFailed, Writes, row["failed"], tries)
  BY DEF OverlapInv
<1>11. Counting!LostUpdates(Reqs, MaxFailed, Writes', row'["failed"], tries')
  <2>1. CASE r.kind = "fail" /\ "lock" \notin DOMAIN r.change
    <3>1. tries' = tries + 1
      BY <1>1, <2>1 DEF Tries
    <3>2. row'["failed"] = Writes[q]
      BY <1>2, <1>4, <1>5, <1>6, <1>8, <2>1 DEF Adds, WritesOf
    <3>3. Writes[q] < MaxFailed
      BY <1>9, <3>2
    <3>4. Counting!LostUpdates(Reqs, MaxFailed, Writes', Writes[q], tries + 1)
      BY <1>7, <1>10, <3>3, Counting!OneWrites, CountingApplies
    <3> QED BY <3>1, <3>2, <3>4
  <2>2. CASE r.kind = "admit" \/ (r.kind = "fail" /\ "lock" \in DOMAIN r.change)
    <3>1. tries' = 0
      BY <1>1, <2>2 DEF Tries
    <3>2. Counting!LostUpdates(Reqs, MaxFailed, Writes', row'["failed"], 0)
      BY <1>7, <1>9, Counting!CountRestarts, CountingApplies
    <3> QED BY <3>1, <3>2
  <2>3. CASE r.kind \notin {"fail", "admit"}
    <3>1. tries' = tries
      BY <1>1, <2>3 DEF Tries
    <3>2. row'["failed"] = row["failed"]
      BY <1>2, <1>4, <1>5, <1>8, <2>3 DEF Adds
    <3>3. \A p \in Reqs : Writes'[p] >= Writes[p] \/ Writes'[p] > row["failed"]
      BY <1>7, <1>9
    <3>4. Counting!LostUpdates(Reqs, MaxFailed, Writes', row["failed"], tries)
      BY <1>7, <1>10, <3>3, Counting!NothingWritten, CountingApplies
    <3> QED BY <3>1, <3>2, <3>4
  <2> QED BY <2>1, <2>2, <2>3
<1> QED BY <1>7, <1>11 DEF OverlapInv

LEMMA OverlapLost ==
  ASSUME TypeOK, OverlapInv, NEW q \in Reqs, RequestLost(q)
  PROVE  OverlapInv'
<1>1. req' = [req EXCEPT ![q] = Idle] /\ UNCHANGED <<row, tries>>
  BY DEF RequestLost
<1>2. /\ \A p \in Reqs : req'[p] # Idle => Adds(req'[p])
      /\ Writes' \in [Reqs -> 1..MaxFailed] /\ Writes \in [Reqs -> 1..MaxFailed]
      /\ Writes'[q] = MaxFailed /\ \A p \in Reqs : p # q => Writes'[p] = Writes[p]
  BY <1>1, OverlapEnds
<1>3. MaxFailed \in Nat
  BY LoginGuardAssumption
<1>4. \A p \in Reqs : Writes'[p] >= Writes[p] \/ Writes'[p] > row["failed"]
  BY <1>2, <1>3
<1>5. Counting!LostUpdates(Reqs, MaxFailed, Writes', row["failed"], tries)
  BY <1>2, <1>4, Counting!NothingWritten, CountingApplies DEF OverlapInv
<1> QED BY <1>1, <1>2, <1>5 DEF OverlapInv

(* _register_failure locks the account in the end however its requests     *)
(* overlap: with n in flight, fewer than choose(MAX_FAILED + n - 1, n)     *)
(* attempts fail since the last lock or admission.  A failed attempt that  *)
(* goes uncounted is one whose write another request, that had read the    *)
(* same count or an older one, took back; each can do that once.           *)
THEOREM OverlappingFailuresLock == Spec => []FailuresLock
<1>1. Init /\ IInv => OverlapInv
  <2> SUFFICES ASSUME Init, IInv PROVE OverlapInv
    OBVIOUS
  <2>1. TypeOK /\ (\A q \in Reqs : req[q] = Idle) /\ row["failed"] = 0 /\ tries = 0
    BY DEF Init, IInv
  <2>2. /\ MaxFailed \in Nat \ {0} /\ IsFiniteSet(Reqs) /\ row["failed"] \in 0..(MaxFailed - 1)
        /\ Writes \in [Reqs -> 1..MaxFailed]
    BY <2>1, WhatWaits
  <2>3. Counting!LostUpdates(Reqs, MaxFailed, Writes, row["failed"], 0)
    BY <2>2, Counting!CountRestarts, CountingApplies
  <2> QED BY <2>1, <2>3 DEF OverlapInv
<1>2. IInv /\ IInv' /\ OverlapInv /\ [Next]_vars => OverlapInv'
  <2> SUFFICES ASSUME IInv, IInv', OverlapInv, [Next]_vars PROVE OverlapInv'
    OBVIOUS
  <2>1. TypeOK /\ TypeOK'
    BY DEF IInv
  <2>2. CASE UNCHANGED vars
    BY <2>2 DEF vars, OverlapInv, Writes, Adds
  <2>3. CASE LockLapses
    <3>1. /\ row' = [d \in DOMAIN row |-> IF d = "lock" THEN "past" ELSE row[d]]
          /\ UNCHANGED <<req, tries, proof>>
      BY <2>1, <2>3, ExceptColumn, Zenon DEF LockLapses, TypeOK, IsRow
    <3>2. row'["failed"] = row["failed"]
      BY <2>1, <3>1 DEF TypeOK, IsRow, Columns
    <3> QED BY <3>1, <3>2 DEF OverlapInv, Writes, Adds
  <2>4. ASSUME NEW q \in Reqs,
               \/ FailLogin(q) \/ Login(q) \/ Refresh(q)
               \/ SetupTotp(q) \/ EnableTotp(q) \/ DisableTotp(q)
               \/ ResetTotp(q) \/ ResetPassword(q)
        PROVE  OverlapInv'
    BY <2>1, <2>4, OverlapBegin
  <2>5. ASSUME NEW q \in Reqs, Commit(q) PROVE OverlapInv'
    BY <2>1, <2>5, OverlapCommit
  <2>6. ASSUME NEW q \in Reqs, RequestLost(q) PROVE OverlapInv'
    BY <2>1, <2>6, OverlapLost
  <2> QED BY <2>2, <2>3, <2>4, <2>5, <2>6 DEF Next
<1>3. OverlapInv => FailuresLock
  <2> SUFFICES ASSUME OverlapInv PROVE FailuresLock
    OBVIOUS
  <2>1. tries < Counting!Ways(MaxFailed, Counting!Cardinality(Reqs))
    BY Counting!WritesAreBounded, CountingApplies DEF OverlapInv
  <2> QED BY <2>1, SameCardinality, SameChoices DEF FailuresLock, Counting!Ways
<1> QED BY <1>1, <1>2, <1>3, Invariant, PTL DEF Spec

\* MAX_FAILED, where the attempts come one by one.
LocksAtMaxFailed == tries < MaxFailed

(* _register_failure locks the account at the MAX_FAILED-th failure since  *)
(* the last lock or admission, as long as requests of it do not overlap:   *)
(* what refreshes, resets and the second factor write in between does not  *)
(* give the attempts away.                                                 *)
THEOREM FailuresOneByOneLock ==
  ASSUME NEW CONSTANT c, Reqs = {c}
  PROVE  Spec => []LocksAtMaxFailed
<1>1. Cardinality(Reqs) = 1
  BY FS_Singleton
<1>2. choose(MaxFailed + 1 - 1, 1) = MaxFailed
  <2>1. MaxFailed \in Nat \ {0} /\ MaxFailed + 1 - 1 = MaxFailed
    BY LoginGuardAssumption
  <2>2. Counting!choose(MaxFailed, 1) = MaxFailed
    BY <2>1, Counting!ChooseOne, CountingApplies
  <2> QED BY <2>1, <2>2, SameChoices
<1>3. FailuresLock => LocksAtMaxFailed
  BY <1>1, <1>2 DEF FailuresLock, LocksAtMaxFailed
<1> QED BY <1>3, OverlappingFailuresLock, PTL
=============================================================================
