----------------------------- MODULE LoginGuard -----------------------------
(***************************************************************************)
(* What guards the login of one account: the lock after too many failures, *)
(* and the second factor (gateway/app/routers/auth.py; the two recoveries  *)
(* of routers/admin.py).  As in Accounts a handler reads the row, then     *)
(* commits the columns it changed.                                         *)
(*                                                                         *)
(* tries and proof are history.                                            *)
(***************************************************************************)
EXTENDS Naturals, FiniteSets, Combinatorics, Orm

CONSTANTS Reqs,      \* bound: requests in flight
          MaxFailed  \* MAX_FAILED

ASSUME LoginGuardAssumption == IsFiniteSet(Reqs) /\ MaxFailed \in Nat \ {0}

VARIABLES row,    \* the columns of the users row that the login guards read
          req,    \* requests between their read and their commit
          tries,  \* failed attempts since the account was last locked or let in
          proof   \* whether a code of the secret was shown: "none", "shown" or "contested"

vars == <<row, req, tries, proof>>

Row == [failed : 0..(MaxFailed - 1),
        lock   : {"none", "ahead", "past"},  \* locked_until
        secret : BOOLEAN,                    \* totp_secret is set
        totp   : BOOLEAN]                    \* totp_enabled

Idle == [kind |-> "idle"]

Init ==
  /\ row = [failed |-> 0, lock |-> "none", secret |-> FALSE, totp |-> FALSE]
  /\ req = [q \in Reqs |-> Idle]
  /\ tries = 0 /\ proof = "none"

Begin(q, kind, cols) ==
  /\ req[q] = Idle
  /\ req' = [p \in Reqs |->
               IF p = q THEN [kind |-> kind, change |-> Changed(row, cols), alone |-> \A r \in Reqs : req[r] = Idle]
               ELSE IF req[p] = Idle THEN Idle ELSE [req[p] EXCEPT !.alone = FALSE]]
  /\ UNCHANGED <<row, tries, proof>>

-----------------------------------------------------------------------------
(* Handlers. *)

\* A plausible slip: one attempt more than MAX_FAILED.
FailureOneMore ==
  IF row.failed >= MaxFailed THEN [failed |-> 0, lock |-> "ahead"]
  ELSE [failed |-> row.failed + 1]

\* _register_failure
Failure ==
  IF row.failed + 1 >= MaxFailed THEN [failed |-> 0, lock |-> "ahead"]
  ELSE [failed |-> row.failed + 1]

\* A wrong password, or a wrong code where one is asked for: the same count.
FailLogin(q) == row.lock # "ahead" /\ Begin(q, "fail", Failure)

\* _issue_session, after a login or a refresh.
Admit == [failed |-> 0]

Login(q)   == row.lock # "ahead" /\ (row.totp => row.secret) /\ Begin(q, "admit", Admit)
Refresh(q) == Begin(q, "admit", Admit)

\* A plausible slip: a new secret replaces a confirmed one in place.
EnrolInPlace == [secret |-> TRUE]

\* "stays off until a code is verified"
Enrol == [secret |-> TRUE, totp |-> FALSE]

SetupTotp(q)   == Begin(q, "enrol", Enrol)
EnableTotp(q)  == row.secret /\ Begin(q, "confirm", [totp |-> TRUE])
DisableTotp(q) == row.totp /\ row.secret /\ Begin(q, "clear", [secret |-> FALSE, totp |-> FALSE])
ResetTotp(q)   == Begin(q, "clear", [secret |-> FALSE, totp |-> FALSE])

ResetPassword(q) == Begin(q, "admit", [failed |-> 0, lock |-> "none"])

-----------------------------------------------------------------------------
Tries(r) ==
  CASE r.kind = "admit" -> 0
    [] r.kind = "fail"  -> IF "lock" \in DOMAIN r.change THEN 0 ELSE tries + 1
    [] OTHER            -> tries

Proof(r) ==
  IF r.kind \notin {"enrol", "confirm", "clear"} THEN proof
  ELSE IF ~r.alone \/ (r.kind = "confirm" /\ proof = "contested") THEN "contested"
  ELSE IF r.kind = "confirm" THEN "shown" ELSE "none"

\* A new secret is a new value of the column even where there was one.
Commit(q) ==
  /\ req[q] # Idle
  /\ row' = LET after == Updated(row, req[q].change)
            IN  IF req[q].kind = "enrol" THEN [after EXCEPT !.secret = TRUE] ELSE after
  /\ tries' = Tries(req[q])
  /\ proof' = Proof(req[q])
  /\ req' = [req EXCEPT ![q] = Idle]

RequestLost(q) ==
  /\ req[q] # Idle
  /\ req' = [req EXCEPT ![q] = Idle]
  /\ UNCHANGED <<row, tries, proof>>

LockLapses ==
  /\ row.lock = "ahead"
  /\ row' = [row EXCEPT !.lock = "past"]
  /\ UNCHANGED <<req, tries, proof>>

Next ==
  \/ \E q \in Reqs :
       \/ FailLogin(q) \/ Login(q) \/ Refresh(q)
       \/ SetupTotp(q) \/ EnableTotp(q) \/ DisableTotp(q)
       \/ ResetTotp(q) \/ ResetPassword(q)
       \/ Commit(q) \/ RequestLost(q)
  \/ LockLapses

Spec == Init /\ [][Next]_vars

-----------------------------------------------------------------------------
(* Parallel attempts read the same count and write the same successor, and *)
(* a slow one writes an old count back, so attempts go uncounted.  They do *)
(* not go unnoticed for ever: with n requests in flight at most this many  *)
(* attempts fail before the account locks, and with one, MAX_FAILED.       *)
FailuresLock == tries < choose(MaxFailed + Cardinality(Reqs) - 1, Cardinality(Reqs))

(* twofa_setup: "2FA is not active until /2fa/enable confirms a code".     *)
(* Where no other request of the account overlaps an enrolment, a          *)
(* confirmation or a reset, the login asks for a code only of a secret the *)
(* user has shown a code of, and never of a secret that is gone.           *)
ConfirmedTotp == row.totp /\ proof # "contested" => row.secret /\ proof = "shown"
=============================================================================
