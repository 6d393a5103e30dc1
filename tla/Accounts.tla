------------------------------ MODULE Accounts ------------------------------
(***************************************************************************)
(* Accounts and sessions of the gateway: login, refresh, logout, change of *)
(* password (gateway/app/routers/auth.py), the check every request passes  *)
(* (deps.py), and the admin operations on accounts (routers/admin.py).     *)
(*                                                                         *)
(* A handler is two steps: one reads rows and decides, one commits.  Any   *)
(* other request, on this replica or another, may commit in between.       *)
(*                                                                         *)
(* alone, chain, outdated and pw are history: only the properties tell     *)
(* their values apart, no guard reads them.                                *)
(*                                                                         *)
(* Left out: the lock and the second factor (LoginGuard), the calls to the *)
(* Hub (Notebooks), e-mail, names, tags and the GPU quota, and             *)
(* require_admin_2fa, which is off unless configured.                      *)
(***************************************************************************)
EXTENDS FiniteSets, Orm

CONSTANTS Users,        \* account ids; the id of a deleted account is not used again
          Owner,        \* the account the bootstrap made
          OwnerSession, \* the session the owner is logged in with
          SessionIds,   \* bound: rows of user_sessions at one time, but for the owner's
          Logins,       \* names for the logins whose refreshes are followed
          Reqs,         \* bound: requests in flight
          None

ASSUME AccountsAssumption ==
  Owner \in Users /\ OwnerSession \notin SessionIds /\ None \notin Logins

VARIABLES account,    \* the users table
          sessions,   \* the user_sessions table
          req         \* requests between their reads and their commit

vars == <<account, sessions, req>>

-----------------------------------------------------------------------------
AllSessions == SessionIds \cup {OwnerSession}

Account ==
  [status : {"absent", "pending", "approved", "rejected", "suspended", "deleted"},
   role   : {"user", "admin", "owner"},
   pw     : {"chosen", "temporary"},               \* temporary: surely the one an admin relayed
   must   : BOOLEAN,                               \* must_change_password
   term   : {"none", "running", "over"}]           \* expires_at: null, ahead, past

\* A session is expired once its tokens are; the row outlives them.
Session ==
  [user : Users, state : {"none", "live", "revoked", "expired"},
   chain : Logins \cup {None}, outdated : BOOLEAN]

\* A session of which its user and its state matter.
Dead(u, state) == [user |-> u, state |-> state, chain |-> None, outdated |-> FALSE]

Idle == [kind |-> "idle"]

NewAccount(status, role, pw) ==
  [status |-> status, role |-> role, pw |-> pw, must |-> pw = "temporary", term |-> "none"]

\* After the bootstrap: the owner has logged in and chosen a password.
Init ==
  /\ account = [u \in Users |-> IF u = Owner THEN NewAccount("approved", "owner", "chosen")
                                ELSE NewAccount("absent", "user", "chosen")]
  /\ sessions = [s \in AllSessions |-> IF s = OwnerSession
                                       THEN Dead(Owner, "live")
                                       ELSE Dead(Owner, "none")]
  /\ req = [q \in Reqs |-> Idle]

-----------------------------------------------------------------------------
(* Reading. *)

InFlight == {q \in Reqs : req[q] # Idle}

Exists(u) == account[u].status \notin {"absent", "deleted"}

SessionsOf(u) == {s \in AllSessions : sessions[s].user = u /\ sessions[s].state # "none"}

\* get_current_session, up to the account's status.
Usable(s) == sessions[s].state = "live" /\ account[sessions[s].user].status = "approved"

Lapsed(u) == account[u].term = "over" /\ account[u].role = "user"

Authorized(s) == Usable(s) /\ ~Lapsed(sessions[s].user)

\* A pending password change closes every path but the change, /me and the logout.
MayAct(s) == Authorized(s) /\ ~account[sessions[s].user].must

MayAdminister(s) == MayAct(s) /\ account[sessions[s].user].role \in {"admin", "owner"}

-----------------------------------------------------------------------------
(* A request: the columns it will write, the sessions it will revoke, the  *)
(* one it spares, and the login a session it opens descends from.          *)

Request(kind, change) ==
  [kind |-> kind, change |-> change, revoke |-> {}, keep |-> None, chain |-> None, alone |-> TRUE]

Assign(u, cols) == [v \in {u} |-> Changed(account[u], cols)]

Begin(q, r) ==
  /\ req[q] = Idle
  /\ req' = [p \in Reqs |-> IF p = q THEN [r EXCEPT !.alone = (InFlight = {})]
                            ELSE IF req[p] = Idle THEN Idle
                            ELSE [req[p] EXCEPT !.alone = FALSE]]
  /\ UNCHANGED <<account, sessions>>

-----------------------------------------------------------------------------
(* A user's own requests. *)

\* The right password and code for an account that is not locked.
Login(q, u) ==
  /\ u # Owner /\ account[u].status = "approved"
  /\ Begin(q, Request("open", Assign(u, <<>>)))

\* A plausible slip: the rotation does not look at the revocation.
RefreshableRevoked(s) ==
  sessions[s].state \in {"live", "revoked"} /\ account[sessions[s].user].status = "approved"

\* The refresh token decodes, its session is not revoked, the account is active.
Refreshable(s) == Usable(s)

Refresh(q, s) ==
  /\ Refreshable(s)
  /\ Begin(q, [Request("rotate", Assign(sessions[s].user, <<>>))
                 EXCEPT !.revoke = {s}, !.chain = sessions[s].chain])

Logout(q, s) ==
  /\ Authorized(s)
  /\ Begin(q, [Request("write", <<>>) EXCEPT !.revoke = {s}])

\* "Invalidate every other session; keep the one making the change."
ChangePassword(q, s) ==
  LET u == sessions[s].user IN
  /\ Authorized(s)
  /\ Begin(q, [Request("change", Assign(u, [must |-> FALSE]))
                 EXCEPT !.revoke = SessionsOf(u) \ {s}, !.keep = s])

\* A request of an account past its expiry suspends the account.
LapseOnUse(q, s) ==
  LET u == sessions[s].user IN
  /\ Usable(s) /\ Lapsed(u)
  /\ Begin(q, Request("write", Assign(u, [status |-> "suspended"])))

-----------------------------------------------------------------------------
(* Accounts are made: register, create_user. *)

\* Without an invite the account waits for an admin; an invite has a role.
Register(u, status, role) ==
  /\ account[u].status = "absent"
  /\ status = "pending" => role = "user"
  /\ account' = [account EXCEPT ![u] = NewAccount(status, role, "chosen")]
  /\ UNCHANGED <<sessions, req>>

CreateUser(s, u, role) ==
  /\ MayAdminister(s) /\ account[u].status = "absent"
  /\ account' = [account EXCEPT ![u] = NewAccount("approved", role, "temporary")]
  /\ UNCHANGED <<sessions, req>>

-----------------------------------------------------------------------------
(* Admin operations on an account. *)

\* _ensure_not_owner, after the 404.
Touchable(u) == Exists(u) /\ account[u].role # "owner"

Other(s, u) == sessions[s].user # u

AdminWrite(q, s, u, cols) ==
  MayAdminister(s) /\ Touchable(u) /\ Begin(q, Request("write", Assign(u, cols)))

Approve(q, s, u, role) == AdminWrite(q, s, u, [status |-> "approved", role |-> role])
Reject(q, s, u)        == AdminWrite(q, s, u, [status |-> "rejected"])
Reinstate(q, s, u)     == AdminWrite(q, s, u, [status |-> "approved"])
SetRole(q, s, u, role) == Other(s, u) /\ AdminWrite(q, s, u, [role |-> role])
SetExpiry(q, s, u, t)  == AdminWrite(q, s, u, [term |-> t])

\* A plausible slip: the account is closed, its sessions are not.
SuspendQuietly(q, s, u) ==
  /\ MayAdminister(s) /\ Touchable(u) /\ Other(s, u)
  /\ Begin(q, Request("suspend", Assign(u, [status |-> "suspended"])))

Suspend(q, s, u) ==
  /\ MayAdminister(s) /\ Touchable(u) /\ Other(s, u)
  /\ Begin(q, [Request("suspend", Assign(u, [status |-> "suspended"])) EXCEPT !.revoke = SessionsOf(u)])

\* A plausible slip: the temporary password is an ordinary one.
ResetQuietly == [must |-> FALSE]

ResetColumns == [must |-> TRUE]

ResetPassword(q, s, u) ==
  /\ MayAdminister(s) /\ Touchable(u)
  /\ Begin(q, [Request("reset", Assign(u, ResetColumns)) EXCEPT !.revoke = SessionsOf(u)])

DeleteUser(q, s, u) ==
  /\ MayAdminister(s) /\ Touchable(u) /\ Other(s, u)
  /\ Begin(q, Request("delete", Assign(u, <<>>)))

\* A plausible slip: only the admin's own account is skipped.
BulkTargetsWithOwner(s, us) == {u \in us : Exists(u) /\ Other(s, u)}

\* "owner + self always skipped"
BulkTargets(s, us) == {u \in us : Touchable(u) /\ Other(s, u)}

BulkStatus(q, s, us, status) ==
  LET targets == BulkTargets(s, us)
      r == Request(IF status = "suspended" THEN "suspend" ELSE "write",
                   [u \in targets |-> Changed(account[u], [status |-> status])])
  IN  /\ MayAdminister(s) /\ targets # {}
      /\ Begin(q, IF status = "suspended"
                  THEN [r EXCEPT !.revoke = UNION {SessionsOf(u) : u \in targets}] ELSE r)

BulkDelete(q, s, us) ==
  /\ MayAdminister(s) /\ BulkTargets(s, us) # {}
  /\ Begin(q, Request("delete", [u \in BulkTargets(s, us) |-> <<>>]))

-----------------------------------------------------------------------------
(* The commit. *)

\* A plausible slip: no foreign key from the session to its user.
WritableUnbound(r) == \A s \in r.revoke : sessions[s].state # "none"

\* A row to change, or the user of a new session, is gone: an error and a rollback.
Writable(r) ==
  /\ \A u \in DOMAIN r.change : account[u].status # "deleted"
  /\ \A s \in r.revoke : sessions[s].state # "none"

\* The hash of a password always changes.
Password(r, u) ==
  CASE r.kind = "change" -> "chosen"
    [] r.kind = "reset"  -> IF r.alone THEN "temporary" ELSE "chosen"
    [] OTHER             -> account[u].pw

Written(r) ==
  [u \in Users |-> IF u \notin DOMAIN r.change THEN account[u]
                   ELSE [Updated(account[u], r.change[u]) EXCEPT !.pw = Password(r, u)]]

\* History: what a session missed when another kicked its user out, unless overlapped.
Missed(r, s) ==
  /\ r.kind \in {"change", "suspend", "reset"} /\ r.alone
  /\ sessions[s].user \in DOMAIN r.change /\ s # r.keep

Revoked(r) ==
  [s \in AllSessions |->
     IF sessions[s].state # "live" THEN sessions[s]
     ELSE IF s \in r.revoke THEN [Dead(sessions[s].user, "revoked") EXCEPT !.chain = sessions[s].chain]
     ELSE [sessions[s] EXCEPT !.outdated = @ \/ Missed(r, s)]]

CommitWrite(q) ==
  /\ req[q].kind \in {"write", "change", "suspend", "reset"} /\ Writable(req[q])
  /\ account' = Written(req[q])
  /\ sessions' = Revoked(req[q])
  /\ req' = [req EXCEPT ![q] = Idle]

\* The first commit of a refresh; then _issue_session, as at a login.
CommitRotation(q) ==
  /\ req[q].kind = "rotate" /\ Writable(req[q])
  /\ sessions' = Revoked(req[q])
  /\ req' = [req EXCEPT ![q].kind = "open", ![q].revoke = {}]
  /\ UNCHANGED account

Named == {sessions[s].chain : s \in SessionIds} \cup {req[q].chain : q \in InFlight}

\* The login a new session descends from: unclear when another request overlapped,
\* the one of the session refreshed, or a login of its own, with a free name or none.
Descent(r) ==
  IF ~r.alone THEN {None} ELSE IF r.chain # None THEN {r.chain}
  ELSE {None} \cup (Logins \ Named)

CommitOpen(q) ==
  /\ req[q].kind = "open" /\ Writable(req[q])
  /\ \E s \in SessionIds, u \in DOMAIN req[q].change, c \in Descent(req[q]) :
       /\ sessions[s].state = "none"
       /\ sessions' = [sessions EXCEPT ![s] =
                         [user |-> u, state |-> "live", chain |-> c, outdated |-> FALSE]]
  /\ req' = [req EXCEPT ![q] = Idle]
  /\ UNCHANGED account

\* Sessions go with their user.
CommitDelete(q) ==
  LET gone == DOMAIN req[q].change IN
  /\ req[q].kind = "delete"
  /\ account' = [u \in Users |-> IF u \in gone THEN NewAccount("deleted", "user", "chosen") ELSE account[u]]
  /\ sessions' = [s \in AllSessions |-> IF sessions[s].user \in gone THEN Dead(Owner, "none") ELSE sessions[s]]
  /\ req' = [req EXCEPT ![q] = Idle]

\* The commit fails, or the replica dies before it.
RequestLost(q) ==
  /\ req[q] # Idle
  /\ req' = [req EXCEPT ![q] = Idle]
  /\ UNCHANGED <<account, sessions>>

-----------------------------------------------------------------------------
(* Time, and the sweep. *)

TermEnds(u) ==
  /\ account[u].term = "running"
  /\ account' = [account EXCEPT ![u].term = "over"]
  /\ UNCHANGED <<sessions, req>>

Expire(s) ==
  /\ s # OwnerSession /\ sessions[s].state \in {"live", "revoked"}
  /\ sessions' = [sessions EXCEPT ![s] = Dead(@.user, "expired")]
  /\ UNCHANGED <<account, req>>

\* cleanup_once
Sweep(s) ==
  /\ sessions[s].state = "expired"
  /\ sessions' = [sessions EXCEPT ![s] = Dead(Owner, "none")]
  /\ UNCHANGED <<account, req>>

-----------------------------------------------------------------------------
SelfStep(q) ==
  \/ \E u \in Users : Login(q, u)
  \/ \E s \in SessionIds :
       Refresh(q, s) \/ Logout(q, s) \/ ChangePassword(q, s) \/ LapseOnUse(q, s)

AdminStep(q) ==
  \E s \in AllSessions :
    \/ \E u \in Users :
         \/ \E role \in {"user", "admin"} : Approve(q, s, u, role) \/ SetRole(q, s, u, role)
         \/ Reject(q, s, u) \/ Suspend(q, s, u) \/ Reinstate(q, s, u)
         \/ ResetPassword(q, s, u) \/ DeleteUser(q, s, u)
         \/ \E t \in {"none", "running"} : SetExpiry(q, s, u, t)
    \/ \E us \in SUBSET Users :
         \/ \E status \in {"approved", "rejected", "suspended"} : BulkStatus(q, s, us, status)
         \/ BulkDelete(q, s, us)

CommitStep(q) ==
  CommitWrite(q) \/ CommitRotation(q) \/ CommitOpen(q) \/ CommitDelete(q) \/ RequestLost(q)

Next ==
  \/ \E q \in Reqs : SelfStep(q) \/ AdminStep(q) \/ CommitStep(q)
  \/ \E u \in Users :
       \/ TermEnds(u)
       \/ \E role \in {"user", "admin"} :
            \/ \E status \in {"pending", "approved"} : Register(u, status, role)
            \/ \E s \in AllSessions : CreateUser(s, u, role)
  \/ \E s \in SessionIds : Expire(s) \/ Sweep(s)

Spec == Init /\ [][Next]_vars

-----------------------------------------------------------------------------
LiveSessions == {s \in AllSessions : sessions[s].state = "live"}

(* _ensure_not_owner: "The owner account is un-removable: no admin action  *)
(* may touch it", and set_role: "owner role can never be granted or        *)
(* removed".  Whatever admins do at once, one by one or in bulk, the owner *)
(* stays approved and the only owner.                                      *)
OwnerKept ==
  \A u \in Users : u = Owner <=> account[u].role = "owner" /\ account[u].status = "approved"

(* A change of password, a reset and a suspension that no other request    *)
(* overlaps leave no older session live, except the one that made the      *)
(* change: not then, and not after a reinstatement either.                 *)
OutdatedIsRevoked == \A s \in LiveSessions : ~sessions[s].outdated

(* The rotation of refresh: of the sessions that descend from one login    *)
(* through refreshes that no other request overlapped, one is live.        *)
OneLiveSessionPerLogin ==
  \A s, t \in LiveSessions :
    sessions[s].chain = sessions[t].chain /\ sessions[s].chain # None => s = t

(* reset_password: "The user must change it on next login".  The password  *)
(* an admin relayed, in a reset nothing overlapped or a new account, opens *)
(* only the paths of a pending change until the user has chosen another.   *)
TemporaryMustChange == \A u \in Users : account[u].pw = "temporary" => account[u].must

(* delete_user, bulk_users: "sessions cascade-delete", those of a login or *)
(* a refresh that was under way while the account was deleted included.    *)
SessionsHaveUsers == \A s \in LiveSessions : Exists(sessions[s].user)
=============================================================================
