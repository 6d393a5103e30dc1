--------------------------- MODULE AccountsProofs ---------------------------
(***************************************************************************)
(* For any number of users, sessions and requests in flight.  Two things   *)
(* no interleaving of requests breaks: the owner stays the owner, and no   *)
(* live session outlives its user; they rest on what the requests in       *)
(* flight may still write, though it was decided on rows that have changed *)
(* since.  And three that a request keeps when nothing overlaps it,        *)
(* whatever overlapped before and after: it revokes what it outdates,      *)
(* rotates the one session of a login, and flags a relayed password.       *)
(***************************************************************************)
EXTENDS Accounts, TLAPS

Columns == {"status", "role", "pw", "must", "term"}

Kinds == {"open", "rotate", "write", "change", "suspend", "reset", "delete"}

IsSession(s) ==
  s = [user |-> s.user, state |-> s.state, chain |-> s.chain, outdated |-> s.outdated]

IsRequest(r) ==
  /\ r = [kind |-> r.kind, change |-> r.change, revoke |-> r.revoke,
          keep |-> r.keep, chain |-> r.chain, alone |-> r.alone]
  /\ r.kind \in Kinds

Shape ==
  /\ account = [u \in Users |-> account[u]]
  /\ \A u \in Users : DOMAIN account[u] = Columns
  /\ sessions = [s \in AllSessions |-> sessions[s]]
  /\ \A s \in AllSessions : IsSession(sessions[s]) /\ sessions[s].user \in Users
  /\ req = [q \in Reqs |-> req[q]]
  /\ \A q \in Reqs : req[q] = Idle \/ IsRequest(req[q])

\* The owner, and nobody else, has the role, and is approved.
OwnerInv ==
  /\ account[Owner].status = "approved"
  /\ \A u \in Users : account[u].role = "owner" <=> u = Owner

\* What a change of u's columns may do.
HarmlessTo(u, columns) ==
  /\ u \in Users /\ account[u].status # "absent"
  /\ "role" \in DOMAIN columns => columns["role"] \in {"user", "admin"}
  /\ "status" \in DOMAIN columns => columns["status"] \notin {"absent", "deleted"}
  /\ u = Owner => "role" \notin DOMAIN columns /\ "status" \notin DOMAIN columns

\* What a request in flight may write.
Harmless(r) ==
  /\ \A u \in DOMAIN r.change : HarmlessTo(u, r.change[u])
  /\ r.kind = "delete" => Owner \notin DOMAIN r.change

IInv ==
  /\ Shape /\ OwnerInv /\ SessionsHaveUsers
  /\ \A q \in Reqs : req[q] # Idle => Harmless(req[q])

-----------------------------------------------------------------------------
(* Requests begin.                                                         *)

LEMMA IdleIsNoRequest == \A r : IsRequest(r) => r # Idle
BY DEF IsRequest, Idle, Kinds

\* The row of u with the columns cols written to it.
LEMMA AssignIsHarmless ==
  ASSUME NEW u \in Users, NEW cols, account[u].status # "absent",
         "role" \in DOMAIN cols => cols["role"] \in {"user", "admin"},
         "status" \in DOMAIN cols => cols["status"] \notin {"absent", "deleted"},
         u = Owner => "role" \notin DOMAIN cols /\ "status" \notin DOMAIN cols
  PROVE  /\ HarmlessTo(u, Changed(account[u], cols))
         /\ DOMAIN Assign(u, cols) = {u}
         /\ \A v \in DOMAIN Assign(u, cols) : HarmlessTo(v, Assign(u, cols)[v])
<1> DEFINE new == Changed(account[u], cols)
<1>1. DOMAIN new \subseteq DOMAIN cols /\ \A c \in DOMAIN new : new[c] = cols[c]
  BY DEF Changed
<1>2. DOMAIN Assign(u, cols) = {u} /\ Assign(u, cols)[u] = new
  BY DEF Assign
<1> HIDE DEF new
<1>3. HarmlessTo(u, new)  BY <1>1 DEF HarmlessTo
<1> QED  BY <1>2, <1>3 DEF new

LEMMA NothingIsHarmless ==
  ASSUME NEW u \in Users, account[u].status # "absent"
  PROVE  /\ DOMAIN Assign(u, <<>>) = {u}
         /\ \A v \in DOMAIN Assign(u, <<>>) : HarmlessTo(v, Assign(u, <<>>)[v])
<1>1. DOMAIN <<>> = {}  OBVIOUS
<1> QED  BY <1>1, AssignIsHarmless

\* A request that begins harmless leaves the invariant.
LEMMA BeginsHarmless ==
  ASSUME IInv, NEW q \in Reqs, NEW r, IsRequest(r), Harmless(r), Begin(q, r)
  PROVE  IInv'
<1>1. UNCHANGED <<account, sessions>>  BY DEF Begin
<1>2. req' = [p \in Reqs |-> req'[p]]  BY DEF Begin
<1>3. ASSUME NEW p \in Reqs
      PROVE  /\ req'[p] = Idle \/ IsRequest(req'[p])
             /\ req'[p] # Idle => Harmless(req'[p])
  <2>1. CASE p = q
    <3>1. req'[p] = [r EXCEPT !.alone = (InFlight = {})]  BY <2>1 DEF Begin
    <3>2. req'[p] = [kind |-> r.kind, change |-> r.change, revoke |-> r.revoke,
                     keep |-> r.keep, chain |-> r.chain, alone |-> (InFlight = {})]
      BY <3>1 DEF IsRequest
    <3> QED  BY <3>2 DEF IsRequest, Harmless
  <2>2. CASE p # q /\ req[p] = Idle
    BY <2>2 DEF Begin
  <2>3. CASE p # q /\ req[p] # Idle
    <3>1. req'[p] = [req[p] EXCEPT !.alone = FALSE]  BY <2>3 DEF Begin
    <3>2. IsRequest(req[p]) /\ Harmless(req[p])  BY <2>3 DEF IInv, Shape
    <3>3. req'[p] = [kind |-> req[p].kind, change |-> req[p].change, revoke |-> req[p].revoke,
                     keep |-> req[p].keep, chain |-> req[p].chain, alone |-> FALSE]
      BY <3>1, <3>2 DEF IsRequest
    <3> QED  BY <3>2, <3>3 DEF IsRequest, Harmless
  <2> QED  BY <2>1, <2>2, <2>3
<1>4. (\A p \in Reqs : req[p] # Idle => Harmless(req[p]))'
  BY <1>1, <1>3 DEF Harmless, HarmlessTo
<1> QED
  BY <1>1, <1>2, <1>3, <1>4
  DEF IInv, Shape, OwnerInv, SessionsHaveUsers, LiveSessions, Exists

LEMMA ExceptOnRequest ==
  ASSUME NEW r, IsRequest(r), NEW v
  PROVE  /\ [r EXCEPT !.revoke = v] = [kind |-> r.kind, change |-> r.change, revoke |-> v,
                                       keep |-> r.keep, chain |-> r.chain, alone |-> r.alone]
         /\ [r EXCEPT !.keep = v] = [kind |-> r.kind, change |-> r.change, revoke |-> r.revoke,
                                     keep |-> v, chain |-> r.chain, alone |-> r.alone]
         /\ [r EXCEPT !.chain = v] = [kind |-> r.kind, change |-> r.change, revoke |-> r.revoke,
                                      keep |-> r.keep, chain |-> v, alone |-> r.alone]
BY DEF IsRequest

\* The requests handlers begin with.
LEMMA RequestIs ==
  ASSUME NEW kind \in Kinds, NEW change
  PROVE  LET r == Request(kind, change)
         IN  IsRequest(r) /\ r.kind = kind /\ r.change = change
BY DEF Request, IsRequest

\* ... and what they still are once the rest is filled in.
LEMMA FilledIn ==
  ASSUME NEW r, IsRequest(r), NEW v,
         NEW x \in {[r EXCEPT !.revoke = v], [r EXCEPT !.keep = v], [r EXCEPT !.chain = v]}
  PROVE  IsRequest(x) /\ x.kind = r.kind /\ x.change = r.change
BY ExceptOnRequest DEF IsRequest

LEMMA SelfStepIInv ==
  ASSUME IInv, NEW q \in Reqs, SelfStep(q)
  PROVE  IInv'
<1>0. Shape /\ OwnerInv /\ SessionIds \subseteq AllSessions
  BY DEF IInv, AllSessions
<1>k. {"open", "rotate", "write", "change"} \subseteq Kinds  BY DEF Kinds
<1>1. ASSUME NEW u \in Users, Login(q, u)  PROVE IInv'
  <2>1. account[u].status = "approved" /\ Begin(q, Request("open", Assign(u, <<>>)))
    BY <1>1 DEF Login
  <2>2. /\ IsRequest(Request("open", Assign(u, <<>>)))
        /\ Request("open", Assign(u, <<>>)).kind = "open"
        /\ Request("open", Assign(u, <<>>)).change = Assign(u, <<>>)
    BY <1>k, RequestIs
  <2>3. Harmless(Request("open", Assign(u, <<>>)))
    BY <2>1, <2>2, NothingIsHarmless DEF Harmless
  <2> QED  BY <2>1, <2>2, <2>3, BeginsHarmless
<1>2. ASSUME NEW s \in SessionIds, Refresh(q, s)  PROVE IInv'
  <2> DEFINE u == sessions[s].user
             b == Request("rotate", Assign(u, <<>>))
             y == [b EXCEPT !.revoke = {s}]
             r == [y EXCEPT !.chain = sessions[s].chain]
  <2>1. u \in Users /\ account[u].status = "approved" /\ Begin(q, r)
    BY <1>0, <1>2 DEF Refresh, Refreshable, Usable, Shape
  <2>1a. IsRequest(b) /\ b.kind = "rotate" /\ b.change = Assign(u, <<>>)
    BY <1>k, RequestIs
  <2> HIDE DEF b
  <2>1b. IsRequest(y) /\ y.kind = "rotate" /\ y.change = Assign(u, <<>>)
    BY <2>1a, FilledIn
  <2> HIDE DEF y
  <2>2. IsRequest(r) /\ r.kind = "rotate" /\ r.change = Assign(u, <<>>)
    BY <2>1b, FilledIn
  <2> HIDE DEF u, r
  <2>3. Harmless(r)
    BY <2>1, <2>2, NothingIsHarmless DEF Harmless
  <2> QED  BY <2>1, <2>2, <2>3, BeginsHarmless
<1>3. ASSUME NEW s \in SessionIds, Logout(q, s)  PROVE IInv'
  <2> DEFINE b == Request("write", <<>>)
             r == [b EXCEPT !.revoke = {s}]
  <2>1. Begin(q, r)  BY <1>3 DEF Logout
  <2>1a. IsRequest(b) /\ b.kind = "write" /\ b.change = <<>>
    BY <1>k, RequestIs
  <2> HIDE DEF b
  <2>2. IsRequest(r) /\ r.kind = "write" /\ r.change = <<>>
    BY <2>1a, FilledIn
  <2> HIDE DEF r
  <2>3. Harmless(r)  BY <2>2 DEF Harmless
  <2> QED  BY <2>1, <2>2, <2>3, BeginsHarmless
<1>4. ASSUME NEW s \in SessionIds, ChangePassword(q, s)  PROVE IInv'
  <2> DEFINE u == sessions[s].user
             b == Request("change", Assign(u, [must |-> FALSE]))
             y == [b EXCEPT !.revoke = SessionsOf(u) \ {s}]
             r == [y EXCEPT !.keep = s]
  <2>1. u \in Users /\ account[u].status = "approved" /\ Begin(q, r)
    BY <1>0, <1>4 DEF ChangePassword, Authorized, Usable, Shape
  <2>1a. IsRequest(b) /\ b.kind = "change" /\ b.change = Assign(u, [must |-> FALSE])
    BY <1>k, RequestIs
  <2> HIDE DEF b
  <2>1b. IsRequest(y) /\ y.kind = "change" /\ y.change = Assign(u, [must |-> FALSE])
    BY <2>1a, FilledIn
  <2> HIDE DEF y
  <2>2. IsRequest(r) /\ r.kind = "change" /\ r.change = Assign(u, [must |-> FALSE])
    BY <2>1b, FilledIn
  <2> HIDE DEF u, r
  <2>3. "role" \notin DOMAIN [must |-> FALSE] /\ "status" \notin DOMAIN [must |-> FALSE]
    OBVIOUS
  <2>4. Harmless(r)
    BY <2>1, <2>2, <2>3, AssignIsHarmless DEF Harmless
  <2> QED  BY <2>1, <2>2, <2>4, BeginsHarmless
<1>5. ASSUME NEW s \in SessionIds, LapseOnUse(q, s)  PROVE IInv'
  <2> DEFINE u == sessions[s].user
             cols == [status |-> "suspended"]
             r == Request("write", Assign(u, cols))
  <2>1. /\ u \in Users /\ account[u].status = "approved" /\ Begin(q, r)
        /\ account[u].role = "user"
    BY <1>0, <1>5 DEF LapseOnUse, Lapsed, Usable, Shape
  <2>2. IsRequest(r) /\ r.kind = "write" /\ r.change = Assign(u, cols)
    BY <1>k, RequestIs
  <2>3. DOMAIN cols = {"status"} /\ cols["status"] = "suspended"  OBVIOUS
  <2> HIDE DEF u, r, cols
  <2>4. u # Owner  BY <1>0, <2>1 DEF OwnerInv
  <2>5. Harmless(r)
    BY <2>1, <2>2, <2>3, <2>4, AssignIsHarmless DEF Harmless
  <2> QED  BY <2>1, <2>2, <2>5, BeginsHarmless
<1> QED  BY <1>1, <1>2, <1>3, <1>4, <1>5 DEF SelfStep

\* An admin's request, on accounts that may be touched.
LEMMA TouchableIsNotOwner ==
  ASSUME IInv, NEW u \in Users, Touchable(u)
  PROVE  u # Owner /\ account[u].status # "absent"
BY DEF IInv, OwnerInv, Touchable, Exists

LEMMA AdminWriteIInv ==
  ASSUME IInv, NEW q \in Reqs, NEW s, NEW u \in Users, NEW cols, AdminWrite(q, s, u, cols),
         "role" \in DOMAIN cols => cols["role"] \in {"user", "admin"},
         "status" \in DOMAIN cols => cols["status"] \notin {"absent", "deleted"}
  PROVE  IInv'
<1> DEFINE r == Request("write", Assign(u, cols))
<1>1. Begin(q, r) /\ u # Owner /\ account[u].status # "absent"
  BY TouchableIsNotOwner DEF AdminWrite
<1>2. IsRequest(r) /\ r.kind = "write" /\ r.change = Assign(u, cols)
  BY RequestIs DEF Kinds
<1> HIDE DEF r
<1>3. Harmless(r)
  BY <1>1, <1>2, AssignIsHarmless DEF Harmless
<1> QED  BY <1>1, <1>2, <1>3, BeginsHarmless

LEMMA AdminStepIInv ==
  ASSUME IInv, NEW q \in Reqs, AdminStep(q)
  PROVE  IInv'
<1>k. {"write", "suspend", "reset", "delete"} \subseteq Kinds  BY DEF Kinds
<1>1. ASSUME NEW s \in AllSessions, NEW u \in Users, NEW role \in {"user", "admin"},
             Approve(q, s, u, role) \/ SetRole(q, s, u, role)
      PROVE  IInv'
  <2>1. CASE Approve(q, s, u, role)
    <3> DEFINE cols == [status |-> "approved", role |-> role]
    <3>1. DOMAIN cols = {"status", "role"} /\ cols["status"] = "approved" /\ cols["role"] = role
      OBVIOUS
    <3>2. AdminWrite(q, s, u, cols)  BY <2>1 DEF Approve
    <3> HIDE DEF cols
    <3> QED  BY <3>1, <3>2, AdminWriteIInv
  <2>2. CASE SetRole(q, s, u, role)
    <3> DEFINE cols == [role |-> role]
    <3>1. DOMAIN cols = {"role"} /\ cols["role"] = role  OBVIOUS
    <3>2. AdminWrite(q, s, u, cols)  BY <2>2 DEF SetRole
    <3> HIDE DEF cols
    <3> QED  BY <3>1, <3>2, AdminWriteIInv
  <2> QED  BY <1>1, <2>1, <2>2
<1>2. ASSUME NEW s \in AllSessions, NEW u \in Users, Reject(q, s, u) \/ Reinstate(q, s, u)
      PROVE  IInv'
  <2>1. PICK status \in {"rejected", "approved"} : AdminWrite(q, s, u, [status |-> status])
    BY <1>2 DEF Reject, Reinstate
  <2> DEFINE cols == [status |-> status]
  <2>2. DOMAIN cols = {"status"} /\ cols["status"] = status  OBVIOUS
  <2>3. AdminWrite(q, s, u, cols)  BY <2>1
  <2> HIDE DEF cols
  <2> QED  BY <2>2, <2>3, AdminWriteIInv
<1>3. ASSUME NEW s \in AllSessions, NEW u \in Users, NEW t, SetExpiry(q, s, u, t)
      PROVE  IInv'
  <2> DEFINE cols == [term |-> t]
  <2>1. DOMAIN cols = {"term"}  OBVIOUS
  <2>2. AdminWrite(q, s, u, cols)  BY <1>3 DEF SetExpiry
  <2> HIDE DEF cols
  <2> QED  BY <2>1, <2>2, AdminWriteIInv
<1>4. ASSUME NEW s \in AllSessions, NEW u \in Users, Suspend(q, s, u)
      PROVE  IInv'
  <2> DEFINE cols == [status |-> "suspended"]
             b == Request("suspend", Assign(u, cols))
             r == [b EXCEPT !.revoke = SessionsOf(u)]
  <2>1. Begin(q, r) /\ u # Owner /\ account[u].status # "absent"
    BY <1>4, TouchableIsNotOwner DEF Suspend
  <2>2. DOMAIN cols = {"status"} /\ cols["status"] = "suspended"  OBVIOUS
  <2> HIDE DEF cols
  <2>3. IsRequest(b) /\ b.kind = "suspend" /\ b.change = Assign(u, cols)
    BY <1>k, RequestIs
  <2> HIDE DEF b
  <2>4. IsRequest(r) /\ r.kind = "suspend" /\ r.change = Assign(u, cols)
    BY <2>3, FilledIn
  <2> HIDE DEF r
  <2>5. Harmless(r)
    BY <2>1, <2>2, <2>4, AssignIsHarmless DEF Harmless
  <2> QED  BY <2>1, <2>4, <2>5, BeginsHarmless
<1>5. ASSUME NEW s \in AllSessions, NEW u \in Users, ResetPassword(q, s, u)
      PROVE  IInv'
  <2> DEFINE b == Request("reset", Assign(u, ResetColumns))
             r == [b EXCEPT !.revoke = SessionsOf(u)]
  <2>1. Begin(q, r) /\ u # Owner /\ account[u].status # "absent"
    BY <1>5, TouchableIsNotOwner DEF ResetPassword
  <2>2. DOMAIN ResetColumns = {"must"}  BY DEF ResetColumns
  <2>3. IsRequest(b) /\ b.kind = "reset" /\ b.change = Assign(u, ResetColumns)
    BY <1>k, RequestIs
  <2> HIDE DEF b
  <2>4. IsRequest(r) /\ r.kind = "reset" /\ r.change = Assign(u, ResetColumns)
    BY <2>3, FilledIn
  <2> HIDE DEF r
  <2>5. Harmless(r)
    BY <2>1, <2>2, <2>4, AssignIsHarmless DEF Harmless
  <2> QED  BY <2>1, <2>4, <2>5, BeginsHarmless
<1>6. ASSUME NEW s \in AllSessions, NEW u \in Users, DeleteUser(q, s, u)
      PROVE  IInv'
  <2> DEFINE r == Request("delete", Assign(u, <<>>))
  <2>1. Begin(q, r) /\ u # Owner /\ account[u].status # "absent"
    BY <1>6, TouchableIsNotOwner DEF DeleteUser
  <2>2. IsRequest(r) /\ r.kind = "delete" /\ r.change = Assign(u, <<>>)
    BY <1>k, RequestIs
  <2> HIDE DEF r
  <2>3. Harmless(r)
    BY <2>1, <2>2, NothingIsHarmless DEF Harmless
  <2> QED  BY <2>1, <2>2, <2>3, BeginsHarmless
<1>7. ASSUME NEW s \in AllSessions, NEW us \in SUBSET Users,
             NEW status \in {"approved", "rejected", "suspended"}, BulkStatus(q, s, us, status)
      PROVE  IInv'
  <2> DEFINE targets == BulkTargets(s, us)
             cols == [status |-> status]
             change == [u \in targets |-> Changed(account[u], cols)]
             kind == IF status = "suspended" THEN "suspend" ELSE "write"
             b == Request(kind, change)
             r == [b EXCEPT !.revoke = UNION {SessionsOf(u) : u \in targets}]
  <2>1. Begin(q, IF status = "suspended" THEN r ELSE b)
    BY <1>7 DEF BulkStatus
  <2>2. \A u \in targets : u \in Users /\ u # Owner /\ account[u].status # "absent"
    BY TouchableIsNotOwner DEF BulkTargets
  <2>3. DOMAIN cols = {"status"} /\ cols["status"] \notin {"absent", "deleted"}  OBVIOUS
  <2>4. kind \in Kinds /\ kind # "delete"  BY <1>k
  <2> HIDE DEF targets, cols, kind
  <2>5. \A u \in targets : HarmlessTo(u, Changed(account[u], cols))
    BY <2>2, <2>3, AssignIsHarmless
  <2>6. DOMAIN change = targets /\ \A u \in targets : change[u] = Changed(account[u], cols)
    OBVIOUS
  <2> HIDE DEF change
  <2>7. IsRequest(b) /\ b.kind = kind /\ b.change = change
    BY <2>4, RequestIs
  <2> HIDE DEF b
  <2>8. IsRequest(r) /\ r.kind = kind /\ r.change = change
    BY <2>7, FilledIn
  <2> HIDE DEF r
  <2>9. Harmless(r) /\ Harmless(b)
    BY <2>4, <2>5, <2>6, <2>7, <2>8 DEF Harmless
  <2> QED  BY <2>1, <2>7, <2>8, <2>9, BeginsHarmless
<1>8. ASSUME NEW s \in AllSessions, NEW us \in SUBSET Users, BulkDelete(q, s, us)
      PROVE  IInv'
  <2> DEFINE targets == BulkTargets(s, us)
             change == [u \in targets |-> <<>>]
             r == Request("delete", change)
  <2>1. Begin(q, r)  BY <1>8 DEF BulkDelete
  <2>2. \A u \in targets : u \in Users /\ u # Owner /\ account[u].status # "absent"
    BY TouchableIsNotOwner DEF BulkTargets
  <2> HIDE DEF targets
  <2>3. DOMAIN change = targets /\ \A u \in targets : change[u] = <<>> /\ DOMAIN change[u] = {}
    OBVIOUS
  <2> HIDE DEF change
  <2>4. IsRequest(r) /\ r.kind = "delete" /\ r.change = change
    BY <1>k, RequestIs
  <2> HIDE DEF r
  <2>5. Harmless(r)
    BY <2>2, <2>3, <2>4 DEF Harmless, HarmlessTo
  <2> QED  BY <2>1, <2>4, <2>5, BeginsHarmless
<1> QED
  BY <1>1, <1>2, <1>3, <1>4, <1>5, <1>6, <1>7, <1>8 DEF AdminStep

-----------------------------------------------------------------------------
(* Requests commit, or are lost.                                           *)

\* A step that adds no request and brings no user back to absence.
LEMMA NothingNew ==
  ASSUME IInv, Shape', OwnerInv', SessionsHaveUsers',
         \A u \in Users : account[u].status # "absent" => account'[u].status # "absent",
         \A p \in Reqs : req'[p] # Idle =>
            /\ req[p] # Idle /\ req'[p].change = req[p].change
            /\ req'[p].kind = "delete" => req[p].kind = "delete"
  PROVE  IInv'
<1>1. ASSUME NEW p \in Reqs, req'[p] # Idle  PROVE Harmless(req[p])'
  <2>1. Harmless(req[p])  BY <1>1 DEF IInv
  <2> QED  BY <1>1, <2>1 DEF Harmless, HarmlessTo
<1> QED  BY <1>1 DEF IInv

LEMMA RequestEnds ==
  ASSUME Shape, NEW q \in Reqs, req' = [req EXCEPT ![q] = Idle]
  PROVE  /\ req' = [p \in Reqs |-> req'[p]]
         /\ \A p \in Reqs : req'[p] = Idle \/ IsRequest(req'[p])
         /\ \A p \in Reqs : req'[p] # Idle => req[p] # Idle /\ req'[p] = req[p]
BY DEF Shape

LEMMA SessionChanges ==
  ASSUME NEW s, IsSession(s), NEW v,
         NEW x \in {[s EXCEPT !.chain = v], [s EXCEPT !.outdated = v]}
  PROVE  IsSession(x) /\ x.user = s.user /\ x.state = s.state
<1>1. /\ [s EXCEPT !.chain = v] = [user |-> s.user, state |-> s.state, chain |-> v,
                                   outdated |-> s.outdated]
      /\ [s EXCEPT !.outdated = v] = [user |-> s.user, state |-> s.state, chain |-> s.chain,
                                      outdated |-> v]
  BY DEF IsSession
<1> QED  BY <1>1 DEF IsSession

LEMMA DeadSessions ==
  ASSUME NEW u, NEW state
  PROVE  IsSession(Dead(u, state)) /\ Dead(u, state).user = u /\ Dead(u, state).state = state
BY DEF Dead, IsSession

\* Revoking gives sessions to nobody and brings none back.
LEMMA RevokedSessions ==
  ASSUME Shape, NEW r
  PROVE  /\ Revoked(r) = [s \in AllSessions |-> Revoked(r)[s]]
         /\ \A s \in AllSessions :
              /\ IsSession(Revoked(r)[s]) /\ Revoked(r)[s].user = sessions[s].user
              /\ Revoked(r)[s].state = "live" => sessions[s].state = "live"
<1>1. Revoked(r) = [s \in AllSessions |-> Revoked(r)[s]]  BY DEF Revoked
<1>2. ASSUME NEW s \in AllSessions
      PROVE  /\ IsSession(Revoked(r)[s]) /\ Revoked(r)[s].user = sessions[s].user
             /\ Revoked(r)[s].state = "live" => sessions[s].state = "live"
  <2>1. IsSession(sessions[s])  BY DEF Shape
  <2>2. CASE sessions[s].state # "live"
    BY <2>1, <2>2 DEF Revoked
  <2>3. CASE sessions[s].state = "live" /\ s \in r.revoke
    <3> DEFINE d == Dead(sessions[s].user, "revoked")
    <3>1. IsSession(d) /\ d.user = sessions[s].user  BY DeadSessions
    <3> HIDE DEF d
    <3> DEFINE x == [d EXCEPT !.chain = sessions[s].chain]
    <3>2. Revoked(r)[s] = x
      BY <2>3 DEF Revoked, d
    <3>3. IsSession(x) /\ x.user = d.user  BY <3>1, SessionChanges
    <3> HIDE DEF x
    <3> QED  BY <2>3, <3>1, <3>2, <3>3
  <2>4. CASE sessions[s].state = "live" /\ s \notin r.revoke
    <3>1. PICK v : Revoked(r)[s] = [sessions[s] EXCEPT !.outdated = v]
      BY <2>4 DEF Revoked
    <3> DEFINE x == [sessions[s] EXCEPT !.outdated = v]
    <3>2. IsSession(x) /\ x.user = sessions[s].user /\ x.state = sessions[s].state
      BY <2>1, SessionChanges
    <3>3. Revoked(r)[s] = x  BY <3>1
    <3> HIDE DEF x
    <3> QED  BY <2>4, <3>2, <3>3
  <2> QED  BY <2>2, <2>3, <2>4
<1> QED  BY <1>1, <1>2

\* Writing harmless changes.
LEMMA WrittenAccounts ==
  ASSUME Shape, OwnerInv, NEW r, Harmless(r)
  PROVE  /\ Written(r) = [u \in Users |-> Written(r)[u]]
         /\ \A u \in Users :
              /\ DOMAIN Written(r)[u] = Columns
              /\ Written(r)[u].role = "owner" <=> u = Owner
              /\ u = Owner => Written(r)[u].status = "approved"
              /\ account[u].status # "absent" => Written(r)[u].status # "absent"
              /\ Exists(u) => Written(r)[u].status \notin {"absent", "deleted"}
<1>1. Written(r) = [u \in Users |-> Written(r)[u]]  BY DEF Written
<1>2. ASSUME NEW u \in Users
      PROVE  /\ DOMAIN Written(r)[u] = Columns
             /\ Written(r)[u].role = "owner" <=> u = Owner
             /\ u = Owner => Written(r)[u].status = "approved"
             /\ account[u].status # "absent" => Written(r)[u].status # "absent"
             /\ Exists(u) => Written(r)[u].status \notin {"absent", "deleted"}
  <2>1. CASE u \notin DOMAIN r.change
    <3>1. Written(r)[u] = account[u]  BY <2>1 DEF Written
    <3> QED  BY <3>1 DEF Shape, OwnerInv, Exists
  <2>2. CASE u \in DOMAIN r.change
    <3> DEFINE change == r.change[u]
               new == Updated(account[u], change)
    <3>1. HarmlessTo(u, change)  BY <2>2 DEF Harmless
    <3>2. DOMAIN new = Columns /\ "role" \in Columns /\ "status" \in Columns
      BY DEF Updated, Shape, Columns
    <3>3. /\ new["role"] = IF "role" \in DOMAIN change THEN change["role"] ELSE account[u]["role"]
          /\ new["status"] = IF "status" \in DOMAIN change THEN change["status"]
                             ELSE account[u]["status"]
      BY DEF Updated, Shape, Columns
    <3> HIDE DEF new, change
    <3>4. PICK v : Written(r)[u] = [new EXCEPT !.pw = v]
      BY <2>2 DEF Written, new, change
    <3>5. /\ DOMAIN Written(r)[u] = Columns
          /\ Written(r)[u]["role"] = new["role"] /\ Written(r)[u]["status"] = new["status"]
      BY <3>2, <3>4
    <3>6. Written(r)[u].role = "owner" <=> u = Owner
      BY <3>1, <3>3, <3>5 DEF HarmlessTo, OwnerInv
    <3>7. u = Owner => Written(r)[u].status = "approved"
      BY <3>1, <3>3, <3>5 DEF HarmlessTo, OwnerInv
    <3>8. /\ account[u].status # "absent" => Written(r)[u].status # "absent"
          /\ Exists(u) => Written(r)[u].status \notin {"absent", "deleted"}
      BY <3>1, <3>3, <3>5 DEF HarmlessTo, Exists
    <3> QED  BY <3>5, <3>6, <3>7, <3>8
  <2> QED  BY <2>1, <2>2
<1> QED  BY <1>1, <1>2

LEMMA CommitStepIInv ==
  ASSUME IInv, NEW q \in Reqs, CommitStep(q)
  PROVE  IInv'
<1>0. /\ Shape /\ OwnerInv /\ SessionsHaveUsers /\ Owner \in Users
      /\ SessionIds \subseteq AllSessions
      /\ req[q] # Idle => IsRequest(req[q]) /\ Harmless(req[q])
  BY AccountsAssumption DEF IInv, Shape, AllSessions
<1>1. CASE CommitWrite(q)
  <2>1. /\ req[q] # Idle /\ account' = Written(req[q]) /\ sessions' = Revoked(req[q])
        /\ req' = [req EXCEPT ![q] = Idle]
    BY <1>1 DEF CommitWrite, Idle
  <2>2. Shape'
    BY <1>0, <2>1, RequestEnds, RevokedSessions, WrittenAccounts DEF Shape
  <2>3. OwnerInv'
    BY <1>0, <2>1, WrittenAccounts DEF OwnerInv
  <2>4. SessionsHaveUsers'
    BY <1>0, <2>1, RevokedSessions, WrittenAccounts
    DEF SessionsHaveUsers, LiveSessions, Exists, Shape
  <2> QED
    BY <1>0, <2>1, <2>2, <2>3, <2>4, RequestEnds, WrittenAccounts, NothingNew
<1>2. CASE CommitRotation(q)
  <2> DEFINE r == req[q]
             y == [r EXCEPT !.kind = "open"]
             z == [y EXCEPT !.revoke = {}]
  <2>1. /\ r # Idle /\ sessions' = Revoked(r) /\ UNCHANGED account
        /\ req' = [req EXCEPT ![q].kind = "open", ![q].revoke = {}]
    BY <1>2 DEF CommitRotation, Idle
  <2>2. req' = [req EXCEPT ![q] = z]
    BY <1>0, <2>1 DEF Shape
  <2>3. y = [kind |-> "open", change |-> r.change, revoke |-> r.revoke,
             keep |-> r.keep, chain |-> r.chain, alone |-> r.alone]
    BY <1>0, <2>1 DEF IsRequest
  <2>4. IsRequest(y) /\ y.kind = "open" /\ y.change = r.change
    BY <2>3 DEF IsRequest, Kinds
  <2> HIDE DEF y
  <2>5. IsRequest(z) /\ z.kind = "open" /\ z.change = r.change
    BY <2>4, FilledIn
  <2> HIDE DEF z
  <2>6. req' = [p \in Reqs |-> req'[p]] /\ \A p \in Reqs : req'[p] = IF p = q THEN z ELSE req[p]
    BY <1>0, <2>2 DEF Shape
  <2>7. Shape'
    BY <1>0, <2>1, <2>5, <2>6, RevokedSessions DEF Shape
  <2>8. OwnerInv'  BY <1>0, <2>1 DEF OwnerInv
  <2>9. SessionsHaveUsers'
    BY <1>0, <2>1, RevokedSessions DEF SessionsHaveUsers, LiveSessions, Exists
  <2> QED
    BY <1>0, <2>1, <2>5, <2>6, <2>7, <2>8, <2>9, NothingNew
<1>3. CASE CommitOpen(q)
  <2> DEFINE r == req[q]
  <2>1. /\ r # Idle /\ UNCHANGED account /\ req' = [req EXCEPT ![q] = Idle] /\ Writable(r)
    BY <1>3 DEF CommitOpen, Idle
  <2>2. PICK s \in SessionIds, u \in DOMAIN r.change, c \in Descent(r) :
          sessions' = [sessions EXCEPT ![s] =
                        [user |-> u, state |-> "live", chain |-> c, outdated |-> FALSE]]
    BY <1>3 DEF CommitOpen
  <2>3. u \in Users /\ Exists(u)
    BY <1>0, <2>1 DEF Harmless, HarmlessTo, Writable, Exists
  <2> DEFINE new == [user |-> u, state |-> "live", chain |-> c, outdated |-> FALSE]
  <2>4. IsSession(new) /\ new.user = u  BY DEF IsSession
  <2>5. sessions' = [sessions EXCEPT ![s] = new]  BY <2>2
  <2> HIDE DEF new
  <2>6. /\ sessions' = [t \in AllSessions |-> sessions'[t]]
        /\ \A t \in AllSessions : sessions'[t] = IF t = s THEN new ELSE sessions[t]
    BY <1>0, <2>5 DEF Shape
  <2>7. Shape'
    BY <1>0, <2>1, <2>3, <2>4, <2>6, RequestEnds DEF Shape
  <2>8. OwnerInv'  BY <1>0, <2>1 DEF OwnerInv
  <2>9. SessionsHaveUsers'
    BY <1>0, <2>1, <2>3, <2>4, <2>6 DEF SessionsHaveUsers, LiveSessions, Exists
  <2> QED  BY <1>0, <2>1, <2>7, <2>8, <2>9, RequestEnds, NothingNew
<1>4. CASE CommitDelete(q)
  <2> DEFINE gone == DOMAIN req[q].change
             deleted == NewAccount("deleted", "user", "chosen")
             dead == Dead(Owner, "none")
  <2>1. /\ req[q] # Idle /\ req[q].kind = "delete" /\ req' = [req EXCEPT ![q] = Idle]
        /\ account' = [u \in Users |-> IF u \in gone THEN deleted ELSE account[u]]
        /\ sessions' = [s \in AllSessions |-> IF sessions[s].user \in gone THEN dead ELSE sessions[s]]
    BY <1>4 DEF CommitDelete, Idle
  <2>2. Owner \notin gone  BY <1>0, <2>1 DEF Harmless
  <2>3. DOMAIN deleted = Columns /\ deleted.status = "deleted" /\ deleted.role = "user"
    BY DEF NewAccount, Columns
  <2>4. IsSession(dead) /\ dead.user = Owner /\ dead.state = "none"
    BY DeadSessions
  <2> HIDE DEF gone, deleted, dead
  <2>5. Shape'
    BY <1>0, <2>1, <2>3, <2>4, RequestEnds DEF Shape
  <2>6. OwnerInv'
    BY <1>0, <2>1, <2>2, <2>3 DEF OwnerInv
  <2>7. SessionsHaveUsers'
    BY <1>0, <2>1, <2>4 DEF SessionsHaveUsers, LiveSessions, Exists, Shape
  <2>8. \A u \in Users : account[u].status # "absent" => account'[u].status # "absent"
    BY <2>1, <2>3
  <2> QED  BY <1>0, <2>1, <2>5, <2>6, <2>7, <2>8, RequestEnds, NothingNew
<1>5. CASE RequestLost(q)
  <2>1. UNCHANGED <<account, sessions>> /\ req' = [req EXCEPT ![q] = Idle]
    BY <1>5 DEF RequestLost
  <2>2. Shape'  BY <1>0, <2>1, RequestEnds DEF Shape
  <2>3. OwnerInv' /\ SessionsHaveUsers'
    BY <1>0, <2>1 DEF OwnerInv, SessionsHaveUsers, LiveSessions, Exists
  <2> QED  BY <1>0, <2>1, <2>2, <2>3, RequestEnds, NothingNew
<1> QED  BY <1>1, <1>2, <1>3, <1>4, <1>5 DEF CommitStep

-----------------------------------------------------------------------------
(* Everything else.                                                        *)

LEMMA NewAccounts ==
  ASSUME NEW status, NEW role, NEW pw
  PROVE  LET a == NewAccount(status, role, pw)
         IN  DOMAIN a = Columns /\ a.status = status /\ a.role = role
BY DEF NewAccount, Columns

\* An account that was absent is made.
LEMMA AccountMade ==
  ASSUME IInv, NEW u \in Users, account[u].status = "absent",
         NEW a, DOMAIN a = Columns, a.role \in {"user", "admin"}, a.status \in {"pending", "approved"},
         account' = [account EXCEPT ![u] = a], UNCHANGED <<sessions, req>>
  PROVE  IInv'
<1>1. u # Owner  BY DEF IInv, OwnerInv
<1>2. /\ account' = [v \in Users |-> account'[v]]
      /\ \A v \in Users : account'[v] = IF v = u THEN a ELSE account[v]
  BY DEF IInv, Shape
<1>3. Shape'  BY <1>2 DEF IInv, Shape
<1>4. OwnerInv'  BY <1>1, <1>2, AccountsAssumption DEF IInv, OwnerInv
<1>5. SessionsHaveUsers'
  BY <1>2 DEF IInv, Shape, SessionsHaveUsers, LiveSessions, Exists
<1>6. \A v \in Users : account[v].status # "absent" => account'[v].status # "absent"
  BY <1>2
<1> QED  BY <1>3, <1>4, <1>5, <1>6, NothingNew

LEMMA UserStepIInv ==
  ASSUME IInv, NEW u \in Users,
         \/ TermEnds(u)
         \/ \E role \in {"user", "admin"} :
              \/ \E status \in {"pending", "approved"} : Register(u, status, role)
              \/ \E s \in AllSessions : CreateUser(s, u, role)
  PROVE  IInv'
<1>1. CASE TermEnds(u)
  <2> DEFINE a == [account[u] EXCEPT !.term = "over"]
  <2>1. account' = [account EXCEPT ![u] = a] /\ UNCHANGED <<sessions, req>>
    BY <1>1 DEF TermEnds
  <2>2. DOMAIN account[u] = Columns  BY DEF IInv, Shape
  <2>3. /\ DOMAIN a = Columns
        /\ a["status"] = account[u]["status"] /\ a["role"] = account[u]["role"]
    BY <2>2 DEF Columns
  <2> HIDE DEF a
  <2>4. /\ account' = [v \in Users |-> account'[v]]
        /\ \A v \in Users : account'[v] = IF v = u THEN a ELSE account[v]
    BY <2>1 DEF IInv, Shape
  <2>5. \A v \in Users : /\ DOMAIN account'[v] = Columns
                         /\ account'[v].status = account[v].status
                         /\ account'[v].role = account[v].role
    BY <2>3, <2>4 DEF IInv, Shape
  <2>6. Shape'  BY <2>1, <2>4, <2>5 DEF IInv, Shape
  <2>7. OwnerInv'  BY <2>5, AccountsAssumption DEF IInv, OwnerInv
  <2>8. SessionsHaveUsers'
    BY <2>1, <2>5 DEF IInv, Shape, SessionsHaveUsers, LiveSessions, Exists
  <2> QED  BY <2>1, <2>5, <2>6, <2>7, <2>8, NothingNew
<1>2. ASSUME NEW role \in {"user", "admin"}, NEW status \in {"pending", "approved"},
             Register(u, status, role)
      PROVE  IInv'
  <2> DEFINE a == NewAccount(status, role, "chosen")
  <2>1. /\ account[u].status = "absent" /\ account' = [account EXCEPT ![u] = a]
        /\ UNCHANGED <<sessions, req>>
    BY <1>2 DEF Register
  <2>2. DOMAIN a = Columns /\ a.status = status /\ a.role = role  BY NewAccounts
  <2> HIDE DEF a
  <2> QED  BY <2>1, <2>2, AccountMade
<1>3. ASSUME NEW role \in {"user", "admin"}, NEW s \in AllSessions, CreateUser(s, u, role)
      PROVE  IInv'
  <2> DEFINE a == NewAccount("approved", role, "temporary")
  <2>1. /\ account[u].status = "absent" /\ account' = [account EXCEPT ![u] = a]
        /\ UNCHANGED <<sessions, req>>
    BY <1>3 DEF CreateUser
  <2>2. DOMAIN a = Columns /\ a.status = "approved" /\ a.role = role  BY NewAccounts
  <2> HIDE DEF a
  <2> QED  BY <2>1, <2>2, AccountMade
<1> QED  BY <1>1, <1>2, <1>3

LEMMA SessionStepIInv ==
  ASSUME IInv, NEW s \in SessionIds, Expire(s) \/ Sweep(s)
  PROVE  IInv'
<1>1. s \in AllSessions /\ Owner \in Users /\ sessions[s].user \in Users
  BY AccountsAssumption DEF AllSessions, IInv, Shape
<1>2. PICK u \in Users, state \in {"expired", "none"} : sessions' = [sessions EXCEPT ![s] = Dead(u, state)]
  BY <1>1 DEF Expire, Sweep
<1>3. UNCHANGED <<account, req>>  BY DEF Expire, Sweep
<1> DEFINE d == Dead(u, state)
<1>4. IsSession(d) /\ d.user = u /\ d.state = state  BY DeadSessions
<1>5. sessions' = [sessions EXCEPT ![s] = d]  BY <1>2
<1> HIDE DEF d
<1>6. /\ sessions' = [t \in AllSessions |-> sessions'[t]]
      /\ \A t \in AllSessions : sessions'[t] = IF t = s THEN d ELSE sessions[t]
  BY <1>5 DEF IInv, Shape
<1>7. Shape'  BY <1>3, <1>4, <1>6 DEF IInv, Shape
<1>8. OwnerInv'  BY <1>3 DEF IInv, OwnerInv
<1>9. SessionsHaveUsers'
  BY <1>3, <1>4, <1>6 DEF IInv, SessionsHaveUsers, LiveSessions, Exists
<1> QED  BY <1>3, <1>7, <1>8, <1>9, NothingNew

LEMMA InitIInv == Init => IInv
<1> SUFFICES ASSUME Init PROVE IInv  OBVIOUS
<1>1. Owner \in Users /\ OwnerSession \in AllSessions  BY AccountsAssumption DEF AllSessions
<1>2. \A u \in Users :
        /\ DOMAIN account[u] = Columns
        /\ account[u].role = IF u = Owner THEN "owner" ELSE "user"
        /\ account[u].status = IF u = Owner THEN "approved" ELSE "absent"
  BY NewAccounts DEF Init
<1>3. account = [u \in Users |-> account[u]] /\ sessions = [s \in AllSessions |-> sessions[s]]
      /\ req = [q \in Reqs |-> req[q]]
  BY DEF Init
<1>4. \A s \in AllSessions : IsSession(sessions[s]) /\ sessions[s].user = Owner
  BY DeadSessions DEF Init
<1>5. \A q \in Reqs : req[q] = Idle  BY DEF Init
<1>6. Shape  BY <1>1, <1>2, <1>3, <1>4, <1>5 DEF Shape
<1>7. OwnerInv  BY <1>1, <1>2 DEF OwnerInv
<1>8. SessionsHaveUsers
  BY <1>1, <1>2, <1>4 DEF SessionsHaveUsers, LiveSessions, Exists
<1> QED  BY <1>5, <1>6, <1>7, <1>8 DEF IInv

(* Whatever requests are in flight, and whatever became of the rows they   *)
(* read: none of them writes a role or a status to the owner, or gives a   *)
(* session to a user that is not there.                                    *)
THEOREM Invariant == Spec => []IInv
<1>1. Init => IInv  BY InitIInv
<1>2. IInv /\ [Next]_vars => IInv'
  <2> SUFFICES ASSUME IInv, [Next]_vars PROVE IInv'  OBVIOUS
  <2>1. CASE Next
    BY <2>1, SelfStepIInv, AdminStepIInv, CommitStepIInv, UserStepIInv, SessionStepIInv DEF Next
  <2>2. CASE UNCHANGED vars
    <3>1. UNCHANGED <<account, sessions, req>>  BY <2>2 DEF vars
    <3>2. Shape' /\ OwnerInv' /\ SessionsHaveUsers'
      BY <3>1 DEF IInv, Shape, OwnerInv, SessionsHaveUsers, LiveSessions, Exists
    <3> QED  BY <3>1, <3>2, NothingNew
  <2> QED  BY <2>1, <2>2
<1> QED  BY <1>1, <1>2, PTL DEF Spec

(* _ensure_not_owner: nothing admins do, one by one, in bulk or at once,   *)
(* changes who the owner is, or closes the owner's account.                *)
THEOREM OwnerIsKept == Spec => []OwnerKept
<1>1. IInv => OwnerKept  BY DEF IInv, OwnerInv, OwnerKept
<1> QED  BY <1>1, Invariant, PTL

(* delete_user: no session is live without its user, those of a login or a *)
(* refresh that the deletion overtook included.                            *)
THEOREM NoSessionOutlivesItsUser == Spec => []SessionsHaveUsers
<1>1. IInv => SessionsHaveUsers  BY DEF IInv
<1> QED  BY <1>1, Invariant, PTL

-----------------------------------------------------------------------------
(* The second invariant: what a request that nothing overlaps has read     *)
(* still holds when it commits.  The history variables rest on it.         *)

\* Of a request that has been alone since it began: it revokes every live session
\* its change outdates but the one it keeps; a reset sets the flag, or finds it set;
\* the session it rotates is the only live one of its login.
StillTrue(r) ==
  /\ r.kind \in {"change", "suspend", "reset"} =>
       \A s \in LiveSessions : sessions[s].user \in DOMAIN r.change => s \in r.revoke \cup {r.keep}
  /\ r.kind = "reset" => \A u \in DOMAIN r.change : Updated(account[u], r.change[u]).must
  /\ r.chain # None => \A s \in LiveSessions : sessions[s].chain = r.chain => s \in r.revoke

\* Of any request: the second commit of a refresh revokes nothing, and only a change
\* or a reset of the password touches the flag.
Modest(r) ==
  /\ r.kind = "open" => r.revoke = {}
  /\ r.kind \in {"write", "suspend"} => \A u \in DOMAIN r.change : "must" \notin DOMAIN r.change[u]

HistoryInv ==
  /\ OutdatedIsRevoked /\ OneLiveSessionPerLogin /\ TemporaryMustChange
  /\ sessions[OwnerSession].chain = None
  /\ \A q \in Reqs : req[q] # Idle =>
       /\ Modest(req[q])
       /\ req[q].alone => InFlight = {q} /\ StillTrue(req[q])

\* A request takes its slot; the others are no longer alone.
LEMMA BeginShape ==
  ASSUME Shape, NEW q \in Reqs, NEW r, IsRequest(r), Begin(q, r)
  PROVE  /\ UNCHANGED <<account, sessions>>
         /\ req[q] = Idle
         /\ \A p \in Reqs : req'[p] # Idle => p = q \/ req[p] # Idle
         /\ /\ req'[q] # Idle
            /\ req'[q].kind = r.kind /\ req'[q].change = r.change /\ req'[q].revoke = r.revoke
            /\ req'[q].keep = r.keep /\ req'[q].chain = r.chain
            /\ req'[q].alone => InFlight = {}
         /\ \A p \in Reqs : p # q /\ req[p] # Idle =>
              /\ req'[p].kind = req[p].kind /\ req'[p].change = req[p].change
              /\ req'[p].revoke = req[p].revoke /\ ~req'[p].alone
<1>1. /\ UNCHANGED <<account, sessions>> /\ req[q] = Idle
      /\ \A p \in Reqs : req'[p] # Idle => p = q \/ req[p] # Idle
  BY DEF Begin
<1>2. /\ req'[q] # Idle
      /\ req'[q].kind = r.kind /\ req'[q].change = r.change /\ req'[q].revoke = r.revoke
      /\ req'[q].keep = r.keep /\ req'[q].chain = r.chain
      /\ req'[q].alone => InFlight = {}
  <2> DEFINE a == (InFlight = {})
             x == [r EXCEPT !.alone = a]
  <2>1. req'[q] = x  BY DEF Begin
  <2> HIDE DEF a
  <2>2. x = [kind |-> r.kind, change |-> r.change, revoke |-> r.revoke,
             keep |-> r.keep, chain |-> r.chain, alone |-> a]
    BY DEF IsRequest
  <2>3. IsRequest(x) /\ x.kind = r.kind /\ x.change = r.change /\ x.revoke = r.revoke
        /\ x.keep = r.keep /\ x.chain = r.chain /\ x.alone = a
    BY <2>2 DEF IsRequest
  <2> HIDE DEF x
  <2>4. x.alone => InFlight = {}  BY <2>3 DEF a
  <2> QED  BY <2>1, <2>3, <2>4, IdleIsNoRequest
<1>3. ASSUME NEW p \in Reqs, p # q, req[p] # Idle
      PROVE  /\ req'[p].kind = req[p].kind /\ req'[p].change = req[p].change
             /\ req'[p].revoke = req[p].revoke /\ ~req'[p].alone
  <2>1. req'[p] = [req[p] EXCEPT !.alone = FALSE]  BY <1>3 DEF Begin
  <2>2. IsRequest(req[p])  BY <1>3 DEF Shape
  <2>3. req'[p] = [kind |-> req[p].kind, change |-> req[p].change, revoke |-> req[p].revoke,
                   keep |-> req[p].keep, chain |-> req[p].chain, alone |-> FALSE]
    BY <2>1, <2>2 DEF IsRequest
  <2> QED  BY <2>3
<1> QED  BY <1>1, <1>2, <1>3

LEMMA BeginsTrue ==
  ASSUME IInv, HistoryInv, NEW q \in Reqs, NEW r, IsRequest(r), Begin(q, r), StillTrue(r), Modest(r)
  PROVE  HistoryInv'
<1>0. Shape  BY DEF IInv
<1>1. /\ UNCHANGED <<account, sessions>>
      /\ req[q] = Idle
      /\ \A p \in Reqs : req'[p] # Idle => p = q \/ req[p] # Idle
      /\ /\ req'[q] # Idle
         /\ req'[q].kind = r.kind /\ req'[q].change = r.change /\ req'[q].revoke = r.revoke
         /\ req'[q].keep = r.keep /\ req'[q].chain = r.chain
         /\ req'[q].alone => InFlight = {}
      /\ \A p \in Reqs : p # q /\ req[p] # Idle =>
           /\ req'[p].kind = req[p].kind /\ req'[p].change = req[p].change
           /\ req'[p].revoke = req[p].revoke /\ ~req'[p].alone
  BY <1>0, BeginShape
<1>2. /\ OutdatedIsRevoked' /\ OneLiveSessionPerLogin' /\ TemporaryMustChange'
      /\ sessions'[OwnerSession].chain = None
  BY <1>1 DEF HistoryInv, OutdatedIsRevoked, OneLiveSessionPerLogin, TemporaryMustChange, LiveSessions
<1>3. Modest(req[q])' /\ StillTrue(req[q])'
  BY <1>1 DEF Modest, StillTrue, LiveSessions
<1>4. req'[q].alone => InFlight' = {q}
  BY <1>1 DEF InFlight
<1>5. ASSUME NEW p \in Reqs, p # q, req'[p] # Idle
      PROVE  Modest(req[p])' /\ ~req'[p].alone
  <2>1. req[p] # Idle /\ Modest(req[p])
    BY <1>1, <1>5 DEF HistoryInv
  <2> QED  BY <1>1, <1>5, <2>1 DEF Modest
<1> QED  BY <1>2, <1>3, <1>4, <1>5 DEF HistoryInv

\* The fields of a request as it begins, and of what it is filled in to.
LEMMA RequestFields ==
  ASSUME NEW kind \in Kinds, NEW change
  PROVE  LET r == Request(kind, change)
         IN  /\ IsRequest(r) /\ r.kind = kind /\ r.change = change
             /\ r.revoke = {} /\ r.keep = None /\ r.chain = None
BY DEF Request, IsRequest

LEMMA RevokeFilledIn ==
  ASSUME NEW r, IsRequest(r), NEW v
  PROVE  LET x == [r EXCEPT !.revoke = v]
         IN  /\ IsRequest(x) /\ x.kind = r.kind /\ x.change = r.change
             /\ x.revoke = v /\ x.keep = r.keep /\ x.chain = r.chain
BY ExceptOnRequest DEF IsRequest

LEMMA KeepFilledIn ==
  ASSUME NEW r, IsRequest(r), NEW v
  PROVE  LET x == [r EXCEPT !.keep = v]
         IN  /\ IsRequest(x) /\ x.kind = r.kind /\ x.change = r.change
             /\ x.revoke = r.revoke /\ x.keep = v /\ x.chain = r.chain
BY ExceptOnRequest DEF IsRequest

LEMMA ChainFilledIn ==
  ASSUME NEW r, IsRequest(r), NEW v
  PROVE  LET x == [r EXCEPT !.chain = v]
         IN  /\ IsRequest(x) /\ x.kind = r.kind /\ x.change = r.change
             /\ x.revoke = r.revoke /\ x.keep = r.keep /\ x.chain = v
BY ExceptOnRequest DEF IsRequest

\* A request that revokes nothing and leaves the flag alone.
LEMMA PlainBegins ==
  ASSUME IInv, HistoryInv, NEW q \in Reqs, NEW kind \in {"open", "write", "delete"}, NEW change,
         \A u \in DOMAIN change : "must" \notin DOMAIN change[u],
         Begin(q, Request(kind, change))
  PROVE  HistoryInv'
<1> DEFINE r == Request(kind, change)
<1>1. /\ IsRequest(r) /\ r.kind = kind /\ r.change = change
      /\ r.revoke = {} /\ r.keep = None /\ r.chain = None
  BY RequestFields DEF Kinds
<1>2. Begin(q, r)  OBVIOUS
<1> HIDE DEF r
<1>3. StillTrue(r) /\ Modest(r)
  BY <1>1 DEF StillTrue, Modest
<1> QED  BY <1>1, <1>2, <1>3, BeginsTrue

\* The columns of a row that are not assigned are not written.
LEMMA AssignedOnly ==
  ASSUME NEW u, NEW cols
  PROVE  /\ DOMAIN Assign(u, cols) = {u}
         /\ DOMAIN Assign(u, cols)[u] \subseteq DOMAIN cols
         /\ \A v \in DOMAIN Assign(u, cols) : DOMAIN Assign(u, cols)[v] \subseteq DOMAIN cols
<1>1. DOMAIN Assign(u, cols) = {u} /\ Assign(u, cols)[u] = Changed(account[u], cols)
  BY DEF Assign
<1>2. DOMAIN Changed(account[u], cols) \subseteq DOMAIN cols
  BY DEF Changed
<1> QED  BY <1>1, <1>2

LEMMA SelfStepHistory ==
  ASSUME IInv, HistoryInv, NEW q \in Reqs, SelfStep(q)
  PROVE  HistoryInv'
<1>k. {"open", "rotate", "write", "change"} \subseteq Kinds  BY DEF Kinds
<1>n. DOMAIN <<>> = {}  OBVIOUS
<1>1. ASSUME NEW u \in Users, Login(q, u)  PROVE HistoryInv'
  <2>1. Begin(q, Request("open", Assign(u, <<>>)))
    BY <1>1 DEF Login
  <2>2. \A v \in DOMAIN Assign(u, <<>>) : "must" \notin DOMAIN Assign(u, <<>>)[v]
    BY <1>n, AssignedOnly
  <2> QED  BY <2>1, <2>2, PlainBegins
<1>2. ASSUME NEW s \in SessionIds, Refresh(q, s)  PROVE HistoryInv'
  <2> DEFINE change == Assign(sessions[s].user, <<>>)
             b == Request("rotate", change)
             y == [b EXCEPT !.revoke = {s}]
             r == [y EXCEPT !.chain = sessions[s].chain]
  <2>1. Begin(q, r) /\ s \in LiveSessions
    BY <1>2 DEF Refresh, Refreshable, Usable, LiveSessions, AllSessions
  <2>2. IsRequest(b) /\ b.kind = "rotate"
    BY <1>k, RequestFields
  <2> HIDE DEF b
  <2>3. IsRequest(y) /\ y.kind = "rotate" /\ y.revoke = {s}
    BY <2>2, RevokeFilledIn
  <2> HIDE DEF y
  <2>4. IsRequest(r) /\ r.kind = "rotate" /\ r.revoke = {s} /\ r.chain = sessions[s].chain
    BY <2>3, ChainFilledIn
  <2> HIDE DEF r
  <2>5. r.chain # None => \A t \in LiveSessions : sessions[t].chain = r.chain => t \in r.revoke
    BY <2>1, <2>4 DEF HistoryInv, OneLiveSessionPerLogin
  <2>6. StillTrue(r) /\ Modest(r)
    BY <2>4, <2>5 DEF StillTrue, Modest
  <2> QED  BY <2>1, <2>4, <2>6, BeginsTrue
<1>3. ASSUME NEW s \in SessionIds, Logout(q, s)  PROVE HistoryInv'
  <2> DEFINE b == Request("write", <<>>)
             r == [b EXCEPT !.revoke = {s}]
  <2>1. Begin(q, r)  BY <1>3 DEF Logout
  <2>2. IsRequest(b) /\ b.kind = "write" /\ b.change = <<>> /\ b.chain = None
    BY <1>k, RequestFields
  <2> HIDE DEF b
  <2>3. IsRequest(r) /\ r.kind = "write" /\ r.change = <<>> /\ r.chain = None
    BY <2>2, RevokeFilledIn
  <2> HIDE DEF r
  <2>4. StillTrue(r) /\ Modest(r)
    BY <1>n, <2>3 DEF StillTrue, Modest
  <2> QED  BY <2>1, <2>3, <2>4, BeginsTrue
<1>4. ASSUME NEW s \in SessionIds, ChangePassword(q, s)  PROVE HistoryInv'
  <2> DEFINE u == sessions[s].user
             change == Assign(u, [must |-> FALSE])
             b == Request("change", change)
             y == [b EXCEPT !.revoke = SessionsOf(u) \ {s}]
             r == [y EXCEPT !.keep = s]
  <2>1. Begin(q, r)
    BY <1>4 DEF ChangePassword
  <2>2. IsRequest(b) /\ b.kind = "change" /\ b.change = change /\ b.chain = None
    BY <1>k, RequestFields
  <2> HIDE DEF b
  <2>3. /\ IsRequest(y) /\ y.kind = "change" /\ y.change = change /\ y.chain = None
        /\ y.revoke = SessionsOf(u) \ {s}
    BY <2>2, RevokeFilledIn
  <2> HIDE DEF y
  <2>4. /\ IsRequest(r) /\ r.kind = "change" /\ r.change = change /\ r.chain = None
        /\ r.revoke = SessionsOf(u) \ {s} /\ r.keep = s
    BY <2>3, KeepFilledIn
  <2>5. DOMAIN change = {u}
    BY AssignedOnly
  <2> HIDE DEF r, change
  <2>6. \A t \in LiveSessions : sessions[t].user \in DOMAIN r.change => t \in r.revoke \cup {r.keep}
    BY <2>4, <2>5 DEF LiveSessions, SessionsOf
  <2>7. StillTrue(r) /\ Modest(r)
    BY <2>4, <2>6 DEF StillTrue, Modest
  <2> QED  BY <2>1, <2>4, <2>7, BeginsTrue
<1>5. ASSUME NEW s \in SessionIds, LapseOnUse(q, s)  PROVE HistoryInv'
  <2> DEFINE cols == [status |-> "suspended"]
             change == Assign(sessions[s].user, cols)
  <2>1. Begin(q, Request("write", change))
    BY <1>5 DEF LapseOnUse
  <2>2. "must" \notin DOMAIN cols  OBVIOUS
  <2> HIDE DEF cols
  <2>3. \A v \in DOMAIN change : "must" \notin DOMAIN change[v]
    BY <2>2, AssignedOnly
  <2> HIDE DEF change
  <2> QED  BY <2>1, <2>3, PlainBegins
<1> QED  BY <1>1, <1>2, <1>3, <1>4, <1>5 DEF SelfStep

\* An admin's change of columns other than the flag.
LEMMA AdminWriteHistory ==
  ASSUME IInv, HistoryInv, NEW q \in Reqs, NEW s, NEW u \in Users, NEW cols,
         AdminWrite(q, s, u, cols), "must" \notin DOMAIN cols
  PROVE  HistoryInv'
<1> DEFINE change == Assign(u, cols)
<1>1. Begin(q, Request("write", change))
  BY DEF AdminWrite
<1>2. \A v \in DOMAIN change : "must" \notin DOMAIN change[v]
  BY AssignedOnly
<1> HIDE DEF change
<1> QED  BY <1>1, <1>2, PlainBegins

\* An admin's request that throws out the sessions of its targets.
LEMMA KickBegins ==
  ASSUME IInv, HistoryInv, NEW q \in Reqs, NEW kind \in {"suspend", "reset"}, NEW change, NEW revoke,
         \A s \in LiveSessions : sessions[s].user \in DOMAIN change => s \in revoke,
         kind = "suspend" => \A u \in DOMAIN change : "must" \notin DOMAIN change[u],
         kind = "reset" => \A u \in DOMAIN change : Updated(account[u], change[u]).must,
         Begin(q, [Request(kind, change) EXCEPT !.revoke = revoke])
  PROVE  HistoryInv'
<1> DEFINE b == Request(kind, change)
           r == [b EXCEPT !.revoke = revoke]
<1>1. Begin(q, r)  OBVIOUS
<1>2. IsRequest(b) /\ b.kind = kind /\ b.change = change /\ b.chain = None
  BY RequestFields DEF Kinds
<1> HIDE DEF b
<1>3. IsRequest(r) /\ r.kind = kind /\ r.change = change /\ r.revoke = revoke /\ r.chain = None
  BY <1>2, RevokeFilledIn
<1> HIDE DEF r
<1>4. StillTrue(r) /\ Modest(r)
  BY <1>3 DEF StillTrue, Modest
<1> QED  BY <1>1, <1>3, <1>4, BeginsTrue

LEMMA AdminStepHistory ==
  ASSUME IInv, HistoryInv, NEW q \in Reqs, AdminStep(q)
  PROVE  HistoryInv'
<1>1. ASSUME NEW s \in AllSessions, NEW u \in Users, NEW role \in {"user", "admin"},
             Approve(q, s, u, role) \/ SetRole(q, s, u, role)
      PROVE  HistoryInv'
  <2>1. "must" \notin DOMAIN [status |-> "approved", role |-> role] /\ "must" \notin DOMAIN [role |-> role]
    OBVIOUS
  <2> QED  BY <1>1, <2>1, AdminWriteHistory DEF Approve, SetRole
<1>2. ASSUME NEW s \in AllSessions, NEW u \in Users, Reject(q, s, u) \/ Reinstate(q, s, u)
      PROVE  HistoryInv'
  <2>1. "must" \notin DOMAIN [status |-> "rejected"] /\ "must" \notin DOMAIN [status |-> "approved"]
    OBVIOUS
  <2> QED  BY <1>2, <2>1, AdminWriteHistory DEF Reject, Reinstate
<1>3. ASSUME NEW s \in AllSessions, NEW u \in Users, NEW t, SetExpiry(q, s, u, t)
      PROVE  HistoryInv'
  <2>1. "must" \notin DOMAIN [term |-> t]  OBVIOUS
  <2> QED  BY <1>3, <2>1, AdminWriteHistory DEF SetExpiry
<1>4. ASSUME NEW s \in AllSessions, NEW u \in Users, Suspend(q, s, u)
      PROVE  HistoryInv'
  <2> DEFINE cols == [status |-> "suspended"]
             change == Assign(u, cols)
  <2>1. Begin(q, [Request("suspend", change) EXCEPT !.revoke = SessionsOf(u)])
    BY <1>4 DEF Suspend
  <2>2. "must" \notin DOMAIN cols  OBVIOUS
  <2> HIDE DEF cols
  <2>3. DOMAIN change = {u} /\ \A v \in DOMAIN change : "must" \notin DOMAIN change[v]
    BY <2>2, AssignedOnly
  <2> HIDE DEF change
  <2>4. \A t \in LiveSessions : sessions[t].user \in DOMAIN change => t \in SessionsOf(u)
    BY <2>3 DEF LiveSessions, SessionsOf
  <2> QED  BY <2>1, <2>3, <2>4, KickBegins
<1>5. ASSUME NEW s \in AllSessions, NEW u \in Users, ResetPassword(q, s, u)
      PROVE  HistoryInv'
  <2> DEFINE change == Assign(u, ResetColumns)
  <2>1. Begin(q, [Request("reset", change) EXCEPT !.revoke = SessionsOf(u)])
    BY <1>5 DEF ResetPassword
  <2>2. DOMAIN change = {u}
    BY AssignedOnly
  <2>3. Updated(account[u], change[u]).must
    <3>1. "must" \in DOMAIN account[u]
      BY DEF IInv, Shape, Columns
    <3>2. DOMAIN ResetColumns = {"must"} /\ ResetColumns["must"]
      BY DEF ResetColumns
    <3>3. change[u] = Changed(account[u], ResetColumns)
      BY DEF Assign
    <3>4. Updated(account[u], change[u])["must"] =
            IF "must" \in DOMAIN change[u] THEN change[u]["must"] ELSE account[u]["must"]
      BY <3>1 DEF Updated
    <3>5. "must" \in DOMAIN change[u] => change[u]["must"] = ResetColumns["must"]
      BY <3>3 DEF Changed
    <3>6. "must" \notin DOMAIN change[u] => account[u]["must"] = ResetColumns["must"]
      BY <3>2, <3>3 DEF Changed
    <3> QED  BY <3>2, <3>4, <3>5, <3>6
  <2> HIDE DEF change
  <2>4. \A t \in LiveSessions : sessions[t].user \in DOMAIN change => t \in SessionsOf(u)
    BY <2>2 DEF LiveSessions, SessionsOf
  <2> QED  BY <2>1, <2>2, <2>3, <2>4, KickBegins
<1>6. ASSUME NEW s \in AllSessions, NEW u \in Users, DeleteUser(q, s, u)
      PROVE  HistoryInv'
  <2>1. Begin(q, Request("delete", Assign(u, <<>>)))
    BY <1>6 DEF DeleteUser
  <2>2. \A v \in DOMAIN Assign(u, <<>>) : "must" \notin DOMAIN Assign(u, <<>>)[v]
    <3>1. DOMAIN <<>> = {}  OBVIOUS
    <3> QED  BY <3>1, AssignedOnly
  <2> QED  BY <2>1, <2>2, PlainBegins
<1>7. ASSUME NEW s \in AllSessions, NEW us \in SUBSET Users, NEW status, BulkStatus(q, s, us, status)
      PROVE  HistoryInv'
  <2> DEFINE targets == BulkTargets(s, us)
             cols == [status |-> status]
             change == [u \in targets |-> Changed(account[u], cols)]
             revoke == UNION {SessionsOf(u) : u \in targets}
  <2>1. IF status = "suspended"
        THEN Begin(q, [Request("suspend", change) EXCEPT !.revoke = revoke])
        ELSE Begin(q, Request("write", change))
    BY <1>7 DEF BulkStatus
  <2>2. DOMAIN cols = {"status"}  OBVIOUS
  <2>3. DOMAIN change = targets /\ \A u \in targets : DOMAIN change[u] \subseteq DOMAIN cols
    BY DEF Changed
  <2>4. \A u \in DOMAIN change : "must" \notin DOMAIN change[u]
    BY <2>2, <2>3
  <2>5. \A t \in LiveSessions : sessions[t].user \in DOMAIN change => t \in revoke
    BY <2>3 DEF LiveSessions, SessionsOf
  <2> HIDE DEF change, revoke
  <2> QED  BY <2>1, <2>4, <2>5, KickBegins, PlainBegins
<1>8. ASSUME NEW s \in AllSessions, NEW us \in SUBSET Users, BulkDelete(q, s, us)
      PROVE  HistoryInv'
  <2> DEFINE change == [u \in BulkTargets(s, us) |-> <<>>]
  <2>1. Begin(q, Request("delete", change))
    BY <1>8 DEF BulkDelete
  <2>2. \A u \in DOMAIN change : "must" \notin DOMAIN change[u]
    OBVIOUS
  <2> HIDE DEF change
  <2> QED  BY <2>1, <2>2, PlainBegins
<1> QED  BY <1>1, <1>2, <1>3, <1>4, <1>5, <1>6, <1>7, <1>8 DEF AdminStep

\* A step that makes no session live, outdates none that stays, and leaves what the
\* requests still in flight will write.
LEMMA NothingLoosens ==
  ASSUME IInv, HistoryInv, sessions'[OwnerSession].chain = None, TemporaryMustChange',
         \A s \in AllSessions : sessions'[s].state = "live" =>
           /\ sessions[s].state = "live" /\ ~sessions'[s].outdated
           /\ sessions'[s].user = sessions[s].user /\ sessions'[s].chain = sessions[s].chain,
         \A p \in Reqs : req'[p] # Idle =>
           /\ req[p] # Idle /\ req'[p] = req[p]
           /\ req[p].alone => \A u \in DOMAIN req[p].change :
                Updated(account[u], req[p].change[u]).must => Updated(account'[u], req[p].change[u]).must
  PROVE  HistoryInv'
<1>1. /\ LiveSessions' \subseteq LiveSessions /\ LiveSessions \subseteq AllSessions
      /\ \A s \in LiveSessions' : /\ ~sessions'[s].outdated
                                  /\ sessions'[s].user = sessions[s].user
                                  /\ sessions'[s].chain = sessions[s].chain
  BY DEF LiveSessions
<1>2. OutdatedIsRevoked' /\ OneLiveSessionPerLogin'
  BY <1>1 DEF HistoryInv, OutdatedIsRevoked, OneLiveSessionPerLogin
<1>3. ASSUME NEW p \in Reqs, req'[p] # Idle
      PROVE  /\ Modest(req[p])'
             /\ req'[p].alone => InFlight' = {p} /\ StillTrue(req[p])'
  <2>1. /\ req[p] # Idle /\ req'[p] = req[p] /\ Modest(req[p])
        /\ req[p].alone => InFlight = {p} /\ StillTrue(req[p])
    BY <1>3 DEF HistoryInv
  <2>2. InFlight' \subseteq InFlight /\ p \in InFlight'
    BY <1>3 DEF InFlight
  <2>3. Modest(req[p])'
    BY <2>1 DEF Modest
  <2>4. ASSUME req[p].alone  PROVE StillTrue(req[p])'
    <3>1. /\ req[p].kind \in {"change", "suspend", "reset"} =>
             \A s \in LiveSessions' : sessions'[s].user \in DOMAIN req[p].change
                                       => s \in req[p].revoke \cup {req[p].keep}
          /\ req[p].chain # None =>
             \A s \in LiveSessions' : sessions'[s].chain = req[p].chain => s \in req[p].revoke
      BY <1>1, <2>1, <2>4 DEF StillTrue
    <3>2. req[p].kind = "reset" => \A u \in DOMAIN req[p].change : Updated(account'[u], req[p].change[u]).must
      BY <1>3, <2>1, <2>4 DEF StillTrue
    <3> QED  BY <2>1, <3>1, <3>2 DEF StillTrue
  <2> QED  BY <2>1, <2>2, <2>3, <2>4
<1> QED  BY <1>2, <1>3 DEF HistoryInv

\* A commit is that of the only request in flight, or of one that was overlapped.
LEMMA CommitsAlone ==
  ASSUME HistoryInv, NEW q \in Reqs, req[q] # Idle, NEW p \in Reqs, p # q, req[p] # Idle
  PROVE  ~req[p].alone
BY DEF HistoryInv, InFlight

\* The history of the sessions after a commit that revokes some of them.
LEMMA RevokedHistory ==
  ASSUME Shape, NEW r, NEW s \in AllSessions
  PROVE  /\ Revoked(r)[s].chain = sessions[s].chain
         /\ Revoked(r)[s].state = "live" =>
              /\ sessions[s].state = "live" /\ s \notin r.revoke
              /\ Revoked(r)[s].outdated => sessions[s].outdated \/ Missed(r, s)
<1>1. IsSession(sessions[s])  BY DEF Shape
<1>2. CASE sessions[s].state # "live"
  BY <1>2 DEF Revoked
<1>3. CASE sessions[s].state = "live" /\ s \in r.revoke
  <2> DEFINE d == Dead(sessions[s].user, "revoked")
             c == sessions[s].chain
             x == [d EXCEPT !.chain = c]
  <2>1. Revoked(r)[s] = x
    BY <1>3 DEF Revoked
  <2>2. IsSession(d) /\ d.state = "revoked"
    BY DeadSessions
  <2> HIDE DEF d, c
  <2>3. x = [user |-> d.user, state |-> d.state, chain |-> c, outdated |-> d.outdated]
    BY <2>2 DEF IsSession
  <2>4. x.chain = c /\ x.state = "revoked"
    BY <2>2, <2>3
  <2> QED  BY <2>1, <2>4 DEF c
<1>4. CASE sessions[s].state = "live" /\ s \notin r.revoke
  <2> DEFINE v == (sessions[s].outdated \/ Missed(r, s))
             x == [sessions[s] EXCEPT !.outdated = v]
  <2>1. Revoked(r)[s] = x
    BY <1>4 DEF Revoked
  <2> HIDE DEF v
  <2>2. x = [user |-> sessions[s].user, state |-> sessions[s].state,
             chain |-> sessions[s].chain, outdated |-> v]
    BY <1>1 DEF IsSession
  <2>3. x.chain = sessions[s].chain /\ x.outdated = v
    BY <2>2
  <2> HIDE DEF x
  <2>4. x.outdated => sessions[s].outdated \/ Missed(r, s)
    BY <2>3 DEF v
  <2> QED  BY <1>4, <2>1, <2>3, <2>4
<1> QED  BY <1>2, <1>3, <1>4

\* The passwords and the flags after a commit of columns.
LEMMA WrittenPasswords ==
  ASSUME Shape, TemporaryMustChange,
         NEW r, r.kind \in {"write", "change", "suspend", "reset"}, Modest(r),
         r.alone => StillTrue(r), NEW u \in Users, Written(r)[u].pw = "temporary"
  PROVE  Written(r)[u].must
<1>1. CASE u \notin DOMAIN r.change
  <2>1. Written(r)[u] = account[u]  BY <1>1 DEF Written
  <2> QED  BY <2>1 DEF TemporaryMustChange
<1>2. CASE u \in DOMAIN r.change
  <2> DEFINE new == Updated(account[u], r.change[u])
             pw  == Password(r, u)
  <2>1. Written(r)[u] = [new EXCEPT !.pw = pw]
    BY <1>2 DEF Written
  <2>2. DOMAIN new = Columns /\ "must" \in Columns /\ "pw" \in Columns
    BY DEF Updated, Shape, Columns
  <2>3. new["must"] = IF "must" \in DOMAIN r.change[u] THEN r.change[u]["must"] ELSE account[u]["must"]
    BY DEF Updated, Shape, Columns
  <2> HIDE DEF new, pw
  <2>4. Written(r)[u]["pw"] = pw /\ Written(r)[u]["must"] = new["must"]
    BY <2>1, <2>2
  <2>5. pw = "temporary"
    BY <2>4
  <2>6. CASE r.kind = "change"
    BY <2>5, <2>6 DEF pw, Password
  <2>7. CASE r.kind = "reset"
    <3>1. r.alone  BY <2>5, <2>7 DEF pw, Password
    <3>2. new.must  BY <1>2, <2>7, <3>1 DEF StillTrue, new
    <3> QED  BY <2>4, <3>2
  <2>8. CASE r.kind \in {"write", "suspend"}
    <3>1. account[u].pw = "temporary"  BY <2>5, <2>8 DEF pw, Password
    <3>2. account[u].must  BY <3>1 DEF TemporaryMustChange
    <3>3. new["must"] = account[u]["must"]  BY <1>2, <2>3, <2>8 DEF Modest
    <3> QED  BY <2>4, <3>2, <3>3
  <2> QED  BY <2>6, <2>7, <2>8
<1> QED  BY <1>1, <1>2

LEMMA CommitStepHistory ==
  ASSUME IInv, HistoryInv, NEW q \in Reqs, CommitStep(q)
  PROVE  HistoryInv'
<1>0. /\ Shape /\ SessionIds \subseteq AllSessions /\ OwnerSession \in AllSessions
      /\ req[q] # Idle => /\ IsRequest(req[q]) /\ Harmless(req[q]) /\ Modest(req[q])
                          /\ req[q].alone => InFlight = {q} /\ StillTrue(req[q])
      /\ OutdatedIsRevoked /\ OneLiveSessionPerLogin /\ TemporaryMustChange
      /\ sessions[OwnerSession].chain = None
  BY DEF IInv, HistoryInv, Shape, AllSessions
<1>1. ASSUME req[q] # Idle, req' = [req EXCEPT ![q] = Idle]
      PROVE  \A p \in Reqs : req'[p] # Idle =>
               p # q /\ req[p] # Idle /\ req'[p] = req[p] /\ ~req[p].alone
  <2>1. \A p \in Reqs : req'[p] # Idle => p # q /\ req[p] # Idle /\ req'[p] = req[p]
    BY <1>0, <1>1 DEF Shape
  <2> QED  BY <1>1, <2>1, CommitsAlone
<1>2. CASE CommitWrite(q)
  <2> DEFINE r == req[q]
  <2>1. /\ r # Idle /\ account' = Written(r) /\ sessions' = Revoked(r)
        /\ req' = [req EXCEPT ![q] = Idle] /\ r.kind \in {"write", "change", "suspend", "reset"}
    BY <1>2 DEF CommitWrite, Idle
  <2>2. \A s \in AllSessions :
          /\ Revoked(r)[s].user = sessions[s].user /\ Revoked(r)[s].chain = sessions[s].chain
          /\ Revoked(r)[s].state = "live" =>
               /\ sessions[s].state = "live" /\ s \notin r.revoke
               /\ Revoked(r)[s].outdated => sessions[s].outdated \/ Missed(r, s)
    BY <1>0, RevokedHistory, RevokedSessions
  <2>3. \A s \in LiveSessions : Missed(r, s) => s \in r.revoke
    BY <1>0, <2>1 DEF Missed, StillTrue
  <2>4. \A s \in LiveSessions : ~sessions[s].outdated
    BY <1>0 DEF OutdatedIsRevoked
  <2>5. \A s \in AllSessions : sessions'[s].state = "live" =>
          /\ sessions[s].state = "live" /\ ~sessions'[s].outdated
          /\ sessions'[s].user = sessions[s].user /\ sessions'[s].chain = sessions[s].chain
    BY <2>1, <2>2, <2>3, <2>4 DEF LiveSessions
  <2>6. \A u \in Users : Written(r)[u].pw = "temporary" => Written(r)[u].must
    BY <1>0, <2>1, WrittenPasswords
  <2>7. TemporaryMustChange' /\ sessions'[OwnerSession].chain = None
    BY <1>0, <2>1, <2>2, <2>6 DEF TemporaryMustChange
  <2> QED  BY <1>1, <2>1, <2>5, <2>7, NothingLoosens
<1>3. CASE CommitRotation(q)
  <2> DEFINE r == req[q]
             y == [r EXCEPT !.kind = "open"]
             z == [y EXCEPT !.revoke = {}]
  <2>1. /\ r # Idle /\ sessions' = Revoked(r) /\ UNCHANGED account /\ r.kind = "rotate"
        /\ req' = [req EXCEPT ![q].kind = "open", ![q].revoke = {}]
    BY <1>3 DEF CommitRotation, Idle
  <2>2. req' = [req EXCEPT ![q] = z]
    BY <1>0, <2>1 DEF Shape
  <2>3. y = [kind |-> "open", change |-> r.change, revoke |-> r.revoke,
             keep |-> r.keep, chain |-> r.chain, alone |-> r.alone]
    BY <1>0, <2>1 DEF IsRequest
  <2>4. IsRequest(y) /\ y.kind = "open" /\ y.chain = r.chain /\ y.alone = r.alone
    BY <2>3 DEF IsRequest, Kinds
  <2> HIDE DEF y
  <2>5. z.kind = "open" /\ z.revoke = {} /\ z.chain = r.chain /\ z.alone = r.alone
    <3>1. z = [kind |-> y.kind, change |-> y.change, revoke |-> {},
               keep |-> y.keep, chain |-> y.chain, alone |-> y.alone]
      BY <2>4, ExceptOnRequest
    <3> QED  BY <2>4, <3>1
  <2> HIDE DEF z
  <2>6. req'[q] = z /\ \A p \in Reqs : p # q => req'[p] = req[p]
    BY <1>0, <2>2 DEF Shape
  <2>7. \A s \in AllSessions :
          /\ Revoked(r)[s].user = sessions[s].user /\ Revoked(r)[s].chain = sessions[s].chain
          /\ Revoked(r)[s].state = "live" =>
               /\ sessions[s].state = "live" /\ s \notin r.revoke
               /\ Revoked(r)[s].outdated => sessions[s].outdated \/ Missed(r, s)
    BY <1>0, RevokedHistory, RevokedSessions
  <2>8. \A s \in LiveSessions' : /\ s \in LiveSessions /\ s \notin r.revoke /\ ~sessions'[s].outdated
                                 /\ sessions'[s].chain = sessions[s].chain
    BY <1>0, <2>1, <2>7 DEF LiveSessions, OutdatedIsRevoked, Missed
  <2>9. OutdatedIsRevoked' /\ OneLiveSessionPerLogin' /\ TemporaryMustChange'
    BY <1>0, <2>1, <2>8 DEF OutdatedIsRevoked, OneLiveSessionPerLogin, TemporaryMustChange
  <2>10. sessions'[OwnerSession].chain = None
    BY <1>0, <2>1, <2>7
  <2>11. Modest(req[q])'
    BY <2>5, <2>6 DEF Modest
  <2>12. ASSUME r.alone  PROVE InFlight' = {q} /\ StillTrue(req[q])'
    <3>1. InFlight' = {q}
      <4>1. z # Idle  BY <2>5 DEF Idle
      <4>2. InFlight = {q}  BY <1>0, <2>1, <2>12
      <4>3. \A p \in Reqs : req'[p] # Idle <=> req[p] # Idle  BY <2>1, <2>6, <4>1
      <4>4. InFlight' = InFlight  BY <4>3 DEF InFlight
      <4> QED  BY <4>2, <4>4
    <3>2. \A s \in LiveSessions' : r.chain # None => sessions'[s].chain # r.chain
      BY <1>0, <2>1, <2>8, <2>12 DEF StillTrue
    <3> QED  BY <2>5, <2>6, <3>1, <3>2 DEF StillTrue
  <2>13. ASSUME NEW p \in Reqs, p # q, req'[p] # Idle
         PROVE  Modest(req[p])' /\ ~req'[p].alone
    <3>1. req'[p] = req[p] /\ req[p] # Idle /\ Modest(req[p]) /\ ~req[p].alone
      BY <2>1, <2>6, <2>13, CommitsAlone DEF HistoryInv
    <3> QED  BY <3>1 DEF Modest
  <2> QED
    BY <2>5, <2>6, <2>9, <2>10, <2>11, <2>12, <2>13 DEF HistoryInv
<1>4. CASE CommitOpen(q)
  <2> DEFINE r == req[q]
  <2>1. /\ r # Idle /\ UNCHANGED account /\ req' = [req EXCEPT ![q] = Idle] /\ r.kind = "open"
    BY <1>4 DEF CommitOpen, Idle
  <2>2. PICK s \in SessionIds, u \in DOMAIN r.change, c \in Descent(r) :
          sessions' = [sessions EXCEPT ![s] =
                        [user |-> u, state |-> "live", chain |-> c, outdated |-> FALSE]]
    BY <1>4 DEF CommitOpen
  <2> DEFINE new == [user |-> u, state |-> "live", chain |-> c, outdated |-> FALSE]
  <2>3. sessions' = [sessions EXCEPT ![s] = new] /\ new.chain = c /\ ~new.outdated
    BY <2>2
  <2> HIDE DEF new
  <2>4. \A t \in AllSessions : sessions'[t] = IF t = s THEN new ELSE sessions[t]
    BY <1>0, <2>3 DEF Shape
  <2>5. \A t \in LiveSessions' : t \in AllSessions /\ (t = s \/ (t \in LiveSessions /\ sessions'[t] = sessions[t]))
    BY <2>4 DEF LiveSessions
  \* The name of the login is one no live session has.
  <2>6. c # None => \A t \in LiveSessions : sessions[t].chain # c
    <3>1. CASE ~r.alone
      BY <3>1 DEF Descent
    <3>2. CASE r.alone /\ r.chain # None
      <4>1. c = r.chain  BY <3>2 DEF Descent
      <4>2. r.revoke = {} /\ StillTrue(r)  BY <1>0, <2>1, <3>2 DEF Modest
      <4> QED  BY <3>2, <4>1, <4>2 DEF StillTrue
    <3>3. CASE r.alone /\ r.chain = None
      <4>1. c = None \/ c \notin Named  BY <3>3 DEF Descent
      <4>2. \A t \in SessionIds : sessions[t].chain \in Named  BY DEF Named
      <4> QED  BY <1>0, <4>1, <4>2 DEF LiveSessions, AllSessions
    <3> QED  BY <3>1, <3>2, <3>3
  <2>7. OutdatedIsRevoked'
    BY <1>0, <2>3, <2>4, <2>5 DEF OutdatedIsRevoked
  <2>8. OneLiveSessionPerLogin'
    BY <1>0, <2>3, <2>4, <2>5, <2>6 DEF OneLiveSessionPerLogin
  <2>9. TemporaryMustChange' /\ sessions'[OwnerSession].chain = None
    BY <1>0, <2>1, <2>4, AccountsAssumption DEF TemporaryMustChange
  <2>10. \A p \in Reqs : req'[p] # Idle => Modest(req[p])' /\ ~req'[p].alone
    <3>1. \A p \in Reqs : req'[p] # Idle => req[p] # Idle /\ req'[p] = req[p] /\ ~req[p].alone
      BY <1>1, <2>1
    <3> QED  BY <3>1 DEF HistoryInv, Modest
  <2> QED  BY <2>7, <2>8, <2>9, <2>10 DEF HistoryInv
<1>5. CASE CommitDelete(q)
  <2> DEFINE gone == DOMAIN req[q].change
             deleted == NewAccount("deleted", "user", "chosen")
             dead == Dead(Owner, "none")
  <2>1. /\ req[q] # Idle /\ req[q].kind = "delete" /\ req' = [req EXCEPT ![q] = Idle]
        /\ account' = [u \in Users |-> IF u \in gone THEN deleted ELSE account[u]]
        /\ sessions' = [s \in AllSessions |-> IF sessions[s].user \in gone THEN dead ELSE sessions[s]]
    BY <1>5 DEF CommitDelete, Idle
  <2>2. deleted.pw = "chosen" /\ dead.state = "none" /\ dead.chain = None
    BY DEF NewAccount, Dead
  <2> HIDE DEF gone, deleted, dead
  <2>3. TemporaryMustChange' /\ sessions'[OwnerSession].chain = None
    BY <1>0, <2>1, <2>2 DEF TemporaryMustChange
  <2>4. \A s \in AllSessions : sessions'[s].state = "live" => sessions'[s] = sessions[s]
    BY <2>1, <2>2
  <2>5. \A s \in AllSessions : sessions[s].state = "live" => ~sessions[s].outdated
    BY <1>0 DEF OutdatedIsRevoked, LiveSessions
  <2> QED  BY <1>1, <2>1, <2>3, <2>4, <2>5, NothingLoosens
<1>6. CASE RequestLost(q)
  <2>1. UNCHANGED <<account, sessions>> /\ req[q] # Idle /\ req' = [req EXCEPT ![q] = Idle]
    BY <1>6 DEF RequestLost
  <2>2. \A s \in AllSessions : sessions[s].state = "live" => ~sessions[s].outdated
    BY <1>0 DEF OutdatedIsRevoked, LiveSessions
  <2>3. TemporaryMustChange' /\ sessions'[OwnerSession].chain = None
    BY <1>0, <2>1 DEF TemporaryMustChange
  <2> QED  BY <1>1, <2>1, <2>2, <2>3, NothingLoosens
<1> QED  BY <1>2, <1>3, <1>4, <1>5, <1>6 DEF CommitStep

\* Steps that touch one row only: accounts are made and lapse, sessions expire.
LEMMA OutsideStepHistory ==
  ASSUME IInv, HistoryInv, UNCHANGED req,
         \/ UNCHANGED <<account, sessions>>
         \/ \E u \in Users :
              \/ TermEnds(u)
              \/ \E role \in {"user", "admin"} :
                   \/ \E status \in {"pending", "approved"} : Register(u, status, role)
                   \/ \E s \in AllSessions : CreateUser(s, u, role)
         \/ \E s \in SessionIds : Expire(s) \/ Sweep(s)
  PROVE  HistoryInv'
<1>0. /\ Shape /\ SessionIds \subseteq AllSessions /\ OwnerSession \in AllSessions
      /\ OutdatedIsRevoked /\ TemporaryMustChange /\ sessions[OwnerSession].chain = None
      /\ \A s \in AllSessions : sessions[s].state = "live" => ~sessions[s].outdated
  BY DEF IInv, HistoryInv, AllSessions, OutdatedIsRevoked, LiveSessions
<1>1. CASE UNCHANGED <<account, sessions>>
  <2>1. TemporaryMustChange'  BY <1>0, <1>1 DEF TemporaryMustChange
  <2> QED  BY <1>0, <1>1, <2>1, NothingLoosens
<1>2. ASSUME NEW u \in Users, TermEnds(u)  PROVE HistoryInv'
  <2> DEFINE a == [account[u] EXCEPT !.term = "over"]
  <2>1. account' = [account EXCEPT ![u] = a] /\ UNCHANGED sessions
    BY <1>2 DEF TermEnds
  <2>2. /\ DOMAIN a = Columns /\ DOMAIN account[u] = Columns
        /\ a["pw"] = account[u]["pw"] /\ a["must"] = account[u]["must"]
    BY <1>0 DEF Shape, Columns
  <2> HIDE DEF a
  <2>3. \A v \in Users : account'[v] = IF v = u THEN a ELSE account[v]
    BY <1>0, <2>1 DEF Shape
  <2>4. TemporaryMustChange'
    BY <1>0, <2>2, <2>3 DEF TemporaryMustChange
  <2>5. ASSUME NEW change
        PROVE  Updated(a, change)["must"] = Updated(account[u], change)["must"]
    BY <2>2 DEF Updated, Columns
  <2>6. \A v \in Users : \A change : Updated(account[v], change).must => Updated(account'[v], change).must
    BY <2>3, <2>5
  <2>7. \A p \in Reqs : req[p] # Idle => DOMAIN req[p].change \subseteq Users
    BY DEF IInv, Harmless, HarmlessTo
  <2> QED  BY <1>0, <2>1, <2>4, <2>6, <2>7, NothingLoosens
<1>3. ASSUME NEW u \in Users, account[u].status = "absent", NEW a, a.pw = "temporary" => a.must,
             account' = [account EXCEPT ![u] = a], UNCHANGED sessions
      PROVE  HistoryInv'
  <2>1. \A v \in Users : account'[v] = IF v = u THEN a ELSE account[v]
    BY <1>0, <1>3 DEF Shape
  <2>2. TemporaryMustChange'
    BY <1>0, <1>3, <2>1 DEF TemporaryMustChange
  <2>3. \A p \in Reqs : req[p] # Idle => \A v \in DOMAIN req[p].change : v # u /\ v \in Users
    BY <1>3 DEF IInv, Harmless, HarmlessTo
  <2>4. \A p \in Reqs : req[p] # Idle => \A v \in DOMAIN req[p].change : account'[v] = account[v]
    BY <2>1, <2>3
  <2> QED  BY <1>0, <1>3, <2>2, <2>4, NothingLoosens
<1>4. ASSUME NEW u \in Users, NEW role, NEW status, Register(u, status, role)  PROVE HistoryInv'
  <2> DEFINE a == NewAccount(status, role, "chosen")
  <2>1. account[u].status = "absent" /\ account' = [account EXCEPT ![u] = a] /\ UNCHANGED sessions
    BY <1>4 DEF Register
  <2>2. a.pw = "chosen"  BY DEF NewAccount
  <2> HIDE DEF a
  <2> QED  BY <1>3, <2>1, <2>2
<1>5. ASSUME NEW u \in Users, NEW role, NEW s, CreateUser(s, u, role)  PROVE HistoryInv'
  <2> DEFINE a == NewAccount("approved", role, "temporary")
  <2>1. account[u].status = "absent" /\ account' = [account EXCEPT ![u] = a] /\ UNCHANGED sessions
    BY <1>5 DEF CreateUser
  <2>2. a.must  BY DEF NewAccount
  <2> HIDE DEF a
  <2> QED  BY <1>3, <2>1, <2>2
<1>6. ASSUME NEW s \in SessionIds, Expire(s) \/ Sweep(s)  PROVE HistoryInv'
  <2>0. \/ sessions' = [sessions EXCEPT ![s] = Dead(sessions[s].user, "expired")]
        \/ sessions' = [sessions EXCEPT ![s] = Dead(Owner, "none")]
    BY <1>6 DEF Expire, Sweep
  <2>1. /\ Dead(sessions[s].user, "expired").state # "live"
        /\ Dead(Owner, "none").state # "live"
    BY DEF Dead
  <2>2. PICK d : sessions' = [sessions EXCEPT ![s] = d] /\ d.state # "live"
    BY <2>0, <2>1
  <2>3. UNCHANGED account
    BY <1>6 DEF Expire, Sweep
  <2>4. \A t \in AllSessions : sessions'[t] = IF t = s THEN d ELSE sessions[t]
    BY <1>0, <2>2 DEF Shape
  <2>5. OwnerSession # s  BY AccountsAssumption
  <2>6. TemporaryMustChange' /\ sessions'[OwnerSession].chain = None
    BY <1>0, <2>3, <2>4, <2>5 DEF TemporaryMustChange
  <2> QED  BY <1>0, <2>2, <2>3, <2>4, <2>6, NothingLoosens
<1> QED  BY <1>1, <1>2, <1>4, <1>5, <1>6

LEMMA InitHistory == Init => HistoryInv
<1> SUFFICES ASSUME Init PROVE HistoryInv  OBVIOUS
<1>1. \A u \in Users : account[u].pw = "chosen"  BY DEF Init, NewAccount
<1>2. /\ OwnerSession \in AllSessions
      /\ \A s \in AllSessions : ~sessions[s].outdated /\ sessions[s].chain = None
  BY DEF Init, Dead, AllSessions
<1>3. \A q \in Reqs : req[q] = Idle  BY DEF Init
<1> QED
  BY <1>1, <1>2, <1>3
  DEF HistoryInv, OutdatedIsRevoked, OneLiveSessionPerLogin, TemporaryMustChange, LiveSessions

(* A request that nothing overlaps revokes, flags and rotates what is there *)
(* when it commits, whatever ran before it and was lost on the way.         *)
THEOREM HistoryInvariant == Spec => []HistoryInv
<1>1. IInv /\ HistoryInv /\ [Next]_vars => HistoryInv'
  <2> SUFFICES ASSUME IInv, HistoryInv, [Next]_vars PROVE HistoryInv'  OBVIOUS
  <2>1. CASE \E q \in Reqs : SelfStep(q) \/ AdminStep(q) \/ CommitStep(q)
    BY <2>1, SelfStepHistory, AdminStepHistory, CommitStepHistory
  <2>2. CASE ~\E q \in Reqs : SelfStep(q) \/ AdminStep(q) \/ CommitStep(q)
    <3>1. UNCHANGED req
      BY <2>2 DEF Next, vars, TermEnds, Register, CreateUser, Expire, Sweep
    <3> QED  BY <2>2, <3>1, OutsideStepHistory DEF Next, vars
  <2> QED  BY <2>1, <2>2
<1> QED  BY <1>1, InitHistory, Invariant, PTL DEF Spec

(* change_password, suspend_user, reset_password, when nothing overlaps    *)
(* them: no session that was open before is live after, but the one that   *)
(* made the change.                                                        *)
THEOREM OutdatedSessionsAreRevoked == Spec => []OutdatedIsRevoked
<1>1. HistoryInv => OutdatedIsRevoked  BY DEF HistoryInv
<1> QED  BY <1>1, HistoryInvariant, PTL

(* refresh rotates: of the sessions that descend from one login through    *)
(* refreshes that nothing overlapped, one is live at a time, lost answers  *)
(* and failed commits included.                                            *)
THEOREM RotationLeavesOne == Spec => []OneLiveSessionPerLogin
<1>1. HistoryInv => OneLiveSessionPerLogin  BY DEF HistoryInv
<1> QED  BY <1>1, HistoryInvariant, PTL

(* reset_password, create_user: the password an admin relayed opens only   *)
(* the paths of a pending change until the user has chosen another.        *)
THEOREM TemporaryPasswordsMustChange == Spec => []TemporaryMustChange
<1>1. HistoryInv => TemporaryMustChange  BY DEF HistoryInv
<1> QED  BY <1>1, HistoryInvariant, PTL
=============================================================================
