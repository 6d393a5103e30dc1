------------------------------ MODULE Notebooks ------------------------------
(***************************************************************************)
(* The notebook control plane of the gateway: launches, stops, the node    *)
(* table, GPU boosts and the account operations that tear servers down     *)
(* (gateway/app/routers/notebooks.py, nodes.py, admin.py, auth.py).        *)
(*                                                                         *)
(* A handler is split where it awaits the Hub, where it commits, and       *)
(* between what it reads and the commit of what it decided: that is where  *)
(* another request, on this replica or the other one, can come in between. *)
(* What a request carries across such a point (its plan, the run it means  *)
(* to close or to promote, the boost it read) is in req[q] or desk[d], and *)
(* is not read again.  The database runs at READ COMMITTED, without row    *)
(* versions: an UPDATE goes by primary key and writes the values decided   *)
(* on before; one that finds no row fails the transaction.                 *)
(*                                                                         *)
(* runs[i].told is history.                                                *)
(*                                                                         *)
(* Left out: the SSO token and the audit row at the end of a handler,      *)
(* which touch none of this state; the text of a notification; rdzv.       *)
(***************************************************************************)
EXTENDS Placement, Sequences

CONSTANTS Users,       \* account ids
          Admins,      \* the users exempt from maintenance mode
          Reqs,        \* slots for launch/stop requests that are in flight
          Desks,       \* slots for boost requests and decisions that are in flight
          GpuHosts,    \* hosts registered with labels.gpu
          Profiles,    \* bound: whether launches ask for the GPU profile (TRUE) or not
          MaxRuns,     \* bound: rows of notebook_runs
          MaxBoosts,   \* bound: rows of gpu_boost_requests
          MaxRows,     \* bound: rows of both tables together
          MaxGpus,     \* bound: GPU nodes a boost may ask for
          Unsteady,    \* bound: hosts that are drained or lose their heartbeat
          Limited,     \* bound: users with a GPU-hours limit
          Managed,     \* bound: users an admin suspends, reinstates or deletes
          Leaving,     \* bound: users who log out, or whose idle server the Hub culls
          Outages,     \* bound: whether the Hub's API or a replica ever fails
          Maintained   \* bound: whether maintenance mode is ever switched on

ASSUME NotebooksAssumption ==
  /\ Admins \subseteq Users
  /\ GpuHosts \subseteq Hosts
  /\ Unsteady \subseteq Hosts
  /\ Profiles \subseteq BOOLEAN
  /\ Limited \subseteq Users
  /\ Managed \subseteq Users
  /\ Leaving \subseteq Users
  /\ MaxRuns \in Nat
  /\ MaxBoosts \in Nat
  /\ MaxRows \in Nat
  /\ MaxGpus \in Nat \ {0}
  /\ Outages \in BOOLEAN
  /\ Maintained \in BOOLEAN

VARIABLES node,         \* the nodes table: status, and is the heartbeat fresh
          runs,         \* the notebook_runs table, in the order of started_at
          boosts,       \* the gpu_boost_requests table, in the order of created_at
          notes,        \* the notifications sent
          account,      \* users.status
          spent,        \* the users whose GPU-hours have reached their limit
          maintenance,  \* settings: is maintenance_mode on
          server,       \* the Hub's view (external): each user's running server
          req,          \* launch and stop requests in flight
          desk          \* boost requests, and decisions on them, in flight

vars == <<node, runs, boosts, notes, account, spent, maintenance, server, req, desk>>

-----------------------------------------------------------------------------
(* Types.  Row numbers stand for ids; 0 is None. *)

NodeRow == [status : {"absent", "online", "draining"}, fresh : BOOLEAN]

Run == [user : Users, host : Hosts \cup {NoHost}, span : SUBSET Hosts,
        mode : Modes, gpus : Nat, shared : BOOLEAN, boost : Nat,
        told : Nat,   \* how often the user was told of a free host
        status : {"active", "stopped", "deleted"}]

Boost == [user : Users, gpus : Nat \ {0},
          status : {"pending", "approved", "denied", "consumed", "expired", "deleted"}]

Note == [to : Users,
         kind : {"quota", "sharing", "freed", "granted", "declined", "boosted"},
         ref : Nat]

\* A server the Hub runs, with the host it was pinned to when it was started.
NoServer == [up |-> FALSE, host |-> NoHost]
Server == [up : BOOLEAN, host : Hosts \cup {NoHost}]

Idle      == [pc |-> "idle"]
Launching == [pc : {"starting", "recording"}, user : Users, old : Nat,
              boost : Nat, plan : Placement]
Stopping  == [pc : {"stopping", "closing"}, user : Users]
Promoting == [pc : {"promoting"}, freed : Hosts]
Updating  == [pc : {"ending", "telling"}, run : Nat \ {0}]
Request   == {Idle} \cup Launching \cup Stopping \cup Promoting \cup Updating

\* gpus = 0: the number that was asked for stays.
Asking   == [pc : {"asking"}, user : Users, gpus : Nat \ {0}, pending : SUBSET (Nat \ {0})]
Deciding == [pc : {"deciding"}, boost : Nat, verdict : {"approved", "denied"}, gpus : Nat]
Errand   == {Idle} \cup Asking \cup Deciding

TypeOK ==
  /\ node \in [Hosts -> NodeRow]
  /\ runs \in Seq(Run)
  /\ boosts \in Seq(Boost)
  /\ notes \subseteq Note
  /\ account \in [Users -> {"approved", "suspended", "deleted"}]
  /\ spent \subseteq Limited
  /\ maintenance \in BOOLEAN
  /\ server \in [Users -> Server]
  /\ req \in [Reqs -> Request]
  /\ desk \in [Desks -> Errand]

Init ==
  /\ node = [h \in Hosts |-> [status |-> "absent", fresh |-> FALSE]]
  /\ runs = <<>>
  /\ boosts = <<>>
  /\ notes = {}
  /\ account = [u \in Users |-> "approved"]
  /\ spent = {}
  /\ maintenance = FALSE
  /\ server = [u \in Users |-> NoServer]
  /\ req = [q \in Reqs |-> Idle]
  /\ desk = [d \in Desks |-> Idle]

-----------------------------------------------------------------------------
(* Queries. *)

\* Registered, heartbeat within 90 s, not draining.
Online(h) == node[h].status = "online" /\ node[h].fresh

OnlineNodes(gpuOnly) == {h \in Hosts : Online(h) /\ (gpuOnly => h \in GpuHosts)}

ActiveRuns == {i \in DOMAIN runs : runs[i].status = "active"}

ActiveRunsOf(u) == {i \in ActiveRuns : runs[i].user = u}

\* _active_run(...).first(): some active run of the user, or None.
ActiveRun(u) == IF ActiveRunsOf(u) = {} THEN {0} ELSE ActiveRunsOf(u)

ApprovedOf(u) == {b \in DOMAIN boosts : boosts[b].user = u /\ boosts[b].status = "approved"}

Latest(ids) == IF ids = {} THEN 0 ELSE CHOOSE i \in ids : \A j \in ids : j =< i

Notify(u, kind, ref) == [to |-> u, kind |-> kind, ref |-> ref]

\* Requests by accounts that are not approved never reach a handler.
MayRequest(u) == account[u] = "approved"

-----------------------------------------------------------------------------
(* POST /api/notebooks/launch.  Up to the first await: the checks, and the *)
(* plan.  Nothing is written except the quota notice, which is committed.  *)

\* gpu: the profile asked for is the GPU one.
Capped(u, gpu) == u \in spent /\ (gpu \/ ApprovedOf(u) # {})

BoostFor(u, gpu) == IF Capped(u, gpu) THEN 0 ELSE Latest(ApprovedOf(u))

OthersRuns(u) == {i \in ActiveRuns : runs[i].user # u}

PlansFor(u, gpu) ==
  LET boost    == BoostFor(u, gpu)
      wantsGpu == (gpu /\ ~Capped(u, gpu)) \/ boost # 0
  IN  Placements(OnlineNodes(wantsGpu), runs, OthersRuns(u), wantsGpu,
                 IF boost = 0 THEN 0 ELSE boosts[boost].gpus)

RunsToBe == Len(runs) + Cardinality({q \in Reqs : req[q] \in Launching})
BoostsToBe == Len(boosts) + Cardinality({d \in Desks : desk[d] \in Asking})

RoomForRun == RunsToBe < MaxRuns /\ RunsToBe + BoostsToBe < MaxRows
RoomForBoost == BoostsToBe < MaxBoosts /\ RunsToBe + BoostsToBe < MaxRows

\* A plausible slip: the grant is marked, and committed, before the Hub is asked.
LaunchSpending(q, u, gpu) ==
  /\ req[q] = Idle /\ MayRequest(u) /\ RoomForRun
  /\ \E old \in ActiveRun(u), plan \in PlansFor(u, gpu) :
       req' = [req EXCEPT ![q] = [pc |-> "starting", user |-> u, old |-> old,
                                  boost |-> BoostFor(u, gpu), plan |-> plan]]
  /\ boosts' = [b \in DOMAIN boosts |-> IF b = BoostFor(u, gpu)
                  THEN [boosts[b] EXCEPT !.status = "consumed"] ELSE boosts[b]]
  /\ UNCHANGED <<node, runs, notes, account, spent, maintenance, server, desk>>

Launch(q, u, gpu) ==
  /\ req[q] = Idle
  /\ MayRequest(u)
  /\ maintenance => u \in Admins
  /\ RoomForRun
  /\ \E old \in ActiveRun(u), plan \in PlansFor(u, gpu) :
       req' = [req EXCEPT ![q] = [pc |-> "starting", user |-> u, old |-> old,
                                  boost |-> BoostFor(u, gpu), plan |-> plan]]
  /\ notes' = IF Capped(u, gpu) THEN notes \cup {Notify(u, "quota", 0)} ELSE notes
  /\ UNCHANGED <<node, runs, boosts, account, spent, maintenance, server, desk>>

\* ensure_user and start_server.  The answer's status is not looked at: a Hub
\* that already runs a server for the user refuses to start another one, and
\* the launch goes on.
HubStart(q) ==
  /\ req[q].pc = "starting"
  /\ LET u == req[q].user IN
       \/ /\ ~server[u].up
          /\ server' = [server EXCEPT ![u] = [up |-> TRUE, host |-> req[q].plan.host]]
       \/ /\ server[u].up \/ Outages
          /\ UNCHANGED server
  /\ req' = [req EXCEPT ![q].pc = "recording"]
  /\ UNCHANGED <<node, runs, boosts, notes, account, spent, maintenance, desk>>

\* A plausible slip: notifications without a foreign key.
RecordableIfOwner(q) == account[req[q].user] # "deleted"

\* The rows the commit inserts refer to users that still exist.
Recordable(q) ==
  /\ account[req[q].user] # "deleted"
  /\ \A i \in req[q].plan.colocated : account[runs[i].user] # "deleted"

NewRun(r) ==
  [user |-> r.user, host |-> r.plan.host, span |-> r.plan.span, mode |-> r.plan.mode,
   gpus |-> r.plan.gpus, shared |-> r.plan.shared, boost |-> r.boost, told |-> 0,
   status |-> "active"]

\* A plausible slip: the old row is left as it is.
KeepRun(old) == runs

CloseRun(old) == IF old = 0 THEN runs ELSE [runs EXCEPT ![old].status = "stopped"]

\* A plausible slip: tell only the users who had the node to themselves.
SharingNotesToOwners(r) ==
  {Notify(runs[i].user, "sharing", Len(runs) + 1) :
     i \in {j \in r.plan.colocated : runs[j].mode = "exclusive"}}

SharingNotes(r) ==
  {Notify(runs[i].user, "sharing", Len(runs) + 1) : i \in r.plan.colocated}

\* A plausible slip: the grant is not marked.
KeepBoost(b) == boosts

ConsumeBoost(b) == IF b = 0 THEN boosts ELSE [boosts EXCEPT ![b].status = "consumed"]

\* A plausible slip: no `if freed'.
AfterCommitAlways(freed) == [pc |-> "promoting", freed |-> freed]

\* The host to look for a waiting user for, once this request has committed.
AfterCommit(freed) == IF freed = NoHost THEN Idle ELSE [pc |-> "promoting", freed |-> freed]

\* The one transaction of a launch that got past the Hub.
RecordLaunch(q) ==
  /\ req[q].pc = "recording"
  /\ Recordable(q)
  /\ LET r     == req[q]
         freed == IF r.old = 0 \/ runs[r.old].host = r.plan.host
                  THEN NoHost ELSE runs[r.old].host
     IN  /\ runs' = Append(CloseRun(r.old), NewRun(r))
         /\ boosts' = ConsumeBoost(r.boost)
         /\ notes' = notes \cup SharingNotes(r)
                           \cup {Notify(r.user, "boosted", b) : b \in {r.boost} \ {0}}
         /\ req' = [req EXCEPT ![q] = AfterCommit(freed)]
  /\ UNCHANGED <<node, account, spent, maintenance, server, desk>>

\* A foreign key fails at the commit: the transaction rolls back, a 500.
RecordRefused(q) ==
  /\ req[q].pc = "recording"
  /\ ~Recordable(q)
  /\ req' = [req EXCEPT ![q] = Idle]
  /\ UNCHANGED <<node, runs, boosts, notes, account, spent, maintenance, server, desk>>

-----------------------------------------------------------------------------
(* POST /api/notebooks/stop: the Hub first, then the table. *)

Stop(q, u) ==
  /\ req[q] = Idle
  /\ MayRequest(u)
  /\ req' = [req EXCEPT ![q] = [pc |-> "stopping", user |-> u]]
  /\ UNCHANGED <<node, runs, boosts, notes, account, spent, maintenance, server, desk>>

\* A DELETE of the user's server, as stop, logout, suspend and delete issue it:
\* a refusal goes unnoticed, and all but stop swallow an exception as well.
TearDown(u) == \/ server' = [server EXCEPT ![u] = NoServer]
               \/ Outages /\ UNCHANGED server

HubStop(q) ==
  /\ req[q].pc = "stopping"
  /\ TearDown(req[q].user)
  /\ req' = [req EXCEPT ![q].pc = "closing"]
  /\ UNCHANGED <<node, runs, boosts, notes, account, spent, maintenance, desk>>

\* _active_run, and what the handler means to write.
FindStopped(q) ==
  /\ req[q].pc = "closing"
  /\ \E i \in ActiveRun(req[q].user) :
       req' = [req EXCEPT ![q] = IF i = 0 THEN Idle ELSE [pc |-> "ending", run |-> i]]
  /\ UNCHANGED <<node, runs, boosts, notes, account, spent, maintenance, server, desk>>

CloseStopped(q) ==
  /\ req[q].pc = "ending"
  /\ runs[req[q].run].status # "deleted"
  /\ runs' = CloseRun(req[q].run)
  /\ req' = [req EXCEPT ![q] = AfterCommit(runs[req[q].run].host)]
  /\ UNCHANGED <<node, boosts, notes, account, spent, maintenance, server, desk>>

\* The run went with its user before the commit.
UpdateRefused(q) ==
  /\ req[q].pc \in {"ending", "telling"}
  /\ runs[req[q].run].status = "deleted"
  /\ req' = [req EXCEPT ![q] = Idle]
  /\ UNCHANGED <<node, runs, boosts, notes, account, spent, maintenance, server, desk>>

-----------------------------------------------------------------------------
(* scheduler.on_run_stopped, and the commit after it. *)

Occupied(ids) == UNION {Footprint(runs[i]) : i \in ids}

Waiting == {i \in ActiveRuns : runs[i].shared}

\* A plausible slip: sorted the other way round.
LatestWaiting == CHOOSE i \in Waiting : \A j \in Waiting : j =< i

LongestWaiting == CHOOSE i \in Waiting : \A j \in Waiting : i =< j

Taken(h) == h \in Occupied(ActiveRuns)

Promote(q) ==
  /\ req[q].pc = "promoting"
  /\ req' = [req EXCEPT ![q] = IF Taken(req[q].freed) \/ Waiting = {} THEN Idle
                               ELSE [pc |-> "telling", run |-> LongestWaiting]]
  /\ UNCHANGED <<node, runs, boosts, notes, account, spent, maintenance, server, desk>>

\* A plausible slip: tell the user of the oldest run, waiting or not.
OldestNote(i) ==
  LET oldest == CHOOSE j \in ActiveRuns : \A k \in ActiveRuns : j =< k
  IN  Notify(runs[oldest].user, "freed", i)

PromotionNote(i) == Notify(runs[i].user, "freed", i)

\* A plausible slip: tell the user, and leave the run in the queue.
KeepWaiting(i) == [runs EXCEPT ![i].told = @ + 1]

LeaveQueue(i) == [runs EXCEPT ![i].shared = FALSE, ![i].told = @ + 1]

RecordPromotion(q) ==
  /\ req[q].pc = "telling"
  /\ runs[req[q].run].status # "deleted"
  /\ runs' = LeaveQueue(req[q].run)
  /\ notes' = notes \cup {PromotionNote(req[q].run)}
  /\ req' = [req EXCEPT ![q] = Idle]
  /\ UNCHANGED <<node, boosts, account, spent, maintenance, server, desk>>

\* The Hub's API raises, or the replica dies, at an await or between two
\* commits; what the Hub has done already stays done.
RequestLost(q) ==
  /\ Outages
  /\ req[q] # Idle
  /\ req' = [req EXCEPT ![q] = Idle]
  /\ UNCHANGED <<node, runs, boosts, notes, account, spent, maintenance, server, desk>>

-----------------------------------------------------------------------------
(* GPU boosts.  A handler reads, and then commits: what others have        *)
(* committed in between it does not see, and writes over.                  *)

PendingOf(u) == {b \in DOMAIN boosts : boosts[b].user = u /\ boosts[b].status = "pending"}

RequestBoost(d, u, gpus) ==
  /\ desk[d] = Idle
  /\ MayRequest(u)
  /\ RoomForBoost
  /\ desk' = [desk EXCEPT ![d] = [pc |-> "asking", user |-> u, gpus |-> gpus,
                                  pending |-> PendingOf(u)]]
  /\ UNCHANGED <<node, runs, boosts, notes, account, spent, maintenance, server, req>>

RecordRequest(d) ==
  /\ desk[d].pc = "asking"
  /\ account[desk[d].user] # "deleted"
  /\ boosts' = Append([b \in DOMAIN boosts |->
                         IF b \in desk[d].pending
                         THEN [boosts[b] EXCEPT !.status = "expired"] ELSE boosts[b]],
                      [user |-> desk[d].user, gpus |-> desk[d].gpus, status |-> "pending"])
  /\ desk' = [desk EXCEPT ![d] = Idle]
  /\ UNCHANGED <<node, runs, notes, account, spent, maintenance, server, req>>

\* The admin may change the number of GPU nodes while approving; an UPDATE leaves
\* out a column that keeps the value that was read.
ApproveBoost(d, b, gpus) ==
  /\ desk[d] = Idle
  /\ boosts[b].status = "pending"
  /\ desk' = [desk EXCEPT ![d] = [pc |-> "deciding", boost |-> b, verdict |-> "approved",
                                  gpus |-> IF gpus = boosts[b].gpus THEN 0 ELSE gpus]]
  /\ UNCHANGED <<node, runs, boosts, notes, account, spent, maintenance, server, req>>

\* A plausible slip: no 409 for a request that is already decided.
DenyDecidedBoost(d, b) ==
  /\ desk[d] = Idle
  /\ desk' = [desk EXCEPT ![d] = [pc |-> "deciding", boost |-> b, verdict |-> "denied",
                                  gpus |-> 0]]
  /\ UNCHANGED <<node, runs, boosts, notes, account, spent, maintenance, server, req>>

DenyBoost(d, b) ==
  /\ desk[d] = Idle
  /\ boosts[b].status = "pending"
  /\ desk' = [desk EXCEPT ![d] = [pc |-> "deciding", boost |-> b, verdict |-> "denied",
                                  gpus |-> 0]]
  /\ UNCHANGED <<node, runs, boosts, notes, account, spent, maintenance, server, req>>

Verdict(r) == IF r.verdict = "approved" THEN "granted" ELSE "declined"

RecordDecision(d) ==
  /\ desk[d].pc = "deciding"
  /\ LET r == desk[d]
         b == r.boost
     IN  /\ boosts[b].status # "deleted"
         /\ boosts' = [boosts EXCEPT ![b].status = r.verdict,
                                     ![b].gpus = IF r.gpus = 0 THEN @ ELSE r.gpus]
         /\ notes' = notes \cup {Notify(boosts[b].user, Verdict(r), b)}
  /\ desk' = [desk EXCEPT ![d] = Idle]
  /\ UNCHANGED <<node, runs, account, spent, maintenance, server, req>>

\* The user was deleted before the commit, and the row with the user.
DeskRefused(d) ==
  /\ \/ desk[d].pc = "asking" /\ account[desk[d].user] = "deleted"
     \/ desk[d].pc = "deciding" /\ boosts[desk[d].boost].status = "deleted"
  /\ desk' = [desk EXCEPT ![d] = Idle]
  /\ UNCHANGED <<node, runs, boosts, notes, account, spent, maintenance, server, req>>

\* The replica dies before the commit.
DeskLost(d) ==
  /\ Outages
  /\ desk[d] # Idle
  /\ desk' = [desk EXCEPT ![d] = Idle]
  /\ UNCHANGED <<node, runs, boosts, notes, account, spent, maintenance, server, req>>

-----------------------------------------------------------------------------
(* The node table. *)

RegisteredNode == [status |-> "online", fresh |-> TRUE]

Register(h) ==
  /\ node' = [node EXCEPT ![h] = RegisteredNode]
  /\ UNCHANGED <<runs, boosts, notes, account, spent, maintenance, server, req, desk>>

Heartbeat(h) ==
  /\ node[h].status # "absent"
  /\ node' = [node EXCEPT ![h].fresh = TRUE]
  /\ UNCHANGED <<runs, boosts, notes, account, spent, maintenance, server, req, desk>>

\* 90 s pass without a heartbeat: the node, or its network, is down.
HeartbeatLapses(h) ==
  /\ h \in Unsteady /\ node[h].fresh
  /\ node' = [node EXCEPT ![h].fresh = FALSE]
  /\ UNCHANGED <<runs, boosts, notes, account, spent, maintenance, server, req, desk>>

Drain(h) ==
  /\ h \in Unsteady /\ node[h].status # "absent"
  /\ node' = [node EXCEPT ![h].status = "draining"]
  /\ UNCHANGED <<runs, boosts, notes, account, spent, maintenance, server, req, desk>>

Activate(h) ==
  /\ node[h].status # "absent"
  /\ node' = [node EXCEPT ![h].status = "online"]
  /\ UNCHANGED <<runs, boosts, notes, account, spent, maintenance, server, req, desk>>

-----------------------------------------------------------------------------
(* Accounts, quotas, maintenance mode.  None of them touches the run table, *)
(* except that deleting a user deletes the user's rows (ON DELETE CASCADE). *)

Logout(u) ==
  /\ u \in Leaving /\ MayRequest(u)
  /\ TearDown(u)
  /\ UNCHANGED <<node, runs, boosts, notes, account, spent, maintenance, req, desk>>

\* The Hub's idle culler (external): the gateway is not told.
CullIdle(u) ==
  /\ u \in Leaving /\ server[u].up
  /\ server' = [server EXCEPT ![u] = NoServer]
  /\ UNCHANGED <<node, runs, boosts, notes, account, spent, maintenance, req, desk>>

Suspend(u) ==
  /\ u \in Managed /\ account[u] # "deleted"
  /\ account' = [account EXCEPT ![u] = "suspended"]
  /\ TearDown(u)
  /\ UNCHANGED <<node, runs, boosts, notes, spent, maintenance, req, desk>>

\* An admin rejects the account, or it expires: sessions and server stay up.
LoseApproval(u) ==
  /\ u \in Managed /\ account[u] # "deleted"
  /\ account' = [account EXCEPT ![u] = "suspended"]
  /\ UNCHANGED <<node, runs, boosts, notes, spent, maintenance, server, req, desk>>

Reinstate(u) ==
  /\ u \in Managed /\ account[u] # "deleted"
  /\ account' = [account EXCEPT ![u] = "approved"]
  /\ UNCHANGED <<node, runs, boosts, notes, spent, maintenance, server, req, desk>>

DeleteUser(u) ==
  /\ u \in Managed /\ account[u] # "deleted"
  /\ account' = [account EXCEPT ![u] = "deleted"]
  /\ runs' = [i \in DOMAIN runs |-> IF runs[i].user = u
                                    THEN [runs[i] EXCEPT !.status = "deleted"] ELSE runs[i]]
  /\ boosts' = [b \in DOMAIN boosts |-> IF boosts[b].user = u
                                        THEN [boosts[b] EXCEPT !.status = "deleted"] ELSE boosts[b]]
  /\ notes' = {n \in notes : n.to # u}
  /\ spent' = spent \ {u}
  /\ TearDown(u)
  /\ UNCHANGED <<node, maintenance, req, desk>>

\* gpu_hours_used reaches the limit: it grows while a GPU run is active.
SpendQuota(u) ==
  /\ u \in Limited
  /\ \E i \in ActiveRunsOf(u) : runs[i].gpus > 0
  /\ spent' = spent \cup {u}
  /\ UNCHANGED <<node, runs, boosts, notes, account, maintenance, server, req, desk>>

\* set_quota may put the limit below or above what the user has used.
SetQuota(u) ==
  /\ u \in Limited /\ account[u] # "deleted"
  /\ spent' \in {spent \cup {u}, spent \ {u}}
  /\ UNCHANGED <<node, runs, boosts, notes, account, maintenance, server, req, desk>>

SetMaintenance ==
  /\ Maintained
  /\ maintenance' \in BOOLEAN
  /\ UNCHANGED <<node, runs, boosts, notes, account, spent, server, req, desk>>

-----------------------------------------------------------------------------
RequestStep(q) ==
  \/ \E u \in Users : (\E gpu \in Profiles : Launch(q, u, gpu)) \/ Stop(q, u)
  \/ HubStart(q) \/ RecordLaunch(q) \/ RecordRefused(q)
  \/ HubStop(q) \/ FindStopped(q) \/ CloseStopped(q)
  \/ Promote(q) \/ RecordPromotion(q)
  \/ UpdateRefused(q)
  \/ RequestLost(q)

BoostStep(d) ==
  \/ \E u \in Users, gpus \in 1..MaxGpus : RequestBoost(d, u, gpus)
  \/ \E b \in DOMAIN boosts : (\E gpus \in 1..MaxGpus : ApproveBoost(d, b, gpus)) \/ DenyBoost(d, b)
  \/ RecordRequest(d) \/ RecordDecision(d)
  \/ DeskRefused(d) \/ DeskLost(d)

NodeStep ==
  \E h \in Hosts : \/ Register(h) \/ Heartbeat(h) \/ HeartbeatLapses(h)
                   \/ Drain(h) \/ Activate(h)

AccountStep ==
  \/ \E u \in Users : \/ Logout(u) \/ CullIdle(u) \/ Suspend(u) \/ LoseApproval(u)
                      \/ Reinstate(u) \/ DeleteUser(u) \/ SpendQuota(u) \/ SetQuota(u)
  \/ SetMaintenance

Next ==
  \/ \E q \in Reqs : RequestStep(q)
  \/ \E d \in Desks : BoostStep(d)
  \/ NodeStep
  \/ AccountStep

Spec == Init /\ [][Next]_vars

-----------------------------------------------------------------------------
(* What holds however requests interleave. *)

\* No grant is lost to a launch that failed, raced or was rolled back: one that is
\* marked consumed has a run; and a run has a grant of its user that was decided,
\* whatever overlapping decisions have written over it since (notebooks.py:147).
GrantsTraced ==
  \A b \in DOMAIN boosts :
    /\ boosts[b].status = "consumed" => \E i \in DOMAIN runs : runs[i].boost = b
    /\ \A i \in DOMAIN runs : runs[i].boost = b =>
         /\ runs[i].user = boosts[b].user
         /\ boosts[b].status # "pending"

\* A user who was placed as a sharer and no longer waits was told that a node
\* is free: nobody loses the place in the queue silently (scheduler.py:136-153).
PromotedWasTold ==
  \A i \in ActiveRuns :
    runs[i].mode = "shared" /\ ~runs[i].shared => Notify(runs[i].user, "freed", i) \in notes

\* Nobody overtakes in the queue: a run that leaves it without ending waited longest,
\* though it was chosen before the commit and the queue has changed meanwhile
\* (scheduler.py:147).
QueueInOrder ==
  [][\A i \in ActiveRuns :
       runs[i].shared /\ runs'[i].status = "active" /\ ~runs'[i].shared =>
         \A j \in Waiting : i =< j]_vars

\* "Mark it no longer queued so we don't spam" (scheduler.py:149): requests that have
\* chosen the same run all tell its user, but there are no more of them than overlap.
ToldByFew == \A i \in DOMAIN runs : runs[i].told =< Cardinality(Reqs)

\* A <= N: a launch is made to share only when the other active runs are at
\* least as many as the nodes it could use, or one of them is a boost, which
\* may hold several nodes (scheduler.py:6-13).
SharesOnlyWhenFull ==
  [][\A q \in Reqs :
       req[q] = Idle /\ req'[q].pc = "starting" /\ req'[q].plan.shared =>
         LET others == OthersRuns(req'[q].user)
             nodes  == OnlineNodes(req'[q].plan.gpus > 0)
         IN  \/ Cardinality(nodes) =< Cardinality(others)
             \/ \E i \in others : runs[i].mode = "boost"]_vars

\* Launches that overlap may all have found the same node free, and nobody looks
\* again before the commit; but no more users are given a whole node at the same
\* time than requests overlap (scheduler.py:6-8, notebooks.py:105).
WholeTo(h) == {runs[i].user : i \in {j \in ActiveRuns : /\ runs[j].mode = "exclusive"
                                                       /\ runs[j].host = h}}

WholeNodeOfFew == \A h \in Hosts : Cardinality(WholeTo(h)) =< Cardinality(Reqs)

Sessions(b) == Cardinality({i \in DOMAIN runs : runs[i].boost = b})

\* What is left of "good for exactly one session" (models.py:152): launches that overlap
\* may all have read a grant, and an approval that was overtaken by another one, and by
\* a launch, makes the grant good once more when it commits.
GrantUsesBounded ==
  \A b \in DOMAIN boosts : Sessions(b) =< Cardinality(Reqs) * Cardinality(Desks)

-----------------------------------------------------------------------------
(* What holds when launches and stops come one at a time, and is lost when *)
(* two of them overlap; and, where it is about grants, when requests for   *)
(* boosts and decisions come one at a time, too.                           *)

\* "Close out any previous run of this user before re-placing them"
\* (notebooks.py:97).
OneActiveRun == \A u \in Users : Cardinality(ActiveRunsOf(u)) =< 1

\* A grant is marked consumed exactly when a run was recorded for it: no launch takes
\* one away, and no decision reopens one (notebooks.py:147, admin.py:451).
ConsumedGrantHasRun ==
  \A b \in DOMAIN boosts :
    /\ boosts[b].status = "consumed" => \E i \in DOMAIN runs : runs[i].boost = b
    /\ \A i \in DOMAIN runs : runs[i].boost = b =>
         boosts[b].status = IF runs[i].status = "deleted" THEN "deleted" ELSE "consumed"

\* A boosted run spans no more GPU nodes than the admin granted, though the
\* grant was read before the Hub was awaited (scheduler.py:96-104).
BoostWithinGrant ==
  \A i \in DOMAIN runs :
    runs[i].boost # 0 => /\ Cardinality(runs[i].span) =< boosts[runs[i].boost].gpus
                         /\ runs[i].gpus \in 1..boosts[runs[i].boost].gpus

\* A run that was given a whole node found nobody there: neither a notebook
\* nor a peer of a boosted job (scheduler.py:6-8, 69-79).
WholeNodeWasFree ==
  \A i, j \in ActiveRuns :
    /\ j < i /\ runs[i].mode = "exclusive" /\ runs[i].host # NoHost
    => runs[i].host \notin Footprint(runs[j])

\* Whoever was on the host a sharer was put on has been told (scheduler.py:11-12).
SharersTold ==
  \A i, j \in ActiveRuns :
    /\ j < i /\ runs[i].mode = "shared" /\ runs[j].host = runs[i].host
    => Notify(runs[j].user, "sharing", i) \in notes

-----------------------------------------------------------------------------
(* The promise of a boost, as BoostGrants states it. *)

Grants == INSTANCE BoostGrants WITH
  grants <- [b \in DOMAIN boosts |->
              [user |-> boosts[b].user, status |-> boosts[b].status, sessions |-> Sessions(b)]]

\* Requests one at a time implement it: every step of the gateway asks for,
\* decides, uses up or forgets a grant as promised, or leaves the grants alone.
GrantsAsPromised == Grants!Spec

\* Deleting an account is final: no request that was in flight leaves a run, a
\* live boost or a message behind for it (models.py:158, 180, 200; admin.py:275).
DeletedLeavesNothing ==
  \A u \in Users : account[u] = "deleted" =>
    /\ ActiveRunsOf(u) = {}
    /\ \A b \in DOMAIN boosts : boosts[b].user = u => boosts[b].status = "deleted"
    /\ \A n \in notes : n.to # u

-----------------------------------------------------------------------------
(* What the above rests on, so that every action preserves it. *)

\* What a request carries stays meaningful: the run a launch means to close is a run of
\* the same user, the notebooks it will warn are rows, and a grant it read is the user's
\* and decided; what a stop closes or an update promotes is a row, and no run that
\* still waits has waited longer (notebooks.py:78-121, 186, scheduler.py:147).
Meaningful(r) ==
  /\ r \in Launching =>
       /\ r.old # 0 => r.old \in DOMAIN runs /\ runs[r.old].user = r.user
       /\ r.plan.colocated \subseteq DOMAIN runs
       /\ r.plan.mode = "shared" => r.plan.shared
       /\ r.plan.mode # "boost" => r.plan.span = {}
       /\ r.boost # 0 => /\ r.boost \in DOMAIN boosts
                         /\ boosts[r.boost].user = r.user
                         /\ boosts[r.boost].status # "pending"
  /\ r \in Updating =>
       /\ r.run \in DOMAIN runs
       /\ r.pc = "telling" => \A i \in Waiting : r.run =< i

PlansStayMeaningful == \A q \in Reqs : Meaningful(req[q])

\* What is about to be decided, or to expire, is a row (admin.py:447, notebooks.py:301).
ErrandsStayMeaningful ==
  \A d \in Desks :
    /\ desk[d] \in Asking => \A b \in desk[d].pending : b \in DOMAIN boosts
                                                      /\ boosts[b].user = desk[d].user
    /\ desk[d] \in Deciding => desk[d].boost \in DOMAIN boosts

\* Rows are deleted exactly with their user.
DeletedWithUser ==
  /\ \A i \in DOMAIN runs : runs[i].status = "deleted" <=> account[runs[i].user] = "deleted"
  /\ \A b \in DOMAIN boosts :
       boosts[b].status = "deleted" <=> account[boosts[b].user] = "deleted"

\* Only a boosted run has peers.
OnlyBoostsSpread == \A i \in DOMAIN runs : runs[i].mode # "boost" => runs[i].span = {}

RunsKnowTheirBoost ==
  \A i \in DOMAIN runs : runs[i].boost # 0 => runs[i].boost \in DOMAIN boosts

IInv ==
  /\ TypeOK
  /\ PlansStayMeaningful
  /\ ErrandsStayMeaningful
  /\ DeletedWithUser
  /\ OnlyBoostsSpread
  /\ RunsKnowTheirBoost
  /\ GrantsTraced
  /\ PromotedWasTold
  /\ DeletedLeavesNothing

\* With one errand at a time nothing is decided behind the back of a decision, so what
\* it read still holds.
ReadingHolds(e) ==
  /\ e \in Asking =>
       \A b \in DOMAIN boosts : boosts[b].user = e.user =>
         \/ boosts[b].status = "pending" <=> b \in e.pending
         \/ boosts[b].status = "deleted"
  /\ e \in Deciding => boosts[e.boost].status \in {"pending", "deleted"}

\* And a grant that a launch has read can only have been consumed or deleted since, and
\* still covers the launch's plan.
StillGranted(r) ==
  r \in Launching /\ r.boost # 0 =>
    /\ boosts[r.boost].status \in {"approved", "consumed", "deleted"}
    /\ Cardinality(r.plan.span) =< boosts[r.boost].gpus
    /\ r.plan.gpus \in 1..boosts[r.boost].gpus

ReadingsHold == /\ \A d \in Desks : ReadingHolds(desk[d])
                /\ \A q \in Reqs : StillGranted(req[q])

GrantInv == ReadingsHold /\ ConsumedGrantHasRun /\ BoostWithinGrant
=============================================================================
