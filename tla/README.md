# SATYAMEBA in TLA+

SATYAMEBA is a GPU notebook cloud: a FastAPI **gateway** (two or more replicas,
each with a thread pool for `def` handlers and an event loop for `async` ones)
over one **Postgres** at READ COMMITTED, an optional **Redis**, an external
**JupyterHub** that starts the notebooks on a **Docker Swarm**, **worker nodes**
that register and send heartbeats, a **browser client**, and host-side **shell
agents** (owner watchdog, encrypted-storage mounts).

The gateway has no locks of its own and its rows carry no versions. What makes it
hard is what lies between a read and the write that relies on it: an `await` of
the Hub, a commit, another thread or another replica. This project models the
notebook control plane, the accounts and what guards them, the store behind the
HTTP limits, the start of the replicas, the audit log and the set-up wizard; the
inventory, what is left out and the plan are below. Source paths are relative to
the repository, those without a directory to `gateway/app/` or
`gateway/app/routers/`.

## 1. Inventory

| Part | Source | State | Operations | What makes it correct |
|---|---|---|---|---|
| Placement policy | `scheduler.py` | none: reads nodes and runs | `plan_placement`, `on_run_stopped`, `gpu_hours_used` | a whole node for everybody while there is one; sharing only when full; the queue is served in order |
| Notebook lifecycle | `notebooks.py`, `hub.py` | `notebook_runs`, `notifications` | launch, stop | one active run per user, the table says where servers are, neighbours are told |
| GPU boosts | `notebooks.py`, `admin.py` | `gpu_boost_requests` | request, approve, deny, (use at launch) | one decision, one session, no more nodes than granted |
| Node table | `nodes.py`, `admin.py` | `nodes` | register, heartbeat, drain, activate | a draining or silent node gets no launches |
| Accounts | `admin.py` | `users` and what cascades from it | approve, reject, suspend, reinstate, delete, quota, expiry, roles | nothing outlives a deleted account; suspension is immediate |
| JupyterHub (external) | `jupyterhub_config.py`, `satyameba_authenticator.py` | one server per user | start, delete, idle culler | honours the pin |
| Audit log | `audit.py`, `maintenance.py` | `audit_logs` | record, verify, prune | an untouched log verifies |
| Sessions | `auth.py`, `deps.py`, `security.py` | `user_sessions`, counters in `users` | login, refresh, logout, password, 2FA | revocation, lock-out, rotation |
| One-time tokens, invites | `internal.py`, `auth.py` | `sso_tokens`, `invite_codes` | issue, redeem, sweep | used at most as often as allowed |
| Signing, rate limits | `middleware/`, `ratestore.py` | Redis or in-process tables | allow, seen_nonce | limits and freshness across replicas |
| Start-up | `main.py`, `migrate.py`, `kv.py` | schema version, settings, first account | lifespan of each replica | replicas may start together |
| Set-up wizard | `setup/satyameba_setup.py` | the dependencies' status, a message queue, the buttons | check, install, other jobs, draining the queue | the table tells the truth, buttons come back, one pass installs all |
| Browser client | `frontend/src/api.js`, `app.js` | tokens, timers | request with one refresh, polling | a page stays logged in |
| Owner watchdog | `owner-setup/watchdog.sh`, `lib_crypto.sh` | mark file, stack, keys | tick, seal, wipe | no wipe for a short outage, escalation for a long one |
| Encrypted storage | `setup/satyameba-cryptagent.sh`, `cryptmount.sh` | mounts | all-up, ensure, down | a container finds its view mounted |

How they interact: the browser calls the gateway; every handler goes through
`deps.get_current_session` (approved accounts with a live session only); launch,
stop, logout, suspend and delete call the Hub over HTTP; the Hub calls back to
redeem the SSO token; nodes call register and heartbeat; the Hub's culler ends
servers and tells nobody; the maintenance loop of each replica sweeps the
database. Every one of them writes audit rows.

Hard behaviour, each at its line in `PROJECT.json` under `hazards`: launches that
overlap with launches, stops, decisions, deletions and node changes; decisions on a
boost that overlap with each other; a replica or the Hub failing between what the Hub
did and what the table says; promotion two transactions after the host was freed;
overlapping audit rows; lost updates of
counters; rotation, suspension and recovery of sessions that are being used;
Redis outages and late answers; replicas that start together and die at it.

## 2. What is modelled

| Module | Lines of code it stands for |
|---|---|
| `Placement` | `scheduler.py:35-116`, the policy as a set of possible answers |
| `Notebooks` | `notebooks.py:53-160, 179-192, 295-313`, `scheduler.py:47-66, 119-152`, `hub.py:33-49`, the node, boost and account handlers of `nodes.py`, `admin.py`, `auth.py`, `deps.py:31-67` |
| `BoostGrants` | what a boost promises, `models.py:141-169`; `Notebooks` refines it |
| `NotebooksProofs` | lemmas about tables as sequences; the proofs about `Notebooks`, for overlapping requests and for one at a time |
| `AuditChain`, `AuditProofs` | `audit.py:37-81`, `maintenance.py:36-45`; proofs |
| `Orm` | what a commit of the ORM writes: the columns that changed |
| `Accounts`, `AccountsProofs` | `auth.py:66-250`, `deps.py:31-81`, the account handlers of `admin.py:82-383, 630-646`, `maintenance.py:31-35` |
| `LoginGuard`, `LoginGuardProofs` | `auth.py:53-63, 163-184, 256-300`, `admin.py:232-272` |
| `OneTimeGrants`, `OneTimeGrantsProofs` | `internal.py:23-47`, `satyameba_authenticator.py:38-81`, `auth.py:108-131`, `notebooks.py:162-167`, `maintenance.py:23-30` |
| `RateStore`, `RateStoreProofs` | `ratestore.py:24-104`, `middleware/request_signing.py:67-136`, `middleware/rate_limit.py:20-32` |
| `Startup`, `StartupProofs` | `main.py:44-158`, `migrate.py:65-91`, the two revisions, `security.py:59-69`; proofs |
| `Wizard`, `WizardProofs` | `setup/satyameba_setup.py` |
| `MC...` | the instances of the above for TLC |

`Notebooks` EXTENDS `Placement` and instantiates `BoostGrants` under a refinement
mapping. `Accounts`, `LoginGuard` and `OneTimeGrants` EXTEND `Orm`: they look at
different columns of the same rows and share the two steps of a handler, a read
and a commit. `Accounts` takes from `LoginGuard` that a login may be refused, and
from `OneTimeGrants` that a registration may come with an invite; `Notebooks` takes
from `Accounts` that only approved accounts make requests.

### Notebooks

The tables are sequences (`runs`, `boosts`) in the order of their time stamps or,
for nodes, a function of the host. A deleted row keeps its place with the status
`deleted`, so that row numbers can stand for ids. `server` is the Hub's side.
`req[q]` is what one launch or stop in flight holds in its local variables, and
`desk[d]` what a boost request or an admin's decision does.

A handler is split where it awaits, where it commits, and between what it read and the
commit of what it decided on it:

| Step | Code |
|---|---|
| `Launch` | `notebooks.py:61-121`: guards, boost, quota, the run to close, the plan |
| `HubStart` | `123-130`: ensure_user, start_server; a refusal is not seen |
| `RecordLaunch` / `RecordRefused` | `132-155`: one transaction, or a foreign key that fails |
| `Stop`, `HubStop` | `180-181` |
| `FindStopped` / `CloseStopped` | `182-186` / the commit at `187` |
| `Promote` / `RecordPromotion` | `157-159`, `188-189`, `scheduler.py:136-148` / `149-152` and the commits of `160`, `190` |
| `UpdateRefused` | the run of a stop or a promotion went with its user before the commit |
| `RequestLost` | the Hub's API raises or the replica dies, at any of these points |
| `RequestBoost` / `RecordRequest` | `301-308`: the pending rows are read / the commit at `309`: they expire, the new one is inserted |
| `ApproveBoost`, `DenyBoost` / `RecordDecision` | `admin.py:447-459, 470-480`: the row is read, a decided one is a 409 / the commits at `460`, `481`: the UPDATE and the note |
| `DeskRefused`, `DeskLost` | the user is gone by the commit; the replica dies before it |

No row has a version and nothing is locked. A commit is an UPDATE by primary key with
the values decided on before, whatever the row has become: a late approval reopens a
consumed grant, a late denial or expiry writes over it, two promotions of one run both
succeed, and a promotion may be to a host that somebody took meanwhile. A column the
handler set to the value it had read is left out of the UPDATE (the number of GPUs of
an approval that does not change it). An UPDATE that finds no row fails the transaction.
`told`, how often the user of a run was told of a free host, is history.

Every other handler is one action. Queries without ORDER BY may return rows in any
order, so `_active_run(...).first()`, "the first empty node" and "the least loaded
node" are any of the possible answers: an operator of `Placement` is the SET of
plans, and `Launch` picks one.

Abstractions, all of them named in the modules:

* Before the first await a launch runs on the event loop without giving up control;
  the several SELECTs of that phase are taken as one read of the database, though
  another replica might commit between two of them.
* suspend and delete commit and tear the server down in one step; drain, activate,
  quota and maintenance mode write what they were told to, whatever was there.
* `reject` and the expiry of an account have the same effect here (`LoseApproval`),
  `approve` and `reinstate` have (`Reinstate`).
* A host's GPU label is fixed (`GpuHosts`). `NodeStatus.offline` is never
  committed: `admin.py:395` sets it on rows of a request that does not commit.
* GPU-hours are a flag per user: spent or not; `SpendQuota` may raise it while a
  GPU run is active, `SetQuota` may set it either way.
* The SSO token and the audit row at the end of a handler, texts, rdzv.

### AuditChain

`record` reads the newest committed row (`Begin`), inserts its own, taking an id
from the sequence (`Insert`), then hashes and commits (`Commit`), or is lost
(`Abort`), and any number of calls interleave. A hash is the sequence of
everything hashed into it, which is what sha256 without collisions amounts to, and
a row's id stands for its content. `Prune` removes the oldest rows, as the
retention does. The owner's actions record nothing, so `Begin` is somebody else's.

### Accounts, LoginGuard, OneTimeGrants

A handler reads its rows and decides (`Login`, `Suspend`, `BulkStatus` and so on, which
put into `req[q]` the columns to write and the sessions to revoke), and commits
later (`CommitWrite`, `CommitRotation`, `CommitOpen`, `CommitDelete`; `Commit`;
`MarkUsed`, `CommitRegister`), or is lost. `Orm` says what a commit writes: the
columns whose value the handler changed, of the row it had read, whatever the
row has become. `refresh` has two commits, and `redeem_ott` looks at the account
after its own. A row that is gone by then fails the commit (`Writable`).

What was a session's login, whether it missed a revocation, who chose a password,
whether a code was shown, how many attempts failed, are history: variables that no
guard reads. Where two requests of one account overlap and the documentation does not
say who wins, history says so and the property asks nothing of it: `LoginGuard`'s
`proof` is "contested", and in `Accounts` a password is "temporary" only while it is
surely the one an admin relayed, and a session has a `chain`, the name of the login it
descends from, only while nothing overlapped its refreshes. `Logins` are the names
there are; a login takes one that nobody has, or goes unfollowed.

Left out of `Accounts`: the calls to the Hub, e-mail, tags, the quota, and
`require_admin_2fa` (off unless configured). Tokens are taken for what they are
bound to, a session; a session may expire at any time.

### RateStore

Seconds are counted; a call of the store takes none of them. Per replica there is
the connection, the second of the next attempt, and the memory; in Redis the
nonces with the second their keys expire, and the counters. A call is answered,
refused (`Dropped`), not made (`BackedOff`), or carried out and not answered in
time (`Unanswered`). Redis keeps nothing on disk (`docker-compose.yml:40`), so a
restart forgets; so does a replica's; and `Evict` stands for the limit of 100 000.
A memory's hits, a deque of times in the code, are counted by second; `Recent` is what
the purge leaves of them.
Signatures are good, and one client is enough, because keys do not share anything.

### Startup

A replica's program counter goes through the lifespan of `main.py`, and a database
is the set of objects it has and the version it claims; an object is a table, the columns
a revision adds to `users`, or the type `userrole`. An upgrade and a
`create_all` are one transaction each, the stamp is another. Both revisions create the
type (`0001:77`, `0002:25`), which Alembic does once when they run together and which
PostgreSQL refuses when the type is there: then the upgrade of the replica fails
(`failed`). The INSERT of the first admin names the columns of the model; on a
database where they are missing it raises an error that the lifespan does not catch
(`unseeded`; `main.py:145` catches the unique constraint only). Either way Docker
starts the replica again. The advisory lock
belongs to a connection, so a crash or a failure gives it back. The secrets are any
combination of algorithm, keys and defaults. The values `_ensure_role_enum` adds, the
audit row of the bootstrap and SQLite (one process) are left out.

### Wizard

The Tk thread (`Press`, `Toggle`, `Drain`) and the thread of a job share a queue of
messages and the list of dependencies; `todo` is the set of positions in the list that
the job has not come to, and `First` the next. `Needs` and `Brings` say what the install
commands do to the host (gnupg, curl and the certificates come before docker in the list
because its steps need them); a command fails when what it needs is absent, or for
outside reasons (`faults`), before or after it did its work. apt's index of packages is no
part of the host: only some steps run `apt-get update`, and a step that fails because the
index is missing or old is a command that fails for an outside reason. The log, the progress
bar, and the scripts that other jobs call are left out, and so is closing the
window.

## 3. What the runs check

Run with `tlc -config X.cfg MCY`, where Y is the module of the run. An errand is a boost
request or an admin's decision on one.

| Run | Instance | Question |
|---|---|---|
| `Notebooks_serial` | 3 users, 2 GPU hosts of which one comes and goes, 3 runs, 1 boost, **one launch or stop and one errand at a time** | `OneActiveRun`, `WholeNodeWasFree`, `SharersTold`, `BoostWithinGrant`, `ToldByFew`, `SharesOnlyWhenFull`, `QueueInOrder`; `GrantsAsPromised`: the grants implement `BoostGrants` |
| `Notebooks_overlap` | 3 users, one of whom is managed, 2 hosts, 3 runs, **two launches or stops in flight** | `PromotedWasTold`, `WholeNodeOfFew`, `DeletedLeavesNothing` under overlap |
| `Notebooks_operations` | 1 user, 1 host, 2 boosts, **two errands in flight** beside a launch; suspensions, deletion, quota, maintenance, logouts and the culler, outages | `TypeOK`, the inductive invariant `IInv`, `GrantUsesBounded` |
| `Audit_serial` | 1 writer, 6 ids, failures, retention | `NoFalseAlarm` |
| `Audit_concurrent` | 3 writers, 5 ids, failures | `RowsExtendCommittedRows` |
| `Accounts` | the owner and one account, 2 sessions and the owner's, 2 requests, 1 login that is followed | `OwnerKept`, `OutdatedIsRevoked`, `OneLiveSessionPerLogin`, `TemporaryMustChange`, `SessionsHaveUsers` |
| `LoginGuard` | 3 requests, lock after 3 failures | `FailuresLock`, `ConfirmedTotp` |
| `OneTimeGrants` | 3 requests, an invite for 3 | `TokenBounded`, `InviteBounded`, `InviteUsedUp` |
| `RateStore` | 2 replicas, limit 1, windows of 2 s, 3 s, one restart | `PassedBounded`, `GrantedBounded` |
| `Startup` | 2 replicas, 5 databases, all 64 settings, one crash | `SchemaServed`, `OnlyOldSchemasFail`, `LockedWhileMigrating`, `PrintedIsOwners`, `SignsAsItVerifies`, and that `EveryReplicaServes` |
| `Wizard` | hosts without any part of docker, compose, driver, toolkit; one fault | `PressFindsTheTableSettled`, `PresentIsOnTheHost`, `OnePassInstalls`, `ButtonsAreOwed`, `JobsWindDown`, and that `ButtonsComeBack` |
| `Claim_AdoptedIsAtHead` | as `Startup` | expected to fail, see below |

The properties fall into three groups.

* Some hold however requests interleave and whatever fails (`PromotedWasTold`,
  `QueueInOrder`, `SharesOnlyWhenFull`, `DeletedLeavesNothing`, `GrantsTraced` within
  `IInv`, and most of the other modules').
* Others hold as long as things come one at a time and are lost when two overlap:
  launches and stops for `OneActiveRun`, `WholeNodeWasFree` and `SharersTold`, errands for
  `BoostWithinGrant`, both for `GrantsAsPromised`, audit rows for `NoFalseAlarm`.
* And where the code loses updates or acts on what it read before, the property is the
  bound that is left. With n requests (and d errands) in flight, a node is whole to at
  most n users at once (`WholeNodeOfFew`), a user is told of a free host at most n times
  for one run (`ToldByFew`), a grant serves at most n * d sessions (`GrantUsesBounded`:
  the n launches that had read it, once more for each of the d - 1 other approvals that
  had read it pending); an account locks after at most C(MAX_FAILED + n - 1, n) failures and
  an invite for m admits at most C(m + n - 1, n) + n - 1, which is MAX_FAILED and m for
  n = 1. A stale count written back by the slowest request makes these two binomial rather
  than linear.

`OutdatedIsRevoked`, `TemporaryMustChange` and `ConfirmedTotp` speak only of requests that
no other request of the account overlapped (`alone` in `Accounts`, "contested" in
`LoginGuard`). Where one does, the code does not keep them: a login that has read the
account before a suspension or a change of password opens its session after the sessions
were revoked; a change of one's own password and a reset by an admin that overlap can
leave the relayed password without its flag; and two enrolments that overlap can confirm
the code of one secret and keep the other. No sentence of the repository says which of
the two should win, so no property does.

`Notebooks_operations` keeps the inductive invariant of the notebooks, `IInv`. Those of the
other modules are not runs of their own: the proofs establish them for every instance,
and the runs check what follows from them. `SharesOnlyWhenFull`, `QueueInOrder` and
`ToldByFew` are checked in the serial run, with boosts, drains and lapses; that overlap
does not break them is a theorem.

**Bounds.** Two hosts and three users is the least with which the cluster can be
quiet, full and overfull; a boost of two nodes spans it all; three rows let
them all run at once, or one of them relaunch; `MaxRows` bounds the rows of both tables
together, and counts those that are about to be inserted. Two requests in flight are
enough for every race of one step against another, three for a lost update of a lost
update or a fork of a fork. Two errands are enough for an approval that is overtaken by
another one and by a launch, and three runs and two boosts show what it leads to.
The constants `Unsteady`, `Limited`, `Managed`, `Leaving`, `Outages`, `Maintained` switch
groups of actions on, so that no run pays for all of them; between them the passing runs
take every action. In `Accounts` the one
account may be user, admin or absent, and the owner is the admin who acts on
it; two sessions are a session and its successor, and one name of a login is enough,
since the property is about sessions of the same login and any login may be the one
that is followed. The wizard's list is the real one; of the nine dependencies those
four are the ones that depend on each other or cannot be installed in a pass, and
`WizardProofs` has no such bound. `RateStore` runs long
enough for a nonce to outlive its window and for two windows of the limiter to
meet. Symmetry permutes users, requests, replicas and hosts only where no constant
tells them apart. Runs whose bounded supply runs out (audit ids, seconds, crashes)
or whose replicas all serve do not check for deadlock; the notebook runs and the
wizard do.

**Fairness.** Two modules claim liveness. `Startup`: weak fairness of each replica's
next step, because its process and PostgreSQL are scheduled and Docker restarts
it (`restart: unless-stopped`); a crash is never fair, and there are finitely many.
The wait for the lock then ends because every holder gives it back. `EveryReplicaServes` is
claimed of a database that is `Startable`: on the two others no start succeeds, see below.
`Wizard`: weak fairness of `Drain`, which Tk calls every 100 ms, and of the job's
thread, whose commands are assumed to end. The gateway's handlers get none: a step
that waits for the Hub can fail and is not retried, so nothing must follow.

### Where the code and its documentation part

`Claim_AdoptedIsAtHead` checks a sentence of `migrate.py:6-8`: an old database gets
"any genuinely-missing tables" and is stamped at head "so Alembic takes ownership
going forward". `create_all` alters no table, so a database with the baseline's
`users` is declared current without the columns that revision 0002 adds to it.

Sentences that two overlapping requests, or a sequence of operations, break; the
modules show each of them as a counterexample when their properties are checked
with `Reqs = {q1, q2}` and the groups of actions named:

* `scheduler.py:6-8` "every active user gets a whole node to themselves": two
  launches plan before either is recorded (`WholeNodeWasFree`).
* `models.py:152` "good for exactly one session": two launches of one user have both
  read the boost; or, with one launch at a time, two approvals have both read the
  request as pending, and the second commits after a launch has consumed the grant,
  which makes it approved once more. A denial, or the expiry by the user's next request,
  that had read it pending writes over a consumed grant in the same way
  (`GrantsAsPromised` with `Desks = {d1, d2}`). And a second approval with fewer GPUs leaves
  a run that spans more than was granted (`BoostWithinGrant`).
* `scheduler.py:149` "Mark it no longer queued so we don't spam": two requests that
  stop or move runs at the same time both promote the run that has waited longest, and
  tell its user twice; or of a host that a launch has taken meanwhile.
* `models.py:173-175` "we know exactly how loaded each node is": logout, suspension
  and the culler end servers, not runs.
* `nodes.py:81-82` "until an admin explicitly re-activates it": `register` puts a
  draining node online.
* `audit.py:3-5` "every row commits the hash of the one before it": overlapping
  calls extend the same row (`NoFalseAlarm` with two writers).

* `notebooks.py:97` closes "any previous run of this user", but two overlapping
  launches see none and leave two active ones (`OneActiveRun` with two requests).
* `hub.py:43` ignores the Hub's refusal to start a second server, so a relaunch is
  recorded on a host its server is not on.
* `scheduler.py:11-12` promises a notice to "the users already on that node"; the
  owner of a boosted job that has the node as a peer gets none (line 114).
* A boosted job that ends frees all its hosts; only the first is offered to the
  queue (`notebooks.py:103, 186`), which may then stay on an empty cluster.
* With no free node a boost is put on an occupied one (`scheduler.py:100`), which
  `jupyterhub_config.py:100` does not expect.
* The host offered to the queue may be draining or dead: `on_run_stopped` looks
  at runs, not at nodes.
* `config.py:46` gives a session seven days, but the refresh token is made with the
  lifetime of an access token (`security.py:82`).
* `admin.py:633` "expired users are auto-suspended at login": it is the first request
  after the login that does it (`deps.py:56`), and it revokes no session.
* `migrate.py:9` "`upgrade head` applies only what's pending": on PostgreSQL
  a database at version 1 cannot be upgraded. The table that revision 0002 creates at line
  25 comes with the type `userrole`, which revision 0001 has created at line 77; the
  replica fails at every start (`failed` in `Startup`).
* An adopted database without an admin never gets one: the INSERT of
  `_ensure_bootstrap_admin` names columns adoption did not add, which raises another
  error than the one it catches, and every start fails there (`unseeded`).
* `config.py:58` "printed once to logs": `migrations/env.py:26` calls `fileConfig`, which
  disables the loggers there are, the gateway's among them, so a password made after
  `run_migrations` is not printed at all; and it would not be if the replica died between
  the commit and the log (`main.py:144-152`).
* `hub.py:29` only ever raises an account to Hub admin; a demotion stays in the gateway.

## 4. What is proved

The modules whose name ends in `Proofs`. Their theorems hold for any constants that
satisfy the named assumptions (`HostsAssumption`: the hosts are finitely many and "" is
none of them; `NotebooksAssumption`, `AuditAssumption`: the bounds have their types;
`AccountsAssumption`: the owner is a user, and the owner's session is counted apart;
`LoginGuardAssumption`, `OneTimeGrantsAssumption`: requests are finitely many, the limits
are at least one; `RateStoreAssumption`: replicas are finitely many, the durations
positive; `StartupAssumption`: None is no replica, databases and settings are among those
the code can meet; `WizardAssumption`: what may be absent is on the list). A theorem
about one request at a time says so in its statement, `ASSUME NEW c, Reqs = {c}`, and
nothing else: drains, deletions, failures, expiry and the sweep go on around
that one request, and so do decisions on boosts, any number of them at once; one about
one errand at a time says `Desks = {d}`. Three theorems bound what overlapping requests do
by their number: `WholeNodesOfFew` and `QueueSpamsFew` say `ASSUME IsFiniteSet(Reqs)`,
`GrantsServeFew` says it of `Desks`, too.

The method is the same everywhere. A handler reads, waits and writes, so no property is
inductive as it stands: the invariant has to say what a request in flight carries, and
why that is still good when it is written. One lemma per action, or per group of actions
that leave the same state alone, then the theorem.

Notebooks, however requests and errands interleave:

* `Invariant`: `Spec => []IInv`. A commit writes what was decided on a row that may have
  changed since, so `IInv` says what is left of it in any case. `PlansStayMeaningful`: the
  run a launch will close is the user's, the notebooks it will warn are rows, its grant is
  the user's and was decided; no run that waits has waited longer
  than the one about to be promoted. `ErrandsStayMeaningful`: what is about to be decided
  or to expire is a row, of that user. Then `DeletedWithUser` (rows are deleted exactly
  with their user), `OnlyBoostsSpread`, `RunsKnowTheirBoost` and `GrantsTraced`, what is
  left of the accounts when decisions overlap: a consumed grant has a run, and a run has a
  grant of its user that somebody decided.
* From it: `TypeCorrect`, `GrantsTraceable`, `PromotionsTold`, `DeletionIsFinal`.
* `SharingIsLastResort`: `Spec => SharesOnlyWhenFull`. A pigeonhole argument,
  `FewRunsLeaveANodeFree`: runs without peers that are fewer than the nodes leave
  a node with no load, and the policy shares only when there is none. It uses
  `OnlyBoostsSpread` of the invariant.
* `QueueKept`: `Spec => QueueInOrder`. Only a promotion's commit takes a run out of the
  queue without ending it (`OnlyPromotionUnshares`). It was chosen before, and it still is
  the first there because the queue is joined only at its end: that is the last conjunct
  of `PlansStayMeaningful`, which every launch, stop, deletion and other promotion keeps.
* `EveryLaunchIsPlanned`: the policy has an answer for whatever it is shown
  (`PolicyAnswers`): some node is least loaded (`SomeIsLeastLoaded`), and some free nodes
  are as many as the grant covers, or all of them (`SomeFillTheGrant`). Without it the
  theorems about plans could be true of launches that never get one.

Notebooks, any finite number of overlapping requests, the bounds that are left when
"one" is lost:

* `WholeNodesOfFew`: `Spec => []WholeNodeOfFew`. Not inductive, because a launch in
  flight carries a promise it made when the node was free. So the users who have a node
  whole are counted with those who will (`Holders`). A launch is planned onto a node only
  if nobody has it, so then every holder is a request in flight, and there are no more of
  them than requests (`ImageIsFew`); the commit turns a promise into a holder that was
  counted; nothing else adds one (`FewerHolders`, `StepHolders`).
* `QueueSpamsFew`: `Spec => []ToldByFew`. The same count, of the times a user was told and
  the promotions that are about to tell him (`Tellers`): nobody in the queue has been told,
  a promotion chooses only from the queue, and its commit exchanges a teller for a telling
  (`OneForAnother`, `StepTellers`).
* `GrantsServeFew`: `Spec => []GrantUsesBounded`. The sessions of a grant are counted
  with the launches that carry it (`Carrying`), and n more are set aside for every
  approval that is under way (`Rulings`, `RoomFor`): when it commits the grant is good
  again, for whoever reads it before it is consumed. A pending request has no session
  yet (`PendingIsUnused`), so that at most d approvals ever get as far; a launch's commit
  exchanges a carrier for a session (`RecordLaunchUses`). One lemma for every step of a
  boost or a launch (`GrantStep`). From it, for one request and one errand,
  `GrantsServeOnce`.
* `QuietStepAddsNothing` is the lemma they use for all that is no launch and no commit.

Notebooks, one launch or stop at a time, however many errands:

* `SerialInvariant`: `Spec => []SerialInv`. `StillDecided` is the addition: from the plan
  to the commit, the run to close is the only one of its user, a node taken whole is
  free, and every run on the node of a sharer is among those to
  be told. `NoNewRun` is the lemma for everything that starts no run, `PlacementFits` what
  the policy guarantees of a plan, `RecordLaunchSerial` the commit.
* From it: `OneRunPerUser`, `WholeNodesWereFree`, `SharersAreTold`.

Notebooks, one errand at a time, however many launches and stops:

* `GrantInvariant` (a lemma): `Spec => []GrantInv`. What an errand has read still holds at
  its commit (`ReadingsHold`), because only an errand decides anything; so an approved
  grant can only be used up or deleted (`OnlyUsedUp`), which keeps what the launches have
  read of it and what the runs have of it (`Paid`: the grant is used up, and covers the
  run). `PaidRuns` says that this is all there is to the two properties, `AccountsKept`
  carries it over a step that starts no run, `RecordLaunchPaid` is the one that does.
* From it: `GrantsAccounted` (`ConsumedGrantHasRun`: a grant is consumed exactly when a
  run was recorded for it) and `BoostsBounded`.

Notebooks, one of each at a time:

* `GrantsImplemented`: `Spec => GrantsAsPromised`, the refinement of `BoostGrants`, on top
  of `GrantInv` and `GrantUnspent` (a grant that was not used has no session, and the launch
  that carries one finds it as it was). The initial
  state maps to its initial state; asking, deciding, the use at a launch and a
  deletion map to one step each (`AskImplements`, `DecideImplements`, `UseImplements`,
  `ForgetImplements`), everything else to a stutter (`GrantsStutter`).

The audit log:

* `ForestInvariant`: `Spec => []ForestInv`: a call in flight holds the hash of a prefix
  that was committed and whose rows precede its own id, and ids are never given out
  twice. From it `LogIsForest`.
* `SerialInvariant`, with a single writer: the call in flight holds the hash of the row
  that is still the newest. From it `SerialLogVerifies`.
* `TipCommitsToTheLog`: what the chain is for. Of all tables with any ids, contents and
  hashes, one that verifies and ends in the hash the log ends in has the log's rows in the
  log's order, whenever the verifier accepts the log. A hash determines
  its row and the hash before it (`HashDetermines`), so from equal tips on every row of
  one table is a row of the other: take the last that is not, and the row after it says
  where it is (`RowsOfEqualTips`); the order follows in the same way
  (`OrderOfEqualTips`). Hashes are taken to be free of collisions. The theorem assumes
  that the log verifies, which `SerialLogVerifies` says of one writer as long as
  retention has removed nothing; and the verifier is not shown the last hash, so by itself it does not see
  rows cut off at the end.

Accounts, for any number of users, sessions and requests in flight:

* `Invariant`: `Harmless` says that no request may
  write a role or a status to the owner, grant the owner's role or bring a status back
  to absent or deleted, and none was decided for a user that was not there. With it,
  `OwnerIsKept` and `NoSessionOutlivesItsUser`. A login or a refresh the deletion
  overtook fails on the row that is gone (`Writable`). One lemma for whatever begins
  (`BeginsHarmless`), one for whatever else changes (`NothingNew`).
* `HistoryInvariant`: `StillTrue` says of a request nothing has overlapped since it
  began that the sessions it read are all there are to revoke, that a reset leaves the
  flag set, and that the session it rotates is the only live one of its login; `Modest`,
  what a request never touches even when it is overtaken. From it
  `OutdatedSessionsAreRevoked`, `RotationLeavesOne` and `TemporaryPasswordsMustChange`.

The guard of the login, for any number of requests and any MAX_FAILED:

* `Invariant`: a request that nothing overlapped leaves a confirmed code only beside a
  secret (`Undisturbed`). From it `TotpIsConfirmed`.
* `OverlappingFailuresLock`: `Spec => []FailuresLock`, the bound on attempts under
  overlap, by the argument on lost updates below. `OverlapInv` also says what a request
  may write of the count: a failure that does not lock writes one more than it read, an
  admission starts the counting anew, nothing else touches it. The lemmas are those of
  `OneTimeGrantsProofs`, instantiated; `SameSets` to `SameChoices` say that its
  cardinalities and binomials are the ones used here. From it, for one request at a
  time, `FailuresOneByOneLock`: `tries < MaxFailed`.

One-time grants, for any number of requests and uses:

* `Invariant`: `TokenInv` counts those that found the token
  unused together with those it let in; nobody joins them once it is marked.
  `InviteInv` bounds what a registration in flight will write by who was admitted.
  From it: `TokenIsBounded` and `InviteServesAll`.
* `InviteIsBounded`: `Spec => []InviteBounded`, the bound on admissions under overlap.
  While the count is below `MaxUses` it has been written fewer than
  `choose(MaxUses + n - 1, n)` times; the write that reaches it closes the code, and
  from then on only the other n - 1 requests are on their way in (`Closed`). From it,
  for one request at a time, `InviteOneByOne`: at most `MaxUses`.
* Lost updates: n requests read a count and write its successor, each at its own time.
  `LostUpdates` bounds the writes so far by levels: `s[t]` is what the count can have
  been written while it is t or less, and it exceeds `s[t - 1]` by at most a `Share` that
  grows with the requests that may still write more than t (`Ahead`). A read puts its
  request ahead of every level up to the count, so no share shrinks (`NothingWritten`); a
  write above the count opens a level with room for itself (`WrittenForward`), and the
  levels it skips take nothing; one that takes the count back to v gives up
  the levels above v, and its writer, now ahead of v again, pays for them: that is
  Pascal's rule (`Climb`, `ShareIs`, `WrittenBack`). `WritesAreBounded` adds the levels up.
* The binomials are the community modules' `choose`, a quotient of factorials, and
  `factorial` is a recursive function. `FactorialIs` unfolds it, by induction on a set
  of numbers; `ChoicesExist` shows that the quotients are exact, and `Pascal` follows.

The store, for any replicas, any requests, limit, windows, skew and back-off:

* `Invariant`, of the replay check: a request that may still arrive was let through at
  most once per store that knows it, Redis or a replica's memory, and once per loss; a
  key does not expire and an entry is not purged before the request is out of its window
  (`WhoKnows`); and a memory is empty until Redis has failed once. The bound stays when
  the window is over, because the request no longer arrives. From it
  `ReplaysAreBounded`.
* `LimiterInvariant`: what was granted in the last `Window` seconds is split in what the
  memories hold, at most a limit each (`Held`), and the rest (`Other`): of that, what falls
  into Redis's window is no more than its counter and a limit per loss, and all of it no more
  than that and one limit for the window before. `NextWindow` is why the second part can be
  taken for the first when a window begins: nothing older is still counted. One lemma for
  each thing that happens (`LimitedByRedis`, `LimitedByMemory`, `LimitedByTick`,
  `LimitedByLoss`, `LimitedByForgetting`), about values, not variables; `LimitFollows` adds
  the memories up, in the other order (`SumsSwap`). From it `GrantsAreBounded`.
* The sums are the community modules' `SumFunction`, a fold. What the proofs need of it is
  proved from its definition: `SumIs` unfolds it, `SumOfBoth`, `SumWithMore`,
  `SumIsMonotone` and `SumIsBounded` follow by induction on the subsets of a finite set.
  Induction itself is stated with sets, not predicates (`NumbersInduction`,
  `SubsetsInduction`), and rests on the least element of a set of numbers (`HasLeast`).

Start-up, for any number of replicas:

* `Invariant`: what the holder of the advisory lock has found out
  about the schema is still true when it acts on it (`StepInv`), a version says what is
  in the schema and what the schema lacks is what the database was found without
  (`SchemaInv`), and who is about to log a password made the account (`OwnerInv`). A replica
  that failed says what the database was found as. Two lemmas carry it: a step that leaves the schema alone
  (`SchemaUntouched`), and a change of the schema by the holder of the lock, while
  nobody else knows anything about it (`SchemaChanged`). A crash gives the lock back,
  and with it the knowledge.
* From it: `OldSchemasFail` (no start fails on what another replica did: only a database
  found at version 1 fails its upgrade, and only an adopted one its first admin),
  `ServedSchema`, `PrintedPasswordCounts` and `TokensVerify`.
* `OneReplicaMigrates`: `Spec => []LockedWhileMigrating`. The lock and the replicas'
  places say the same, in both directions: who migrates has it, and whoever has it is
  still migrating, so it is free once the holder is done, has failed or is dead
  (`LockStays`, `LockGivenBack`). The second direction is what `EveryReplicaServes` waits for.

The wizard, for any dependencies that may be missing and any number of faults:

* `WizardInvariant`: a row and the status line say something about the past until the queue is
  empty, so the invariant speaks of what they will say then (`Shows`): each row will
  agree with its status (`RowsWillAgree`), every message under way is true of the host
  (`PresentInv`), the positions a fault-free job has left behind are dealt with
  (`PassInv`), and a line that reports a pass reports a complete one (`LineInv`).
* From it: `PressesFindItSettled`, `PresentIsPresent` and `OnePassIsEnough`.
* `DisabledButtonsAreOwed` and `EveryJobWindsDown`, the two safety halves of
  `ButtonsComeBack`: disabled buttons always have somebody who will enable them, and
  until he does the steps he has left only become fewer. What is missing to
  `ButtonsComeBack` is that steps are taken, which is its fairness.

Only model-checked: the liveness properties `EveryReplicaServes` and `ButtonsComeBack`.
Liveness under fairness, ENABLED and RECURSIVE operators are out of the prover's reach
and stay with TLC; of these two, what does not speak of fairness is proved above. All the other properties of the passing runs are stated
by theorems.

## 5. Plan

Done: placement, notebooks, boosts and the audit log; accounts and sessions; the guard
of the login; one-time tokens and invites; the rate limiter and the nonces; start-up;
the wizard; each with its proofs. Left, in this order:

1. The browser client: concurrent requests with one refresh each, polling; composed
   with `Accounts`.
2. The owner watchdog and the encrypted mounts: ticks, seal, grace and wipe; mounts
   against container events. Liveness under the timer's fairness.
3. The pre-spawn hook's reservations, composed with `Placement`.
4. Finer steps: suspend and delete with their commit and the call to the Hub apart.

## 6. Not modelled, and why

The proxy, monitoring and security headers are configuration or stateless filters;
the installation and operations scripts are sequences of external
commands; the terminal UI, tutorial, diagrams and the single-user image present
state that is modelled elsewhere; schemas and settings are declarations. What is
only planned is listed in section 5 and under `components` in `PROJECT.json`.
