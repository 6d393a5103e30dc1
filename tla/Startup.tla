------------------------------ MODULE Startup -------------------------------
(***************************************************************************)
(* The start of the gateway's replicas on one PostgreSQL database          *)
(* (gateway/app/main.py lifespan, gateway/app/migrate.py): check the       *)
(* secrets, bring the schema to head under an advisory lock, make the      *)
(* first admin, serve.  Replicas start together; any of them may die at    *)
(* any step, or give up, and is started again (docker-compose.yml).        *)
(*                                                                         *)
(* A database object is a table, the columns a revision adds to one, or    *)
(* the type of a column.  An upgrade is one transaction                    *)
(* (migrations/env.py), and so is create_all.                              *)
(*                                                                         *)
(* printed is history: who handed a password to the logger, which env.py   *)
(* has switched off by then (fileConfig).  Left out: the values of the     *)
(* role enum, to which _ensure_role_enum adds the missing ones without     *)
(* failing; the audit row of the bootstrap (AuditChain); SQLite, where     *)
(* there is one process and no lock.                                       *)
(***************************************************************************)
EXTENDS Naturals, FiniteSets

CONSTANTS Replicas,
          None,
          Databases,   \* the databases the replicas may find
          Settings,    \* the settings they may be given
          MaxCrashes   \* bound

VARIABLES found,    \* the database they did find
          settings, \* the settings they were given
          schema,   \* [objects, version]: what is in the database
          lock,     \* who holds the advisory lock
          owner,    \* whose password the owner's account has
          pc,       \* per replica, the step it is at
          printed,  \* the replicas that logged a password
          crashes

vars == <<found, settings, schema, lock, owner, pc, printed, crashes>>

-----------------------------------------------------------------------------
(* The schema. *)

RoleType == "type userrole"

NewColumns == "users: expires_at, gpu_hours_limit, tags"

\* Revision 0001_baseline: users has a role.
Baseline == {"audit_logs", "nodes", "sso_tokens", "users", "gpu_boost_requests",
             "notebook_runs", "notifications", "user_sessions", RoleType}

\* Revision 0002_admin_ease: two tables, and columns of users.  An invite code has a
\* role, too, and op.create_table creates the type of it.
Ease == {"invite_codes", "settings", RoleType, NewColumns}

Models == Baseline \cup Ease

\* What create_all makes where it is missing.
Tables == Models \ {NewColumns}

Head == 2

Revision(n) == IF n = 1 THEN Baseline ELSE Ease

Fresh  == [objects |-> {}, version |-> 0]
Former == [objects |-> Baseline, version |-> 1]
Latest == [objects |-> Models, version |-> Head]

\* Built by create_all, before there was a version table; or half of it.
Legacy == [objects |-> Baseline, version |-> 0]
Early  == [objects |-> {"users", "nodes", "audit_logs", "user_sessions", RoleType},
           version |-> 0]

\* create_all makes missing tables, with all their columns; it alters none.
AfterCreateAll(objects) ==
  IF "users" \in objects THEN objects \cup Tables ELSE Models

-----------------------------------------------------------------------------
(* Settings that matter for what tokens are signed with. *)

Setting == [production : BOOLEAN, algorithm : {"RS256", "HS256"},
            private : BOOLEAN, public : BOOLEAN,        \* the keys are there
            jwtDefault : BOOLEAN, internalDefault : BOOLEAN]  \* CHANGE_ME

HasKeys(s) == s.algorithm = "RS256" /\ s.private /\ s.public

\* A plausible slip: HS256 is looked at whenever the keys are missing, RS256 never.
WeakUnlessChosen(s) ==
  \/ ~HasKeys(s) /\ s.algorithm = "HS256" /\ s.jwtDefault
  \/ s.internalDefault

Weak(s) ==
  \/ s.algorithm = "RS256" /\ ~HasKeys(s)
  \/ s.algorithm = "HS256" /\ s.jwtDefault
  \/ s.internalDefault

SigningWith(s) == IF s.algorithm = "RS256" /\ s.private THEN "RS256" ELSE "HS256"

VerifyingWith(s) == IF s.algorithm = "RS256" /\ s.public THEN "RS256" ELSE "HS256"

-----------------------------------------------------------------------------
ASSUME StartupAssumption ==
  /\ None \notin Replicas
  /\ Databases \subseteq {Fresh, Early, Legacy, Former, Latest}
  /\ Settings \subseteq Setting
  /\ MaxCrashes \in Nat

Init ==
  /\ found \in Databases
  /\ settings \in Settings
  /\ schema = found
  /\ lock = None
  /\ owner \in IF found = Fresh THEN {None} ELSE {None, "earlier"}
  /\ pc = [r \in Replicas |-> "starting"]
  /\ printed = {}
  /\ crashes = 0

Go(r, from, to) == pc[r] = from /\ pc' = [pc EXCEPT ![r] = to]

\* _assert_production_secrets
Check(r) ==
  /\ Go(r, "starting", IF settings.production /\ Weak(settings) THEN "refused" ELSE "waiting")
  /\ UNCHANGED <<found, settings, schema, lock, owner, printed, crashes>>

\* A plausible slip: the lock is only tried, pg_try_advisory_lock.
LockTried(r) ==
  /\ Go(r, "waiting", "inspecting")
  /\ lock' = IF lock = None THEN r ELSE lock
  /\ UNCHANGED <<found, settings, schema, owner, printed, crashes>>

\* pg_advisory_lock blocks.
Lock(r) ==
  /\ Go(r, "waiting", "inspecting")
  /\ lock = None
  /\ lock' = r
  /\ UNCHANGED <<found, settings, schema, owner, printed, crashes>>

\* Adopt what has users and no version, upgrade the rest.
Inspect(r) ==
  /\ Go(r, "inspecting",
        IF schema.version # 0 THEN IF schema.version = Head THEN "migrated" ELSE "second"
        ELSE IF "users" \in schema.objects THEN "adopting" ELSE "first")
  /\ UNCHANGED <<found, settings, schema, lock, owner, printed, crashes>>

\* A plausible slip: the stamp is thought to be enough.
NoBackfill(r) ==
  /\ Go(r, "adopting", "stamping")
  /\ UNCHANGED <<found, settings, schema, lock, owner, printed, crashes>>

Backfill(r) ==
  /\ Go(r, "adopting", "stamping")
  /\ schema' = [schema EXCEPT !.objects = AfterCreateAll(@)]
  /\ UNCHANGED <<found, settings, lock, owner, printed, crashes>>

Stamp(r) ==
  /\ Go(r, "stamping", "migrated")
  /\ schema' = [schema EXCEPT !.version = Head]
  /\ UNCHANGED <<found, settings, lock, owner, printed, crashes>>

\* One transaction for the revisions after `version', in which Alembic creates a type
\* once.  A table or a type that was there before fails it (DuplicateTable,
\* DuplicateObject), and the replica's start, which gives the lock back.
Upgrade(r, version) ==
  LET objects == UNION {Revision(n) : n \in (version + 1)..Head}
      works   == schema.version = version /\ objects \cap schema.objects = {}
  IN  /\ Go(r, IF version = 0 THEN "first" ELSE "second", IF works THEN "migrated" ELSE "failed")
      /\ schema' = IF works THEN [objects |-> schema.objects \cup objects, version |-> Head]
                   ELSE schema
      /\ lock' = IF works \/ lock # r THEN lock ELSE None
      /\ UNCHANGED <<found, settings, owner, printed, crashes>>

Unlock(r) ==
  /\ Go(r, "migrated", "counting")
  /\ lock' = IF lock = r THEN None ELSE lock
  /\ UNCHANGED <<found, settings, schema, owner, printed, crashes>>

\* _ensure_bootstrap_admin: is there an admin?
CountAdmins(r) ==
  /\ Go(r, "counting", IF owner = None THEN "inserting" ELSE "serving")
  /\ UNCHANGED <<found, settings, schema, lock, owner, printed, crashes>>

\* A plausible slip: the loser of the race goes on as if it had won.
InsertAndPrint(r) ==
  /\ Go(r, "inserting", "printing")
  /\ owner' = IF owner = None THEN r ELSE owner
  /\ UNCHANGED <<found, settings, schema, lock, printed, crashes>>

\* The username and the e-mail are unique: "Another gateway replica created the
\* admin first".  Where the columns are missing the INSERT that names them raises
\* a ProgrammingError, which nobody catches.
InsertAdmin(r) ==
  /\ \/ /\ NewColumns \notin schema.objects
        /\ Go(r, "inserting", "unseeded")
        /\ UNCHANGED owner
     \/ /\ NewColumns \in schema.objects /\ owner = None
        /\ Go(r, "inserting", "printing")
        /\ owner' = r
     \/ /\ NewColumns \in schema.objects /\ owner # None
        /\ Go(r, "inserting", "serving")
        /\ UNCHANGED owner
  /\ UNCHANGED <<found, settings, schema, lock, printed, crashes>>

LogPassword(r) ==
  /\ Go(r, "printing", "serving")
  /\ printed' = printed \cup {r}
  /\ UNCHANGED <<found, settings, schema, lock, owner, crashes>>

\* A plausible slip: a lock row, which nobody removes for a dead holder.
LockAfterCrash(r) == lock

\* The lock belongs to the connection.
LockAfter(r) == IF lock = r THEN None ELSE lock

\* Where a process has ended: killed, or by an exception in the lifespan.
Ended == {"down", "refused", "failed", "unseeded"}

Crash(r) ==
  /\ pc[r] \notin Ended /\ crashes < MaxCrashes
  /\ pc' = [pc EXCEPT ![r] = "down"]
  /\ lock' = LockAfter(r)
  /\ crashes' = crashes + 1
  /\ UNCHANGED <<found, settings, schema, owner, printed>>

Restart(r) ==
  /\ pc[r] \in Ended
  /\ Go(r, pc[r], "starting")
  /\ UNCHANGED <<found, settings, schema, lock, owner, printed, crashes>>

Step(r) ==
  \/ Check(r) \/ Lock(r) \/ Inspect(r) \/ Backfill(r) \/ Stamp(r)
  \/ Upgrade(r, 0) \/ Upgrade(r, 1) \/ Unlock(r)
  \/ CountAdmins(r) \/ InsertAdmin(r) \/ LogPassword(r) \/ Restart(r)

Next == \E r \in Replicas : Step(r) \/ Crash(r)

\* The processor and the database serve every replica, and Docker restarts it.
Fairness == \A r \in Replicas : WF_vars(Step(r))

Spec == Init /\ [][Next]_vars /\ Fairness

-----------------------------------------------------------------------------
Serving == {r \in Replicas : pc[r] = "serving"}

(* migrate.py: a fresh database is built, an existing one adopted, a       *)
(* migrated one brought to head, "automatically".  What serves has the     *)
(* head version and every table, and every column too unless the database  *)
(* was adopted, whichever replica migrated and whoever died meanwhile.     *)
SchemaServed ==
  Serving # {} =>
    /\ schema.version = Head /\ Tables \subseteq schema.objects
    /\ found.version # 0 \/ found = Fresh => schema.objects = Models

(* "only one gateway replica migrates at a time; the others wait, then see *)
(* head and no-op": no replica runs a revision that another one has run.   *)
(* The one upgrade that fails is that of a database which was left at the  *)
(* first revision, whose role type is there already; and the one account   *)
(* that cannot be made is that of a database which was adopted.            *)
OnlyOldSchemasFail ==
  \A r \in Replicas :
    /\ pc[r] = "failed" => found = Former
    /\ pc[r] = "unseeded" => found \in {Early, Legacy}

Migrating == {"inspecting", "first", "second", "adopting", "stamping", "migrated"}

(* "The others wait": the advisory lock is held by the one replica that is *)
(* between run_migrations' lock and unlock, and by nobody when none is,    *)
(* whichever replica died where.                                           *)
LockedWhileMigrating == \A r \in Replicas : lock = r <=> pc[r] \in Migrating

(* A password in the log is the owner's: of replicas that find no admin at *)
(* the same time, only the one whose account it became prints its own.     *)
PrintedIsOwners == \A r \in printed : owner = r

(* _assert_production_secrets: "Fail closed".  A production gateway that   *)
(* serves verifies tokens with what it signs them with, and that is not    *)
(* the secret everybody knows.                                             *)
SignsAsItVerifies ==
  Serving # {} /\ settings.production =>
    /\ SigningWith(settings) = VerifyingWith(settings)
    /\ SigningWith(settings) = "HS256" => ~settings.jwtDefault

(* Found with a schema the start can work with: not one that was left at   *)
(* the first revision, and not one that is adopted and has no admin.       *)
Startable == found # Former /\ (owner = None => found \notin {Early, Legacy})

(* Every replica comes up, unless its secrets are refused: none waits for  *)
(* a lock that is never given back, whoever died with it.  What the code   *)
(* does not do is to come up with a database that is not Startable: there  *)
(* every start fails (0002:25, main.py:132-148).                           *)
EveryReplicaServes == Startable => \A r \in Replicas : <>(pc[r] \in {"serving", "refused"})

(* migrate.py:6-8 of a database older than Alembic: "create any            *)
(* genuinely-missing tables, then *stamp* it at head so Alembic takes      *)
(* ownership going forward".  At head, a database has what the models have.*)
AdoptedIsAtHead == schema.version = Head => schema.objects = Models
=============================================================================
