--------------------------- MODULE StartupProofs ----------------------------
(***************************************************************************)
(* What the start of the replicas guarantees, for any number of them, any  *)
(* of the databases and any settings, whichever of them die and when.  The *)
(* five invariants rest on one: what the holder of the advisory lock has   *)
(* found out about the schema is still true when it acts on it.            *)
(***************************************************************************)
EXTENDS Startup, TLAPS

\* Steps at which a replica has seen head; at which its secrets were accepted.
AtHead == {"migrated", "counting", "inserting", "printing", "serving"}
Started == Migrating \cup AtHead \cup {"waiting"}
Steps == Started \cup Ended \cup {"starting"}

TypeOK ==
  /\ found \in Databases /\ settings \in Settings
  /\ schema \in [objects : SUBSET Models, version : 0..Head]
  /\ pc \in [Replicas -> Steps]
  /\ lock \in Replicas \cup {None}
  /\ printed \subseteq Replicas

\* What a version says of the schema, and of the database that was found.
SchemaInv ==
  /\ schema.version = 0 =>
       /\ found.version = 0
       /\ "users" \notin schema.objects => schema.objects = {}
       /\ found = Fresh => "users" \notin schema.objects
  /\ schema.version = 1 => schema.objects = Baseline /\ found = Former
  /\ schema.version = Head =>
       /\ Tables \subseteq schema.objects
       /\ found.version # 0 \/ found = Fresh => schema.objects = Models

\* What a step says of the schema.
StepInv(r) ==
  /\ pc[r] = "failed" => found = Former
  /\ pc[r] = "unseeded" => found \in {Early, Legacy}
  /\ lock = r <=> pc[r] \in Migrating
  /\ pc[r] = "first" => schema.version = 0 /\ "users" \notin schema.objects
  /\ pc[r] = "second" => schema.version = 1
  /\ pc[r] \in {"adopting", "stamping"} => schema.version = 0 /\ "users" \in schema.objects
  /\ pc[r] = "stamping" => Tables \subseteq schema.objects
  /\ pc[r] \in AtHead => schema.version = Head

\* Who started was not refused; who is about to print made the account.
OwnerInv ==
  /\ \A r \in Replicas : pc[r] \in Started => ~(settings.production /\ Weak(settings))
  /\ \A r \in Replicas : pc[r] = "printing" => owner = r
  /\ \A r \in printed : owner = r

IInv == TypeOK /\ SchemaInv /\ (\A r \in Replicas : StepInv(r)) /\ OwnerInv

-----------------------------------------------------------------------------
(* The objects of the two revisions.                                       *)

LEMMA ModelsAreTwoRevisions ==
  /\ Models = Baseline \cup Ease
  /\ RoleType \in Baseline \cap Ease
  /\ "users" \in Baseline
  /\ Tables \subseteq Models
BY DEF Models, Tables, Baseline, Ease, RoleType, NewColumns

\* An upgrade from nothing runs both revisions, one from the first the second.
LEMMA UpgradeObjects ==
  /\ UNION {Revision(n) : n \in (0 + 1)..Head} = Models
  /\ UNION {Revision(n) : n \in (1 + 1)..Head} = Ease
<1>1. (0 + 1)..Head = {1, 2} /\ (1 + 1)..Head = {2}
  BY DEF Head
<1>2. Revision(1) = Baseline /\ Revision(2) = Ease
  BY DEF Revision
<1>3. {Revision(n) : n \in {1, 2}} = {Baseline, Ease} /\ {Revision(n) : n \in {2}} = {Ease}
  BY <1>2
<1>4. UNION {Baseline, Ease} = Models /\ UNION {Ease} = Ease
  BY DEF Models
<1> QED  BY <1>1, <1>3, <1>4

\* create_all leaves every table where there were users, and takes nothing away.
LEMMA CreateAllMakesTables ==
  ASSUME NEW objects \in SUBSET Models, "users" \in objects
  PROVE  /\ AfterCreateAll(objects) \in SUBSET Models
         /\ Tables \subseteq AfterCreateAll(objects)
         /\ "users" \in AfterCreateAll(objects)
BY ModelsAreTwoRevisions DEF AfterCreateAll

\* The databases a replica may find.
LEMMA FoundIsSound ==
  ASSUME NEW d \in Databases
  PROVE  /\ d \in [objects : SUBSET Models, version : 0..Head]
         /\ d.version = 0 => "users" \notin d.objects <=> d = Fresh
         /\ d = Fresh => d.objects = {} /\ d.version = 0
         /\ d.version = 1 => d.objects = Baseline /\ d = Former
         /\ d.version = Head => d.objects = Models
<1>1. Fresh = [objects |-> {}, version |-> 0]  BY DEF Fresh
<1>2. Early.objects \subseteq Models /\ "users" \in Early.objects /\ Early.version = 0
      /\ Early = [objects |-> Early.objects, version |-> 0]
  BY DEF Early, Models, Baseline, RoleType
<1>3. Legacy = [objects |-> Baseline, version |-> 0]  BY DEF Legacy
<1>4. Former = [objects |-> Baseline, version |-> 1]  BY DEF Former
<1>5. Latest = [objects |-> Models, version |-> 2]  BY DEF Latest, Head
<1>6. Baseline \subseteq Models /\ "users" \in Baseline /\ Head = 2
  BY ModelsAreTwoRevisions DEF Head
<1>7. d \in {Fresh, Early, Legacy, Former, Latest}  BY StartupAssumption
<1>a. CASE d = Fresh   BY <1>a, <1>1, <1>6
<1>b. CASE d = Early   BY <1>b, <1>1, <1>2, <1>6
<1>c. CASE d = Legacy  BY <1>c, <1>1, <1>3, <1>6
<1>d. CASE d = Former  BY <1>d, <1>1, <1>4, <1>6
<1>e. CASE d = Latest  BY <1>e, <1>1, <1>5, <1>6
<1> QED  BY <1>7, <1>a, <1>b, <1>c, <1>d, <1>e

-----------------------------------------------------------------------------
(* The invariant.                                                          *)

LEMMA InitIInv == Init => IInv
<1> SUFFICES ASSUME Init PROVE IInv  OBVIOUS
<1>1. schema = found /\ found \in Databases /\ Head = 2  BY DEF Init, Head
<1>2. TypeOK
  BY <1>1, FoundIsSound DEF Init, TypeOK, Steps
<1>3. SchemaInv
  BY <1>1, FoundIsSound, ModelsAreTwoRevisions DEF SchemaInv
<1>4. \A r \in Replicas : StepInv(r)
  BY StartupAssumption DEF Init, StepInv, Migrating, AtHead
<1>5. OwnerInv
  BY DEF Init, OwnerInv, Started, Migrating, AtHead
<1> QED  BY <1>2, <1>3, <1>4, <1>5 DEF IInv

\* A step of r ends at `to', and the lock is where the steps say it is.
LockFollows(r, to) ==
  /\ lock' \in Replicas \cup {None}
  /\ lock' = r <=> to \in Migrating
  /\ \A p \in Replicas \ {r} : lock' = p <=> pc[p] \in Migrating

\* Outside of the migration the lock stays where it is.
LEMMA LockStays ==
  ASSUME IInv, NEW r \in Replicas, NEW to \in Steps, lock' = lock,
         pc[r] \in Migrating <=> to \in Migrating
  PROVE  LockFollows(r, to)
<1>1. \A p \in Replicas : lock = p <=> pc[p] \in Migrating
  BY DEF IInv, StepInv
<1>2. lock \in Replicas \cup {None}
  BY DEF IInv, TypeOK
<1> QED  BY <1>1, <1>2 DEF LockFollows

\* The holder gives it back, and only what others held stays held.
LEMMA LockGivenBack ==
  ASSUME IInv, NEW r \in Replicas, NEW to \in Steps,
         lock' = IF lock = r THEN None ELSE lock,
         to \notin Migrating
  PROVE  LockFollows(r, to)
<1>1. \A p \in Replicas : lock = p <=> pc[p] \in Migrating
  BY DEF IInv, StepInv
<1>2. lock \in Replicas \cup {None} /\ None \notin Replicas
  BY StartupAssumption DEF IInv, TypeOK
<1>3. lock' \in Replicas \cup {None} /\ lock' # r
  BY <1>2
<1>4. ASSUME NEW p \in Replicas \ {r} PROVE lock' = p <=> pc[p] \in Migrating
  BY <1>1, <1>2
<1> QED  BY <1>3, <1>4 DEF LockFollows

\* A step of r that leaves the schema alone: what the others know stays true.
LEMMA SchemaUntouched ==
  ASSUME IInv, NEW r \in Replicas, NEW to \in Steps,
         pc' = [pc EXCEPT ![r] = to],
         UNCHANGED <<found, settings, schema, owner>>,
         printed' \subseteq Replicas, \A p \in printed' : owner = p,
         LockFollows(r, to),
         to \in Started => pc[r] \in Started \/ ~(settings.production /\ Weak(settings)),
         to = "printing" => owner = r,
         to = "failed" => found = Former,
         to = "unseeded" => found \in {Early, Legacy},
         to = "first" => schema.version = 0 /\ "users" \notin schema.objects,
         to = "second" => schema.version = 1,
         to = "adopting" => schema.version = 0 /\ "users" \in schema.objects,
         to # "stamping",
         to \in AtHead => schema.version = Head
  PROVE  IInv'
<1>1. TypeOK'
  BY DEF IInv, TypeOK, LockFollows
<1>2. SchemaInv'
  BY DEF IInv, SchemaInv
<1>3. \A p \in Replicas : pc'[p] = IF p = r THEN to ELSE pc[p]
  BY DEF IInv, TypeOK
<1>4. \A p \in Replicas : StepInv(p)'
  <2> SUFFICES ASSUME NEW p \in Replicas PROVE StepInv(p)'  OBVIOUS
  <2>1. StepInv(p)  BY DEF IInv
  <2>2. CASE p = r   BY <1>3, <2>2 DEF StepInv, LockFollows
  <2>3. CASE p # r   BY <1>3, <2>1, <2>3 DEF StepInv, LockFollows
  <2> QED  BY <2>2, <2>3
<1>5. OwnerInv'
  <2>1. Weak(settings)' <=> Weak(settings)  BY DEF Weak, HasKeys
  <2>2. \A p \in Replicas : pc'[p] \in Started => ~(settings.production /\ Weak(settings))
    BY <1>3 DEF IInv, OwnerInv
  <2>3. \A p \in Replicas : pc'[p] = "printing" => owner = p
    BY <1>3 DEF IInv, OwnerInv
  <2> QED  BY <2>1, <2>2, <2>3 DEF OwnerInv
<1> QED  BY <1>1, <1>2, <1>4, <1>5 DEF IInv

\* A step of the holder that changes the schema, the lock and the owner stay.
LEMMA SchemaChanged ==
  ASSUME IInv, NEW r \in Replicas, NEW to \in Migrating, pc[r] \in Migrating,
         pc' = [pc EXCEPT ![r] = to],
         UNCHANGED <<found, settings, lock, owner, printed>>,
         schema.version # Head,
         schema' \in [objects : SUBSET Models, version : 0..Head],
         SchemaInv', StepInv(r)'
  PROVE  IInv'
<1>1. TypeOK'
  BY DEF IInv, TypeOK, Steps, Started
<1>2. lock = r  BY DEF IInv, StepInv
<1>3. \A p \in Replicas : pc'[p] = IF p = r THEN to ELSE pc[p]
  BY DEF IInv, TypeOK
<1>4. \A p \in Replicas : StepInv(p)'
  <2> SUFFICES ASSUME NEW p \in Replicas, p # r PROVE StepInv(p)'  OBVIOUS
  <2>1. StepInv(p) /\ pc'[p] = pc[p]  BY <1>3 DEF IInv
  <2>2. pc[p] \notin Migrating /\ pc[p] \notin AtHead  BY <1>2, <2>1 DEF StepInv
  <2> QED  BY <2>1, <2>2 DEF StepInv, Migrating
<1>5. OwnerInv'
  <2>1. Weak(settings)' <=> Weak(settings)  BY DEF Weak, HasKeys
  <2>2. to \in Started /\ pc[r] \in Started /\ to # "printing"
    BY DEF Started, Migrating
  <2> QED  BY <1>3, <2>1, <2>2 DEF IInv, OwnerInv
<1> QED  BY <1>1, <1>4, <1>5 DEF IInv

\* One replica's step.
LEMMA StepIInv ==
  ASSUME IInv, NEW r \in Replicas, Step(r) \/ Crash(r)
  PROVE  IInv'
<1> USE DEF Go
<1>0. /\ TypeOK /\ SchemaInv /\ StepInv(r) /\ OwnerInv
      /\ \A p \in Replicas : StepInv(p)
      /\ \A p \in printed : p \in Replicas /\ owner = p
      /\ Head = 2
  BY DEF IInv, OwnerInv, TypeOK, Head
<1>a. \A p \in Replicas : lock = p <=> pc[p] \in Migrating
  BY <1>0 DEF StepInv
<1>1. CASE Check(r)
  <2>1. PICK to \in {"refused", "waiting"} :
          /\ pc' = [pc EXCEPT ![r] = to]
          /\ to = "waiting" => ~(settings.production /\ Weak(settings))
    BY <1>1 DEF Check
  <2>2. to \in Steps /\ to \notin Migrating /\ pc[r] \notin Migrating /\ lock' = lock
    BY <1>1 DEF Check, Steps, Started, Ended, Migrating
  <2>3. LockFollows(r, to)  BY <2>2, LockStays
  <2> QED
    BY <1>0, <1>1, <2>1, <2>3, SchemaUntouched DEF Check, Steps, Started, Ended, Migrating, AtHead
<1>2. CASE Lock(r)
  <2>1. \A p \in Replicas : pc[p] \notin Migrating
    BY <1>a, <1>2, StartupAssumption DEF Lock
  <2>2. LockFollows(r, "inspecting")
    BY <1>2, <2>1 DEF Lock, LockFollows, Migrating
  <2> QED
    BY <1>0, <1>2, <2>2, SchemaUntouched DEF Lock, Steps, Started, Migrating, AtHead
<1>3. CASE Inspect(r)
  <2>1. PICK to \in {"migrated", "second", "adopting", "first"} :
          /\ pc' = [pc EXCEPT ![r] = to]
          /\ to = "migrated" => schema.version = Head
          /\ to = "second" => schema.version = 1
          /\ to = "adopting" => schema.version = 0 /\ "users" \in schema.objects
          /\ to = "first" => schema.version = 0 /\ "users" \notin schema.objects
    <3> DEFINE step == IF schema.version # 0
                       THEN IF schema.version = Head THEN "migrated" ELSE "second"
                       ELSE IF "users" \in schema.objects THEN "adopting" ELSE "first"
    <3>1. pc' = [pc EXCEPT ![r] = step]
      BY <1>3 DEF Inspect
    <3>2. /\ step \in {"migrated", "second", "adopting", "first"}
          /\ step = "migrated" => schema.version = Head
          /\ step = "second" => schema.version = 1
          /\ step = "adopting" => schema.version = 0 /\ "users" \in schema.objects
          /\ step = "first" => schema.version = 0 /\ "users" \notin schema.objects
      BY <1>0 DEF TypeOK
    <3> HIDE DEF step
    <3> QED  BY <3>1, <3>2
  <2>2. lock = r /\ pc[r] = "inspecting"
    BY <1>0, <1>3 DEF Inspect, StepInv, Migrating
  <2>3. UNCHANGED <<found, settings, schema, lock, owner, printed>>
    BY <1>3 DEF Inspect
  <2>4. to \in Steps /\ to \in Migrating /\ pc[r] \in Started
        /\ to \notin {"failed", "stamping", "printing"}
    BY <2>1, <2>2 DEF Steps, Started, Migrating
  <2>5. to \in AtHead => schema.version = Head
    BY <2>1 DEF AtHead
  <2>6. LockFollows(r, to)
    BY <2>2, <2>3, <2>4, LockStays DEF Migrating
  <2>7. printed' \subseteq Replicas /\ \A p \in printed' : owner = p
    BY <1>0, <2>3
  <2>8. pc' = [pc EXCEPT ![r] = to] /\ UNCHANGED <<found, settings, schema, owner>>
    BY <2>1, <2>3
  <2>9. /\ to = "first" => schema.version = 0 /\ "users" \notin schema.objects
        /\ to = "second" => schema.version = 1
        /\ to = "adopting" => schema.version = 0 /\ "users" \in schema.objects
    BY <2>1
  <2> QED
    BY <2>4, <2>5, <2>6, <2>7, <2>8, <2>9, SchemaUntouched
<1>4. CASE Backfill(r)
  <2>1. schema.version = 0 /\ "users" \in schema.objects /\ schema.objects \in SUBSET Models
    BY <1>0, <1>4 DEF Backfill, StepInv, TypeOK
  <2>2. schema' = [objects |-> AfterCreateAll(schema.objects), version |-> 0]
    BY <1>0, <1>4, <2>1 DEF Backfill, TypeOK
  <2>3. /\ schema'.objects \in SUBSET Models
        /\ Tables \subseteq schema'.objects /\ "users" \in schema'.objects
    BY <2>1, <2>2, CreateAllMakesTables
  <2>4. SchemaInv'
    BY <1>0, <1>4, <2>1, <2>2, <2>3 DEF Backfill, SchemaInv
  <2>5. pc'[r] = "stamping" /\ lock' = r /\ pc[r] \in Migrating
    BY <1>0, <1>4 DEF Backfill, StepInv, TypeOK, Migrating
  <2>6. StepInv(r)'
    BY <2>2, <2>3, <2>5 DEF StepInv, Migrating, AtHead
  <2> QED
    <3>1. schema' \in [objects : SUBSET Models, version : 0..Head] /\ schema.version # Head
      BY <1>0, <2>1, <2>2, <2>3
    <3>2. UNCHANGED <<found, settings, lock, owner, printed>>
          /\ pc' = [pc EXCEPT ![r] = "stamping"] /\ "stamping" \in Migrating
      BY <1>4 DEF Backfill, Migrating
    <3> QED  BY <2>4, <2>5, <2>6, <3>1, <3>2, SchemaChanged
<1>5. CASE Stamp(r)
  <2>1. /\ schema.version = 0 /\ "users" \in schema.objects
        /\ Tables \subseteq schema.objects
        /\ found.version = 0 /\ found # Fresh
    BY <1>0, <1>5 DEF Stamp, StepInv, SchemaInv
  <2>2. schema' = [objects |-> schema.objects, version |-> 2] /\ schema.objects \in SUBSET Models
    BY <1>0, <1>5 DEF Stamp, TypeOK
  <2>3. SchemaInv'
    BY <1>0, <1>5, <2>1, <2>2 DEF Stamp, SchemaInv
  <2>4. pc'[r] = "migrated" /\ lock' = r /\ pc[r] \in Migrating
    BY <1>0, <1>5 DEF Stamp, StepInv, TypeOK, Migrating
  <2>5. StepInv(r)'
    BY <1>0, <2>2, <2>4 DEF StepInv, Migrating, AtHead
  <2> QED
    <3>1. schema' \in [objects : SUBSET Models, version : 0..Head] /\ schema.version # Head
      BY <1>0, <2>1, <2>2
    <3>2. UNCHANGED <<found, settings, lock, owner, printed>>
          /\ pc' = [pc EXCEPT ![r] = "migrated"] /\ "migrated" \in Migrating
      BY <1>5 DEF Stamp, Migrating
    <3> QED  BY <2>3, <2>4, <2>5, <3>1, <3>2, SchemaChanged
<1>6. CASE Upgrade(r, 0)
  <2> DEFINE new == UNION {Revision(n) : n \in (0 + 1)..Head}
  <2>1. pc[r] = "first" /\ new = Models
    BY <1>6, UpgradeObjects DEF Upgrade
  <2>2. schema.version = 0 /\ schema.objects = {}
    BY <1>0, <2>1 DEF StepInv, SchemaInv
  <2>3. new \cap schema.objects = {} /\ schema.objects \cup new = Models
    BY <2>1, <2>2
  <2> HIDE DEF new
  <2>4. /\ pc' = [pc EXCEPT ![r] = "migrated"]
        /\ schema' = [objects |-> Models, version |-> 2]
        /\ UNCHANGED <<found, settings, lock, owner, printed>>
    BY <1>0, <1>6, <2>2, <2>3 DEF Upgrade, new
  <2>5. SchemaInv'
    BY <1>0, <2>4, ModelsAreTwoRevisions DEF SchemaInv
  <2>6. pc'[r] = "migrated" /\ lock' = r /\ pc[r] \in Migrating
    BY <1>0, <2>1, <2>4 DEF StepInv, TypeOK, Migrating
  <2>7. StepInv(r)'
    BY <1>0, <2>4, <2>6 DEF StepInv, Migrating, AtHead
  <2>8. schema' \in [objects : SUBSET Models, version : 0..Head] /\ schema.version # Head
    BY <1>0, <2>2, <2>4
  <2>9. "migrated" \in Migrating  BY DEF Migrating
  <2> QED  BY <2>4, <2>5, <2>6, <2>7, <2>8, <2>9, SchemaChanged
<1>13. CASE Upgrade(r, 1)
  <2> DEFINE new == UNION {Revision(n) : n \in (1 + 1)..Head}
  <2>1. pc[r] = "second" /\ new = Ease
    BY <1>13, UpgradeObjects DEF Upgrade
  <2>2. schema.version = 1 /\ schema.objects = Baseline /\ found = Former
    BY <1>0, <2>1 DEF StepInv, SchemaInv
  <2>3. new \cap schema.objects # {}
    BY <2>1, <2>2, ModelsAreTwoRevisions
  <2> HIDE DEF new
  <2>4. /\ pc' = [pc EXCEPT ![r] = "failed"]
        /\ lock' = IF lock = r THEN None ELSE lock
        /\ UNCHANGED <<found, settings, schema, owner, printed>>
    BY <1>13, <2>3 DEF Upgrade, new
  <2>5. LockFollows(r, "failed")
    BY <2>4, LockGivenBack DEF Steps, Started, Ended, Migrating, AtHead
  <2> QED
    BY <1>0, <2>2, <2>4, <2>5, SchemaUntouched DEF Steps, Started, Ended, Migrating, AtHead
<1>7. CASE Unlock(r)
  <2>1. LockFollows(r, "counting")
    BY <1>7, LockGivenBack DEF Unlock, Steps, Started, Migrating, AtHead
  <2>2. schema.version = Head
    BY <1>0, <1>7 DEF Unlock, StepInv, AtHead
  <2> QED
    BY <1>0, <1>7, <2>1, <2>2, SchemaUntouched DEF Unlock, Steps, Started, Migrating, AtHead
<1>8. CASE CountAdmins(r)
  <2>1. PICK to \in {"inserting", "serving"} : pc' = [pc EXCEPT ![r] = to]
    BY <1>8 DEF CountAdmins
  <2>2. schema.version = Head
    BY <1>0, <1>8 DEF CountAdmins, StepInv, AtHead
  <2>3. to \in Steps /\ to \notin Migrating /\ pc[r] \notin Migrating /\ lock' = lock
    BY <1>8 DEF CountAdmins, Steps, Started, Migrating, AtHead
  <2>4. LockFollows(r, to)  BY <2>3, LockStays
  <2> QED
    BY <1>0, <1>8, <2>1, <2>2, <2>4, SchemaUntouched
    DEF CountAdmins, Steps, Started, Migrating, AtHead
<1>9. CASE InsertAdmin(r)
  <2>1. schema.version = Head /\ pc[r] = "inserting"
    BY <1>0, <1>9 DEF InsertAdmin, StepInv, AtHead
  <2>4. CASE NewColumns \notin schema.objects
    <3>2. found \in {Early, Legacy}
      BY <1>0, <2>1, <2>4, StartupAssumption, FoundIsSound
      DEF SchemaInv, TypeOK, Models, Ease, Former, Latest, Head
    <3>1. LockFollows(r, "unseeded")
      BY <1>9, <2>1, <2>4, LockStays DEF InsertAdmin, Steps, Started, Ended, Migrating, AtHead
    <3> QED
      BY <1>0, <1>9, <2>1, <2>4, <3>1, <3>2, SchemaUntouched
      DEF InsertAdmin, Steps, Started, Ended, Migrating, AtHead
  <2>2. CASE NewColumns \in schema.objects /\ owner # None
    <3>1. LockFollows(r, "serving")
      BY <1>9, <2>1, <2>2, LockStays DEF InsertAdmin, Steps, Started, Migrating, AtHead
    <3> QED
      BY <1>0, <1>9, <2>1, <2>2, <3>1, SchemaUntouched
      DEF InsertAdmin, Steps, Started, Migrating, AtHead
  <2>3. CASE NewColumns \in schema.objects /\ owner = None
    <3>1. /\ pc' = [pc EXCEPT ![r] = "printing"] /\ owner' = r
          /\ UNCHANGED <<found, settings, schema, lock, printed>>
      BY <1>9, <2>3 DEF InsertAdmin
    <3>2. printed = {} /\ \A p \in Replicas : pc[p] # "printing"
      BY <1>0, <2>3, StartupAssumption DEF OwnerInv
    <3>3. \A p \in Replicas : pc'[p] = IF p = r THEN "printing" ELSE pc[p]
      BY <1>0, <3>1 DEF TypeOK
    <3>4. TypeOK'
      BY <1>0, <3>1 DEF TypeOK, Steps, Started, AtHead
    <3>5. SchemaInv'
      BY <1>0, <3>1 DEF SchemaInv
    <3>6. \A p \in Replicas : StepInv(p)'
      BY <1>0, <2>1, <3>1, <3>3 DEF StepInv, Migrating, AtHead
    <3>7. Weak(settings)' <=> Weak(settings)  BY <3>1 DEF Weak, HasKeys
    <3>8. OwnerInv'
      BY <1>0, <2>1, <3>1, <3>2, <3>3, <3>7 DEF OwnerInv, Started, AtHead
    <3> QED  BY <3>4, <3>5, <3>6, <3>8 DEF IInv
  <2> QED  BY <2>2, <2>3, <2>4
<1>10. CASE LogPassword(r)
  <2>1. schema.version = Head /\ owner = r
    BY <1>0, <1>10 DEF LogPassword, StepInv, AtHead, OwnerInv
  <2>2. \A p \in printed' : p \in Replicas /\ owner = p
    BY <1>0, <1>10, <2>1 DEF LogPassword
  <2>3. LockFollows(r, "serving")
    BY <1>10, LockStays DEF LogPassword, Steps, Started, Migrating, AtHead
  <2> QED
    BY <1>0, <1>10, <2>1, <2>2, <2>3, SchemaUntouched
    DEF LogPassword, Steps, Started, Migrating, AtHead
<1>11. CASE Restart(r)
  <2>1. LockFollows(r, "starting")
    BY <1>11, LockStays DEF Restart, Steps, Started, Ended, Migrating, AtHead
  <2> QED
    BY <1>0, <1>11, <2>1, SchemaUntouched DEF Restart, Steps, Started, Ended, Migrating, AtHead
<1>12. CASE Crash(r)
  <2>1. LockFollows(r, "down")
    BY <1>12, LockGivenBack DEF Crash, LockAfter, Steps, Started, Ended, Migrating, AtHead
  <2> QED
    BY <1>0, <1>12, <2>1, SchemaUntouched DEF Crash, Steps, Started, Ended, Migrating, AtHead
<1> QED
  BY <1>1, <1>2, <1>3, <1>4, <1>5, <1>6, <1>7, <1>8, <1>9, <1>10, <1>11, <1>12, <1>13 DEF Step

(* The lock serialises the migrations: what its holder has read of the     *)
(* schema stays true until it acts, through the crash of any replica.      *)
THEOREM Invariant == Spec => []IInv
<1>1. Init => IInv  BY InitIInv
<1>2. IInv /\ [Next]_vars => IInv'
  <2> SUFFICES ASSUME IInv, [Next]_vars PROVE IInv'  OBVIOUS
  <2>1. CASE Next
    BY <2>1, StepIInv DEF Next
  <2>2. CASE UNCHANGED vars
    BY <2>2 DEF vars, IInv, TypeOK, SchemaInv, StepInv, OwnerInv, Weak, HasKeys
  <2> QED  BY <2>1, <2>2
<1> QED  BY <1>1, <1>2, PTL DEF Spec

-----------------------------------------------------------------------------
(* No replica's start fails on a revision that another replica has run:    *)
(* the one upgrade that fails is that of a database found at the first     *)
(* revision, and the admin's account fails only where the database was     *)
(* adopted (run_migrations, _apply, 0002:25, _ensure_bootstrap_admin).     *)
THEOREM OldSchemasFail == Spec => []OnlyOldSchemasFail
<1>1. IInv => OnlyOldSchemasFail  BY DEF IInv, StepInv, OnlyOldSchemasFail
<1> QED  BY <1>1, Invariant, PTL

(* One replica migrates at a time, and the lock is free when none does     *)
(* (run_migrations: pg_advisory_lock, pg_advisory_unlock, and the end of   *)
(* the connection when the holder dies).                                   *)
THEOREM OneReplicaMigrates == Spec => []LockedWhileMigrating
<1>1. IInv => LockedWhileMigrating  BY DEF IInv, StepInv, LockedWhileMigrating
<1> QED  BY <1>1, Invariant, PTL

(* What serves has the head schema, all of it unless it was adopted.       *)
THEOREM ServedSchema == Spec => []SchemaServed
<1>1. IInv => SchemaServed
  BY DEF IInv, StepInv, SchemaInv, SchemaServed, Serving, AtHead
<1> QED  BY <1>1, Invariant, PTL

(* A password in the log is the one of the account that was made           *)
(* (_ensure_bootstrap_admin).                                              *)
THEOREM PrintedPasswordCounts == Spec => []PrintedIsOwners
<1>1. IInv => PrintedIsOwners  BY DEF IInv, OwnerInv, PrintedIsOwners
<1> QED  BY <1>1, Invariant, PTL

(* A production gateway verifies with what it signs with, and that is no   *)
(* default (_assert_production_secrets, _signing_material).                *)
THEOREM TokensVerify == Spec => []SignsAsItVerifies
<1>1. IInv => SignsAsItVerifies
  <2> SUFFICES ASSUME IInv, Serving # {}, settings.production
               PROVE  /\ SigningWith(settings) = VerifyingWith(settings)
                      /\ SigningWith(settings) = "HS256" => ~settings.jwtDefault
    BY DEF SignsAsItVerifies
  <2>1. ~Weak(settings)
    BY DEF IInv, OwnerInv, Serving, Started, AtHead
  <2>2. settings \in Setting
    BY StartupAssumption DEF IInv, TypeOK
  <2> QED
    BY <2>1, <2>2 DEF Setting, Weak, HasKeys, SigningWith, VerifyingWith
<1> QED  BY <1>1, Invariant, PTL
=============================================================================
