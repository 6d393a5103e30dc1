------------------------------ MODULE AuditChain ------------------------------
(***************************************************************************)
(* The audit log (gateway/app/audit.py) and its retention                  *)
(* (gateway/app/maintenance.py).                                           *)
(*                                                                         *)
(* record() reads the newest committed row, inserts its own, hashes and    *)
(* commits: three statements of one READ COMMITTED transaction, which the  *)
(* threads and replicas interleave.  The sequence behind the primary key   *)
(* hands an id out at the INSERT and never takes it back.                  *)
(*                                                                         *)
(* What a row hashes besides the hash before it (_canonical: time, actor,  *)
(* action, target, address, detail) differs from row to row, so the row's  *)
(* id stands for it, and sha256 does not collide: a hash is the sequence   *)
(* of everything hashed into it.  An action of the owner records nothing   *)
(* and reads nothing; Begin is an action of somebody else.                 *)
(***************************************************************************)
EXTENDS Naturals, Sequences

CONSTANTS Writers,    \* calls of record() that can be in flight at once
          MaxIds,     \* bound: ids the sequence hands out
          Outages,    \* bound: whether a transaction may fail or its process die
          Retention   \* audit_retention_days > 0

ASSUME AuditAssumption ==
  MaxIds \in Nat /\ Outages \in BOOLEAN /\ Retention \in BOOLEAN

VARIABLES log,      \* the committed rows of audit_logs, by id
          lastId,   \* the sequence: the last id handed out
          writer    \* calls of record() in flight

vars == <<log, lastId, writer>>

-----------------------------------------------------------------------------
Hashes == Seq(Nat)

Row == [prev : Hashes, hash : Hashes]

Idle     == [pc |-> "idle"]
Reading  == [pc : {"read"}, prev : Hashes]
Inserted == [pc : {"inserted"}, prev : Hashes, id : Nat]

TypeOK ==
  /\ lastId \in Nat
  /\ DOMAIN log \subseteq 1..lastId
  /\ log \in [DOMAIN log -> Row]
  /\ writer \in [Writers -> {Idle} \cup Reading \cup Inserted]

Init ==
  /\ log = [i \in {} |-> <<>>]
  /\ lastId = 0
  /\ writer = [w \in Writers |-> Idle]

-----------------------------------------------------------------------------
Newest(ids) == CHOOSE i \in ids : \A j \in ids : j =< i

Oldest(ids) == CHOOSE i \in ids : \A j \in ids : i =< j

\* prev.entry_hash if prev else "".
HashOf(ids) == IF ids = {} THEN <<>> ELSE log[Newest(ids)].hash

\* sha256(prev_hash + canonical(entry)).
Hash(prev, i) == Append(prev, i)

\* A plausible slip: rows are read before they are committed.
TipWithUncommitted ==
  LET pending == {w \in Writers : writer[w].pc = "inserted"}
  IN  IF pending = {} THEN HashOf(DOMAIN log)
      ELSE LET w == CHOOSE v \in pending : TRUE IN Hash(writer[w].prev, writer[w].id)

\* A plausible slip: ORDER BY id without DESC.
TipAscending == IF DOMAIN log = {} THEN <<>> ELSE log[Oldest(DOMAIN log)].hash

Tip == HashOf(DOMAIN log)

Begin(w) ==
  /\ writer[w] = Idle
  /\ writer' = [writer EXCEPT ![w] = [pc |-> "read", prev |-> Tip]]
  /\ UNCHANGED <<log, lastId>>

Insert(w) ==
  /\ writer[w].pc = "read"
  /\ lastId < MaxIds
  /\ lastId' = lastId + 1
  /\ writer' = [writer EXCEPT ![w] = [pc |-> "inserted", prev |-> writer[w].prev, id |-> lastId + 1]]
  /\ UNCHANGED log

Commit(w) ==
  /\ writer[w].pc = "inserted"
  /\ LET new == writer[w].id
         row == [prev |-> writer[w].prev, hash |-> Hash(writer[w].prev, new)]
     IN  log' = [i \in DOMAIN log \cup {new} |-> IF i = new THEN row ELSE log[i]]
  /\ writer' = [writer EXCEPT ![w] = Idle]
  /\ UNCHANGED lastId

\* The transaction is rolled back; the id, if it had one, is lost.
Abort(w) ==
  /\ Outages
  /\ writer[w] # Idle
  /\ writer' = [writer EXCEPT ![w] = Idle]
  /\ UNCHANGED <<log, lastId>>

\* cleanup_once: the rows older than the retention window go.
Prune ==
  /\ Retention
  /\ \E cutoff \in DOMAIN log : log' = [i \in {j \in DOMAIN log : j > cutoff} |-> log[i]]
  /\ UNCHANGED <<lastId, writer>>

Next == Prune \/ \E w \in Writers : Begin(w) \/ Insert(w) \/ Commit(w) \/ Abort(w)

Spec == Init /\ [][Next]_vars

-----------------------------------------------------------------------------
(* verify_chain: walk the rows in id order, and stop at the first whose    *)
(* hash is not the one computed from the row before it.                    *)

Before(i) == {j \in DOMAIN log : j < i}

Bad == {i \in DOMAIN log : log[i].hash # Hash(HashOf(Before(i)), i)}

\* (ok, first_bad_id).
VerifyChain == [ok |-> Bad = {}, first |-> IF Bad = {} THEN 0 ELSE Oldest(Bad)]

-----------------------------------------------------------------------------
\* Each row was hashed onto a row that had been committed before it got its id
\* (or onto nothing, or onto a row retention has removed since): the log is a
\* forest, whatever fails or is rolled back in between (audit.py:54-69).
RowsExtendCommittedRows ==
  \A i \in DOMAIN log :
    \/ log[i].prev = <<>>
    \/ \E j \in Before(i) : log[j].hash = log[i].prev
    \/ Retention

\* Calls one at a time: verification never reports a log nobody has touched,
\* except for the oldest row that retention has left, whose predecessor is gone
\* (maintenance.py:36-38), and says nothing of the rows after it.
NoFalseAlarm ==
  LET answer == VerifyChain IN
  /\ answer.ok \/ /\ Retention
                  /\ answer.first = Oldest(DOMAIN log) /\ log[answer.first].prev # <<>>
  /\ Bad \subseteq {answer.first}

-----------------------------------------------------------------------------
(* What the above rests on, so that every action preserves it. *)

RowsHashed == \A i \in DOMAIN log : log[i].hash = Hash(log[i].prev, i)

\* An id that was handed out is used by one transaction at most.
IdsAreFresh ==
  \A w \in Writers : writer[w].pc = "inserted" =>
    /\ writer[w].id \in 1..lastId /\ writer[w].id \notin DOMAIN log
    /\ \A v \in Writers \ {w} : writer[v].pc = "inserted" => writer[v].id # writer[w].id

\* What a writer has read was committed, and before it got its id.
WritersExtendCommittedRows ==
  \A w \in Writers : writer[w] # Idle =>
    \/ writer[w].prev = <<>>
    \/ \E j \in DOMAIN log : /\ log[j].hash = writer[w].prev
                             /\ writer[w].pc = "inserted" => j < writer[w].id
    \/ Retention

ForestInv ==
  /\ TypeOK
  /\ RowsHashed
  /\ IdsAreFresh
  /\ WritersExtendCommittedRows
  /\ RowsExtendCommittedRows

\* One call at a time: what it read is still the tip, unless retention has
\* emptied the log; and a row without a predecessor was written first, or lost
\* its predecessor to retention.
SerialInv ==
  /\ TypeOK
  /\ RowsHashed
  /\ \A w \in Writers :
       /\ writer[w] # Idle =>
            \/ writer[w].prev = Tip
            \/ Retention /\ DOMAIN log = {} /\ writer[w].prev # <<>>
       /\ writer[w].pc = "inserted" =>
            writer[w].id \in 1..lastId /\ \A i \in DOMAIN log : i < writer[w].id
  /\ \A i \in DOMAIN log :
       \/ log[i].prev = HashOf(Before(i))
       \/ Retention /\ Before(i) = {} /\ log[i].prev # <<>>
=============================================================================
