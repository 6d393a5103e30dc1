----------------------------- MODULE AuditProofs -----------------------------
(***************************************************************************)
(* Theorems about AuditChain, for any number of writers: interleaved calls *)
(* build a forest of hashes, and calls made one at a time build a chain    *)
(* that verification accepts.                                              *)
(***************************************************************************)
EXTENDS AuditChain, SequenceTheorems, WellFoundedInduction, TLAPS

-----------------------------------------------------------------------------
(* Lemmas about ids and hashes. *)

\* No number below it is no other number above it.
LEMMA MinimalIsLeast ==
  ASSUME NEW R, NEW S \in SUBSET Nat,
         \A x, y \in Nat : <<x, y>> \in R <=> x < y,
         \E i \in S : \A j \in S : <<j, i>> \notin R
  PROVE  \E i \in S : \A j \in S : i =< j
<1>1. PICK i \in S : \A j \in S : <<j, i>> \notin R
  OBVIOUS
<1>2. \A j \in S : ~(j < i)
  BY <1>1
<1> QED BY <1>2

\* A nonempty set of ids has a least one.
LEMMA HasLeast ==
  ASSUME NEW S \in SUBSET Nat, S # {}
  PROVE  \E i \in S : \A j \in S : i =< j
<1> DEFINE R == OpToRel(<, Nat)
<1>1. IsWellFoundedOn(R, Nat)
  BY NatLessThanWellFounded, Zenon
<1>2. \A x, y \in Nat : <<x, y>> \in R <=> x < y
  BY DEF OpToRel
<1> HIDE DEF R
<1>3. \E i \in S : \A j \in S : <<j, i>> \notin R
  BY <1>1, WFMin, Zenon
<1> QED BY <1>2, <1>3, MinimalIsLeast, Zenon

\* And, being bounded, a greatest one.
LEMMA HasGreatest ==
  ASSUME NEW n \in Nat, NEW S \in SUBSET (1..n), S # {}
  PROVE  \E i \in S : \A j \in S : j =< i
<1> DEFINE T == {n - i : i \in S}
<1>1. \A i \in S : i \in 1..n /\ n - i \in Nat
  OBVIOUS
<1>6. T \in SUBSET Nat /\ T # {}
  BY <1>1
<1>2. PICK k \in T : \A j \in T : k =< j
  BY <1>6, HasLeast
<1>3. PICK i \in S : k = n - i
  BY <1>2
<1>4. \A j \in S : n - i =< n - j
  BY <1>2, <1>3
<1> QED BY <1>1, <1>4

\* The newest of some ids of the log is one of them, and the greatest.
LEMMA NewestIs ==
  ASSUME NEW n \in Nat, NEW S \in SUBSET (1..n), S # {}
  PROVE  Newest(S) \in S /\ \A j \in S : j =< Newest(S)
<1>1. \E i \in S : \A j \in S : j =< i
  BY HasGreatest
<1> QED BY <1>1 DEF Newest

\* A greatest id is the newest one.
LEMMA NewestUnique ==
  ASSUME NEW S \in SUBSET Nat, NEW i \in S, \A j \in S : j =< i
  PROVE  Newest(S) = i
<1>1. Newest(S) \in S /\ \A j \in S : j =< Newest(S)
  BY DEF Newest
<1>2. Newest(S) =< i /\ i =< Newest(S) /\ Newest(S) \in Nat /\ i \in Nat
  BY <1>1
<1> QED BY <1>2

\* sha256, as modelled, does not collide and is never empty.
LEMMA HashInjective ==
  ASSUME NEW p \in Hashes, NEW q \in Hashes, NEW i \in Nat
  PROVE  /\ Hash(p, i) \in Hashes /\ Hash(p, i) # <<>>
         /\ Hash(p, i) = Hash(q, i) => p = q
<1>1. p \in Seq(Nat) /\ q \in Seq(Nat)
  BY DEF Hashes
<1>2. /\ Len(p) \in Nat /\ Len(q) \in Nat
      /\ Append(p, i) \in Seq(Nat) /\ Append(q, i) \in Seq(Nat)
      /\ Len(Append(p, i)) = Len(p) + 1 /\ Len(Append(q, i)) = Len(q) + 1
      /\ \A k \in 1..Len(p) : Append(p, i)[k] = p[k]
      /\ \A k \in 1..Len(q) : Append(q, i)[k] = q[k]
  BY <1>1, LenProperties, AppendProperties
<1>3. Append(p, i) # <<>>
  <2>1. Len(<<>>) = 0
    BY EmptySeq
  <2>2. Len(Append(p, i)) # 0
    BY <1>2
  <2> QED BY <2>1, <2>2
<1>4. ASSUME Append(p, i) = Append(q, i) PROVE p = q
  <2>1. Len(p) = Len(q)
    BY <1>2, <1>4
  <2>2. \A k \in 1..Len(p) : p[k] = q[k]
    BY <1>2, <1>4, <2>1
  <2> QED BY <1>1, <2>1, <2>2, SeqEqual
<1> QED BY <1>2, <1>3, <1>4 DEF Hash, Hashes

\* What TypeOK says of the log.
LEMMA LogTyped ==
  ASSUME TypeOK
  PROVE  /\ DOMAIN log \in SUBSET (1..lastId) /\ lastId \in Nat
         /\ \A i \in DOMAIN log : /\ log[i] \in Row /\ i \in Nat
                                  /\ log[i].prev \in Hashes /\ log[i].hash \in Hashes
  BY DEF TypeOK, Row

\* The hash of a set of rows is a hash.
LEMMA HashOfTyped ==
  ASSUME TypeOK, NEW S \in SUBSET DOMAIN log
  PROVE  /\ HashOf(S) \in Hashes
         /\ S # {} => Newest(S) \in S /\ HashOf(S) = log[Newest(S)].hash
<1>1. CASE S = {}
  BY <1>1 DEF HashOf, Hashes
<1>2. CASE S # {}
  <2>1. Newest(S) \in S
    BY <1>2, LogTyped, NewestIs
  <2> QED BY <1>2, <2>1, LogTyped DEF HashOf
<1> QED BY <1>1, <1>2

\* Every step keeps the types, given that ids in flight are fresh.
LEMMA StepTyped ==
  ASSUME TypeOK, [Next]_vars,
         \A w \in Writers : writer[w].pc = "inserted" => writer[w].id \in 1..lastId
  PROVE  TypeOK'
<1>0. writer \in [Writers -> {Idle} \cup Reading \cup Inserted]
  BY DEF TypeOK
<1>1. CASE UNCHANGED vars
  BY <1>1 DEF TypeOK, vars
<1>2. CASE Prune
  BY <1>2 DEF Prune, TypeOK
<1>3. ASSUME NEW w \in Writers, Begin(w) PROVE TypeOK'
  <2>1. Tip \in Hashes
    BY HashOfTyped DEF Tip
  <2>2. [pc |-> "read", prev |-> Tip] \in Reading
    BY <2>1 DEF Reading
  <2> QED BY <1>3, <2>2 DEF Begin, TypeOK
<1>4. ASSUME NEW w \in Writers, Insert(w) PROVE TypeOK'
  <2>1. writer[w].prev \in Hashes
    BY <1>0, <1>4 DEF Insert, Idle, Reading, Inserted
  <2>2. [pc |-> "inserted", prev |-> writer[w].prev, id |-> lastId + 1] \in Inserted
    BY <2>1 DEF Inserted, TypeOK
  <2>3. writer' \in [Writers -> {Idle} \cup Reading \cup Inserted]
    BY <1>0, <1>4, <2>2 DEF Insert
  <2>4. lastId' \in Nat /\ 1..lastId \subseteq 1..lastId' /\ log' = log
    BY <1>4 DEF Insert, TypeOK
  <2> QED BY <2>3, <2>4 DEF TypeOK
<1>5. ASSUME NEW w \in Writers, Commit(w) PROVE TypeOK'
  <2>1. writer[w].prev \in Hashes /\ writer[w].id \in Nat
    BY <1>0, <1>5 DEF Commit, Idle, Reading, Inserted
  <2>2. [prev |-> writer[w].prev, hash |-> Hash(writer[w].prev, writer[w].id)] \in Row
    BY <2>1, HashInjective DEF Row
  <2>3. DOMAIN log' \subseteq 1..lastId
    BY <1>5 DEF Commit, TypeOK
  <2>4. log' \in [DOMAIN log' -> Row]
    BY <1>5, <2>2, LogTyped DEF Commit
  <2> QED BY <1>0, <1>5, <2>3, <2>4 DEF Commit, TypeOK
<1>6. ASSUME NEW w \in Writers, Abort(w) PROVE TypeOK'
  BY <1>6 DEF Abort, TypeOK
<1> QED BY <1>1, <1>2, <1>3, <1>4, <1>5, <1>6 DEF Next

\* What Commit(w) does to the log.
LEMMA CommitAddsRow ==
  ASSUME TypeOK, NEW w \in Writers, Commit(w)
  PROVE  LET new == writer[w].id IN
         /\ writer[w].prev \in Hashes /\ new \in Nat
         /\ DOMAIN log' = DOMAIN log \cup {new}
         /\ log'[new].prev = writer[w].prev
         /\ log'[new].hash = Hash(writer[w].prev, new)
         /\ \A i \in DOMAIN log : i # new => log'[i] = log[i]
         /\ writer' = [writer EXCEPT ![w] = Idle] /\ lastId' = lastId
<1>1. writer[w].prev \in Hashes /\ writer[w].id \in Nat
  BY DEF TypeOK, Commit, Idle, Reading, Inserted
<1> QED BY <1>1 DEF Commit

-----------------------------------------------------------------------------
(* Interleaved calls. *)

\* The initial state: an empty log, nobody writing.
LEMMA InitForest == Init => ForestInv
  BY DEF Init, ForestInv, TypeOK, RowsHashed, IdsAreFresh, WritersExtendCommittedRows,
     RowsExtendCommittedRows, Idle

\* Every step preserves the forest.
LEMMA StepForest == ForestInv /\ [Next]_vars => ForestInv'
<1> SUFFICES ASSUME ForestInv, [Next]_vars PROVE ForestInv'
  OBVIOUS
<1>0. /\ TypeOK /\ lastId \in Nat /\ DOMAIN log \in SUBSET (1..lastId)
      /\ writer \in [Writers -> {Idle} \cup Reading \cup Inserted]
  BY DEF ForestInv, TypeOK
<1>1. TypeOK'
  BY StepTyped DEF ForestInv, IdsAreFresh
<1>2. CASE UNCHANGED vars
  BY <1>1, <1>2 DEF vars, ForestInv, RowsHashed, IdsAreFresh, WritersExtendCommittedRows,
     RowsExtendCommittedRows, Before
<1>3. CASE Prune
  <2>1. Retention /\ UNCHANGED <<lastId, writer>>
    BY <1>3 DEF Prune
  <2>2. DOMAIN log' \subseteq DOMAIN log /\ \A i \in DOMAIN log' : log'[i] = log[i]
    BY <1>3 DEF Prune
  <2> QED BY <1>1, <2>1, <2>2 DEF ForestInv, RowsHashed, IdsAreFresh,
     WritersExtendCommittedRows, RowsExtendCommittedRows
<1>4. ASSUME NEW w \in Writers, Begin(w) PROVE ForestInv'
  <2>1. /\ writer' = [writer EXCEPT ![w] = [pc |-> "read", prev |-> Tip]]
        /\ UNCHANGED <<log, lastId>>
    BY <1>4 DEF Begin
  <2>2. Tip = <<>> \/ \E j \in DOMAIN log : log[j].hash = Tip
    BY <1>0, HashOfTyped DEF Tip, HashOf
  <2>3. WritersExtendCommittedRows'
    BY <1>0, <2>1, <2>2 DEF ForestInv, WritersExtendCommittedRows
  <2>4. IdsAreFresh'
    BY <1>0, <2>1 DEF ForestInv, IdsAreFresh
  <2> QED BY <1>1, <2>1, <2>3, <2>4 DEF ForestInv, RowsHashed, RowsExtendCommittedRows, Before
<1>5. ASSUME NEW w \in Writers, Insert(w) PROVE ForestInv'
  <2>1. /\ writer' = [writer EXCEPT ![w] = [pc |-> "inserted", prev |-> writer[w].prev,
                                            id |-> lastId + 1]]
        /\ lastId' = lastId + 1 /\ log' = log /\ writer[w].pc = "read"
    BY <1>5 DEF Insert
  <2>2. writer[w] # Idle
    BY <2>1 DEF Idle
  <2>3. \A j \in DOMAIN log : j < lastId + 1
    BY <1>0
  <2>4. WritersExtendCommittedRows'
    BY <1>0, <2>1, <2>2, <2>3 DEF ForestInv, WritersExtendCommittedRows
  <2>5. IdsAreFresh'
    <3>1. \A v \in Writers \ {w} : writer'[v] = writer[v]
      BY <1>0, <2>1
    <3>2. writer'[w].id = lastId + 1
      BY <1>0, <2>1
    <3>3. lastId + 1 \in 1..lastId' /\ lastId + 1 \notin DOMAIN log /\ 1..lastId \subseteq 1..lastId'
      BY <1>0, <2>1
    <3>4. \A v \in Writers : writer[v].pc = "inserted" => writer[v].id # lastId + 1
      BY <1>0 DEF ForestInv, IdsAreFresh
    <3> QED BY <2>1, <3>1, <3>2, <3>3, <3>4 DEF ForestInv, IdsAreFresh
  <2> QED BY <1>1, <2>1, <2>4, <2>5 DEF ForestInv, RowsHashed, RowsExtendCommittedRows, Before
<1>6. ASSUME NEW w \in Writers, Commit(w) PROVE ForestInv'
  <2> DEFINE new == writer[w].id
  <2>1. /\ new \in Nat /\ DOMAIN log' = DOMAIN log \cup {new}
        /\ log'[new].prev = writer[w].prev
        /\ log'[new].hash = Hash(writer[w].prev, new)
        /\ \A i \in DOMAIN log : i # new => log'[i] = log[i]
        /\ writer' = [writer EXCEPT ![w] = Idle] /\ lastId' = lastId
    BY <1>0, <1>6, CommitAddsRow
  <2>2. /\ writer[w].pc = "inserted" /\ writer[w] # Idle
        /\ new \notin DOMAIN log
        /\ \A v \in Writers \ {w} : writer[v].pc = "inserted" => writer[v].id # new
    BY <1>6 DEF Commit, Idle, ForestInv, IdsAreFresh
  <2>3. \A i \in DOMAIN log : log'[i] = log[i] /\ i \in DOMAIN log'
    BY <2>1, <2>2
  <2>4. \A v \in Writers : writer'[v] # Idle => v # w /\ writer'[v] = writer[v]
    BY <1>0, <2>1
  <2>5. RowsHashed'
    BY <2>1, <2>3 DEF ForestInv, RowsHashed
  <2>6. IdsAreFresh'
    <3>1. \A v \in Writers : writer'[v].pc = "inserted" => writer'[v] # Idle
      BY DEF Idle
    <3> QED BY <2>1, <2>2, <2>4, <3>1 DEF ForestInv, IdsAreFresh
  <2>7. WritersExtendCommittedRows'
    BY <2>3, <2>4 DEF ForestInv, WritersExtendCommittedRows
  <2>8. RowsExtendCommittedRows'
    <3> SUFFICES ASSUME NEW i \in DOMAIN log', ~Retention, log'[i].prev # <<>>
                 PROVE  \E j \in DOMAIN log' : j < i /\ log'[j].hash = log'[i].prev
      BY DEF RowsExtendCommittedRows, Before
    <3>1. CASE i = new
      <4>1. \E j \in DOMAIN log : log[j].hash = writer[w].prev /\ j < new
        BY <2>1, <2>2, <3>1 DEF ForestInv, WritersExtendCommittedRows
      <4> QED BY <2>1, <2>3, <3>1, <4>1
    <3>2. CASE i \in DOMAIN log
      <4>1. \E j \in DOMAIN log : j < i /\ log[j].hash = log[i].prev
        BY <2>3, <3>2 DEF ForestInv, RowsExtendCommittedRows, Before
      <4> QED BY <2>3, <3>2, <4>1
    <3> QED BY <2>1, <3>1, <3>2
  <2> QED BY <1>1, <2>5, <2>6, <2>7, <2>8 DEF ForestInv
<1>7. ASSUME NEW w \in Writers, Abort(w) PROVE ForestInv'
  <2>1. writer' = [writer EXCEPT ![w] = Idle] /\ UNCHANGED <<log, lastId>>
    BY <1>7 DEF Abort
  <2>2. \A v \in Writers : writer'[v] # Idle => v # w /\ writer'[v] = writer[v]
    BY <1>0, <2>1
  <2>3. \A v \in Writers : writer'[v].pc = "inserted" => writer'[v] # Idle
    BY DEF Idle
  <2>4. IdsAreFresh' /\ WritersExtendCommittedRows'
    BY <2>1, <2>2, <2>3 DEF ForestInv, IdsAreFresh, WritersExtendCommittedRows
  <2> QED BY <1>1, <2>1, <2>4 DEF ForestInv, RowsHashed, RowsExtendCommittedRows, Before
<1> QED BY <1>2, <1>3, <1>4, <1>5, <1>6, <1>7 DEF Next

\* However record() interleaves with itself and fails: an id serves one row, what
\* a writer has read was committed before it got its id, and every row carries
\* the hash of what it extends (audit.py:54-69).
THEOREM ForestInvariant == Spec => []ForestInv
BY InitForest, StepForest, PTL DEF Spec

\* So each row extends a row that was committed before it.
THEOREM LogIsForest == Spec => []RowsExtendCommittedRows
<1>1. ForestInv => RowsExtendCommittedRows
  BY DEF ForestInv
<1> QED BY <1>1, ForestInvariant, PTL

-----------------------------------------------------------------------------
(* Calls one at a time. *)

\* Removing old rows does not change which one is the newest, if any is left.
LEMMA NewestSurvives ==
  ASSUME NEW n \in Nat, NEW S \in SUBSET (1..n), NEW cutoff \in Nat,
         NEW T \in SUBSET S, \A j \in S : j \in T <=> j > cutoff, T # {}
  PROVE  Newest(T) = Newest(S)
<1>0. \A k : k \in T <=> k \in S /\ k > cutoff
  OBVIOUS
<1>1. S # {} /\ S \in SUBSET Nat
  BY <1>0
<1>2. Newest(S) \in S /\ \A k \in S : k =< Newest(S)
  BY <1>1, NewestIs
<1> DEFINE m == Newest(S)
<1>3. m \in S /\ m \in Nat /\ \A k \in S : k =< m
  BY <1>1, <1>2
<1> HIDE DEF m
<1>4. m > cutoff
  <2>1. PICK k : k \in T
    OBVIOUS
  <2>2. k \in Nat /\ k > cutoff /\ k =< m
    BY <1>0, <1>1, <1>3, <2>1
  <2> QED BY <1>3, <2>2
<1>5. m \in T /\ T \in SUBSET Nat /\ \A k \in T : k =< m
  BY <1>0, <1>1, <1>3, <1>4
<1>6. Newest(T) = m
  BY <1>5, NewestUnique
<1> QED BY <1>6 DEF m

\* A row that was there before a step keeps its hash, so do sets of such rows.
LEMMA HashOfKept ==
  ASSUME TypeOK, NEW S \in SUBSET DOMAIN log, \A i \in S : log'[i] = log[i]
  PROVE  (IF S = {} THEN <<>> ELSE log'[Newest(S)].hash) = HashOf(S)
  BY HashOfTyped DEF HashOf

\* The initial state.
LEMMA InitSerial == Init => SerialInv
  BY DEF Init, SerialInv, TypeOK, RowsHashed, Idle

\* One writer: what it has read stays the tip until it commits.
LEMMA StepSerial ==
  ASSUME NEW c, Writers = {c}, SerialInv, [Next]_vars
  PROVE  SerialInv'
<1>0. /\ TypeOK /\ lastId \in Nat /\ DOMAIN log \in SUBSET (1..lastId)
      /\ writer \in [Writers -> {Idle} \cup Reading \cup Inserted]
      /\ RowsHashed
  BY DEF SerialInv, TypeOK
<1>1. TypeOK'
  BY StepTyped DEF SerialInv
<1>2. CASE UNCHANGED vars
  BY <1>1, <1>2 DEF vars, SerialInv, RowsHashed, Tip, HashOf, Before
<1>3. CASE Prune
  <2>1. PICK cutoff \in DOMAIN log : log' = [i \in {j \in DOMAIN log : j > cutoff} |-> log[i]]
    BY <1>3 DEF Prune
  <2>2. Retention /\ UNCHANGED <<lastId, writer>> /\ cutoff \in Nat
    BY <1>0, <1>3 DEF Prune
  <2>3. DOMAIN log' = {j \in DOMAIN log : j > cutoff} /\ \A i \in DOMAIN log' : log'[i] = log[i]
    BY <2>1
  <2>4. \A i \in DOMAIN log : log[i].hash # <<>>
    BY <1>0, LogTyped, HashInjective DEF RowsHashed
  <2>5. Tip # <<>>
    BY <1>0, <2>1, <2>4, HashOfTyped DEF Tip
  <2>6. DOMAIN log' # {} => Tip' = Tip
    <3> SUFFICES ASSUME DOMAIN log' # {} PROVE Tip' = Tip
      OBVIOUS
    <3>0. DOMAIN log' \in SUBSET DOMAIN log /\ \A j \in DOMAIN log : j \in DOMAIN log' <=> j > cutoff
      BY <2>3
    <3>1. Newest(DOMAIN log') = Newest(DOMAIN log)
      BY <1>0, <2>2, <3>0, NewestSurvives
    <3>2. Newest(DOMAIN log') \in DOMAIN log'
      BY <1>0, <2>3, NewestIs
    <3> QED BY <2>1, <2>3, <3>1, <3>2 DEF Tip, HashOf
  <2>7. ASSUME NEW w \in Writers, writer[w] # Idle
        PROVE  writer[w].prev = Tip' \/ (DOMAIN log' = {} /\ writer[w].prev # <<>>)
    BY <2>1, <2>5, <2>6, <2>7 DEF SerialInv
  <2>8. ASSUME NEW i \in DOMAIN log'
        PROVE  log'[i].prev = HashOf(Before(i))' \/ (Before(i)' = {} /\ log'[i].prev # <<>>)
    <3>1. /\ i \in DOMAIN log /\ log'[i] = log[i] /\ cutoff \in Before(i)
          /\ Before(i) \in SUBSET DOMAIN log /\ Before(i) \in SUBSET (1..lastId)
      BY <1>0, <2>2, <2>3, <2>8 DEF Before
    <3>2. log[i].prev = HashOf(Before(i))
      BY <3>1 DEF SerialInv
    <3>3. Before(i)' = {j \in Before(i) : j > cutoff}
      BY <2>3 DEF Before
    <3>4. HashOf(Before(i)) = log[Newest(Before(i))].hash /\ Newest(Before(i)) \in DOMAIN log
      BY <1>0, <3>1, HashOfTyped
    <3>5. CASE Before(i)' = {}
      BY <2>4, <3>1, <3>2, <3>4, <3>5
    <3>6. CASE Before(i)' # {}
      <4>p. PICK S, T : S = Before(i) /\ T = Before(i)'
        OBVIOUS
      <4>0. /\ T \in SUBSET S /\ \A j \in S : j \in T <=> j > cutoff
            /\ T # {} /\ S \in SUBSET (1..lastId)
        BY <3>1, <3>3, <3>6, <4>p
      <4>1. Newest(T) = Newest(S)
        <5>1. lastId \in Nat /\ cutoff \in Nat
          BY <1>0, <2>2
        <5> QED BY <4>0, <5>1, NewestSurvives, Zenon
      <4>2. Newest(Before(i)') \in Before(i)'
        BY <1>0, <3>1, <3>3, <3>6, NewestIs
      <4>3. log'[Newest(Before(i)')] = log[Newest(Before(i))]
        BY <2>3, <4>p, <4>1, <4>2 DEF Before
      <4>4. HashOf(Before(i))' = log'[Newest(Before(i)')].hash
        BY <3>6 DEF HashOf
      <4> QED BY <3>1, <3>2, <3>4, <4>3, <4>4
    <3> QED BY <3>5, <3>6
  <2>9. RowsHashed'
    BY <1>0, <2>3 DEF RowsHashed
  <2>10. \A w \in Writers : writer[w].pc = "inserted" =>
           writer[w].id \in 1..lastId /\ \A i \in DOMAIN log' : i < writer[w].id
    BY <2>3 DEF SerialInv
  <2> QED BY <1>1, <2>2, <2>7, <2>8, <2>9, <2>10 DEF SerialInv
<1>4. CASE Begin(c)
  <2>1. /\ writer' = [writer EXCEPT ![c] = [pc |-> "read", prev |-> Tip]]
        /\ UNCHANGED <<log, lastId>>
    BY <1>4 DEF Begin
  <2>2. Tip' = Tip /\ \A i : HashOf(Before(i))' = HashOf(Before(i)) /\ Before(i)' = Before(i)
    BY <2>1 DEF Tip, HashOf, Before
  <2>3. writer'[c].prev = Tip /\ writer'[c].pc = "read"
    BY <1>0, <2>1
  <2> QED BY <1>1, <2>1, <2>2, <2>3 DEF SerialInv, RowsHashed
<1>5. CASE Insert(c)
  <2>1. /\ writer' = [writer EXCEPT ![c] = [pc |-> "inserted", prev |-> writer[c].prev,
                                            id |-> lastId + 1]]
        /\ lastId' = lastId + 1 /\ log' = log /\ writer[c].pc = "read"
    BY <1>5 DEF Insert
  <2>2. Tip' = Tip /\ \A i : HashOf(Before(i))' = HashOf(Before(i)) /\ Before(i)' = Before(i)
    BY <2>1 DEF Tip, HashOf, Before
  <2>3. writer'[c].prev = writer[c].prev /\ writer'[c].id = lastId + 1 /\ writer[c] # Idle
    BY <1>0, <2>1 DEF Idle
  <2>4. lastId + 1 \in 1..lastId' /\ \A i \in DOMAIN log : i < lastId + 1
    BY <1>0, <2>1
  <2> QED BY <1>1, <2>1, <2>2, <2>3, <2>4 DEF SerialInv, RowsHashed
<1>6. CASE Commit(c)
  <2>0. PICK new : new = writer[c].id
    OBVIOUS
  <2>1. /\ new \in Nat /\ DOMAIN log' = DOMAIN log \cup {new}
        /\ log'[new].prev = writer[c].prev
        /\ log'[new].hash = Hash(writer[c].prev, new)
        /\ \A i \in DOMAIN log : i # new => log'[i] = log[i]
        /\ writer' = [writer EXCEPT ![c] = Idle] /\ lastId' = lastId
    BY <1>0, <1>6, <2>0, CommitAddsRow
  <2>2. /\ writer[c].pc = "inserted" /\ writer[c] # Idle
        /\ \A i \in DOMAIN log : i < new
    BY <1>6, <2>0 DEF Commit, Idle, SerialInv
  <2>3. \A i \in DOMAIN log : log'[i] = log[i] /\ i # new /\ i \in Nat
    BY <1>0, <2>1, <2>2
  <2>4. writer'[c] = Idle
    BY <1>0, <2>1
  <2>5. RowsHashed'
    BY <1>0, <2>1, <2>3 DEF RowsHashed
  <2>6. Before(new)' = DOMAIN log /\ HashOf(Before(new))' = Tip
    <3>1. Before(new)' = DOMAIN log
      BY <2>1, <2>2 DEF Before
    <3>2. (IF DOMAIN log = {} THEN <<>> ELSE log'[Newest(DOMAIN log)].hash) = HashOf(DOMAIN log)
      BY <1>0, <2>3, HashOfKept
    <3> QED BY <3>1, <3>2 DEF HashOf, Tip
  <2>7. ASSUME NEW i \in DOMAIN log
        PROVE  Before(i)' = Before(i) /\ HashOf(Before(i))' = HashOf(Before(i))
    <3>1. Before(i)' = Before(i)
      BY <2>1, <2>2, <2>3 DEF Before
    <3>2. Before(i) \in SUBSET DOMAIN log
      BY DEF Before
    <3>3. (IF Before(i) = {} THEN <<>> ELSE log'[Newest(Before(i))].hash) = HashOf(Before(i))
      BY <1>0, <2>3, <3>2, HashOfKept
    <3> QED BY <3>1, <3>3 DEF HashOf
  <2>8. writer[c].prev = Tip \/ (Retention /\ DOMAIN log = {} /\ writer[c].prev # <<>>)
    BY <2>2 DEF SerialInv
  <2>9. \A i \in DOMAIN log' :
          \/ log'[i].prev = HashOf(Before(i))'
          \/ Retention /\ Before(i)' = {} /\ log'[i].prev # <<>>
    BY <2>1, <2>3, <2>6, <2>7, <2>8 DEF SerialInv
  <2>10. writer'[c].pc # "inserted"
    BY <2>4 DEF Idle
  <2> QED BY <1>1, <2>4, <2>5, <2>9, <2>10 DEF SerialInv
<1>7. CASE Abort(c)
  <2>1. writer' = [writer EXCEPT ![c] = Idle] /\ UNCHANGED <<log, lastId>>
    BY <1>7 DEF Abort
  <2>2. writer'[c] = Idle /\ Idle.pc # "inserted"
    BY <1>0, <2>1 DEF Idle
  <2>3. \A i : HashOf(Before(i))' = HashOf(Before(i)) /\ Before(i)' = Before(i)
    BY <2>1 DEF HashOf, Before
  <2> QED BY <1>1, <2>1, <2>2, <2>3 DEF SerialInv, RowsHashed
<1> QED BY <1>2, <1>3, <1>4, <1>5, <1>6, <1>7 DEF Next

\* A row that does not verify is the oldest one left.
LEMMA SerialVerifies == SerialInv => NoFalseAlarm
<1> SUFFICES ASSUME SerialInv PROVE NoFalseAlarm
  OBVIOUS
<1>1. TypeOK /\ RowsHashed /\ DOMAIN log \in SUBSET (1..lastId) /\ lastId \in Nat
  BY DEF SerialInv, TypeOK
<1>2. ASSUME NEW i \in Bad
      PROVE  /\ i \in DOMAIN log /\ Retention /\ log[i].prev # <<>>
             /\ \A j \in DOMAIN log : i =< j
  <2>1. i \in DOMAIN log /\ log[i].hash # Hash(HashOf(Before(i)), i)
    BY <1>2 DEF Bad
  <2>2. log[i].prev # HashOf(Before(i))
    BY <1>1, <2>1 DEF RowsHashed
  <2>3. Retention /\ Before(i) = {} /\ log[i].prev # <<>>
    BY <2>1, <2>2 DEF SerialInv
  <2>4. \A j \in DOMAIN log : ~(j < i) /\ j \in Nat /\ i \in Nat
    BY <1>1, <2>1, <2>3 DEF Before
  <2> QED BY <2>1, <2>3, <2>4
<1>3. CASE Bad = {}
  BY <1>3 DEF NoFalseAlarm, VerifyChain
<1>4. ASSUME NEW i \in Bad PROVE NoFalseAlarm
  <2>1. \A j \in DOMAIN log : j \in Nat /\ i \in Nat
    BY <1>1, <1>2, <1>4
  <2>2. \A k \in DOMAIN log : (\A j \in DOMAIN log : k =< j) => k = i
    BY <1>2, <1>4, <2>1
  <2>3. Bad = {i}
    BY <1>2, <1>4, <2>2
  <2>4. Oldest(Bad) = i
    BY <2>1, <2>3, <1>2 DEF Oldest
  <2>5. Oldest(DOMAIN log) = i
    BY <1>2, <1>4, <2>2 DEF Oldest
  <2> QED BY <1>2, <1>4, <2>3, <2>4, <2>5 DEF NoFalseAlarm, VerifyChain
<1> QED BY <1>3, <1>4

\* With one call of record() at a time, what it has read stays the tip of the log
\* until it commits, so each row extends the row before it (audit.py:54-69).
THEOREM SerialInvariant ==
  ASSUME NEW CONSTANT c, Writers = {c}
  PROVE  Spec => []SerialInv
<1>1. SerialInv /\ [Next]_vars => SerialInv'
  BY StepSerial
<1> QED BY <1>1, InitSerial, PTL DEF Spec

\* So verification accepts every log the gateway writes, gaps left by failed calls
\* included, but for the row at the edge of the retention window
\* (audit.py:54-81, maintenance.py:36-44).
THEOREM SerialLogVerifies ==
  ASSUME NEW CONSTANT c, Writers = {c}
  PROVE  Spec => []NoFalseAlarm
BY SerialInvariant, SerialVerifies, PTL
-----------------------------------------------------------------------------
(* Tampering.  What may become of the rows once they are written: a table  *)
(* has rows with any ids, each of which says something and carries a hash. *)

Tables == UNION {[says : [S -> Nat], hash : [S -> Hashes]] :
                   S \in UNION {SUBSET (1..n) : n \in Nat}}

Ids(t) == DOMAIN t.says

Earlier(t, i) == {j \in Ids(t) : j < i}

HashAt(t, S) == IF S = {} THEN <<>> ELSE t.hash[Newest(S)]

\* verify_chain of a table that is not the log.
Verifies(t) == \A i \in Ids(t) : t.hash[i] = Hash(HashAt(t, Earlier(t, i)), t.says[i])

\* The log as it was written.
Written == [says |-> [i \in DOMAIN log |-> i], hash |-> [i \in DOMAIN log |-> log[i].hash]]

\* The rows of t say, one after the other, what the rows of the log say.
ReadsAsTheLog(t) ==
  /\ {t.says[i] : i \in Ids(t)} = DOMAIN log
  /\ \A i, j \in Ids(t) : i < j => t.says[i] < t.says[j]

\* The hash of a row determines what the row says, and the hash before it.
LEMMA HashDetermines ==
  ASSUME NEW p \in Hashes, NEW q \in Hashes, NEW i \in Nat, NEW j \in Nat, Hash(p, i) = Hash(q, j)
  PROVE  p = q /\ i = j
BY AppendInjective DEF Hash, Hashes

LEMMA TableTyped ==
  ASSUME NEW t \in Tables
  PROVE  /\ \E n \in Nat : Ids(t) \in SUBSET (1..n)
         /\ t.says \in [Ids(t) -> Nat] /\ t.hash \in [Ids(t) -> Hashes]
         /\ \A i \in Ids(t) : i \in Nat
<1>1. PICK S \in UNION {SUBSET (1..n) : n \in Nat} : t \in [says : [S -> Nat], hash : [S -> Hashes]]
  BY DEF Tables
<1>2. PICK n \in Nat : S \in SUBSET (1..n)
  BY <1>1
<1>3. Ids(t) = S
  BY <1>1 DEF Ids
<1>4. t.says \in [S -> Nat] /\ t.hash \in [S -> Hashes]
  BY <1>1
<1>5. \A i \in S : i \in Nat
  BY <1>2
<1> QED BY <1>2, <1>3, <1>4, <1>5

\* Of some rows, the newest is one of them, and theirs is the hash of the newest.
LEMMA HashAtIs ==
  ASSUME NEW t \in Tables, NEW S \in SUBSET Ids(t)
  PROVE  /\ HashAt(t, S) \in Hashes
         /\ S # {} => /\ Newest(S) \in S /\ \A j \in S : j =< Newest(S)
                      /\ HashAt(t, S) = t.hash[Newest(S)]
<1>1. CASE S = {}
  BY <1>1 DEF HashAt, Hashes
<1>2. CASE S # {}
  <2>1. PICK n \in Nat : S \in SUBSET (1..n)
    BY TableTyped
  <2>2. Newest(S) \in S /\ \A j \in S : j =< Newest(S)
    BY <1>2, <2>1, NewestIs
  <2> QED BY <1>2, <2>2, TableTyped DEF HashAt
<1> QED BY <1>1, <1>2

\* A row that is not the newest has a next one, which extends it.
LEMMA NextRow ==
  ASSUME NEW t \in Tables, NEW i \in Ids(t), NEW m \in Ids(t), i < m
  PROVE  \E n \in Ids(t) : /\ i < n /\ n =< m
                           /\ \A j \in Ids(t) : j > i => n =< j
                           /\ Earlier(t, n) # {} /\ Newest(Earlier(t, n)) = i
                           /\ HashAt(t, Earlier(t, n)) = t.hash[i]
<1> DEFINE S == {j \in Ids(t) : j > i}
<1>1. S \in SUBSET Nat /\ m \in S /\ i \in Nat
  BY TableTyped
<1>2. PICK n \in S : \A j \in S : n =< j
  BY <1>1, HasLeast
<1>3. /\ n \in Ids(t) /\ i < n /\ n =< m /\ n \in Nat
      /\ \A j \in Ids(t) : j > i => n =< j
  BY <1>1, <1>2
<1>4. i \in Earlier(t, n) /\ Earlier(t, n) \in SUBSET Nat
  BY <1>1, <1>3, TableTyped DEF Earlier
<1>5. \A j \in Earlier(t, n) : j =< i
  BY <1>1, <1>3, TableTyped DEF Earlier
<1>6. Newest(Earlier(t, n)) = i
  BY <1>4, <1>5, NewestUnique
<1> QED BY <1>3, <1>4, <1>6 DEF HashAt

\* What a row of a table that verifies is.
LEMMA VerifiedRow ==
  ASSUME NEW t \in Tables, Verifies(t), NEW i \in Ids(t)
  PROVE  /\ t.says[i] \in Nat /\ t.hash[i] \in Hashes /\ i \in Nat
         /\ Earlier(t, i) \in SUBSET Ids(t)
         /\ HashAt(t, Earlier(t, i)) \in Hashes
         /\ t.hash[i] = Hash(HashAt(t, Earlier(t, i)), t.says[i])
         /\ t.hash[i] # <<>>
<1>1. Earlier(t, i) \in SUBSET Ids(t)
  BY DEF Earlier
<1>2. HashAt(t, Earlier(t, i)) \in Hashes
  BY <1>1, HashAtIs
<1>3. t.hash[i] = Hash(HashAt(t, Earlier(t, i)), t.says[i])
  BY DEF Verifies
<1>4. t.says[i] \in Nat /\ t.hash[i] \in Hashes /\ i \in Nat
  BY TableTyped
<1>5. t.hash[i] # <<>>
  BY <1>2, <1>3, <1>4, HashInjective
<1> QED BY <1>1, <1>2, <1>3, <1>4, <1>5

\* Rows that carry the same hash say the same, and extend rows that carry the same.
LEMMA RowsOfOneHash ==
  ASSUME NEW t \in Tables, NEW u \in Tables, Verifies(t), Verifies(u),
         NEW i \in Ids(t), NEW k \in Ids(u), u.hash[k] = t.hash[i]
  PROVE  u.says[k] = t.says[i] /\ HashAt(u, Earlier(u, k)) = HashAt(t, Earlier(t, i))
<1>1. /\ t.says[i] \in Nat /\ HashAt(t, Earlier(t, i)) \in Hashes
      /\ t.hash[i] = Hash(HashAt(t, Earlier(t, i)), t.says[i])
  BY VerifiedRow
<1>2. /\ u.says[k] \in Nat /\ HashAt(u, Earlier(u, k)) \in Hashes
      /\ u.hash[k] = Hash(HashAt(u, Earlier(u, k)), u.says[k])
  BY VerifiedRow
<1> QED BY <1>1, <1>2, HashDetermines

\* A row that extends the hash of some row extends a row that carries it.
LEMMA ExtendedRow ==
  ASSUME NEW t \in Tables, NEW u \in Tables, Verifies(t), Verifies(u),
         NEW i \in Ids(t), NEW k \in Ids(u), HashAt(u, Earlier(u, k)) = t.hash[i]
  PROVE  \E l \in Ids(u) : l < k /\ u.hash[l] = t.hash[i] /\ u.says[l] = t.says[i]
<1>1. t.hash[i] # <<>> /\ Earlier(u, k) \in SUBSET Ids(u)
  BY VerifiedRow
<1>2. Earlier(u, k) # {}
  BY <1>1 DEF HashAt
<1> DEFINE l == Newest(Earlier(u, k))
<1>3. l \in Earlier(u, k) /\ HashAt(u, Earlier(u, k)) = u.hash[l]
  BY <1>1, <1>2, HashAtIs
<1> HIDE DEF l
<1>4. l \in Ids(u) /\ l < k /\ u.hash[l] = t.hash[i]
  BY <1>3 DEF Earlier
<1> QED BY <1>4, RowsOfOneHash

\* Two tables that verify and end in the same hash: each row of one is a row of the other.
LEMMA RowsOfEqualTips ==
  ASSUME NEW t \in Tables, NEW u \in Tables, Verifies(t), Verifies(u),
         HashAt(t, Ids(t)) = HashAt(u, Ids(u))
  PROVE  \A i \in Ids(t) : \E k \in Ids(u) : u.says[k] = t.says[i] /\ u.hash[k] = t.hash[i]
<1> DEFINE Lost == {i \in Ids(t) : ~ \E k \in Ids(u) : u.hash[k] = t.hash[i]}
<1>1. ASSUME Lost # {} PROVE FALSE
  <2>1. PICK n \in Nat : Ids(t) \in SUBSET (1..n)
    BY TableTyped
  <2>2. PICK i \in Lost : \A j \in Lost : j =< i
    BY <1>1, <2>1, HasGreatest
  <2>3. i \in Ids(t) /\ ~ \E k \in Ids(u) : u.hash[k] = t.hash[i]
    BY <2>2
  <2> DEFINE m == Newest(Ids(t))
  <2>4. m \in Ids(t) /\ (\A j \in Ids(t) : j =< m) /\ HashAt(t, Ids(t)) = t.hash[m]
    BY <2>3, HashAtIs
  <2> HIDE DEF m
  <2>5. CASE i = m
    <3>1. t.hash[m] # <<>>
      BY <2>4, VerifiedRow
    <3>2. Ids(u) # {}
      BY <2>4, <3>1 DEF HashAt
    <3>3. Newest(Ids(u)) \in Ids(u) /\ HashAt(u, Ids(u)) = u.hash[Newest(Ids(u))]
      BY <3>2, HashAtIs
    <3> QED BY <2>3, <2>4, <2>5, <3>3
  <2>6. CASE i # m
    <3>1. i \in Nat /\ m \in Nat /\ i < m
      BY <2>3, <2>4, <2>6, TableTyped
    <3>2. PICK j \in Ids(t) : i < j /\ HashAt(t, Earlier(t, j)) = t.hash[i]
      BY <2>3, <2>4, <3>1, NextRow
    <3>3. j \notin Lost
      BY <2>2, <2>3, <3>2, TableTyped
    <3>4. PICK k \in Ids(u) : u.hash[k] = t.hash[j]
      BY <3>3
    <3>5. HashAt(u, Earlier(u, k)) = t.hash[i]
      BY <3>2, <3>4, RowsOfOneHash
    <3> QED BY <2>3, <3>5, ExtendedRow
  <2> QED BY <2>5, <2>6
<1>2. \A i \in Ids(t) : \E k \in Ids(u) : u.hash[k] = t.hash[i]
  BY <1>1
<1> QED BY <1>2, RowsOfOneHash

\* And they come in the same order; u says which with the ids of its rows.
LEMMA OrderOfEqualTips ==
  ASSUME NEW t \in Tables, NEW u \in Tables, Verifies(t), Verifies(u),
         HashAt(t, Ids(t)) = HashAt(u, Ids(u)), \A k \in Ids(u) : u.says[k] = k,
         NEW n \in Ids(t)
  PROVE  \A i \in Ids(t) : i < n => t.says[i] < t.says[n]
<1> DEFINE Wrong == {i \in Ids(t) : i < n /\ ~(t.says[i] < t.says[n])}
<1>1. ASSUME Wrong # {} PROVE FALSE
  <2>1. PICK b \in Nat : Ids(t) \in SUBSET (1..b)
    BY TableTyped
  <2>2. PICK i \in Wrong : \A j \in Wrong : j =< i
    BY <1>1, <2>1, HasGreatest
  <2>3. i \in Ids(t) /\ i < n /\ ~(t.says[i] < t.says[n])
    BY <2>2
  <2>4. PICK j \in Ids(t) : i < j /\ j =< n /\ HashAt(t, Earlier(t, j)) = t.hash[i]
    BY <2>3, NextRow
  <2>5. PICK k \in Ids(u) : u.says[k] = t.says[j] /\ u.hash[k] = t.hash[j]
    BY RowsOfEqualTips
  <2>6. HashAt(u, Earlier(u, k)) = t.hash[i]
    BY <2>4, <2>5, RowsOfOneHash
  <2>7. PICK l \in Ids(u) : l < k /\ u.says[l] = t.says[i]
    BY <2>3, <2>6, ExtendedRow
  <2>8. t.says[i] < t.says[j]
    BY <2>5, <2>7
  <2>9. /\ i \in Nat /\ j \in Nat /\ n \in Nat
        /\ t.says[i] \in Nat /\ t.says[j] \in Nat /\ t.says[n] \in Nat
    BY <2>3, TableTyped
  <2>10. j < n => t.says[j] < t.says[n]
    BY <2>2, <2>4, <2>9
  <2> QED BY <2>3, <2>4, <2>8, <2>9, <2>10
<1> QED BY <1>1

\* The log is a table, its tip the hash of its newest row; verify_chain accepts one
\* when it accepts the other.
LEMMA LogIsTable ==
  ASSUME TypeOK
  PROVE  /\ Written \in Tables /\ Ids(Written) = DOMAIN log
         /\ \A i \in DOMAIN log : Written.says[i] = i /\ Written.hash[i] = log[i].hash
         /\ HashAt(Written, Ids(Written)) = Tip
         /\ Bad = {} => Verifies(Written)
<1>1. /\ DOMAIN Written.says = DOMAIN log
      /\ \A i \in DOMAIN log : Written.says[i] = i /\ Written.hash[i] = log[i].hash
  BY DEF Written
<1>2. Written \in [says : [DOMAIN log -> Nat], hash : [DOMAIN log -> Hashes]]
  <2>1. [i \in DOMAIN log |-> i] \in [DOMAIN log -> Nat]
    BY LogTyped
  <2>2. [i \in DOMAIN log |-> log[i].hash] \in [DOMAIN log -> Hashes]
    BY LogTyped
  <2> QED BY <2>1, <2>2 DEF Written
<1>3. Written \in Tables /\ Ids(Written) = DOMAIN log
  BY <1>1, <1>2, LogTyped DEF Tables, Ids
<1> HIDE DEF Written
<1>4. ASSUME NEW S \in SUBSET DOMAIN log PROVE HashAt(Written, S) = HashOf(S)
  <2>1. S # {} => Newest(S) \in S
    BY HashOfTyped
  <2> QED BY <1>1, <2>1 DEF HashAt, HashOf
<1>5. HashAt(Written, Ids(Written)) = Tip
  BY <1>3, <1>4 DEF Tip
<1>6. ASSUME Bad = {}, NEW i \in DOMAIN log
      PROVE  Written.hash[i] = Hash(HashAt(Written, Earlier(Written, i)), Written.says[i])
  <2>1. Earlier(Written, i) = Before(i) /\ Before(i) \in SUBSET DOMAIN log
    BY <1>3 DEF Earlier, Before
  <2>2. log[i].hash = Hash(HashOf(Before(i)), i)
    BY <1>6 DEF Bad
  <2> QED BY <1>1, <1>4, <2>1, <2>2
<1> QED BY <1>1, <1>3, <1>5, <1>6 DEF Verifies

\* "Every row commits the hash of the one before it" (audit.py:3-8), so the hash of the
\* newest row commits to all of them: while verification accepts the log, a table that it
\* accepts too and that ends in the same hash says, row by row and in the same order, what
\* the log says.  No row can be edited, removed, added or moved, at the end of the log
\* either, without changing that hash or being reported (audit.py:72-81).
THEOREM TipCommitsToTheLog ==
  Spec => [](Bad = {} => \A t \in Tables :
                           Verifies(t) /\ HashAt(t, Ids(t)) = Tip => ReadsAsTheLog(t))
<1>1. ASSUME TypeOK, Bad = {}, NEW t \in Tables, Verifies(t), HashAt(t, Ids(t)) = Tip
      PROVE  ReadsAsTheLog(t)
  <2> DEFINE u == Written
  <2>1. /\ u \in Tables /\ Ids(u) = DOMAIN log /\ Verifies(u)
        /\ \A k \in Ids(u) : u.says[k] = k
        /\ HashAt(t, Ids(t)) = HashAt(u, Ids(u))
    BY <1>1, LogIsTable
  <2> HIDE DEF u
  <2>2. ASSUME NEW i \in Ids(t) PROVE t.says[i] \in DOMAIN log
    <3>1. PICK k \in Ids(u) : u.says[k] = t.says[i]
      BY <1>1, <2>1, RowsOfEqualTips
    <3> QED BY <2>1, <3>1
  <2>3. ASSUME NEW k \in DOMAIN log PROVE \E i \in Ids(t) : t.says[i] = k
    <3>1. k \in Ids(u) /\ u.says[k] = k
      BY <2>1
    <3> QED BY <1>1, <2>1, <3>1, RowsOfEqualTips
  <2>4. \A i, j \in Ids(t) : i < j => t.says[i] < t.says[j]
    BY <1>1, <2>1, OrderOfEqualTips
  <2> QED BY <2>2, <2>3, <2>4 DEF ReadsAsTheLog
<1>2. ForestInv => (Bad = {} => \A t \in Tables :
                      Verifies(t) /\ HashAt(t, Ids(t)) = Tip => ReadsAsTheLog(t))
  BY <1>1 DEF ForestInv
<1> QED BY <1>2, ForestInvariant, PTL
=============================================================================
