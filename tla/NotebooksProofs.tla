--------------------------- MODULE NotebooksProofs ---------------------------
(***************************************************************************)
(* Theorems about Notebooks, for any users, hosts and bounds.              *)
(*                                                                         *)
(* However requests and errands overlap, and whatever fails: IInv is       *)
(* inductive, and with it type correctness, the trace of every grant, the  *)
(* queue's promise and its order, the finality of a deletion, how far the  *)
(* placement and the queue may go wrong, and how often a grant can serve.  *)
(*                                                                         *)
(* Launches and stops one at a time (Reqs = {c}): SerialInv.               *)
(*                                                                         *)
(* Boost requests and decisions one at a time (Desks = {d}), launches as   *)
(* they like: GrantInv.  With both, the gateway implements BoostGrants.    *)
(***************************************************************************)
EXTENDS Notebooks, FiniteSetTheorems, SequenceTheorems, WellFoundedInduction, TLAPS

-----------------------------------------------------------------------------
(* Lemmas about tables and row numbers: a table is a sequence of rows, an  *)
(* id is an index of it, and a query with ORDER BY and LIMIT 1 looks for   *)
(* a least or a greatest id.                                               *)

\* A function on the index set of a table whose values are rows is a table.
LEMMA TableOfRows ==
  ASSUME NEW S, NEW s \in Seq(S), NEW t,
         t = [i \in DOMAIN s |-> t[i]], \A i \in DOMAIN s : t[i] \in S
  PROVE  t \in Seq(S) /\ DOMAIN t = DOMAIN s /\ Len(t) = Len(s)
<1>1. Len(s) \in Nat /\ DOMAIN s = 1..Len(s)
  BY LenProperties
<1>2. t \in [1..Len(s) -> S]
  BY <1>1
<1>3. t \in Seq(S)
  BY <1>1, <1>2, SeqDef
<1>4. Len(t) \in Nat /\ DOMAIN t = 1..Len(t)
  BY <1>3, LenProperties
<1>5. DOMAIN t = DOMAIN s
  BY <1>1, <1>2
<1>6. Len(t) = Len(s)
  BY <1>1, <1>3, <1>5
<1> QED BY <1>3, <1>5, <1>6

\* Appending a row: the table's other rows keep their numbers.
LEMMA TableWithNewRow ==
  ASSUME NEW S, NEW s \in Seq(S), NEW e \in S
  PROVE  /\ Append(s, e) \in Seq(S)
         /\ Len(s) \in Nat
         /\ DOMAIN s = 1..Len(s)
         /\ DOMAIN Append(s, e) = 1..(Len(s) + 1)
         /\ \A i \in DOMAIN s : Append(s, e)[i] = s[i]
         /\ Append(s, e)[Len(s) + 1] = e
  BY LenProperties

\* A table has finitely many rows.
LEMMA RowsAreFinite ==
  ASSUME NEW S, NEW s \in Seq(S), NEW ids \in SUBSET DOMAIN s
  PROVE  IsFiniteSet(ids)
<1>1. Len(s) \in Int /\ DOMAIN s = 1..Len(s)
  BY LenProperties
<1>2. 1 \in Int
  OBVIOUS
<1>3. IsFiniteSet(1..Len(s))
  BY <1>1, <1>2, FS_Interval, Zenon
<1> QED BY <1>1, <1>3, FS_Subset

\* No number below it is no other number above it.
LEMMA MinimalIsLeast ==
  ASSUME NEW R, NEW S \in SUBSET Nat,
         \A x, y \in Nat : <<x, y>> \in R <=> x < y,
         \E i \in S : \A j \in S : <<j, i>> \notin R
  PROVE  \E i \in S : \A j \in S : i =< j
<1>1. PICK i \in S : \A j \in S : <<j, i>> \notin R
  OBVIOUS
<1>2. \A j \in S : ~(j < i)
  BY <1>1
<1> QED BY <1>2

\* A nonempty set of row numbers has a least one.
LEMMA HasLeast ==
  ASSUME NEW S \in SUBSET Nat, S # {}
  PROVE  \E i \in S : \A j \in S : i =< j
<1> DEFINE R == OpToRel(<, Nat)
<1>1. IsWellFoundedOn(R, Nat)
  BY NatLessThanWellFounded, Zenon
<1>2. \A x, y \in Nat : <<x, y>> \in R <=> x < y
  BY DEF OpToRel
<1> HIDE DEF R
<1>3. \E i \in S : \A j \in S : <<j, i>> \notin R
  BY <1>1, WFMin, Zenon
<1> QED BY <1>2, <1>3, MinimalIsLeast, Zenon

\* And, being bounded by the length of the table, a greatest one.
LEMMA HasGreatest ==
  ASSUME NEW n \in Nat, NEW S \in SUBSET (1..n), S # {}
  PROVE  \E i \in S : \A j \in S : j =< i
<1> DEFINE T == {n - i : i \in S}
<1>1. \A i \in S : i \in 1..n /\ n - i \in Nat
  OBVIOUS
<1>6. T \in SUBSET Nat /\ T # {}
  BY <1>1
<1>2. PICK k \in T : \A j \in T : k =< j
  BY <1>6, HasLeast
<1>3. PICK i \in S : k = n - i
  BY <1>2
<1>4. \A j \in S : n - i =< n - j
  BY <1>2, <1>3
<1> QED BY <1>1, <1>4

-----------------------------------------------------------------------------
(* Lemmas about the queries. *)

\* The row a query with LIMIT 1 returns is one of the rows it ranges over.
LEMMA LatestIsOne ==
  ASSUME NEW n \in Nat, NEW S \in SUBSET (1..n)
  PROVE  S # {} => Latest(S) \in S
  BY HasGreatest DEF Latest

\* The rows of the tables are rows of their types.
LEMMA RowsTyped ==
  ASSUME TypeOK
  PROVE  /\ \A i \in DOMAIN runs : runs[i] \in Run /\ runs[i].user \in Users
         /\ \A b \in DOMAIN boosts : boosts[b] \in Boost /\ boosts[b].user \in Users
         /\ DOMAIN runs = 1..Len(runs) /\ Len(runs) \in Nat
         /\ DOMAIN boosts = 1..Len(boosts) /\ Len(boosts) \in Nat
<1>1. /\ runs \in [1..Len(runs) -> Run] /\ Len(runs) \in Nat
      /\ boosts \in [1..Len(boosts) -> Boost] /\ Len(boosts) \in Nat
  BY LenProperties DEF TypeOK
<1>2. \A i \in DOMAIN runs : runs[i] \in Run
  BY <1>1
<1>3. \A b \in DOMAIN boosts : boosts[b] \in Boost
  BY <1>1
<1> QED BY <1>1, <1>2, <1>3 DEF Run, Boost

-----------------------------------------------------------------------------
(* Lemmas about the placement policy. *)

\* The shape of a placement: well typed, warning only runs it was shown, with
\* peers only for a boost, and never more GPU nodes than a boost asks for.
LEMMA PlacementShape ==
  ASSUME NEW nodes \in SUBSET Hosts, NEW rs \in Seq(Run), NEW ids \in SUBSET DOMAIN rs,
         NEW wantsGpu \in BOOLEAN, NEW want \in Nat,
         NEW p \in Placements(nodes, rs, ids, wantsGpu, want)
  PROVE  /\ p \in Placement
         /\ p.colocated \subseteq ids
         /\ p.mode = "shared" => p.shared
         /\ p.mode # "boost" => p.span = {}
         /\ want > 0 => Cardinality(p.span) =< want /\ p.gpus \in 1..want
<1>1. ids \subseteq Nat \ {0}
  BY LenProperties
<1>2. CASE nodes = {}
  <2>1. p = Unpinned(want)
    BY <1>2 DEF Placements
  <2> QED BY <2>1, FS_EmptySet DEF Unpinned, Placement, Modes
<1>3. CASE nodes # {} /\ want > 0
  <2>1. PICK s \in Spans(nodes, rs, ids, want) : \E h \in s : p = Spread(h, s)
    BY <1>3 DEF Placements
  <2>2. PICK h \in s : p = Spread(h, s)
    BY <2>1
  <2>3. s \in SUBSET Hosts
    BY DEF Spans, Free, LeastLoaded
  <2>4. IsFiniteSet(s) /\ Cardinality(s) \in Nat /\ Cardinality(s) # 0
    BY <2>2, <2>3, HostsAssumption, FS_Subset, FS_CardinalityType, FS_EmptySet
  <2>5. Cardinality(s) =< want
    <3>1. CASE Free(nodes, rs, ids) = {}
      <4>1. PICK k : s = {k}
        BY <3>1 DEF Spans
      <4>2. Cardinality({k}) = 1
        BY FS_Singleton, Zenon
      <4> QED BY <1>3, <4>1, <4>2
    <3>2. CASE Free(nodes, rs, ids) # {}
      BY <3>2 DEF Spans
    <3> QED BY <3>1, <3>2
  <2> QED BY <1>3, <2>2, <2>3, <2>4, <2>5 DEF Spread, Placement, Modes
<1>4. CASE nodes # {} /\ ~(want > 0)
  <2>1. CASE \E h \in Hosts : p = WholeNode(h, wantsGpu)
    BY <2>1, <1>4 DEF WholeNode, Placement, Modes
  <2>2. CASE \E h \in Hosts : p = Sharing(h, wantsGpu, rs, ids)
    BY <2>2, <1>1, <1>4 DEF Sharing, Placement, Modes
  <2> QED BY <1>4, <2>1, <2>2 DEF Placements, Free, LeastLoaded
<1> QED BY <1>2, <1>3, <1>4

\* A <= N, the pigeonhole of the policy: fewer active notebooks than nodes, none
\* of them spread over peers, leave a node free.
LEMMA FewRunsLeaveANodeFree ==
  ASSUME NEW nodes \in SUBSET Hosts, NEW rs \in Seq(Run), NEW ids \in SUBSET DOMAIN rs,
         \A i \in ids : rs[i].span = {},
         Cardinality(ids) < Cardinality(nodes)
  PROVE  Free(nodes, rs, ids) # {}
<1>1. IsFiniteSet(ids) /\ IsFiniteSet(nodes)
  BY RowsAreFinite, FS_Subset, HostsAssumption
<1>2. SUFFICES ASSUME Free(nodes, rs, ids) = {} PROVE FALSE
  OBVIOUS
<1>3. \A h \in nodes : \E i \in ids : rs[i].host = h
  <2> TAKE h \in nodes
  <2> DEFINE on == {i \in ids : h \in Footprint(rs[i])}
  <2>1. Cardinality(on) # 0
    BY <1>2 DEF Free, Load
  <2>2. on # {}
    BY <2>1, FS_EmptySet
  <2> QED BY <2>2 DEF Footprint
<1> DEFINE f == [h \in nodes |-> CHOOSE i \in ids : rs[i].host = h]
<1>4. \A h \in nodes : f[h] \in ids /\ rs[f[h]].host = h
  BY <1>3
<1> HIDE DEF f
<1>5. f \in Injection(nodes, ids)
  <2>1. f \in [nodes -> ids]
    BY <1>4 DEF f
  <2>2. \A g, h \in nodes : f[g] = f[h] => g = h
    BY <1>4
  <2> QED BY <2>1, <2>2 DEF Injection, IsInjective
<1>6. Cardinality(nodes) =< Cardinality(ids)
  BY <1>1, <1>5, FS_Injection
<1> QED BY <1>1, <1>6, FS_CardinalityType

\* Of some hosts one is least loaded.
LEMMA SomeIsLeastLoaded ==
  ASSUME NEW nodes \in SUBSET Hosts, nodes # {}, NEW rs \in Seq(Run), NEW ids \in SUBSET DOMAIN rs
  PROVE  LeastLoaded(nodes, rs, ids) # {}
<1> DEFINE loads == {Load(rs, ids, h) : h \in nodes}
<1>1. ASSUME NEW h \in nodes PROVE Load(rs, ids, h) \in Nat
  <2>1. IsFiniteSet({i \in ids : h \in Footprint(rs[i])})
    BY RowsAreFinite
  <2> QED  BY <2>1, FS_CardinalityType DEF Load
<1>2. loads \in SUBSET Nat /\ loads # {}
  BY <1>1
<1>3. PICK n \in loads : \A k \in loads : n =< k
  BY <1>2, HasLeast
<1>4. PICK h \in nodes : n = Load(rs, ids, h)
  BY <1>3
<1>5. \A k \in nodes : Load(rs, ids, h) =< Load(rs, ids, k)
  BY <1>3, <1>4
<1> QED  BY <1>5 DEF LeastLoaded

\* free[:want] is there: as many free hosts as a boost asks for, or all of them.
LEMMA SomeFillTheGrant ==
  ASSUME NEW free \in SUBSET Hosts, free # {}, NEW want \in Nat \ {0}
  PROVE  \E s \in SUBSET free : s # {} /\ Cardinality(s) =< want /\ (Cardinality(s) < want => s = free)
<1> DEFINE sizes == {n \in 1..want : \E s \in SUBSET free : IsFiniteSet(s) /\ Cardinality(s) = n}
<1>1. PICK h : h \in free
  OBVIOUS
<1>2. IsFiniteSet({h}) /\ Cardinality({h}) = 1
  BY FS_Singleton, Zenon
<1>3. 1 \in sizes
  BY <1>1, <1>2
<1>4. PICK n \in sizes : \A m \in sizes : m =< n
  BY <1>3, HasGreatest
<1>5. PICK s \in SUBSET free : IsFiniteSet(s) /\ Cardinality(s) = n
  BY <1>4
<1>6. s # {}
  BY <1>4, <1>5, FS_EmptySet
<1>7. ASSUME n < want, s # free PROVE FALSE
  <2>1. PICK k \in free : k \notin s
    BY <1>5, <1>7
  <2>2. IsFiniteSet(s \cup {k}) /\ Cardinality(s \cup {k}) = n + 1
    BY <1>5, <2>1, FS_AddElement
  <2>3. n + 1 \in sizes
    BY <1>4, <1>5, <1>7, <2>1, <2>2
  <2> QED  BY <1>4, <2>3
<1> QED  BY <1>4, <1>5, <1>6, <1>7

\* The policy has an answer for whatever it is asked and shown.
LEMMA PolicyAnswers ==
  ASSUME NEW nodes \in SUBSET Hosts, NEW rs \in Seq(Run), NEW ids \in SUBSET DOMAIN rs,
         NEW wantsGpu, NEW want \in Nat
  PROVE  Placements(nodes, rs, ids, wantsGpu, want) # {}
<1> DEFINE free == Free(nodes, rs, ids)
<1>1. nodes # {} => LeastLoaded(nodes, rs, ids) # {}
  BY SomeIsLeastLoaded
<1>2. CASE nodes = {}
  BY <1>2 DEF Placements
<1>3. CASE nodes # {} /\ want > 0
  <2>1. \E s \in Spans(nodes, rs, ids, want) : s # {}
    <3>1. CASE free = {}
      <4>1. PICK h : h \in LeastLoaded(nodes, rs, ids)
        BY <1>1, <1>3
      <4>2. {h} \in Spans(nodes, rs, ids, want)
        BY <3>1, <4>1 DEF Spans
      <4> QED  BY <4>2
    <3>2. CASE free # {}
      <4>1. free \in SUBSET Hosts
        BY DEF Free
      <4>2. PICK s \in SUBSET free :
              s # {} /\ Cardinality(s) =< want /\ (Cardinality(s) < want => s = free)
        BY <1>3, <3>2, <4>1, SomeFillTheGrant
      <4>3. s \in Spans(nodes, rs, ids, want)
        BY <3>2, <4>2 DEF Spans
      <4> QED  BY <4>2, <4>3
    <3> QED  BY <3>1, <3>2
  <2>2. PICK s \in Spans(nodes, rs, ids, want) : s # {}
    BY <2>1
  <2>3. PICK h : h \in s
    BY <2>2
  <2>4. Spread(h, s) \in Placements(nodes, rs, ids, wantsGpu, want)
    BY <1>3, <2>2, <2>3 DEF Placements
  <2> QED  BY <2>4
<1>4. CASE nodes # {} /\ ~(want > 0)
  BY <1>1, <1>4 DEF Placements
<1> QED  BY <1>2, <1>3, <1>4


-----------------------------------------------------------------------------
(* What the steps do to the tables. *)

\* Two rows of one and the same run, whatever its standing.
SameRun(s, t) == /\ s.user = t.user /\ s.host = t.host /\ s.span = t.span
                 /\ s.mode = t.mode /\ s.gpus = t.gpus /\ s.boost = t.boost

\* What a request may be, by where it stands.
LEMMA RequestByPc ==
  ASSUME NEW r \in Request
  PROVE  /\ r.pc \in {"starting", "recording"} <=> r \in Launching
         /\ r.pc \in {"stopping", "closing"} <=> r \in Stopping
         /\ r.pc = "promoting" <=> r \in Promoting
         /\ r.pc \in {"ending", "telling"} <=> r \in Updating
         /\ r.pc = "idle" <=> r = Idle
  BY DEF Request, Idle, Launching, Stopping, Promoting, Updating

\* And an errand.
LEMMA ErrandByPc ==
  ASSUME NEW e \in Errand
  PROVE  /\ e.pc = "asking" <=> e \in Asking
         /\ e.pc = "deciding" <=> e \in Deciding
         /\ e.pc = "idle" <=> e = Idle
  BY DEF Errand, Idle, Asking, Deciding

\* A request slot that is idle carries nothing, and one that has committed is over,
\* or looks for a waiting user.
LEMMA IdleCarriesNothing ==
  /\ Idle \in Request /\ Idle \notin Launching /\ Idle \notin Updating
  /\ Idle \in Errand /\ Idle \notin Asking /\ Idle \notin Deciding
  BY DEF Request, Idle, Launching, Updating, Errand, Asking, Deciding

LEMMA AfterCommitTyped ==
  ASSUME NEW freed \in Hosts \cup {NoHost}
  PROVE  /\ AfterCommit(freed) \in Request
         /\ AfterCommit(freed) \notin Launching /\ AfterCommit(freed) \notin Updating
<1>1. CASE freed = NoHost
  BY <1>1, IdleCarriesNothing DEF AfterCommit
<1>2. CASE freed # NoHost
  BY <1>2 DEF AfterCommit, Request, Promoting, Launching, Updating
<1> QED BY <1>1, <1>2

\* Closing a run changes the status of that row and nothing else.
LEMMA CloseRunKeeps ==
  ASSUME TypeOK, NEW old \in Nat, old # 0 => old \in DOMAIN runs
  PROVE  /\ CloseRun(old) \in Seq(Run)
         /\ DOMAIN CloseRun(old) = DOMAIN runs
         /\ Len(CloseRun(old)) = Len(runs)
         /\ \A i \in DOMAIN runs :
              /\ SameRun(CloseRun(old)[i], runs[i])
              /\ CloseRun(old)[i].shared = runs[i].shared
              /\ CloseRun(old)[i].told = runs[i].told
              /\ CloseRun(old)[i].status = IF i = old THEN "stopped" ELSE runs[i].status
<1>1. runs \in Seq(Run) /\ \A i \in DOMAIN runs : runs[i] \in Run
  BY RowsTyped DEF TypeOK
<1>2. CASE old = 0
  <2>1. \A i \in DOMAIN runs : i # old
    BY <1>2, RowsTyped
  <2> QED BY <1>1, <1>2, <2>1 DEF CloseRun, SameRun
<1>3. CASE old # 0
  <2> DEFINE t == [runs EXCEPT ![old].status = "stopped"]
  <2>1. t = [i \in DOMAIN runs |-> t[i]]
    OBVIOUS
  <2>2. \A i \in DOMAIN runs : t[i] \in Run
    BY <1>1, <1>3 DEF Run
  <2>3. \A i \in DOMAIN runs :
          /\ SameRun(t[i], runs[i])
          /\ t[i].shared = runs[i].shared /\ t[i].told = runs[i].told
          /\ t[i].status = IF i = old THEN "stopped" ELSE runs[i].status
    BY <1>1, <1>3 DEF Run, SameRun
  <2>4. t = CloseRun(old)
    BY <1>3 DEF CloseRun
  <2> HIDE DEF t
  <2>5. t \in Seq(Run) /\ DOMAIN t = DOMAIN runs /\ Len(t) = Len(runs)
    BY <1>1, <2>1, <2>2, TableOfRows
  <2> QED BY <2>3, <2>4, <2>5
<1> QED BY <1>2, <1>3

\* Consuming a grant changes the status of that row and nothing else.
LEMMA ConsumeBoostKeeps ==
  ASSUME TypeOK, NEW g \in Nat, g # 0 => g \in DOMAIN boosts
  PROVE  /\ ConsumeBoost(g) \in Seq(Boost)
         /\ DOMAIN ConsumeBoost(g) = DOMAIN boosts
         /\ \A b \in DOMAIN boosts :
              /\ ConsumeBoost(g)[b].user = boosts[b].user
              /\ ConsumeBoost(g)[b].gpus = boosts[b].gpus
              /\ ConsumeBoost(g)[b].status = IF b = g THEN "consumed" ELSE boosts[b].status
<1>1. boosts \in Seq(Boost) /\ \A b \in DOMAIN boosts : boosts[b] \in Boost
  BY RowsTyped DEF TypeOK
<1>2. CASE g = 0
  <2>1. \A b \in DOMAIN boosts : b # g
    BY <1>2, RowsTyped
  <2> QED BY <1>1, <1>2, <2>1 DEF ConsumeBoost
<1>3. CASE g # 0
  <2> DEFINE t == [boosts EXCEPT ![g].status = "consumed"]
  <2>1. t = [b \in DOMAIN boosts |-> t[b]]
    OBVIOUS
  <2>2. \A b \in DOMAIN boosts : t[b] \in Boost
    BY <1>1, <1>3 DEF Boost
  <2>3. \A b \in DOMAIN boosts :
          /\ t[b].user = boosts[b].user /\ t[b].gpus = boosts[b].gpus
          /\ t[b].status = IF b = g THEN "consumed" ELSE boosts[b].status
    BY <1>1, <1>3 DEF Boost
  <2>4. t = ConsumeBoost(g)
    BY <1>3 DEF ConsumeBoost
  <2> HIDE DEF t
  <2>5. t \in Seq(Boost) /\ DOMAIN t = DOMAIN boosts /\ Len(t) = Len(boosts)
    BY <1>1, <2>1, <2>2, TableOfRows
  <2> QED BY <2>3, <2>4, <2>5
<1> QED BY <1>2, <1>3

\* The transaction of a launch: the old run closed, the new one recorded, its
\* grant consumed, the sharers told.
LEMMA RecordLaunchEffect ==
  ASSUME IInv, NEW q \in Reqs, RecordLaunch(q)
  PROVE  LET r == req[q]
             n == Len(runs) + 1
         IN  /\ r \in Launching /\ NewRun(r) \in Run
             /\ r.old \in Nat /\ (r.old # 0 => r.old \in DOMAIN runs /\ runs[r.old].user = r.user)
             /\ r.boost \in Nat
             /\ r.boost # 0 => /\ r.boost \in DOMAIN boosts
                               /\ boosts[r.boost].user = r.user
                               /\ boosts[r.boost].status \notin {"pending", "deleted"}
             /\ account[r.user] # "deleted"
             /\ runs' \in Seq(Run) /\ DOMAIN runs' = DOMAIN runs \cup {n}
             /\ n \in Nat \ {0} /\ n \notin DOMAIN runs /\ \A i \in DOMAIN runs : i < n /\ i \in Nat
             /\ \A i \in DOMAIN runs :
                  /\ SameRun(runs'[i], runs[i])
                  /\ runs'[i].shared = runs[i].shared /\ runs'[i].told = runs[i].told
                  /\ runs'[i].status = IF i = r.old THEN "stopped" ELSE runs[i].status
                  /\ runs'[i].status = "deleted" <=> runs[i].status = "deleted"
             /\ runs'[n] = NewRun(r)
             /\ boosts' \in Seq(Boost) /\ DOMAIN boosts' = DOMAIN boosts
             /\ \A b \in DOMAIN boosts :
                  /\ boosts'[b].user = boosts[b].user /\ boosts'[b].gpus = boosts[b].gpus
                  /\ boosts'[b].status = IF b = r.boost THEN "consumed" ELSE boosts[b].status
             /\ notes \subseteq notes' /\ SharingNotes(r) \subseteq notes'
             /\ \A m \in notes' : m \in notes \/ (m \in Note /\ account[m.to] # "deleted")
             /\ req'[q] \in Request /\ req'[q] \notin Launching /\ req'[q] \notin Updating
             /\ req' = [req EXCEPT ![q] = req'[q]]
             /\ UNCHANGED <<node, account, spent, maintenance, server, desk>>
<1> DEFINE r == req[q]
           n == Len(runs) + 1
           closed == CloseRun(r.old)
           freed == IF r.old = 0 \/ runs[r.old].host = r.plan.host
                    THEN NoHost ELSE runs[r.old].host
<1>0. TypeOK /\ req \in [Reqs -> Request] /\ r \in Request
  BY DEF IInv, TypeOK
<1>1. r \in Launching
  BY <1>0, RequestByPc DEF RecordLaunch
<1>2. /\ runs' = Append(closed, NewRun(r))
      /\ boosts' = ConsumeBoost(r.boost)
      /\ notes' = notes \cup SharingNotes(r)
                        \cup {Notify(r.user, "boosted", b) : b \in {r.boost} \ {0}}
      /\ req' = [req EXCEPT ![q] = AfterCommit(freed)]
      /\ UNCHANGED <<node, account, spent, maintenance, server, desk>>
  BY DEF RecordLaunch
<1>3. account[r.user] # "deleted" /\ \A i \in r.plan.colocated : account[runs[i].user] # "deleted"
  BY DEF RecordLaunch, Recordable
<1>4. /\ r.user \in Users /\ r.old \in Nat /\ r.boost \in Nat /\ r.plan \in Placement
      /\ r.old # 0 => r.old \in DOMAIN runs /\ runs[r.old].user = r.user
      /\ r.plan.colocated \subseteq DOMAIN runs
      /\ r.boost # 0 => /\ r.boost \in DOMAIN boosts
                        /\ boosts[r.boost].user = r.user
                        /\ boosts[r.boost].status # "pending"
  BY <1>1 DEF IInv, PlansStayMeaningful, Meaningful, Launching
<1>5. /\ \A i \in DOMAIN runs : runs[i] \in Run /\ runs[i].user \in Users
      /\ DOMAIN runs = 1..Len(runs) /\ Len(runs) \in Nat
      /\ DOMAIN boosts = 1..Len(boosts) /\ Len(boosts) \in Nat
  BY <1>0, RowsTyped
<1>6. NewRun(r) \in Run
  BY <1>4 DEF NewRun, Run, Placement
<1>7. /\ closed \in Seq(Run) /\ DOMAIN closed = DOMAIN runs /\ Len(closed) = Len(runs)
      /\ \A i \in DOMAIN runs :
           /\ SameRun(closed[i], runs[i])
           /\ closed[i].shared = runs[i].shared /\ closed[i].told = runs[i].told
           /\ closed[i].status = IF i = r.old THEN "stopped" ELSE runs[i].status
  BY <1>0, <1>4, CloseRunKeeps
<1>8. freed \in Hosts \cup {NoHost}
  BY <1>4, <1>5 DEF Run
<1>9. req'[q] \in Request /\ req'[q] \notin Launching /\ req'[q] \notin Updating
  BY <1>0, <1>2, <1>8, AfterCommitTyped
<1>10. req' = [req EXCEPT ![q] = req'[q]]
  BY <1>0, <1>2
<1> HIDE DEF closed, freed
<1>11. /\ runs' \in Seq(Run) /\ DOMAIN runs' = 1..n
       /\ \A i \in DOMAIN runs : runs'[i] = closed[i]
       /\ runs'[n] = NewRun(r)
  BY <1>2, <1>6, <1>7, TableWithNewRow
<1>12. /\ n \in Nat \ {0} /\ n \notin DOMAIN runs /\ DOMAIN runs' = DOMAIN runs \cup {n}
       /\ \A i \in DOMAIN runs : i < n /\ i \in Nat
  BY <1>5, <1>11
<1>13. /\ boosts' \in Seq(Boost) /\ DOMAIN boosts' = DOMAIN boosts
       /\ \A b \in DOMAIN boosts :
            /\ boosts'[b].user = boosts[b].user /\ boosts'[b].gpus = boosts[b].gpus
            /\ boosts'[b].status = IF b = r.boost THEN "consumed" ELSE boosts[b].status
  BY <1>0, <1>2, <1>4, ConsumeBoostKeeps
<1>14. r.boost # 0 => boosts[r.boost].status # "deleted"
  BY <1>3, <1>4 DEF IInv, DeletedWithUser
<1>15. \A i \in DOMAIN runs :
         (IF i = r.old THEN "stopped" ELSE runs[i].status) = "deleted" <=> runs[i].status = "deleted"
  <2>1. r.old # 0 => runs[r.old].status # "deleted"
    BY <1>3, <1>4 DEF IInv, DeletedWithUser
  <2> QED BY <1>5, <2>1
<1>16. notes \subseteq notes' /\ SharingNotes(r) \subseteq notes'
  BY <1>2
<1>17. \A m \in notes' : m \in notes \/ (m \in Note /\ account[m.to] # "deleted")
  <2> SUFFICES ASSUME NEW m \in notes', m \notin notes
               PROVE  m \in Note /\ account[m.to] # "deleted"
    OBVIOUS
  <2>1. CASE m \in SharingNotes(r)
    BY <1>3, <1>4, <1>5, <2>1 DEF SharingNotes, Notify, Note
  <2>2. CASE m = Notify(r.user, "boosted", r.boost)
    BY <1>3, <1>4, <2>2 DEF Notify, Note
  <2> QED BY <1>2, <2>1, <2>2
<1> HIDE DEF r, n
<1>18. \A i \in DOMAIN runs :
         /\ SameRun(runs'[i], runs[i])
         /\ runs'[i].shared = runs[i].shared /\ runs'[i].told = runs[i].told
         /\ runs'[i].status = IF i = r.old THEN "stopped" ELSE runs[i].status
         /\ runs'[i].status = "deleted" <=> runs[i].status = "deleted"
  BY <1>7, <1>11, <1>15
<1> QED
  BY <1>1, <1>2, <1>3, <1>4, <1>6, <1>9, <1>10, <1>11, <1>12, <1>13, <1>14, <1>16, <1>17, <1>18
  DEF r, n

\* A stop closes the run it found.
LEMMA CloseStoppedEffect ==
  ASSUME IInv, NEW q \in Reqs, CloseStopped(q)
  PROVE  /\ runs' \in Seq(Run) /\ DOMAIN runs' = DOMAIN runs
         /\ \A i \in DOMAIN runs :
              /\ SameRun(runs'[i], runs[i])
              /\ runs'[i].shared = runs[i].shared /\ runs'[i].told = runs[i].told
              /\ runs'[i].status = IF i = req[q].run THEN "stopped" ELSE runs[i].status
              /\ runs'[i].status = "deleted" <=> runs[i].status = "deleted"
         /\ req'[q] \in Request /\ req'[q] \notin Launching /\ req'[q] \notin Updating
         /\ req' = [req EXCEPT ![q] = req'[q]]
         /\ UNCHANGED <<node, boosts, notes, account, spent, maintenance, server, desk>>
<1>1. TypeOK /\ req \in [Reqs -> Request] /\ req[q] \in Updating
  BY RequestByPc DEF IInv, TypeOK, CloseStopped
<1>2. req[q].run \in Nat /\ req[q].run \in DOMAIN runs /\ runs[req[q].run].status # "deleted"
  BY <1>1 DEF IInv, PlansStayMeaningful, Meaningful, Updating, CloseStopped
<1>3. /\ runs' = CloseRun(req[q].run)
      /\ req' = [req EXCEPT ![q] = AfterCommit(runs[req[q].run].host)]
      /\ UNCHANGED <<node, boosts, notes, account, spent, maintenance, server, desk>>
  BY DEF CloseStopped
<1>4. runs[req[q].run].host \in Hosts \cup {NoHost}
  BY <1>1, <1>2, RowsTyped DEF Run
<1>5. req'[q] \in Request /\ req'[q] \notin Launching /\ req'[q] \notin Updating
  BY <1>1, <1>3, <1>4, AfterCommitTyped
<1>6. req' = [req EXCEPT ![q] = req'[q]]
  BY <1>1, <1>3
<1>7. /\ runs' \in Seq(Run) /\ DOMAIN runs' = DOMAIN runs
      /\ \A i \in DOMAIN runs :
           /\ SameRun(runs'[i], runs[i])
           /\ runs'[i].shared = runs[i].shared /\ runs'[i].told = runs[i].told
           /\ runs'[i].status = IF i = req[q].run THEN "stopped" ELSE runs[i].status
  BY <1>1, <1>2, <1>3, CloseRunKeeps
<1> QED BY <1>2, <1>3, <1>5, <1>6, <1>7

\* A promotion takes one run out of the queue and tells its user.
LEMMA RecordPromotionEffect ==
  ASSUME IInv, NEW q \in Reqs, RecordPromotion(q)
  PROVE  LET w == req[q].run
         IN  /\ req[q] \in Updating /\ w \in DOMAIN runs /\ runs[w].status # "deleted"
             /\ \A i \in Waiting : w =< i
             /\ runs' \in Seq(Run) /\ DOMAIN runs' = DOMAIN runs
             /\ \A i \in DOMAIN runs :
                  /\ SameRun(runs'[i], runs[i]) /\ runs'[i].status = runs[i].status
                  /\ i # w => runs'[i] = runs[i]
             /\ runs'[w].shared = FALSE /\ runs'[w].told = runs[w].told + 1
             /\ notes' = notes \cup {Notify(runs[w].user, "freed", w)}
             /\ Notify(runs[w].user, "freed", w) \in Note
             /\ account[runs[w].user] # "deleted"
             /\ req' = [req EXCEPT ![q] = Idle]
             /\ UNCHANGED <<node, boosts, account, spent, maintenance, server, desk>>
<1> DEFINE w == req[q].run
<1>1. TypeOK /\ req \in [Reqs -> Request] /\ req[q] \in Updating
  BY RequestByPc DEF IInv, TypeOK, RecordPromotion
<1>2. w \in Nat /\ w \in DOMAIN runs /\ runs[w].status # "deleted" /\ \A i \in Waiting : w =< i
  BY <1>1 DEF IInv, PlansStayMeaningful, Meaningful, Updating, RecordPromotion
<1>3. /\ runs' = LeaveQueue(w)
      /\ notes' = notes \cup {Notify(runs[w].user, "freed", w)}
      /\ req' = [req EXCEPT ![q] = Idle]
      /\ UNCHANGED <<node, boosts, account, spent, maintenance, server, desk>>
  BY DEF RecordPromotion, PromotionNote
<1>4. runs \in Seq(Run) /\ \A i \in DOMAIN runs : runs[i] \in Run /\ runs[i].user \in Users
  BY <1>1, RowsTyped DEF TypeOK
<1>5. Notify(runs[w].user, "freed", w) \in Note /\ account[runs[w].user] # "deleted"
  BY <1>2, <1>4 DEF Notify, Note, IInv, DeletedWithUser
<1> DEFINE t == [runs EXCEPT ![w].shared = FALSE]
           s == [t EXCEPT ![w].told = @ + 1]
<1>6. \A i \in DOMAIN runs : t[i] = IF i = w THEN [runs[i] EXCEPT !.shared = FALSE] ELSE runs[i]
  OBVIOUS
<1>7. /\ s = [i \in DOMAIN runs |-> s[i]]
      /\ \A i \in DOMAIN runs : s[i] = IF i = w THEN [t[i] EXCEPT !.told = t[i].told + 1] ELSE t[i]
  OBVIOUS
<1>8. runs' = s
  BY <1>3 DEF LeaveQueue
<1> HIDE DEF t, s, w
<1>9. \A i \in DOMAIN runs : t[i] \in Run /\ (i # w => t[i] = runs[i])
  <2> SUFFICES ASSUME NEW i \in DOMAIN runs PROVE t[i] \in Run /\ (i # w => t[i] = runs[i])
    OBVIOUS
  <2>1. runs[i] \in Run /\ t[i] = IF i = w THEN [runs[i] EXCEPT !.shared = FALSE] ELSE runs[i]
    BY <1>4, <1>6
  <2>2. CASE i = w
    <3>1. t[i] = [runs[i] EXCEPT !.shared = FALSE]
      BY <2>1, <2>2
    <3> QED BY <2>1, <2>2, <3>1 DEF Run
  <2> QED BY <2>1, <2>2
<1>10. /\ SameRun(t[w], runs[w]) /\ t[w].status = runs[w].status /\ t[w].told = runs[w].told
       /\ t[w].shared = FALSE
  <2>1. runs[w] \in Run /\ t[w] = [runs[w] EXCEPT !.shared = FALSE]
    BY <1>2, <1>4, <1>6
  <2> QED BY <2>1 DEF Run, SameRun
<1>11. \A i \in DOMAIN runs : s[i] \in Run /\ (i # w => s[i] = runs[i])
  <2> SUFFICES ASSUME NEW i \in DOMAIN runs PROVE s[i] \in Run /\ (i # w => s[i] = t[i])
    BY <1>9
  <2>1. t[i] \in Run /\ s[i] = IF i = w THEN [t[i] EXCEPT !.told = t[i].told + 1] ELSE t[i]
    BY <1>7, <1>9
  <2> QED BY <2>1 DEF Run
<1>12. /\ SameRun(s[w], runs[w]) /\ s[w].status = runs[w].status
       /\ s[w].told = runs[w].told + 1 /\ s[w].shared = FALSE
  <2>1. t[w] \in Run /\ s[w] = [t[w] EXCEPT !.told = t[w].told + 1]
    BY <1>2, <1>7, <1>9
  <2> QED BY <1>10, <2>1 DEF Run, SameRun
<1>13. s \in Seq(Run) /\ DOMAIN s = DOMAIN runs
  BY <1>4, <1>7, <1>11, TableOfRows
<1>14. \A i \in DOMAIN runs : SameRun(s[i], runs[i]) /\ s[i].status = runs[i].status
  BY <1>11, <1>12 DEF SameRun
<1> QED BY <1>1, <1>2, <1>3, <1>5, <1>8, <1>11, <1>12, <1>13, <1>14 DEF w

\* Deleting a user deletes the user's rows.
LEMMA DeleteUserEffect ==
  ASSUME IInv, NEW u \in Users, DeleteUser(u)
  PROVE  /\ account' \in [Users -> {"approved", "suspended", "deleted"}]
         /\ \A v \in Users : account'[v] = IF v = u THEN "deleted" ELSE account[v]
         /\ runs' \in Seq(Run) /\ DOMAIN runs' = DOMAIN runs
         /\ \A i \in DOMAIN runs :
              /\ SameRun(runs'[i], runs[i])
              /\ runs'[i].shared = runs[i].shared /\ runs'[i].told = runs[i].told
              /\ runs'[i].status = IF runs[i].user = u THEN "deleted" ELSE runs[i].status
         /\ boosts' \in Seq(Boost) /\ DOMAIN boosts' = DOMAIN boosts
         /\ \A b \in DOMAIN boosts :
              /\ boosts'[b].user = boosts[b].user /\ boosts'[b].gpus = boosts[b].gpus
              /\ boosts'[b].status = IF boosts[b].user = u THEN "deleted" ELSE boosts[b].status
         /\ notes' = {m \in notes : m.to # u}
         /\ spent' = spent \ {u} /\ TearDown(u)
         /\ UNCHANGED <<node, maintenance, req, desk>>
<1>0. TypeOK /\ account \in [Users -> {"approved", "suspended", "deleted"}]
  BY DEF IInv, TypeOK
<1>1. /\ account' = [account EXCEPT ![u] = "deleted"]
      /\ runs' = [i \in DOMAIN runs |-> IF runs[i].user = u
                                         THEN [runs[i] EXCEPT !.status = "deleted"] ELSE runs[i]]
      /\ boosts' = [b \in DOMAIN boosts |-> IF boosts[b].user = u
                     THEN [boosts[b] EXCEPT !.status = "deleted"] ELSE boosts[b]]
      /\ notes' = {m \in notes : m.to # u}
      /\ spent' = spent \ {u} /\ TearDown(u)
      /\ UNCHANGED <<node, maintenance, req, desk>>
  BY DEF DeleteUser
<1>2. /\ runs \in Seq(Run) /\ boosts \in Seq(Boost)
      /\ \A i \in DOMAIN runs : runs[i] \in Run
      /\ \A b \in DOMAIN boosts : boosts[b] \in Boost
  BY <1>0, RowsTyped DEF TypeOK
<1>3. \A i \in DOMAIN runs :
        /\ runs'[i] \in Run
        /\ SameRun(runs'[i], runs[i])
        /\ runs'[i].shared = runs[i].shared /\ runs'[i].told = runs[i].told
        /\ runs'[i].status = IF runs[i].user = u THEN "deleted" ELSE runs[i].status
  BY <1>1, <1>2 DEF Run, SameRun
<1>4. \A b \in DOMAIN boosts :
        /\ boosts'[b] \in Boost
        /\ boosts'[b].user = boosts[b].user /\ boosts'[b].gpus = boosts[b].gpus
        /\ boosts'[b].status = IF boosts[b].user = u THEN "deleted" ELSE boosts[b].status
  BY <1>1, <1>2 DEF Boost
<1>5. runs' \in Seq(Run) /\ DOMAIN runs' = DOMAIN runs
  <2>1. runs' = [i \in DOMAIN runs |-> runs'[i]]
    BY <1>1
  <2> QED BY <1>2, <1>3, <2>1, TableOfRows
<1>6. boosts' \in Seq(Boost) /\ DOMAIN boosts' = DOMAIN boosts
  <2>1. boosts' = [b \in DOMAIN boosts |-> boosts'[b]]
    BY <1>1
  <2> QED BY <1>2, <1>4, <2>1, TableOfRows
<1>7. /\ \A v \in Users : account'[v] = IF v = u THEN "deleted" ELSE account[v]
      /\ account' \in [Users -> {"approved", "suspended", "deleted"}]
  BY <1>0, <1>1
<1> QED BY <1>1, <1>3, <1>4, <1>5, <1>6, <1>7

\* A request for a boost is recorded: the pending ones that it read expire.
LEMMA RecordRequestEffect ==
  ASSUME IInv, NEW d \in Desks, RecordRequest(d)
  PROVE  LET e == desk[d]
             m == Len(boosts) + 1
         IN  /\ e \in Asking /\ account[e.user] # "deleted"
             /\ \A b \in e.pending : b \in DOMAIN boosts /\ boosts[b].user = e.user
             /\ boosts' \in Seq(Boost) /\ DOMAIN boosts' = DOMAIN boosts \cup {m}
             /\ m \in Nat \ {0} /\ m \notin DOMAIN boosts
             /\ \A b \in DOMAIN boosts :
                  /\ boosts'[b].user = boosts[b].user /\ boosts'[b].gpus = boosts[b].gpus
                  /\ boosts'[b].status = IF b \in e.pending THEN "expired" ELSE boosts[b].status
                  /\ boosts'[b].status = "deleted" <=> boosts[b].status = "deleted"
             /\ boosts'[m] = [user |-> e.user, gpus |-> e.gpus, status |-> "pending"]
             /\ desk' = [desk EXCEPT ![d] = Idle]
             /\ UNCHANGED <<node, runs, notes, account, spent, maintenance, server, req>>
<1> DEFINE e == desk[d]
           m == Len(boosts) + 1
           row == [user |-> e.user, gpus |-> e.gpus, status |-> "pending"]
           t == [b \in DOMAIN boosts |->
                   IF b \in e.pending THEN [boosts[b] EXCEPT !.status = "expired"] ELSE boosts[b]]
<1>1. TypeOK /\ desk \in [Desks -> Errand] /\ e \in Asking
  BY ErrandByPc DEF IInv, TypeOK, RecordRequest
<1>2. /\ account[e.user] # "deleted" /\ boosts' = Append(t, row)
      /\ desk' = [desk EXCEPT ![d] = Idle]
      /\ UNCHANGED <<node, runs, notes, account, spent, maintenance, server, req>>
  BY DEF RecordRequest
<1>3. /\ boosts \in Seq(Boost) /\ \A b \in DOMAIN boosts : boosts[b] \in Boost
      /\ DOMAIN boosts = 1..Len(boosts) /\ Len(boosts) \in Nat
  BY <1>1, RowsTyped DEF TypeOK
<1>4. /\ t = [b \in DOMAIN boosts |-> t[b]]
      /\ \A b \in DOMAIN boosts :
           /\ t[b] \in Boost
           /\ t[b].user = boosts[b].user /\ t[b].gpus = boosts[b].gpus
           /\ t[b].status = IF b \in e.pending THEN "expired" ELSE boosts[b].status
  BY <1>3 DEF Boost
<1>5. row \in Boost
  BY <1>1 DEF Asking, Boost
<1>6. \A b \in e.pending : b \in DOMAIN boosts /\ boosts[b].user = e.user
  BY <1>1 DEF IInv, ErrandsStayMeaningful
<1>7. \A b \in e.pending : boosts[b].status # "deleted"
  BY <1>2, <1>6 DEF IInv, DeletedWithUser
<1> HIDE DEF t, row
<1>8. t \in Seq(Boost) /\ DOMAIN t = DOMAIN boosts /\ Len(t) = Len(boosts)
  BY <1>3, <1>4, TableOfRows
<1>9. /\ boosts' \in Seq(Boost) /\ DOMAIN boosts' = 1..m /\ boosts'[m] = row
      /\ \A b \in DOMAIN boosts : boosts'[b] = t[b]
  BY <1>2, <1>5, <1>8, TableWithNewRow
<1>10. m \in Nat \ {0} /\ m \notin DOMAIN boosts /\ DOMAIN boosts' = DOMAIN boosts \cup {m}
  BY <1>3, <1>9
<1>11. \A b \in DOMAIN boosts :
         /\ boosts'[b].user = boosts[b].user /\ boosts'[b].gpus = boosts[b].gpus
         /\ boosts'[b].status = IF b \in e.pending THEN "expired" ELSE boosts[b].status
         /\ boosts'[b].status = "deleted" <=> boosts[b].status = "deleted"
  BY <1>4, <1>7, <1>9
<1> QED BY <1>1, <1>2, <1>6, <1>9, <1>10, <1>11 DEF row

\* A decision is recorded over whatever the row has become.
LEMMA RecordDecisionEffect ==
  ASSUME IInv, NEW d \in Desks, RecordDecision(d)
  PROVE  LET e == desk[d]
         IN  /\ e \in Deciding /\ e.boost \in DOMAIN boosts
             /\ boosts[e.boost].status # "deleted" /\ account[boosts[e.boost].user] # "deleted"
             /\ boosts' \in Seq(Boost) /\ DOMAIN boosts' = DOMAIN boosts
             /\ \A b \in DOMAIN boosts :
                  /\ boosts'[b].user = boosts[b].user
                  /\ b # e.boost => boosts'[b] = boosts[b]
                  /\ boosts'[b].status = IF b = e.boost THEN e.verdict ELSE boosts[b].status
                  /\ boosts'[b].status = "deleted" <=> boosts[b].status = "deleted"
             /\ notes \subseteq notes' /\ notes' \subseteq Note
             /\ \A m \in notes' : m \in notes \/ m.to = boosts[e.boost].user
             /\ desk' = [desk EXCEPT ![d] = Idle]
             /\ UNCHANGED <<node, runs, account, spent, maintenance, server, req>>
<1> DEFINE e == desk[d]
           g == e.boost
           v == e.verdict
           k == IF e.gpus = 0 THEN boosts[g].gpus ELSE e.gpus
           t == [boosts EXCEPT ![g].status = v]
           s == [t EXCEPT ![g].gpus = IF e.gpus = 0 THEN @ ELSE e.gpus]
<1>1. TypeOK /\ desk \in [Desks -> Errand] /\ e \in Deciding
  BY ErrandByPc DEF IInv, TypeOK, RecordDecision
<1>2. /\ boosts[g].status # "deleted" /\ boosts' = s
      /\ notes' = notes \cup {Notify(boosts[g].user, Verdict(e), g)}
      /\ desk' = [desk EXCEPT ![d] = Idle]
      /\ UNCHANGED <<node, runs, account, spent, maintenance, server, req>>
  BY DEF RecordDecision
<1>3. /\ boosts \in Seq(Boost)
      /\ \A b \in DOMAIN boosts : boosts[b] \in Boost /\ boosts[b].user \in Users
  BY <1>1, RowsTyped DEF TypeOK
<1>4. g \in DOMAIN boosts /\ g \in Nat /\ v \in {"approved", "denied"} /\ e.gpus \in Nat
  BY <1>1 DEF IInv, ErrandsStayMeaningful, Deciding
<1>5. account[boosts[g].user] # "deleted"
  BY <1>2, <1>4 DEF IInv, DeletedWithUser
<1>6. Notify(boosts[g].user, Verdict(e), g) \in Note /\ notes \subseteq Note
  BY <1>1, <1>3, <1>4 DEF Notify, Verdict, Note, TypeOK
<1>7. \A b \in DOMAIN boosts : t[b] = IF b = g THEN [boosts[b] EXCEPT !.status = v] ELSE boosts[b]
  OBVIOUS
<1>8. /\ s = [b \in DOMAIN boosts |-> s[b]]
      /\ \A b \in DOMAIN boosts :
           s[b] = IF b = g THEN [t[b] EXCEPT !.gpus = IF e.gpus = 0 THEN t[b].gpus ELSE e.gpus] ELSE t[b]
  OBVIOUS
<1>9. \A m \in notes' : m \in notes \/ m.to = boosts[g].user
  BY <1>2 DEF Notify
<1> HIDE DEF t, s, g, v, k
<1>10. \A b \in DOMAIN boosts :
         /\ t[b] \in Boost /\ t[b].user = boosts[b].user
         /\ b # g => t[b] = boosts[b]
         /\ t[b].status = IF b = g THEN v ELSE boosts[b].status
  BY <1>3, <1>4, <1>7 DEF Boost
<1>11. \A b \in DOMAIN boosts :
         /\ s[b] \in Boost /\ s[b].user = boosts[b].user
         /\ b # g => s[b] = boosts[b]
         /\ s[b].status = IF b = g THEN v ELSE boosts[b].status
  <2> SUFFICES ASSUME NEW b \in DOMAIN boosts
               PROVE  /\ s[b] \in Boost /\ s[b].user = t[b].user
                      /\ b # g => s[b] = t[b]
                      /\ s[b].status = t[b].status
    BY <1>10
  <2>1. t[b] \in Boost
    BY <1>10
  <2>2. s[b] = IF b = g THEN [t[b] EXCEPT !.gpus = IF e.gpus = 0 THEN t[b].gpus ELSE e.gpus] ELSE t[b]
    BY <1>8
  <2> QED BY <1>4, <2>1, <2>2 DEF Boost
<1>12. s \in Seq(Boost) /\ DOMAIN s = DOMAIN boosts
  BY <1>3, <1>8, <1>11, TableOfRows
<1>13. \A b \in DOMAIN boosts :
         /\ s[b].user = boosts[b].user
         /\ b # g => s[b] = boosts[b]
         /\ s[b].status = IF b = g THEN v ELSE boosts[b].status
         /\ s[b].status = "deleted" <=> boosts[b].status = "deleted"
  BY <1>2, <1>4, <1>11
<1>14. notes' \subseteq Note /\ notes \subseteq notes'
  BY <1>2, <1>6
<1> QED BY <1>1, <1>2, <1>4, <1>5, <1>9, <1>12, <1>13, <1>14 DEF g, v

-----------------------------------------------------------------------------
(* IInv is inductive: one lemma for each kind of step. *)

\* The initial state satisfies the invariant: empty tables.
LEMMA InitIInv == Init => IInv
<1> SUFFICES ASSUME Init PROVE IInv
  OBVIOUS
<1>1. TypeOK
  BY EmptySeq, IdleCarriesNothing DEF Init, TypeOK, NodeRow, NoServer, Server
<1>2. DOMAIN runs = {} /\ DOMAIN boosts = {} /\ notes = {} /\ ActiveRuns = {}
  BY DEF Init, ActiveRuns
<1>3. PlansStayMeaningful /\ ErrandsStayMeaningful
  BY IdleCarriesNothing DEF Init, PlansStayMeaningful, Meaningful, ErrandsStayMeaningful
<1> QED
  BY <1>1, <1>2, <1>3 DEF Init, IInv, DeletedWithUser, OnlyBoostsSpread, RunsKnowTheirBoost,
     GrantsTraced, PromotedWasTold, DeletedLeavesNothing, ActiveRunsOf

\* A step that leaves the tables and the accounts alone.
LEMMA TablesAlone ==
  ASSUME IInv, TypeOK', UNCHANGED <<runs, boosts, notes, account>>,
         PlansStayMeaningful', ErrandsStayMeaningful'
  PROVE  IInv'
  BY DEF IInv, DeletedWithUser, OnlyBoostsSpread, RunsKnowTheirBoost, GrantsTraced,
     PromotedWasTold, DeletedLeavesNothing, ActiveRunsOf, ActiveRuns

\* A step that leaves the requests and the errands alone as well.
LEMMA QuietStep ==
  ASSUME IInv, TypeOK', UNCHANGED <<runs, boosts, notes, account, req, desk>>
  PROVE  IInv'
<1>1. PlansStayMeaningful' /\ ErrandsStayMeaningful'
  BY DEF IInv, PlansStayMeaningful, Meaningful, ErrandsStayMeaningful, Waiting, ActiveRuns
<1> QED BY <1>1, TablesAlone

\* Rows stay, with what they are; the queue is joined only at its end; and nothing
\* that has been decided is pending again.
TablesGrow ==
  /\ DOMAIN runs \subseteq DOMAIN runs'
  /\ \A i \in DOMAIN runs :
       /\ SameRun(runs'[i], runs[i])
       /\ runs'[i].shared => runs[i].shared
       /\ runs'[i].status = "active" => runs[i].status = "active"
  /\ \A i \in DOMAIN runs', j \in DOMAIN runs : i \notin DOMAIN runs => j =< i
  /\ DOMAIN boosts \subseteq DOMAIN boosts'
  /\ \A b \in DOMAIN boosts :
       /\ boosts'[b].user = boosts[b].user
       /\ boosts'[b].status = "pending" => boosts[b].status = "pending"

\* Then what requests carry stays meaningful.
LEMMA PlansSurvive ==
  ASSUME IInv, TablesGrow,
         \A p \in Reqs : \/ req'[p] = req[p]
                         \/ req'[p] \notin Launching /\ req'[p] \notin Updating
  PROVE  PlansStayMeaningful'
<1>1. SUFFICES ASSUME NEW p \in Reqs, req'[p] = req[p] PROVE Meaningful(req[p])'
  BY DEF PlansStayMeaningful, Meaningful
<1>2. Meaningful(req[p])
  BY DEF IInv, PlansStayMeaningful
<1>3. CASE req[p] \in Launching
  BY <1>1, <1>2, <1>3 DEF Meaningful, TablesGrow, SameRun, Launching, Updating
<1>4. CASE req[p] \in Updating
  <2>1. req[p].run \in DOMAIN runs /\ req[p].run \in DOMAIN runs'
    BY <1>2, <1>4 DEF Meaningful, TablesGrow
  <2>2. ASSUME req[p].pc = "telling", NEW i \in Waiting' PROVE req[p].run =< i
    <3>1. CASE i \in DOMAIN runs
      <4>1. i \in Waiting
        BY <2>2, <3>1 DEF Waiting, ActiveRuns, TablesGrow
      <4> QED BY <1>2, <1>4, <2>2, <4>1 DEF Meaningful
    <3>2. CASE i \notin DOMAIN runs
      BY <2>1, <2>2, <3>2 DEF Waiting, ActiveRuns, TablesGrow
    <3> QED BY <3>1, <3>2
  <2>3. req[p] \notin Launching
    BY <1>4 DEF Launching, Updating
  <2> QED BY <1>1, <2>1, <2>2, <2>3 DEF Meaningful
<1> QED BY <1>1, <1>3, <1>4 DEF Meaningful

\* And so does what is about to be decided.
LEMMA ErrandsSurvive ==
  ASSUME IInv, TablesGrow, \A d \in Desks : desk'[d] = desk[d] \/ desk'[d] = Idle
  PROVE  ErrandsStayMeaningful'
<1>1. SUFFICES ASSUME NEW d \in Desks, desk'[d] = desk[d]
               PROVE  /\ desk[d] \in Asking => \A b \in desk[d].pending :
                           b \in DOMAIN boosts' /\ boosts'[b].user = desk[d].user
                      /\ desk[d] \in Deciding => desk[d].boost \in DOMAIN boosts'
  BY IdleCarriesNothing DEF ErrandsStayMeaningful
<1> QED BY DEF IInv, ErrandsStayMeaningful, TablesGrow

\* The steps of the node table, the servers, quotas and maintenance mode.
LEMMA NodeStepIInv == IInv /\ NodeStep => IInv'
<1> SUFFICES ASSUME IInv, NodeStep PROVE IInv'
  OBVIOUS
<1>1. TypeOK'
  <2>1. PICK h \in Hosts : Register(h) \/ Heartbeat(h) \/ HeartbeatLapses(h)
                            \/ Drain(h) \/ Activate(h)
    BY DEF NodeStep
  <2>2. node \in [Hosts -> NodeRow] /\ node[h] \in NodeRow
    BY DEF IInv, TypeOK
  <2>3. node' \in [Hosts -> NodeRow]
    <3>1. CASE Register(h)
      BY <2>2, <3>1 DEF Register, RegisteredNode, NodeRow
    <3>2. CASE Heartbeat(h)
      BY <2>2, <3>2 DEF Heartbeat, NodeRow
    <3>3. CASE HeartbeatLapses(h)
      BY <2>2, <3>3 DEF HeartbeatLapses, NodeRow
    <3>4. CASE Drain(h)
      BY <2>2, <3>4 DEF Drain, NodeRow
    <3>5. CASE Activate(h)
      BY <2>2, <3>5 DEF Activate, NodeRow
    <3> QED BY <2>1, <3>1, <3>2, <3>3, <3>4, <3>5
  <2> QED BY <2>1, <2>3
      DEF IInv, TypeOK, Register, Heartbeat, HeartbeatLapses, Drain, Activate
<1>2. UNCHANGED <<runs, boosts, notes, account, req, desk>>
  BY DEF NodeStep, Register, Heartbeat, HeartbeatLapses, Drain, Activate
<1> QED BY <1>1, <1>2, QuietStep

\* A teardown leaves the servers well typed.
LEMMA TearDownTyped ==
  ASSUME NEW u \in Users, TypeOK, TearDown(u)
  PROVE  server' \in [Users -> Server]
<1>1. NoServer \in Server
  BY DEF NoServer, Server
<1> QED BY <1>1 DEF TypeOK, TearDown

\* The steps that only tear a server down, count hours or set a switch.
LEMMA SwitchStepIInv ==
  ASSUME NEW u \in Users,
         IInv, Logout(u) \/ CullIdle(u) \/ SpendQuota(u) \/ SetQuota(u) \/ SetMaintenance
  PROVE  IInv'
<1>1. TypeOK'
  <2>1. CASE Logout(u) \/ CullIdle(u)
    <3>1. TypeOK /\ TearDown(u)
      BY <2>1 DEF IInv, Logout, CullIdle, TearDown
    <3>2. server' \in [Users -> Server]
      BY <3>1, TearDownTyped
    <3> QED BY <2>1, <3>1, <3>2 DEF TypeOK, Logout, CullIdle
  <2>2. CASE SpendQuota(u) \/ SetQuota(u)
    BY <2>2 DEF IInv, TypeOK, SpendQuota, SetQuota
  <2>3. CASE SetMaintenance
    BY <2>3 DEF IInv, TypeOK, SetMaintenance
  <2> QED BY <2>1, <2>2, <2>3
<1>2. UNCHANGED <<runs, boosts, notes, account, req, desk>>
  BY DEF Logout, CullIdle, SpendQuota, SetQuota, SetMaintenance
<1> QED BY <1>1, <1>2, QuietStep

\* Suspending, rejecting, expiring and reinstating an account.
LEMMA StandingStepIInv ==
  ASSUME NEW u \in Users, IInv, Suspend(u) \/ LoseApproval(u) \/ Reinstate(u)
  PROVE  IInv'
<1>1. TypeOK /\ account \in [Users -> {"approved", "suspended", "deleted"}]
  BY DEF IInv, TypeOK
<1>2. /\ UNCHANGED <<node, runs, boosts, notes, spent, maintenance, req, desk>>
      /\ \/ account' = [account EXCEPT ![u] = "suspended"]
         \/ account' = [account EXCEPT ![u] = "approved"]
      /\ account[u] # "deleted"
  BY DEF Suspend, LoseApproval, Reinstate
<1>3. \A v \in Users : account'[v] = "deleted" <=> account[v] = "deleted"
  BY <1>1, <1>2
<1>4. TypeOK'
  <2>1. server' \in [Users -> Server]
    BY <1>1, TearDownTyped DEF Suspend, LoseApproval, Reinstate, TypeOK
  <2> QED BY <1>1, <1>2, <2>1 DEF TypeOK
<1>5. \A i \in DOMAIN runs : runs[i].user \in Users
  BY <1>1, RowsTyped
<1>6. \A b \in DOMAIN boosts : boosts[b].user \in Users
  BY <1>1, RowsTyped
<1>7. PlansStayMeaningful' /\ ErrandsStayMeaningful'
  BY <1>2 DEF IInv, PlansStayMeaningful, Meaningful, ErrandsStayMeaningful, Waiting, ActiveRuns
<1>8. DeletedWithUser'
  BY <1>2, <1>3, <1>5, <1>6 DEF IInv, DeletedWithUser
<1>9. DeletedLeavesNothing'
  BY <1>2, <1>3 DEF IInv, DeletedLeavesNothing, ActiveRunsOf, ActiveRuns
<1> QED
  BY <1>2, <1>4, <1>7, <1>8, <1>9 DEF IInv, OnlyBoostsSpread, RunsKnowTheirBoost,
     GrantsTraced, PromotedWasTold, ActiveRuns

\* Stop, and the steps that only move a request along or drop it.
LEMMA RequestMovesIInv ==
  ASSUME NEW q \in Reqs, IInv,
         \/ \E u \in Users : Stop(q, u)
         \/ HubStart(q) \/ HubStop(q) \/ FindStopped(q) \/ Promote(q)
         \/ RecordRefused(q) \/ UpdateRefused(q) \/ RequestLost(q)
  PROVE  IInv'
<1>0. TypeOK /\ req \in [Reqs -> Request] /\ req[q] \in Request
  BY DEF IInv, TypeOK
<1>a. /\ UNCHANGED <<node, runs, boosts, notes, account, spent, maintenance, desk>>
      /\ \E r : req' = [req EXCEPT ![q] = r]
  BY DEF Stop, HubStart, HubStop, FindStopped, Promote, RecordRefused, UpdateRefused, RequestLost
<1>b. SUFFICES server' \in [Users -> Server] /\ req'[q] \in Request /\ Meaningful(req[q])'
  <2>1. ASSUME server' \in [Users -> Server], req'[q] \in Request, Meaningful(req[q])'
        PROVE  IInv'
    <3>1. TypeOK'
      BY <1>0, <1>a, <2>1 DEF TypeOK
    <3>2. PlansStayMeaningful'
      <4>1. \A p \in Reqs : p # q => req'[p] = req[p]
        BY <1>0, <1>a
      <4>2. \A p \in Reqs : p # q => Meaningful(req[p])'
        BY <1>a, <4>1 DEF IInv, PlansStayMeaningful, Meaningful, Waiting, ActiveRuns
      <4> QED BY <2>1, <4>2 DEF PlansStayMeaningful
    <3>3. ErrandsStayMeaningful'
      BY <1>a DEF IInv, ErrandsStayMeaningful
    <3> QED BY <1>a, <3>1, <3>2, <3>3, TablesAlone
  <2> QED BY <2>1
<1>c. Idle \in Request /\ (req'[q] \notin Launching /\ req'[q] \notin Updating => Meaningful(req[q])')
  BY IdleCarriesNothing DEF Meaningful
<1>1. CASE \E u \in Users : Stop(q, u)
  <2>1. PICK u \in Users : Stop(q, u)
    BY <1>1
  <2>2. req'[q] = [pc |-> "stopping", user |-> u] /\ req'[q] \in Stopping
    BY <1>0, <2>1 DEF Stop, Stopping
  <2>3. req'[q] \notin Launching /\ req'[q] \notin Updating
    BY <2>2 DEF Launching, Updating
  <2> QED BY <1>0, <1>c, <2>1, <2>2, <2>3 DEF TypeOK, Stop, Request
<1>2. CASE RecordRefused(q) \/ UpdateRefused(q) \/ RequestLost(q)
  <2>1. req'[q] = Idle /\ UNCHANGED server
    BY <1>0, <1>2 DEF RecordRefused, UpdateRefused, RequestLost
  <2> QED BY <1>0, <1>c, <2>1, IdleCarriesNothing DEF TypeOK
<1>3. CASE HubStop(q)
  <2>1. req[q] \in Stopping
    BY <1>0, <1>3, RequestByPc DEF HubStop
  <2>2. req'[q] = [req[q] EXCEPT !.pc = "closing"]
    BY <1>0, <1>3 DEF HubStop
  <2>3. req'[q] \in Stopping /\ req'[q] \notin Launching /\ req'[q] \notin Updating
    BY <2>1, <2>2 DEF Stopping, Launching, Updating
  <2>4. server' \in [Users -> Server]
    BY <1>0, <1>3, <2>1, TearDownTyped DEF HubStop, Stopping
  <2> QED BY <1>c, <2>3, <2>4 DEF Request
<1>4. CASE HubStart(q)
  <2>1. req[q] \in Launching
    BY <1>0, <1>4, RequestByPc DEF HubStart
  <2>2. req'[q] = [req[q] EXCEPT !.pc = "recording"]
    BY <1>0, <1>4 DEF HubStart
  <2>3. /\ req'[q] \in Launching /\ req'[q] \notin Updating
        /\ req'[q].user = req[q].user /\ req'[q].old = req[q].old
        /\ req'[q].boost = req[q].boost /\ req'[q].plan = req[q].plan
    BY <2>1, <2>2 DEF Launching, Updating
  <2>4. server' \in [Users -> Server]
    <3>1. [up |-> TRUE, host |-> req[q].plan.host] \in Server
      BY <2>1 DEF Launching, Placement, Server
    <3> QED BY <1>0, <1>4, <3>1 DEF HubStart, TypeOK
  <2>5. Meaningful(req[q])'
    <3>1. Meaningful(req[q])
      BY DEF IInv, PlansStayMeaningful
    <3> QED BY <1>a, <2>1, <2>3, <3>1 DEF Meaningful
  <2> QED BY <2>3, <2>4, <2>5 DEF Request
<1>5. CASE FindStopped(q)
  <2>1. req[q] \in Stopping /\ UNCHANGED server
    BY <1>0, <1>5, RequestByPc DEF FindStopped
  <2>2. PICK i \in ActiveRun(req[q].user) :
          req' = [req EXCEPT ![q] = IF i = 0 THEN Idle ELSE [pc |-> "ending", run |-> i]]
    BY <1>5 DEF FindStopped
  <2>3. CASE i = 0
    BY <1>0, <1>c, <2>1, <2>2, <2>3, IdleCarriesNothing DEF TypeOK
  <2>4. CASE i # 0
    <3>1. i \in DOMAIN runs /\ i \in Nat \ {0}
      BY <1>0, <2>4, RowsTyped DEF ActiveRun, ActiveRunsOf, ActiveRuns
    <3>2. req'[q] = [pc |-> "ending", run |-> i]
      BY <1>0, <2>2, <2>4
    <3>3. req'[q] \in Updating /\ req'[q] \notin Launching
      BY <3>1, <3>2 DEF Updating, Launching
    <3> QED BY <1>0, <1>a, <2>1, <3>1, <3>2, <3>3 DEF Meaningful, TypeOK, Request
  <2> QED BY <2>3, <2>4
<1>6. CASE Promote(q)
  <2>1. UNCHANGED server
    BY <1>6 DEF Promote
  <2>2. CASE Waiting = {} \/ Taken(req[q].freed)
    BY <1>0, <1>6, <1>c, <2>1, <2>2, IdleCarriesNothing DEF TypeOK, Promote
  <2>3. CASE Waiting # {} /\ ~Taken(req[q].freed)
    <3>1. Waiting \in SUBSET DOMAIN runs /\ DOMAIN runs \in SUBSET (Nat \ {0})
      BY <1>0, RowsTyped DEF Waiting, ActiveRuns
    <3>2. \E w \in Waiting : \A i \in Waiting : w =< i
      BY <2>3, <3>1, HasLeast
    <3>3. LongestWaiting \in Waiting /\ \A i \in Waiting : LongestWaiting =< i
      BY <3>2 DEF LongestWaiting
    <3>4. req'[q] = [pc |-> "telling", run |-> LongestWaiting]
      BY <1>0, <1>6, <2>3 DEF Promote
    <3> HIDE DEF LongestWaiting
    <3>5. req'[q] \in Updating /\ req'[q] \notin Launching
      BY <3>1, <3>3, <3>4 DEF Updating, Launching
    <3>6. /\ req'[q].run \in DOMAIN runs'
          /\ \A i \in Waiting' : req'[q].run =< i
      BY <1>a, <3>1, <3>3, <3>4 DEF Waiting, ActiveRuns
    <3> QED BY <1>0, <2>1, <3>5, <3>6 DEF Meaningful, TypeOK, Request
  <2> QED BY <2>2, <2>3
<1> QED BY <1>1, <1>2, <1>3, <1>4, <1>5, <1>6

\* The grant a launch reads, if it reads one, is an approved one of its user.
LEMMA GrantRead ==
  ASSUME NEW u \in Users, NEW gpu \in BOOLEAN, IInv
  PROVE  LET boost == BoostFor(u, gpu)
         IN  /\ boost \in Nat
             /\ boost # 0 => /\ boost \in DOMAIN boosts
                             /\ boosts[boost].user = u
                             /\ boosts[boost].status = "approved"
                             /\ boosts[boost].gpus \in Nat \ {0}
<1> DEFINE boost == BoostFor(u, gpu)
<1>1. DOMAIN boosts = 1..Len(boosts) /\ Len(boosts) \in Nat
  BY RowsTyped DEF IInv
<1>2. boost # 0 => boost \in ApprovedOf(u)
  <2>1. ApprovedOf(u) \in SUBSET (1..Len(boosts))
    BY <1>1 DEF ApprovedOf
  <2>2. Latest({}) = 0
    BY DEF Latest
  <2>3. Latest(ApprovedOf(u)) # 0 => Latest(ApprovedOf(u)) \in ApprovedOf(u)
    BY <1>1, <2>1, <2>2, LatestIsOne
  <2> QED BY <2>3 DEF BoostFor
<1>3. boost \in Nat
  BY <1>1, <1>2 DEF ApprovedOf
<1>4. boost # 0 => /\ boost \in DOMAIN boosts
                   /\ boosts[boost].user = u
                   /\ boosts[boost].status = "approved"
                   /\ boosts[boost].gpus \in Nat \ {0}
  <2>1. ASSUME boost # 0 PROVE boost \in DOMAIN boosts /\ boosts[boost] \in Boost
    BY <1>2, <2>1, RowsTyped DEF IInv, ApprovedOf
  <2> QED BY <1>2, <2>1 DEF ApprovedOf, Boost
<1> QED  BY <1>3, <1>4

\* What Launch(q, u, gpu) puts in the request slot is well typed and meaningful.
LEMMA LaunchPlan ==
  ASSUME NEW u \in Users, NEW gpu \in BOOLEAN, IInv,
         NEW old \in ActiveRun(u), NEW plan \in PlansFor(u, gpu)
  PROVE  /\ old \in Nat /\ BoostFor(u, gpu) \in Nat /\ plan \in Placement
         /\ old # 0 => old \in DOMAIN runs /\ runs[old].user = u
         /\ plan.colocated \subseteq DOMAIN runs
         /\ plan.mode = "shared" => plan.shared
         /\ plan.mode # "boost" => plan.span = {}
         /\ BoostFor(u, gpu) # 0 =>
              /\ BoostFor(u, gpu) \in DOMAIN boosts
              /\ boosts[BoostFor(u, gpu)].user = u
              /\ boosts[BoostFor(u, gpu)].status = "approved"
              /\ Cardinality(plan.span) =< boosts[BoostFor(u, gpu)].gpus
              /\ plan.gpus \in 1..boosts[BoostFor(u, gpu)].gpus
<1> DEFINE boost == BoostFor(u, gpu)
           wantsGpu == (gpu /\ ~Capped(u, gpu)) \/ boost # 0
           want == IF boost = 0 THEN 0 ELSE boosts[boost].gpus
<1>1. /\ runs \in Seq(Run) /\ DOMAIN runs = 1..Len(runs) /\ Len(runs) \in Nat
      /\ boosts \in Seq(Boost) /\ DOMAIN boosts = 1..Len(boosts) /\ Len(boosts) \in Nat
  BY LenProperties DEF IInv, TypeOK
<1>2. old \in Nat /\ (old # 0 => old \in DOMAIN runs /\ runs[old].user = u)
  BY <1>1 DEF ActiveRun, ActiveRunsOf, ActiveRuns
<1>3. boost \in Nat
  BY GrantRead
<1>4. boost # 0 => /\ boost \in DOMAIN boosts
                   /\ boosts[boost].user = u
                   /\ boosts[boost].status = "approved"
                   /\ boosts[boost].gpus \in Nat \ {0}
  BY GrantRead
<1>5. want \in Nat /\ wantsGpu \in BOOLEAN
  BY <1>4
<1>6. OthersRuns(u) \in SUBSET DOMAIN runs /\ OnlineNodes(wantsGpu) \in SUBSET Hosts
  BY DEF OthersRuns, ActiveRuns, OnlineNodes
<1>7. plan \in Placements(OnlineNodes(wantsGpu), runs, OthersRuns(u), wantsGpu, want)
  BY DEF PlansFor
<1> HIDE DEF boost, wantsGpu, want
<1>8. /\ plan \in Placement
      /\ plan.colocated \subseteq OthersRuns(u)
      /\ plan.mode = "shared" => plan.shared
      /\ plan.mode # "boost" => plan.span = {}
      /\ want > 0 => Cardinality(plan.span) =< want /\ plan.gpus \in 1..want
  BY <1>1, <1>5, <1>6, <1>7, PlacementShape
<1>9. boost # 0 => want = boosts[boost].gpus /\ want > 0
  BY <1>4 DEF want
<1> QED BY <1>2, <1>3, <1>4, <1>6, <1>8, <1>9 DEF boost

\* A launch comes in: a new plan, and perhaps a quota notice.
LEMMA LaunchIInv ==
  ASSUME NEW q \in Reqs, NEW u \in Users, NEW gpu \in Profiles, IInv, Launch(q, u, gpu)
  PROVE  IInv'
<1>1. gpu \in BOOLEAN
  BY NotebooksAssumption
<1>2. PICK old \in ActiveRun(u), plan \in PlansFor(u, gpu) :
        req' = [req EXCEPT ![q] = [pc |-> "starting", user |-> u, old |-> old,
                                   boost |-> BoostFor(u, gpu), plan |-> plan]]
  BY DEF Launch
<1>3. /\ UNCHANGED <<node, runs, boosts, account, spent, maintenance, server, desk>>
      /\ account[u] = "approved"
      /\ notes' = notes \/ notes' = notes \cup {Notify(u, "quota", 0)}
  BY DEF Launch, MayRequest
<1>4. TypeOK /\ req \in [Reqs -> Request]
  BY DEF IInv, TypeOK
<1> DEFINE boost == BoostFor(u, gpu)
           r == [pc |-> "starting", user |-> u, old |-> old, boost |-> boost, plan |-> plan]
<1>5. /\ old \in Nat /\ boost \in Nat /\ plan \in Placement
      /\ old # 0 => old \in DOMAIN runs /\ runs[old].user = u
      /\ plan.colocated \subseteq DOMAIN runs
      /\ plan.mode = "shared" => plan.shared
      /\ plan.mode # "boost" => plan.span = {}
      /\ boost # 0 =>
           /\ boost \in DOMAIN boosts
           /\ boosts[boost].user = u
           /\ boosts[boost].status = "approved"
  BY <1>1, LaunchPlan
<1> HIDE DEF boost
<1>6. r \in Launching
  BY <1>5 DEF Launching
<1>7. req' = [req EXCEPT ![q] = r]
  BY <1>2 DEF boost
<1>8. TypeOK'
  <2>1. Notify(u, "quota", 0) \in Note
    BY DEF Notify, Note
  <2> QED BY <1>3, <1>4, <1>6, <1>7, <2>1 DEF TypeOK, Request
<1>9. PlansStayMeaningful'
  <2> SUFFICES ASSUME NEW p \in Reqs PROVE Meaningful(req[p])'
    BY DEF PlansStayMeaningful
  <2>1. CASE p = q
    <3>1. req'[p] = r /\ r \notin Updating
      BY <1>4, <1>7, <2>1 DEF Updating
    <3> QED BY <1>3, <1>5, <3>1 DEF Meaningful
  <2>2. CASE p # q
    <3>1. req'[p] = req[p]
      BY <1>4, <1>7, <2>2
    <3> QED BY <1>3, <3>1 DEF IInv, PlansStayMeaningful, Meaningful, Waiting, ActiveRuns
  <2> QED BY <2>1, <2>2
<1>10. ErrandsStayMeaningful'
  BY <1>3 DEF IInv, ErrandsStayMeaningful
<1>11. notes \subseteq notes' /\ \A n \in notes' : n \in notes \/ n.to = u
  BY <1>3 DEF Notify
<1>12. PromotedWasTold'
  BY <1>3, <1>11 DEF IInv, PromotedWasTold, ActiveRuns
<1>13. DeletedLeavesNothing'
  BY <1>3, <1>11 DEF IInv, DeletedLeavesNothing, ActiveRunsOf, ActiveRuns
<1> QED
  BY <1>3, <1>8, <1>9, <1>10, <1>12, <1>13
  DEF IInv, DeletedWithUser, OnlyBoostsSpread, RunsKnowTheirBoost, GrantsTraced

\* The commit of a launch makes the tables grow.
LEMMA RecordLaunchGrows ==
  ASSUME NEW q \in Reqs, IInv, RecordLaunch(q)
  PROVE  TablesGrow
<1> DEFINE r == req[q]
           n == Len(runs) + 1
<1>1. /\ r.boost \in Nat
      /\ r.boost # 0 => /\ r.boost \in DOMAIN boosts
                        /\ boosts[r.boost].user = r.user
                        /\ boosts[r.boost].status \notin {"pending", "deleted"}
      /\ DOMAIN runs' = DOMAIN runs \cup {n}
      /\ n \in Nat \ {0} /\ n \notin DOMAIN runs /\ \A i \in DOMAIN runs : i < n /\ i \in Nat
      /\ \A i \in DOMAIN runs :
           /\ SameRun(runs'[i], runs[i])
           /\ runs'[i].shared = runs[i].shared /\ runs'[i].told = runs[i].told
           /\ runs'[i].status = IF i = r.old THEN "stopped" ELSE runs[i].status
           /\ runs'[i].status = "deleted" <=> runs[i].status = "deleted"
      /\ DOMAIN boosts' = DOMAIN boosts
      /\ \A b \in DOMAIN boosts :
           /\ boosts'[b].user = boosts[b].user /\ boosts'[b].gpus = boosts[b].gpus
           /\ boosts'[b].status = IF b = r.boost THEN "consumed" ELSE boosts[b].status
  BY RecordLaunchEffect
<1> HIDE DEF r, n
<1>2. \A i \in DOMAIN runs', j \in DOMAIN runs : i \notin DOMAIN runs => j =< i
  BY <1>1
<1>3. \A b \in DOMAIN boosts : boosts'[b].status = "pending" => boosts[b].status = "pending"
  BY <1>1
<1>4. \A i \in DOMAIN runs : /\ runs'[i].shared => runs[i].shared
                             /\ runs'[i].status = "active" => runs[i].status = "active"
  BY <1>1
<1> QED BY <1>1, <1>2, <1>3, <1>4 DEF TablesGrow

\* The transaction of a launch.
LEMMA RecordLaunchIInv ==
  ASSUME NEW q \in Reqs, IInv, RecordLaunch(q)
  PROVE  IInv'
<1> DEFINE r == req[q]
           n == Len(runs) + 1
<1>1. /\ r \in Launching /\ NewRun(r) \in Run
      /\ r.old \in Nat /\ (r.old # 0 => r.old \in DOMAIN runs /\ runs[r.old].user = r.user)
      /\ r.boost \in Nat
      /\ r.boost # 0 => /\ r.boost \in DOMAIN boosts
                        /\ boosts[r.boost].user = r.user
                        /\ boosts[r.boost].status \notin {"pending", "deleted"}
      /\ account[r.user] # "deleted"
      /\ runs' \in Seq(Run) /\ DOMAIN runs' = DOMAIN runs \cup {n}
      /\ n \in Nat \ {0} /\ n \notin DOMAIN runs /\ \A i \in DOMAIN runs : i < n /\ i \in Nat
      /\ \A i \in DOMAIN runs :
           /\ SameRun(runs'[i], runs[i])
           /\ runs'[i].shared = runs[i].shared /\ runs'[i].told = runs[i].told
           /\ runs'[i].status = IF i = r.old THEN "stopped" ELSE runs[i].status
           /\ runs'[i].status = "deleted" <=> runs[i].status = "deleted"
      /\ runs'[n] = NewRun(r)
      /\ boosts' \in Seq(Boost) /\ DOMAIN boosts' = DOMAIN boosts
      /\ \A b \in DOMAIN boosts :
           /\ boosts'[b].user = boosts[b].user /\ boosts'[b].gpus = boosts[b].gpus
           /\ boosts'[b].status = IF b = r.boost THEN "consumed" ELSE boosts[b].status
      /\ notes \subseteq notes'
      /\ \A m \in notes' : m \in notes \/ (m \in Note /\ account[m.to] # "deleted")
      /\ req'[q] \in Request /\ req'[q] \notin Launching /\ req'[q] \notin Updating
      /\ req' = [req EXCEPT ![q] = req'[q]]
      /\ UNCHANGED <<node, account, spent, maintenance, server, desk>>
  BY RecordLaunchEffect
<1>2. TypeOK /\ req \in [Reqs -> Request] /\ \A i \in DOMAIN runs : runs[i].user \in Users
  BY RowsTyped DEF IInv, TypeOK
<1>3. /\ runs'[n].user = r.user /\ runs'[n].span = r.plan.span /\ runs'[n].mode = r.plan.mode
      /\ runs'[n].shared = r.plan.shared /\ runs'[n].boost = r.boost
      /\ runs'[n].status = "active"
  BY <1>1 DEF NewRun
<1>4. (r.plan.mode = "shared" => r.plan.shared) /\ (r.plan.mode # "boost" => r.plan.span = {})
  BY <1>1 DEF IInv, PlansStayMeaningful, Meaningful
<1> HIDE DEF r, n
<1>5. \A i \in DOMAIN runs' : i \in DOMAIN runs \/ i = n
  BY <1>1
<1>6. \A i \in DOMAIN runs : /\ runs'[i].user = runs[i].user /\ runs'[i].boost = runs[i].boost
                             /\ runs'[i].mode = runs[i].mode /\ runs'[i].span = runs[i].span
  BY <1>1 DEF SameRun
<1>7. \A b \in DOMAIN boosts : boosts'[b].status = "deleted" <=> boosts[b].status = "deleted"
  <2>1. 0 \notin DOMAIN boosts
    BY <1>2, RowsTyped
  <2> QED BY <1>1, <2>1
<1>8. TypeOK'
  <2>1. req' \in [Reqs -> Request]
    BY <1>1, <1>2
  <2>2. notes' \subseteq Note
    BY <1>1, <1>2 DEF TypeOK
  <2> QED BY <1>1, <1>2, <2>1, <2>2 DEF TypeOK
<1>9. PlansStayMeaningful' /\ ErrandsStayMeaningful'
  <2>1. TablesGrow
    BY RecordLaunchGrows
  <2>2. \A p \in Reqs : \/ req'[p] = req[p]
                        \/ req'[p] \notin Launching /\ req'[p] \notin Updating
    BY <1>1, <1>2
  <2> QED BY <1>1, <2>1, <2>2, PlansSurvive, ErrandsSurvive
<1>10. DeletedWithUser'
  <2>1. ASSUME NEW i \in DOMAIN runs'
        PROVE  runs'[i].status = "deleted" <=> account[runs'[i].user] = "deleted"
    <3>1. CASE i \in DOMAIN runs
      <4>1. runs[i].status = "deleted" <=> account[runs[i].user] = "deleted"
        BY <3>1 DEF IInv, DeletedWithUser
      <4> QED BY <1>1, <1>6, <3>1, <4>1
    <3>2. CASE i = n
      BY <1>1, <1>3, <3>2
    <3> QED BY <1>5, <3>1, <3>2
  <2>2. ASSUME NEW b \in DOMAIN boosts
        PROVE  boosts'[b].status = "deleted" <=> account[boosts'[b].user] = "deleted"
    BY <1>1, <1>7 DEF IInv, DeletedWithUser
  <2>3. account' = account /\ DOMAIN boosts' = DOMAIN boosts
    BY <1>1
  <2> QED BY <2>1, <2>2, <2>3 DEF DeletedWithUser
<1>11. OnlyBoostsSpread'
  BY <1>3, <1>4, <1>5, <1>6 DEF IInv, OnlyBoostsSpread
<1>12. RunsKnowTheirBoost'
  BY <1>1, <1>3, <1>5, <1>6 DEF IInv, RunsKnowTheirBoost
<1>13. GrantsTraced'
  <2> SUFFICES ASSUME NEW b \in DOMAIN boosts
               PROVE  /\ boosts'[b].status = "consumed" => \E i \in DOMAIN runs' : runs'[i].boost = b
                      /\ \A i \in DOMAIN runs' : runs'[i].boost = b =>
                           /\ runs'[i].user = boosts'[b].user
                           /\ boosts'[b].status # "pending"
    BY <1>1 DEF GrantsTraced
  <2>1. /\ boosts[b].status = "consumed" => \E i \in DOMAIN runs : runs[i].boost = b
        /\ \A i \in DOMAIN runs : runs[i].boost = b =>
             /\ runs[i].user = boosts[b].user
             /\ boosts[b].status # "pending"
    BY DEF IInv, GrantsTraced
  <2>2. CASE b = r.boost
    <3>1. b # 0
      BY <1>2, RowsTyped
    <3>2. /\ boosts[b].user = r.user /\ boosts'[b].user = boosts[b].user
          /\ boosts'[b].status = "consumed"
      BY <1>1, <2>2, <3>1
    <3>3. n \in DOMAIN runs' /\ runs'[n].boost = b
      BY <1>1, <1>3, <2>2
    <3>4. ASSUME NEW i \in DOMAIN runs', runs'[i].boost = b
          PROVE  runs'[i].user = boosts'[b].user
      BY <1>3, <1>5, <1>6, <2>1, <3>2, <3>4
    <3> QED BY <3>2, <3>3, <3>4
  <2>3. CASE b # r.boost
    <3>1. boosts'[b].user = boosts[b].user /\ boosts'[b].status = boosts[b].status
      BY <1>1, <2>3
    <3>2. \A i \in DOMAIN runs' : runs'[i].boost = b => i \in DOMAIN runs
      BY <1>3, <1>5, <2>3
    <3>3. DOMAIN runs \subseteq DOMAIN runs'
      BY <1>1
    <3> QED BY <1>6, <2>1, <3>1, <3>2, <3>3
  <2> QED BY <2>2, <2>3
<1>14. \A i \in DOMAIN runs : runs'[i].status = "active" => i \in ActiveRuns
  BY <1>1 DEF ActiveRuns
<1>15. PromotedWasTold'
  <2> SUFFICES ASSUME NEW i \in DOMAIN runs', runs'[i].status = "active",
                      runs'[i].mode = "shared", ~runs'[i].shared
               PROVE  Notify(runs'[i].user, "freed", i) \in notes'
    BY DEF PromotedWasTold, ActiveRuns
  <2>1. i \in DOMAIN runs
    BY <1>3, <1>4, <1>5
  <2> QED BY <1>1, <1>6, <1>14, <2>1 DEF IInv, PromotedWasTold
<1>16. DeletedLeavesNothing'
  <2> SUFFICES ASSUME NEW u \in Users, account[u] = "deleted"
               PROVE  /\ \A i \in DOMAIN runs' : ~(runs'[i].status = "active" /\ runs'[i].user = u)
                      /\ \A b \in DOMAIN boosts' : boosts'[b].user = u => boosts'[b].status = "deleted"
                      /\ \A m \in notes' : m.to # u
    BY <1>1 DEF DeletedLeavesNothing, ActiveRunsOf, ActiveRuns
  <2>1. \A i \in ActiveRuns : runs[i].user # u
    BY DEF IInv, DeletedLeavesNothing, ActiveRunsOf
  <2>2. \A i \in DOMAIN runs' : ~(runs'[i].status = "active" /\ runs'[i].user = u)
    BY <1>1, <1>3, <1>5, <1>6, <1>14, <2>1
  <2>3. \A m \in notes' : m.to # u
    BY <1>1 DEF IInv, DeletedLeavesNothing
  <2>4. \A b \in DOMAIN boosts : boosts[b].user = u => boosts[b].status = "deleted"
    BY DEF IInv, DeletedLeavesNothing
  <2>5. \A b \in DOMAIN boosts' : boosts'[b].user = u => boosts'[b].status = "deleted"
    BY <1>1, <1>7, <2>4
  <2> QED BY <2>2, <2>3, <2>5
<1> QED
  BY <1>8, <1>9, <1>10, <1>11, <1>12, <1>13, <1>15, <1>16 DEF IInv

\* A step that changes the standing of runs, and no row of another table.
LEMMA StandingChanges ==
  ASSUME IInv, TypeOK', UNCHANGED <<boosts, account, desk>>,
         DOMAIN runs' = DOMAIN runs,
         \A i \in DOMAIN runs :
           /\ SameRun(runs'[i], runs[i])
           /\ runs'[i].shared => runs[i].shared
           /\ runs'[i].status = "active" => runs[i].status = "active"
           /\ runs'[i].status = "deleted" <=> runs[i].status = "deleted",
         \A p \in Reqs : \/ req'[p] = req[p]
                         \/ req'[p] \notin Launching /\ req'[p] \notin Updating,
         \A m \in notes' : m \in notes \/ account[m.to] # "deleted",
         PromotedWasTold'
  PROVE  IInv'
<1>1. TablesGrow
  BY DEF TablesGrow
<1>2. PlansStayMeaningful' /\ ErrandsStayMeaningful'
  BY <1>1, PlansSurvive, ErrandsSurvive
<1>3. \A i \in DOMAIN runs : /\ runs'[i].user = runs[i].user /\ runs'[i].boost = runs[i].boost
                             /\ runs'[i].mode = runs[i].mode /\ runs'[i].span = runs[i].span
  BY DEF SameRun
<1>4. DeletedWithUser'
  <2>1. ASSUME NEW i \in DOMAIN runs
        PROVE  runs'[i].status = "deleted" <=> account[runs'[i].user] = "deleted"
    <3>1. runs[i].status = "deleted" <=> account[runs[i].user] = "deleted"
      BY DEF IInv, DeletedWithUser
    <3> QED BY <1>3, <3>1
  <2> QED BY <2>1 DEF IInv, DeletedWithUser
<1>5. OnlyBoostsSpread' /\ RunsKnowTheirBoost'
  BY <1>3 DEF IInv, OnlyBoostsSpread, RunsKnowTheirBoost
<1>6. GrantsTraced'
  BY <1>3 DEF IInv, GrantsTraced
<1>7. DeletedLeavesNothing'
  <2>1. \A u \in Users : ActiveRunsOf(u)' \subseteq ActiveRunsOf(u)
    BY <1>3 DEF ActiveRunsOf, ActiveRuns
  <2> QED BY <2>1 DEF IInv, DeletedLeavesNothing
<1> QED BY <1>2, <1>4, <1>5, <1>6, <1>7 DEF IInv

\* A stop closes the run it found.
LEMMA CloseStoppedIInv ==
  ASSUME NEW q \in Reqs, IInv, CloseStopped(q)
  PROVE  IInv'
<1>0. TypeOK /\ req \in [Reqs -> Request]
  BY DEF IInv, TypeOK
<1>1. /\ runs' \in Seq(Run) /\ DOMAIN runs' = DOMAIN runs
      /\ \A i \in DOMAIN runs :
           /\ SameRun(runs'[i], runs[i])
           /\ runs'[i].shared = runs[i].shared
           /\ runs'[i].status = IF i = req[q].run THEN "stopped" ELSE runs[i].status
           /\ runs'[i].status = "deleted" <=> runs[i].status = "deleted"
      /\ req'[q] \in Request /\ req'[q] \notin Launching /\ req'[q] \notin Updating
      /\ req' = [req EXCEPT ![q] = req'[q]]
      /\ UNCHANGED <<node, boosts, notes, account, spent, maintenance, server, desk>>
  BY CloseStoppedEffect
<1>2. TypeOK'
  BY <1>0, <1>1 DEF TypeOK
<1>3. \A i \in DOMAIN runs : runs'[i].status = "active" => runs[i].status = "active"
  BY <1>1
<1>4. \A p \in Reqs : \/ req'[p] = req[p]
                      \/ req'[p] \notin Launching /\ req'[p] \notin Updating
  BY <1>0, <1>1
<1>5. PromotedWasTold'
  BY <1>1, <1>3 DEF IInv, PromotedWasTold, ActiveRuns, SameRun
<1> QED BY <1>1, <1>2, <1>3, <1>4, <1>5, StandingChanges

\* A host was freed: the sharer that was chosen leaves the queue and is told.
LEMMA RecordPromotionIInv ==
  ASSUME NEW q \in Reqs, IInv, RecordPromotion(q)
  PROVE  IInv'
<1> DEFINE w == req[q].run
<1>0. TypeOK /\ req \in [Reqs -> Request]
  BY DEF IInv, TypeOK
<1>1. /\ w \in DOMAIN runs
      /\ runs' \in Seq(Run) /\ DOMAIN runs' = DOMAIN runs
      /\ \A i \in DOMAIN runs :
           /\ SameRun(runs'[i], runs[i]) /\ runs'[i].status = runs[i].status
           /\ i # w => runs'[i] = runs[i]
      /\ runs'[w].shared = FALSE
      /\ notes' = notes \cup {Notify(runs[w].user, "freed", w)}
      /\ Notify(runs[w].user, "freed", w) \in Note
      /\ account[runs[w].user] # "deleted"
      /\ req' = [req EXCEPT ![q] = Idle]
      /\ UNCHANGED <<node, boosts, account, spent, maintenance, server, desk>>
  BY RecordPromotionEffect
<1> HIDE DEF w
<1>2. TypeOK'
  BY <1>0, <1>1, IdleCarriesNothing DEF TypeOK
<1>3. \A i \in DOMAIN runs : runs'[i].shared => runs[i].shared
  BY <1>1
<1>4. \A p \in Reqs : \/ req'[p] = req[p]
                      \/ req'[p] \notin Launching /\ req'[p] \notin Updating
  BY <1>0, <1>1, IdleCarriesNothing
<1>5. \A m \in notes' : m \in notes \/ account[m.to] # "deleted"
  BY <1>1 DEF Notify
<1>6. PromotedWasTold'
  <2> SUFFICES ASSUME NEW i \in DOMAIN runs', runs'[i].status = "active",
                      runs'[i].mode = "shared", ~runs'[i].shared
               PROVE  Notify(runs'[i].user, "freed", i) \in notes'
    BY DEF PromotedWasTold, ActiveRuns
  <2>1. CASE i = w
    BY <1>1, <2>1 DEF SameRun
  <2>2. CASE i # w
    BY <1>1, <2>2 DEF IInv, PromotedWasTold, ActiveRuns
  <2> QED BY <2>1, <2>2
<1> QED BY <1>1, <1>2, <1>3, <1>4, <1>5, <1>6, StandingChanges

\* A request for a boost is recorded.
LEMMA RecordRequestIInv ==
  ASSUME NEW d \in Desks, IInv, RecordRequest(d)
  PROVE  IInv'
<1> DEFINE e == desk[d]
           m == Len(boosts) + 1
<1>0. TypeOK /\ desk \in [Desks -> Errand]
  BY DEF IInv, TypeOK
<1>1. /\ e \in Asking /\ account[e.user] # "deleted"
      /\ \A b \in e.pending : b \in DOMAIN boosts /\ boosts[b].user = e.user
      /\ boosts' \in Seq(Boost) /\ DOMAIN boosts' = DOMAIN boosts \cup {m}
      /\ m \in Nat \ {0} /\ m \notin DOMAIN boosts
      /\ \A b \in DOMAIN boosts :
           /\ boosts'[b].user = boosts[b].user /\ boosts'[b].gpus = boosts[b].gpus
           /\ boosts'[b].status = IF b \in e.pending THEN "expired" ELSE boosts[b].status
           /\ boosts'[b].status = "deleted" <=> boosts[b].status = "deleted"
      /\ boosts'[m] = [user |-> e.user, gpus |-> e.gpus, status |-> "pending"]
      /\ desk' = [desk EXCEPT ![d] = Idle]
      /\ UNCHANGED <<node, runs, notes, account, spent, maintenance, server, req>>
  BY RecordRequestEffect
<1>2. boosts'[m].user = e.user /\ boosts'[m].status = "pending"
  BY <1>1
<1> HIDE DEF e, m
<1>3. \A b \in DOMAIN boosts' : b \in DOMAIN boosts \/ b = m
  BY <1>1
<1>4. TypeOK'
  BY <1>0, <1>1, IdleCarriesNothing DEF TypeOK
<1>5. TablesGrow
  BY <1>0, <1>1, RowsTyped DEF TablesGrow, SameRun
<1>6. PlansStayMeaningful' /\ ErrandsStayMeaningful'
  BY <1>0, <1>1, <1>5, PlansSurvive, ErrandsSurvive
<1>7. DeletedWithUser'
  <2>1. ASSUME NEW b \in DOMAIN boosts'
        PROVE  boosts'[b].status = "deleted" <=> account[boosts'[b].user] = "deleted"
    BY <1>1, <1>2, <1>3 DEF IInv, DeletedWithUser
  <2> QED BY <1>1, <2>1 DEF IInv, DeletedWithUser
<1>8. OnlyBoostsSpread' /\ RunsKnowTheirBoost'
  BY <1>1 DEF IInv, OnlyBoostsSpread, RunsKnowTheirBoost
<1>9. GrantsTraced'
  <2> SUFFICES ASSUME NEW b \in DOMAIN boosts'
               PROVE  /\ boosts'[b].status = "consumed" => \E i \in DOMAIN runs : runs[i].boost = b
                      /\ \A i \in DOMAIN runs : runs[i].boost = b =>
                           /\ runs[i].user = boosts'[b].user
                           /\ boosts'[b].status # "pending"
    BY <1>1 DEF GrantsTraced
  <2>1. CASE b \in DOMAIN boosts
    BY <1>1, <2>1 DEF IInv, GrantsTraced
  <2>2. CASE b = m
    <3>1. \A i \in DOMAIN runs : runs[i].boost # b
      BY <1>1, <2>2 DEF IInv, RunsKnowTheirBoost
    <3> QED BY <1>2, <2>2, <3>1
  <2> QED BY <1>3, <2>1, <2>2
<1>10. PromotedWasTold'
  BY <1>1 DEF IInv, PromotedWasTold, ActiveRuns
<1>11. DeletedLeavesNothing'
  <2>1. \A u \in Users : ActiveRunsOf(u)' = ActiveRunsOf(u)
    BY <1>1 DEF ActiveRunsOf, ActiveRuns
  <2>2. ASSUME NEW u \in Users, account[u] = "deleted", NEW b \in DOMAIN boosts', boosts'[b].user = u
        PROVE  boosts'[b].status = "deleted"
    BY <1>1, <1>2, <1>3, <2>2 DEF IInv, DeletedLeavesNothing
  <2> QED BY <1>1, <2>1, <2>2 DEF IInv, DeletedLeavesNothing
<1> QED
  BY <1>4, <1>6, <1>7, <1>8, <1>9, <1>10, <1>11 DEF IInv

\* A decision is recorded.
LEMMA RecordDecisionIInv ==
  ASSUME NEW d \in Desks, IInv, RecordDecision(d)
  PROVE  IInv'
<1> DEFINE e == desk[d]
           g == e.boost
<1>0. TypeOK /\ desk \in [Desks -> Errand]
  BY DEF IInv, TypeOK
<1>1. /\ e \in Deciding /\ e.boost \in DOMAIN boosts
      /\ boosts[e.boost].status # "deleted" /\ account[boosts[e.boost].user] # "deleted"
      /\ boosts' \in Seq(Boost) /\ DOMAIN boosts' = DOMAIN boosts
      /\ \A b \in DOMAIN boosts :
           /\ boosts'[b].user = boosts[b].user
           /\ b # e.boost => boosts'[b] = boosts[b]
           /\ boosts'[b].status = IF b = e.boost THEN e.verdict ELSE boosts[b].status
           /\ boosts'[b].status = "deleted" <=> boosts[b].status = "deleted"
      /\ notes \subseteq notes' /\ notes' \subseteq Note
      /\ \A m \in notes' : m \in notes \/ m.to = boosts[e.boost].user
      /\ desk' = [desk EXCEPT ![d] = Idle]
      /\ UNCHANGED <<node, runs, account, spent, maintenance, server, req>>
  BY RecordDecisionEffect
<1>2. e.verdict \in {"approved", "denied"}
  BY <1>1 DEF Deciding
<1> HIDE DEF e
<1>3. \A b \in DOMAIN boosts :
        /\ boosts'[b].status = "pending" => boosts[b].status = "pending"
        /\ boosts'[b].status = "consumed" => boosts[b].status = "consumed"
  BY <1>1, <1>2
<1>4. TypeOK'
  BY <1>0, <1>1, IdleCarriesNothing DEF TypeOK
<1>5. TablesGrow
  BY <1>0, <1>1, <1>3, RowsTyped DEF TablesGrow, SameRun
<1>6. PlansStayMeaningful' /\ ErrandsStayMeaningful'
  BY <1>0, <1>1, <1>5, PlansSurvive, ErrandsSurvive
<1>7. DeletedWithUser' /\ OnlyBoostsSpread' /\ RunsKnowTheirBoost'
  BY <1>1 DEF IInv, DeletedWithUser, OnlyBoostsSpread, RunsKnowTheirBoost
<1>8. GrantsTraced'
  BY <1>1, <1>3 DEF IInv, GrantsTraced
<1>9. PromotedWasTold'
  BY <1>1 DEF IInv, PromotedWasTold, ActiveRuns
<1>10. DeletedLeavesNothing'
  <2>1. \A u \in Users : ActiveRunsOf(u)' = ActiveRunsOf(u)
    BY <1>1 DEF ActiveRunsOf, ActiveRuns
  <2>2. ASSUME NEW u \in Users, account[u] = "deleted", NEW b \in DOMAIN boosts, boosts[b].user = u
        PROVE  boosts'[b].status = "deleted"
    BY <1>1, <2>2 DEF IInv, DeletedLeavesNothing
  <2>3. ASSUME NEW u \in Users, account[u] = "deleted", NEW m \in notes'
        PROVE  m.to # u
    BY <1>1, <2>3 DEF IInv, DeletedLeavesNothing
  <2> QED BY <1>1, <2>1, <2>2, <2>3 DEF IInv, DeletedLeavesNothing
<1> QED BY <1>4, <1>6, <1>7, <1>8, <1>9, <1>10 DEF IInv

\* What a user asks for, and what an admin decides on, is read; or it is given up.
LEMMA DeskMovesIInv ==
  ASSUME NEW d \in Desks, IInv,
         \/ \E u \in Users, gpus \in 1..MaxGpus : RequestBoost(d, u, gpus)
         \/ \E b \in DOMAIN boosts, gpus \in 1..MaxGpus : ApproveBoost(d, b, gpus)
         \/ \E b \in DOMAIN boosts : DenyBoost(d, b)
         \/ DeskRefused(d) \/ DeskLost(d)
  PROVE  IInv'
<1>0. TypeOK /\ desk \in [Desks -> Errand] /\ DOMAIN boosts \subseteq Nat \ {0}
  BY RowsTyped DEF IInv, TypeOK
<1>1. /\ UNCHANGED <<node, runs, boosts, notes, account, spent, maintenance, server, req>>
      /\ \E e : desk' = [desk EXCEPT ![d] = e]
  BY DEF RequestBoost, ApproveBoost, DenyBoost, DeskRefused, DeskLost
<1>2. PICK e : desk' = [desk EXCEPT ![d] = e]
  BY <1>1
<1> DEFINE Sound == /\ desk'[d] \in Errand
                    /\ desk'[d] \in Asking => \A b \in desk'[d].pending :
                         b \in DOMAIN boosts /\ boosts[b].user = desk'[d].user
                    /\ desk'[d] \in Deciding => desk'[d].boost \in DOMAIN boosts
<1>3. SUFFICES Sound
  <2>1. ASSUME Sound PROVE IInv'
    <3>1. \A c \in Desks : c # d => desk'[c] = desk[c]
      BY <1>0, <1>2
    <3>2. TypeOK'
      BY <1>0, <1>1, <1>2, <2>1 DEF TypeOK
    <3>3. ErrandsStayMeaningful'
      BY <1>1, <2>1, <3>1 DEF IInv, ErrandsStayMeaningful
    <3>4. PlansStayMeaningful'
      BY <1>1 DEF IInv, PlansStayMeaningful, Meaningful, Waiting, ActiveRuns
    <3> QED BY <1>1, <3>2, <3>3, <3>4, TablesAlone
  <2> QED BY <2>1
<1>4. CASE DeskRefused(d) \/ DeskLost(d)
  <2>1. desk'[d] = Idle
    BY <1>0, <1>4 DEF DeskRefused, DeskLost
  <2> QED BY <2>1, IdleCarriesNothing
<1>5. CASE \E u \in Users, gpus \in 1..MaxGpus : RequestBoost(d, u, gpus)
  <2>1. PICK u \in Users, gpus \in 1..MaxGpus : RequestBoost(d, u, gpus)
    BY <1>5
  <2>2. desk'[d] = [pc |-> "asking", user |-> u, gpus |-> gpus, pending |-> PendingOf(u)]
    BY <1>0, <2>1 DEF RequestBoost
  <2>3. /\ PendingOf(u) \subseteq Nat \ {0} /\ gpus \in Nat \ {0}
        /\ \A b \in PendingOf(u) : b \in DOMAIN boosts /\ boosts[b].user = u
    BY <1>0, NotebooksAssumption DEF PendingOf
  <2> QED BY <2>2, <2>3 DEF Errand, Asking, Deciding
<1>6. CASE \/ \E b \in DOMAIN boosts, gpus \in 1..MaxGpus : ApproveBoost(d, b, gpus)
           \/ \E b \in DOMAIN boosts : DenyBoost(d, b)
  <2>1. \E b \in DOMAIN boosts, verdict \in {"approved", "denied"}, gpus \in Nat :
          desk'[d] = [pc |-> "deciding", boost |-> b, verdict |-> verdict, gpus |-> gpus]
    <3>1. CASE \E b \in DOMAIN boosts : DenyBoost(d, b)
      BY <1>0, <3>1 DEF DenyBoost
    <3>2. CASE \E b \in DOMAIN boosts, gpus \in 1..MaxGpus : ApproveBoost(d, b, gpus)
      <4>1. PICK b \in DOMAIN boosts, gpus \in 1..MaxGpus : ApproveBoost(d, b, gpus)
        BY <3>2
      <4>2. (IF gpus = boosts[b].gpus THEN 0 ELSE gpus) \in Nat
        BY NotebooksAssumption
      <4> QED BY <1>0, <4>1, <4>2 DEF ApproveBoost
    <3> QED BY <1>6, <3>1, <3>2
  <2>2. PICK b \in DOMAIN boosts, verdict \in {"approved", "denied"}, gpus \in Nat :
          desk'[d] = [pc |-> "deciding", boost |-> b, verdict |-> verdict, gpus |-> gpus]
    BY <2>1
  <2>3. desk'[d] \in Deciding /\ desk'[d] \notin Asking /\ desk'[d].boost = b
    BY <1>0, <2>2 DEF Deciding, Asking
  <2> QED BY <2>3 DEF Errand
<1> QED BY <1>4, <1>5, <1>6

\* Deleting an account takes its rows with it.
LEMMA DeleteUserIInv ==
  ASSUME NEW u \in Users, IInv, DeleteUser(u)
  PROVE  IInv'
<1>0. TypeOK
  BY DEF IInv
<1>1. /\ account' \in [Users -> {"approved", "suspended", "deleted"}]
      /\ \A v \in Users : account'[v] = IF v = u THEN "deleted" ELSE account[v]
      /\ runs' \in Seq(Run) /\ DOMAIN runs' = DOMAIN runs
      /\ \A i \in DOMAIN runs :
           /\ SameRun(runs'[i], runs[i])
           /\ runs'[i].shared = runs[i].shared /\ runs'[i].told = runs[i].told
           /\ runs'[i].status = IF runs[i].user = u THEN "deleted" ELSE runs[i].status
      /\ boosts' \in Seq(Boost) /\ DOMAIN boosts' = DOMAIN boosts
      /\ \A b \in DOMAIN boosts :
           /\ boosts'[b].user = boosts[b].user /\ boosts'[b].gpus = boosts[b].gpus
           /\ boosts'[b].status = IF boosts[b].user = u THEN "deleted" ELSE boosts[b].status
      /\ notes' = {m \in notes : m.to # u}
      /\ spent' = spent \ {u} /\ TearDown(u)
      /\ UNCHANGED <<node, maintenance, req, desk>>
  BY DeleteUserEffect
<1>2. /\ \A i \in DOMAIN runs : runs[i].user \in Users
      /\ \A b \in DOMAIN boosts : boosts[b].user \in Users
  BY <1>0, RowsTyped
<1>3. \A i \in DOMAIN runs : /\ runs'[i].user = runs[i].user /\ runs'[i].boost = runs[i].boost
                             /\ runs'[i].mode = runs[i].mode /\ runs'[i].span = runs[i].span
  BY <1>1 DEF SameRun
<1>4. /\ \A i \in DOMAIN runs : runs'[i].status = "active" => runs[i].status = "active"
      /\ \A b \in DOMAIN boosts :
           /\ boosts'[b].status = "pending" => boosts[b].status = "pending"
           /\ boosts'[b].status = "consumed" => boosts[b].status = "consumed"
  BY <1>1
<1>5. TypeOK'
  <2>1. server' \in [Users -> Server]
    BY <1>0, <1>1, TearDownTyped
  <2> QED BY <1>0, <1>1, <2>1 DEF TypeOK
<1>6. PlansStayMeaningful' /\ ErrandsStayMeaningful'
  <2>1. TablesGrow
    BY <1>1, <1>4 DEF TablesGrow
  <2> QED BY <1>1, <2>1, PlansSurvive, ErrandsSurvive
<1>7. DeletedWithUser'
  <2>1. ASSUME NEW i \in DOMAIN runs
        PROVE  runs'[i].status = "deleted" <=> account'[runs'[i].user] = "deleted"
    <3>1. runs[i].status = "deleted" <=> account[runs[i].user] = "deleted"
      BY DEF IInv, DeletedWithUser
    <3>2. account'[runs[i].user] = IF runs[i].user = u THEN "deleted" ELSE account[runs[i].user]
      BY <1>1, <1>2
    <3>3. /\ runs'[i].user = runs[i].user
          /\ runs'[i].status = IF runs[i].user = u THEN "deleted" ELSE runs[i].status
      BY <1>1, <1>3
    <3> QED BY <3>1, <3>2, <3>3
  <2>2. ASSUME NEW b \in DOMAIN boosts
        PROVE  boosts'[b].status = "deleted" <=> account'[boosts'[b].user] = "deleted"
    <3>1. boosts[b].status = "deleted" <=> account[boosts[b].user] = "deleted"
      BY DEF IInv, DeletedWithUser
    <3>2. account'[boosts[b].user] =
            IF boosts[b].user = u THEN "deleted" ELSE account[boosts[b].user]
      BY <1>1, <1>2
    <3>3. /\ boosts'[b].user = boosts[b].user
          /\ boosts'[b].status = IF boosts[b].user = u THEN "deleted" ELSE boosts[b].status
      BY <1>1
    <3> QED BY <3>1, <3>2, <3>3
  <2> QED BY <1>1, <2>1, <2>2 DEF DeletedWithUser
<1>8. OnlyBoostsSpread' /\ RunsKnowTheirBoost'
  BY <1>1, <1>3 DEF IInv, OnlyBoostsSpread, RunsKnowTheirBoost
<1>9. GrantsTraced'
  <2>1. /\ DOMAIN runs' = DOMAIN runs /\ DOMAIN boosts' = DOMAIN boosts
        /\ \A b \in DOMAIN boosts : boosts'[b].user = boosts[b].user
    BY <1>1
  <2>2. ASSUME NEW b \in DOMAIN boosts, boosts'[b].status = "consumed"
        PROVE  \E i \in DOMAIN runs : runs'[i].boost = b
    <3>1. \E i \in DOMAIN runs : runs[i].boost = b
      BY <1>4, <2>2 DEF IInv, GrantsTraced
    <3> QED  BY <1>3, <3>1
  <2>3. ASSUME NEW b \in DOMAIN boosts, NEW i \in DOMAIN runs, runs'[i].boost = b
        PROVE  runs'[i].user = boosts'[b].user /\ boosts'[b].status # "pending"
    <3>1. runs[i].user = boosts[b].user /\ boosts[b].status # "pending"
      BY <1>3, <2>3 DEF IInv, GrantsTraced
    <3> QED  BY <1>3, <1>4, <2>1, <3>1
  <2> QED  BY <2>1, <2>2, <2>3 DEF GrantsTraced
<1>10. \A i \in ActiveRuns' : i \in ActiveRuns /\ i \in DOMAIN runs /\ runs[i].user # u
  BY <1>1 DEF ActiveRuns
<1>11. PromotedWasTold'
  <2> SUFFICES ASSUME NEW i \in ActiveRuns', runs'[i].mode = "shared", ~runs'[i].shared
               PROVE  Notify(runs'[i].user, "freed", i) \in notes'
    BY DEF PromotedWasTold
  <2>1. Notify(runs[i].user, "freed", i) \in notes /\ runs[i].user # u
    BY <1>1, <1>3, <1>10 DEF IInv, PromotedWasTold
  <2> QED BY <1>1, <1>3, <1>10, <2>1 DEF Notify
<1>12. DeletedLeavesNothing'
  <2> SUFFICES ASSUME NEW v \in Users, account'[v] = "deleted"
               PROVE  /\ \A i \in ActiveRuns' : runs'[i].user # v
                      /\ \A b \in DOMAIN boosts : boosts'[b].user = v => boosts'[b].status = "deleted"
                      /\ \A n \in notes' : n.to # v
    BY <1>1 DEF DeletedLeavesNothing, ActiveRunsOf
  <2>1. v # u => /\ \A i \in ActiveRuns : runs[i].user # v
                 /\ \A b \in DOMAIN boosts : boosts[b].user = v => boosts[b].status = "deleted"
                 /\ \A n \in notes : n.to # v
    BY <1>1 DEF IInv, DeletedLeavesNothing, ActiveRunsOf
  <2> QED BY <1>1, <1>3, <1>10, <2>1
<1> QED BY <1>5, <1>6, <1>7, <1>8, <1>9, <1>11, <1>12 DEF IInv

\* Every step preserves the invariant.
LEMMA StepIInv == IInv /\ [Next]_vars => IInv'
<1> SUFFICES ASSUME IInv, [Next]_vars PROVE IInv'
  OBVIOUS
<1>1. CASE UNCHANGED vars
  <2>1. TypeOK'
    BY <1>1 DEF IInv, TypeOK, vars
  <2> QED BY <1>1, <2>1, QuietStep DEF vars
<1>2. ASSUME NEW q \in Reqs, RequestStep(q) PROVE IInv'
  <2>1. ASSUME NEW u \in Users, NEW gpu \in Profiles, Launch(q, u, gpu) PROVE IInv'
    BY <2>1, LaunchIInv
  <2>2. CASE RecordLaunch(q)
    BY <2>2, RecordLaunchIInv
  <2>3. CASE CloseStopped(q)
    BY <2>3, CloseStoppedIInv
  <2>4. CASE RecordPromotion(q)
    BY <2>4, RecordPromotionIInv
  <2>5. CASE \/ \E u \in Users : Stop(q, u)
             \/ HubStart(q) \/ HubStop(q) \/ FindStopped(q) \/ Promote(q)
             \/ RecordRefused(q) \/ UpdateRefused(q) \/ RequestLost(q)
    BY <2>5, RequestMovesIInv
  <2> QED BY <1>2, <2>1, <2>2, <2>3, <2>4, <2>5 DEF RequestStep
<1>3. ASSUME NEW d \in Desks, BoostStep(d) PROVE IInv'
  <2>1. CASE RecordRequest(d)
    BY <2>1, RecordRequestIInv
  <2>2. CASE RecordDecision(d)
    BY <2>2, RecordDecisionIInv
  <2>3. CASE \/ \E u \in Users, gpus \in 1..MaxGpus : RequestBoost(d, u, gpus)
             \/ \E b \in DOMAIN boosts, gpus \in 1..MaxGpus : ApproveBoost(d, b, gpus)
             \/ \E b \in DOMAIN boosts : DenyBoost(d, b)
             \/ DeskRefused(d) \/ DeskLost(d)
    BY <2>3, DeskMovesIInv
  <2> QED BY <1>3, <2>1, <2>2, <2>3 DEF BoostStep
<1>4. CASE NodeStep
  BY <1>4, NodeStepIInv
<1>5. ASSUME NEW u \in Users,
             \/ Logout(u) \/ CullIdle(u) \/ Suspend(u) \/ LoseApproval(u)
             \/ Reinstate(u) \/ DeleteUser(u) \/ SpendQuota(u) \/ SetQuota(u)
      PROVE  IInv'
  BY <1>5, SwitchStepIInv, StandingStepIInv, DeleteUserIInv
<1>6. CASE SetMaintenance
  <2>1. TypeOK' /\ UNCHANGED <<runs, boosts, notes, account, req, desk>>
    BY <1>6 DEF SetMaintenance, IInv, TypeOK
  <2> QED BY <2>1, QuietStep
<1> QED BY <1>1, <1>2, <1>3, <1>4, <1>5, <1>6 DEF Next, AccountStep

-----------------------------------------------------------------------------
(* What holds however requests interleave, for every size of cluster.      *)

\* The invariant holds in every reachable state: launches, stops, decisions,
\* drains, failures and account operations in any order (routers/notebooks.py,
\* routers/admin.py, routers/nodes.py).
THEOREM Invariant == Spec => []IInv
  BY InitIInv, StepIInv, PTL DEF Spec

\* Type correctness.
THEOREM TypeCorrect == Spec => []TypeOK
<1>1. IInv => TypeOK
  BY DEF IInv
<1> QED BY <1>1, Invariant, PTL

\* A grant that is marked consumed has a run, and a run has a grant of its user that
\* was decided, however decisions overlap (notebooks.py:147-153, admin.py:445-481).
THEOREM GrantsTraceable == Spec => []GrantsTraced
<1>1. IInv => GrantsTraced
  BY DEF IInv
<1> QED BY <1>1, Invariant, PTL

\* Nobody leaves the queue for a dedicated node without being told
\* (scheduler.py:136-152).
THEOREM PromotionsTold == Spec => []PromotedWasTold
<1>1. IInv => PromotedWasTold
  BY DEF IInv
<1> QED BY <1>1, Invariant, PTL

\* A request in flight while its owner, or a user it is about to warn, is
\* deleted leaves nothing behind for a deleted account (admin.py:275-294).
THEOREM DeletionIsFinal == Spec => []DeletedLeavesNothing
<1>1. IInv => DeletedLeavesNothing
  BY DEF IInv
<1> QED BY <1>1, Invariant, PTL

\* No launch is left without a plan: there is a least-loaded node to share, there
\* are as many free nodes as a grant covers or fewer, and there is an answer where
\* no node is registered (scheduler.py:82-118).
THEOREM EveryLaunchIsPlanned ==
  Spec => [](\A u \in Users, gpu \in BOOLEAN : PlansFor(u, gpu) # {})
<1>1. ASSUME IInv, NEW u \in Users, NEW gpu \in BOOLEAN
      PROVE  PlansFor(u, gpu) # {}
  <2> DEFINE boost == BoostFor(u, gpu)
             wantsGpu == (gpu /\ ~Capped(u, gpu)) \/ boost # 0
             want == IF boost = 0 THEN 0 ELSE boosts[boost].gpus
  <2>1. want \in Nat
    BY <1>1, GrantRead
  <2>2. /\ runs \in Seq(Run) /\ OthersRuns(u) \in SUBSET DOMAIN runs
        /\ OnlineNodes(wantsGpu) \in SUBSET Hosts
    BY <1>1 DEF OthersRuns, ActiveRuns, OnlineNodes, IInv, TypeOK
  <2>3. PlansFor(u, gpu) = Placements(OnlineNodes(wantsGpu), runs, OthersRuns(u), wantsGpu, want)
    BY DEF PlansFor
  <2> HIDE DEF boost, wantsGpu, want
  <2> QED  BY <2>1, <2>2, <2>3, PolicyAnswers
<1>2. IInv => \A u \in Users, gpu \in BOOLEAN : PlansFor(u, gpu) # {}
  BY <1>1
<1> QED  BY <1>2, Invariant, PTL

-----------------------------------------------------------------------------
(* Two action properties. *)

\* Only a launch fills an idle slot with a plan.
LEMMA OnlyLaunchPlans ==
  ASSUME IInv, Next, NEW q \in Reqs, req[q] = Idle, req'[q].pc = "starting"
  PROVE  \E u \in Users, gpu \in Profiles : Launch(q, u, gpu)
<1>1. req \in [Reqs -> Request]
  BY DEF IInv, TypeOK
<1>2. req[q].pc = "idle" /\ req[q] # req'[q]
  BY DEF Idle
<1>3. PICK p \in Reqs : RequestStep(p)
  BY <1>2 DEF Next, BoostStep, NodeStep, AccountStep, RequestBoost, ApproveBoost, DenyBoost,
     RecordRequest, RecordDecision, DeskRefused, DeskLost,
     Register, Heartbeat, HeartbeatLapses, Drain, Activate, Logout, CullIdle, Suspend,
     LoseApproval, Reinstate, DeleteUser, SpendQuota, SetQuota, SetMaintenance
<1>4. p = q
  BY <1>1, <1>2, <1>3 DEF RequestStep, Launch, Stop, HubStart, RecordLaunch, RecordRefused,
     HubStop, FindStopped, CloseStopped, Promote, RecordPromotion, UpdateRefused, RequestLost
<1>5. \A u \in Users : ~Stop(q, u)
  BY <1>1 DEF Stop
<1> QED
  BY <1>2, <1>3, <1>4, <1>5 DEF RequestStep, HubStart, RecordLaunch, RecordRefused,
     HubStop, FindStopped, CloseStopped, Promote, RecordPromotion, UpdateRefused, RequestLost

\* A <= N for every cluster: whoever is made to share finds at least as many
\* active notebooks as nodes it could use, or a boost (scheduler.py:6-16, 82-116).
THEOREM SharingIsLastResort == Spec => SharesOnlyWhenFull
<1>1. ASSUME IInv, Next, NEW q \in Reqs,
             req[q] = Idle, req'[q].pc = "starting", req'[q].plan.shared
      PROVE  LET others == OthersRuns(req'[q].user)
                 nodes  == OnlineNodes(req'[q].plan.gpus > 0)
             IN  \/ Cardinality(nodes) =< Cardinality(others)
                 \/ \E i \in others : runs[i].mode = "boost"
  <2>1. PICK u \in Users, gpu \in Profiles : Launch(q, u, gpu)
    BY <1>1, OnlyLaunchPlans
  <2>2. PICK old \in ActiveRun(u), plan \in PlansFor(u, gpu) :
          req' = [req EXCEPT ![q] = [pc |-> "starting", user |-> u, old |-> old,
                                     boost |-> BoostFor(u, gpu), plan |-> plan]]
    BY <2>1 DEF Launch
  <2>3. req'[q].user = u /\ req'[q].plan = plan
    <3>1. req \in [Reqs -> Request]
      BY <1>1 DEF IInv, TypeOK
    <3> QED BY <2>2, <3>1
  <2> DEFINE boost == BoostFor(u, gpu)
             wantsGpu == (gpu /\ ~Capped(u, gpu)) \/ boost # 0
             nodes == OnlineNodes(wantsGpu)
             others == OthersRuns(u)
  <2>4. PICK h \in nodes : plan = Sharing(h, wantsGpu, runs, others)
    <3>1. plan \in Placements(nodes, runs, others, wantsGpu,
                              IF boost = 0 THEN 0 ELSE boosts[boost].gpus)
      BY DEF PlansFor
    <3>2. plan.shared
      BY <1>1, <2>3
    <3> HIDE DEF boost, wantsGpu, nodes, others
    <3> QED BY <3>1, <3>2 DEF Placements, Unpinned, Spread, WholeNode, LeastLoaded
  <2>5. Free(nodes, runs, others) = {}
    <3>1. plan \in Placements(nodes, runs, others, wantsGpu,
                              IF boost = 0 THEN 0 ELSE boosts[boost].gpus)
      BY DEF PlansFor
    <3>2. plan.shared
      BY <1>1, <2>3
    <3> HIDE DEF boost, wantsGpu, nodes, others
    <3> QED BY <3>1, <3>2 DEF Placements, Unpinned, Spread, WholeNode
  <2>6. OnlineNodes(plan.gpus > 0) = nodes
    <3>1. plan.gpus > 0 <=> wantsGpu
      BY <2>4 DEF Sharing
    <3> QED BY <3>1 DEF OnlineNodes
  <2>7. nodes \in SUBSET Hosts /\ others \in SUBSET DOMAIN runs /\ runs \in Seq(Run)
    BY <1>1 DEF OnlineNodes, OthersRuns, ActiveRuns, IInv, TypeOK
  <2> HIDE DEF boost, wantsGpu, nodes
  <2>8. Cardinality(nodes) \in Nat /\ Cardinality(others) \in Nat
    BY <2>7, RowsAreFinite, HostsAssumption, FS_Subset, FS_CardinalityType
  <2>9. ASSUME ~\E i \in others : runs[i].mode = "boost"
        PROVE  Cardinality(nodes) =< Cardinality(others)
    <3>1. \A i \in others : runs[i].span = {}
      BY <1>1, <2>7, <2>9 DEF IInv, OnlyBoostsSpread
    <3>2. ~(Cardinality(others) < Cardinality(nodes))
      BY <2>5, <2>7, <3>1, FewRunsLeaveANodeFree
    <3> QED BY <2>8, <3>2
  <2> QED BY <2>3, <2>6, <2>9
<1>2. IInv /\ [Next]_vars =>
        [\A q \in Reqs :
           req[q] = Idle /\ req'[q].pc = "starting" /\ req'[q].plan.shared =>
             LET others == OthersRuns(req'[q].user)
                 nodes  == OnlineNodes(req'[q].plan.gpus > 0)
             IN  \/ Cardinality(nodes) =< Cardinality(others)
                 \/ \E i \in others : runs[i].mode = "boost"]_vars
  BY <1>1
<1> QED BY <1>2, Invariant, PTL DEF Spec, SharesOnlyWhenFull

\* Only the commit of a promotion takes a run that stays active out of the queue.
LEMMA OnlyPromotionUnshares ==
  ASSUME IInv, [Next]_vars, NEW i \in DOMAIN runs,
         runs[i].shared, runs'[i].status = "active", ~runs'[i].shared
  PROVE  \E q \in Reqs : RecordPromotion(q) /\ req[q].run = i
<1>0. runs'[i] # runs[i] /\ runs' # runs
  OBVIOUS
<1>1. (\E q \in Reqs : RequestStep(q)) \/ (\E u \in Users : DeleteUser(u))
  BY <1>0 DEF Next, vars, BoostStep, NodeStep, AccountStep, RequestBoost, ApproveBoost, DenyBoost,
     RecordRequest, RecordDecision, DeskRefused, DeskLost,
     Register, Heartbeat, HeartbeatLapses, Drain, Activate, Logout, CullIdle, Suspend,
     LoseApproval, Reinstate, SpendQuota, SetQuota, SetMaintenance
<1>2. ASSUME NEW u \in Users, DeleteUser(u) PROVE FALSE
  <2>1. runs'[i].shared = runs[i].shared
    BY <1>2, DeleteUserEffect
  <2> QED BY <2>1
<1>3. PICK q \in Reqs : RequestStep(q)
  BY <1>1, <1>2
<1>4. RecordLaunch(q) \/ CloseStopped(q) \/ RecordPromotion(q)
  BY <1>0, <1>3 DEF RequestStep, Launch, Stop, HubStart, RecordRefused, HubStop, FindStopped,
     Promote, UpdateRefused, RequestLost
<1>5. CASE RecordLaunch(q)
  <2>1. runs'[i].shared = runs[i].shared
    BY <1>5, RecordLaunchEffect
  <2> QED BY <2>1
<1>6. CASE CloseStopped(q)
  <2>1. runs'[i].shared = runs[i].shared
    BY <1>6, CloseStoppedEffect
  <2> QED BY <2>1
<1>7. CASE RecordPromotion(q)
  <2>1. i # req[q].run => runs'[i] = runs[i]
    BY <1>7, RecordPromotionEffect
  <2> QED BY <1>0, <1>7, <2>1
<1> QED BY <1>4, <1>5, <1>6, <1>7

\* The queue is left in its order: the run that was chosen before the commit still is
\* the one that waited longest when the commit takes it out of the queue, whatever was
\* launched, stopped, deleted or promoted meanwhile, because the queue is joined only
\* at its end (scheduler.py:136-153, notebooks.py:155-160, 186-193).
THEOREM QueueKept == Spec => QueueInOrder
<1>1. ASSUME IInv, [Next]_vars, NEW i \in ActiveRuns,
             runs[i].shared, runs'[i].status = "active", ~runs'[i].shared
      PROVE  \A j \in Waiting : i =< j
  <2>1. PICK q \in Reqs : RecordPromotion(q) /\ req[q].run = i
    BY <1>1, OnlyPromotionUnshares DEF ActiveRuns
  <2>2. \A j \in Waiting : req[q].run =< j
    BY <1>1, <2>1, RecordPromotionEffect
  <2> QED BY <2>1, <2>2
<1>2. IInv /\ [Next]_vars =>
        [\A i \in ActiveRuns :
           runs[i].shared /\ runs'[i].status = "active" /\ ~runs'[i].shared =>
             \A j \in Waiting : i =< j]_vars
  BY <1>1
<1> QED BY <1>2, Invariant, PTL DEF Spec, QueueInOrder

-----------------------------------------------------------------------------
(* Launches and stops one at a time: one run per user, whole nodes that    *)
(* were free, sharers that know of each other.  Whatever else goes on      *)
(* meanwhile (decisions, drains, failures, deletions) cannot break them.   *)

\* What a launch decided on at its start still holds at its commit: it closes the
\* only run of its user, the node it took whole is free, and it warns everybody it
\* will share with.
StillDecided(r) ==
  /\ ActiveRunsOf(r.user) \subseteq {r.old}
  /\ \A j \in OthersRuns(r.user) :
       /\ r.plan.mode = "exclusive" /\ r.plan.host # NoHost => r.plan.host \notin Footprint(runs[j])
       /\ r.plan.mode = "shared" /\ runs[j].host = r.plan.host => j \in r.plan.colocated

OneRunEach == \A i, j \in ActiveRuns : runs[i].user = runs[j].user => i = j

SerialInv ==
  /\ OneRunEach
  /\ WholeNodeWasFree
  /\ SharersTold
  /\ \A q \in Reqs : req[q] \in Launching => StillDecided(req[q])

-----------------------------------------------------------------------------
(* The placement policy. *)

\* A whole node is one no run it was shown is on; a sharer is put on a host with
\* the runs it was shown there.
LEMMA PlacementFits ==
  ASSUME NEW nodes \in SUBSET Hosts, NEW rs \in Seq(Run), NEW ids \in SUBSET DOMAIN rs,
         NEW wantsGpu, NEW want \in Nat,
         NEW p \in Placements(nodes, rs, ids, wantsGpu, want), NEW i \in ids
  PROVE  /\ p.mode = "exclusive" /\ p.host # NoHost => p.host \notin Footprint(rs[i])
         /\ p.mode = "shared" /\ rs[i].host = p.host => i \in p.colocated
<1>1. CASE nodes = {}
  <2>1. p = Unpinned(want)  BY <1>1 DEF Placements
  <2> QED  BY <2>1 DEF Unpinned
<1>2. CASE nodes # {} /\ want > 0
  <2>1. PICK s \in Spans(nodes, rs, ids, want) : \E h \in s : p = Spread(h, s)
    BY <1>2 DEF Placements
  <2> QED  BY <2>1 DEF Spread
<1>3. CASE nodes # {} /\ ~(want > 0)
  <2>1. ASSUME NEW h \in Free(nodes, rs, ids), p = WholeNode(h, wantsGpu)
        PROVE  h \notin Footprint(rs[i])
    <3> DEFINE on == {k \in ids : h \in Footprint(rs[k])}
    <3>1. Cardinality(on) = 0  BY <2>1 DEF Free, Load
    <3>2. IsFiniteSet(on)  BY RowsAreFinite
    <3> QED  BY <3>1, <3>2, FS_EmptySet
  <2>2. ASSUME NEW h, p = Sharing(h, wantsGpu, rs, ids)
        PROVE  p.mode = "shared" /\ (rs[i].host = p.host => i \in p.colocated)
    BY <2>2 DEF Sharing
  <2> QED  BY <1>3, <2>1, <2>2 DEF Placements, WholeNode
<1> QED  BY <1>1, <1>2, <1>3

-----------------------------------------------------------------------------
(* Steps that start no run. *)

\* No launch comes in or changes its plan.
SamePlans ==
  \A p \in Reqs : req'[p] \in Launching =>
    /\ req[p] \in Launching
    /\ req'[p].user = req[p].user /\ req'[p].old = req[p].old
    /\ req'[p].boost = req[p].boost /\ req'[p].plan = req[p].plan

\* Runs at most end.
SameRuns ==
  /\ DOMAIN runs' = DOMAIN runs
  /\ \A i \in DOMAIN runs :
       /\ SameRun(runs'[i], runs[i])
       /\ runs'[i].status = "active" => runs[i].status = "active"

\* And nobody who still has a run loses the notice of a sharer.
NothingNew ==
  /\ SamePlans /\ SameRuns
  /\ \A m \in notes : m \in notes' \/ \A i \in DOMAIN runs : runs[i].user = m.to => runs'[i].status # "active"

\* A step of a request other than a launch and its commit, or of anybody else.
Quiet == \A q \in Reqs : /\ ~RecordLaunch(q)
                         /\ \A u \in Users, gpu \in Profiles : ~Launch(q, u, gpu)

\* Then what has been decided still holds.
LEMMA NoNewRun ==
  ASSUME IInv, SerialInv, NothingNew
  PROVE  SerialInv'
<1>1. /\ ActiveRuns' \subseteq ActiveRuns /\ ActiveRuns \subseteq DOMAIN runs
      /\ \A u : ActiveRunsOf(u)' \subseteq ActiveRunsOf(u) /\ OthersRuns(u)' \subseteq OthersRuns(u)
  BY DEF NothingNew, SameRuns, SameRun, ActiveRuns, ActiveRunsOf, OthersRuns
<1>2. \A i \in DOMAIN runs : /\ Footprint(runs'[i]) = Footprint(runs[i])
                             /\ runs'[i].user = runs[i].user /\ runs'[i].host = runs[i].host
                             /\ runs'[i].mode = runs[i].mode
  BY DEF NothingNew, SameRuns, SameRun, Footprint
<1>3. OneRunEach'
  BY <1>1, <1>2 DEF SerialInv, OneRunEach
<1>5. WholeNodeWasFree'
  BY <1>1, <1>2 DEF SerialInv, WholeNodeWasFree
<1>6. SharersTold'
  <2> SUFFICES ASSUME NEW i \in ActiveRuns', NEW j \in ActiveRuns',
                      j < i, runs'[i].mode = "shared", runs'[j].host = runs'[i].host
               PROVE  Notify(runs'[j].user, "sharing", i) \in notes'
    BY DEF SharersTold
  <2>1. i \in ActiveRuns /\ j \in ActiveRuns /\ j \in DOMAIN runs /\ i \in DOMAIN runs
    BY <1>1
  <2>2. Notify(runs[j].user, "sharing", i) \in notes
    BY <1>2, <2>1 DEF SerialInv, SharersTold
  <2>3. Notify(runs[j].user, "sharing", i).to = runs[j].user
    BY DEF Notify
  <2>4. runs'[j].status = "active"
    BY DEF ActiveRuns
  <2> QED  BY <1>2, <2>1, <2>2, <2>3, <2>4 DEF NothingNew
<1>7. ASSUME NEW p \in Reqs, req'[p] \in Launching
      PROVE  StillDecided(req[p])' /\ req[p] \in Launching
  <2>1. /\ req[p] \in Launching /\ StillDecided(req[p])
        /\ req'[p].user = req[p].user /\ req'[p].old = req[p].old /\ req'[p].plan = req[p].plan
    BY <1>7 DEF SerialInv, NothingNew, SamePlans
  <2>2. ActiveRunsOf(req[p].user)' \subseteq {req'[p].old}
    BY <1>1, <2>1 DEF StillDecided
  <2>3. \A j \in OthersRuns(req[p].user)' :
          /\ j \in OthersRuns(req[p].user) /\ j \in DOMAIN runs
          /\ runs'[j].host = runs[j].host /\ Footprint(runs'[j]) = Footprint(runs[j])
    BY <1>1, <1>2, <2>1 DEF OthersRuns
  <2>4. \A j \in OthersRuns(req[p].user)' :
          /\ req'[p].plan.mode = "exclusive" /\ req'[p].plan.host # NoHost
             => req'[p].plan.host \notin Footprint(runs'[j])
          /\ req'[p].plan.mode = "shared" /\ runs'[j].host = req'[p].plan.host
             => j \in req'[p].plan.colocated
    BY <2>1, <2>3 DEF StillDecided
  <2> QED  BY <2>1, <2>2, <2>4 DEF StillDecided
<1> QED  BY <1>3, <1>5, <1>6, <1>7 DEF SerialInv

\* Everything but a launch and the commit of one.
LEMMA QuietStepAddsNothing ==
  ASSUME IInv, [Next]_vars, Quiet
  PROVE  NothingNew
<1>0. TypeOK /\ req \in [Reqs -> Request] /\ \A q \in Reqs : req[q] \in Request
  BY DEF IInv, TypeOK
<1>1. CASE UNCHANGED <<runs, req>> /\ notes \subseteq notes'
  BY <1>1 DEF NothingNew, SamePlans, SameRuns, SameRun
<1>2. ASSUME NEW q \in Reqs, SameRuns, notes \subseteq notes',
             \E r : req' = [req EXCEPT ![q] = r], req'[q] \notin Launching
      PROVE  NothingNew
  <2>1. \A p \in Reqs : p # q => req'[p] = req[p]
    BY <1>0, <1>2
  <2> QED  BY <1>2, <2>1 DEF NothingNew, SamePlans
<1>3. ASSUME NEW q \in Reqs, RequestStep(q)
      PROVE  NothingNew
  <2>1. \/ \E u \in Users : Stop(q, u)
        \/ HubStart(q) \/ HubStop(q) \/ RecordRefused(q) \/ RequestLost(q)
        \/ FindStopped(q) \/ Promote(q) \/ UpdateRefused(q)
        \/ CloseStopped(q) \/ RecordPromotion(q)
    BY <1>3 DEF RequestStep, Quiet
  <2>2. UNCHANGED runs => SameRuns
    BY DEF SameRuns, SameRun
  <2>3. CASE \E u \in Users : Stop(q, u)
    <3>1. PICK u \in Users : Stop(q, u)
      BY <2>3
    <3>2. UNCHANGED <<runs, notes>> /\ req' = [req EXCEPT ![q] = [pc |-> "stopping", user |-> u]]
      BY <3>1 DEF Stop
    <3>3. req'[q].pc = "stopping"
      BY <1>0, <3>2
    <3>4. req'[q] \notin Launching
      BY <3>3 DEF Launching
    <3> QED  BY <1>2, <2>2, <3>2, <3>4
  <2>4. CASE HubStart(q)
    <3>1. req[q] \in Launching /\ UNCHANGED <<runs, notes>>
      BY <1>0, <2>4, RequestByPc DEF HubStart
    <3>2. req'[q] = [req[q] EXCEPT !.pc = "recording"] /\ \A p \in Reqs : p # q => req'[p] = req[p]
      BY <1>0, <2>4 DEF HubStart
    <3>3. /\ req'[q].user = req[q].user /\ req'[q].old = req[q].old
          /\ req'[q].boost = req[q].boost /\ req'[q].plan = req[q].plan
      BY <3>1, <3>2 DEF Launching
    <3>4. SamePlans
      BY <3>1, <3>2, <3>3 DEF SamePlans
    <3> QED  BY <2>2, <3>1, <3>4 DEF NothingNew
  <2>5. CASE HubStop(q)
    <3>1. req[q] \in Stopping /\ UNCHANGED <<runs, notes>>
      BY <1>0, <2>5, RequestByPc DEF HubStop
    <3>2. req'[q] = [req[q] EXCEPT !.pc = "closing"] /\ \A p \in Reqs : p # q => req'[p] = req[p]
      BY <1>0, <2>5 DEF HubStop
    <3>3. req'[q] \notin Launching
      BY <3>1, <3>2 DEF Launching, Stopping
    <3> QED  BY <2>2, <3>1, <3>2, <3>3 DEF NothingNew, SamePlans
  <2>6. CASE RecordRefused(q) \/ RequestLost(q) \/ UpdateRefused(q)
    BY <1>0, <1>2, <2>2, <2>6, IdleCarriesNothing DEF RecordRefused, RequestLost, UpdateRefused
  <2>7. CASE FindStopped(q) \/ Promote(q)
    <3>1. UNCHANGED <<runs, notes>> /\ \E r : req' = [req EXCEPT ![q] = r]
      BY <2>7 DEF FindStopped, Promote
    <3>2. req'[q].pc \in {"idle", "ending", "telling"}
      BY <1>0, <2>7 DEF FindStopped, Promote, Idle
    <3>3. req'[q] \notin Launching
      BY <3>2 DEF Launching
    <3> QED  BY <1>2, <2>2, <3>1, <3>3
  <2>8. CASE CloseStopped(q)
    <3>1. /\ DOMAIN runs' = DOMAIN runs
          /\ \A i \in DOMAIN runs :
               /\ SameRun(runs'[i], runs[i])
               /\ runs'[i].shared = runs[i].shared /\ runs'[i].told = runs[i].told
               /\ runs'[i].status = IF i = req[q].run THEN "stopped" ELSE runs[i].status
               /\ runs'[i].status = "deleted" <=> runs[i].status = "deleted"
          /\ req'[q] \in Request /\ req'[q] \notin Launching /\ req'[q] \notin Updating
          /\ req' = [req EXCEPT ![q] = req'[q]]
          /\ UNCHANGED <<node, boosts, notes, account, spent, maintenance, server, desk>>
      BY <2>8, CloseStoppedEffect
    <3>2. SameRuns
      BY <3>1 DEF SameRuns
    <3> QED  BY <1>2, <3>1, <3>2
  <2>9. CASE RecordPromotion(q)
    <3>1. /\ DOMAIN runs' = DOMAIN runs
          /\ \A i \in DOMAIN runs : SameRun(runs'[i], runs[i]) /\ runs'[i].status = runs[i].status
          /\ req' = [req EXCEPT ![q] = Idle]
      BY <2>9, RecordPromotionEffect
    <3>2. notes \subseteq notes'
      BY <2>9 DEF RecordPromotion
    <3>3. SameRuns
      BY <3>1 DEF SameRuns
    <3> QED  BY <1>0, <1>2, <3>1, <3>2, <3>3, IdleCarriesNothing
  <2> QED  BY <2>1, <2>3, <2>4, <2>5, <2>6, <2>7, <2>8, <2>9
<1>4. ASSUME NEW d \in Desks, BoostStep(d)
      PROVE  NothingNew
  <2>1. UNCHANGED <<runs, req>> /\ notes \subseteq notes'
    BY <1>4 DEF BoostStep, RequestBoost, ApproveBoost, DenyBoost, RecordRequest, RecordDecision,
       DeskRefused, DeskLost
  <2> QED  BY <1>1, <2>1
<1>5. ASSUME NEW u \in Users, DeleteUser(u)
      PROVE  NothingNew
  <2>1. /\ DOMAIN runs' = DOMAIN runs
        /\ \A i \in DOMAIN runs :
             /\ SameRun(runs'[i], runs[i])
             /\ runs'[i].shared = runs[i].shared /\ runs'[i].told = runs[i].told
             /\ runs'[i].status = IF runs[i].user = u THEN "deleted" ELSE runs[i].status
        /\ notes' = {m \in notes : m.to # u}
        /\ UNCHANGED <<node, maintenance, req, desk>>
    BY <1>5, DeleteUserEffect
  <2>2. SameRuns
    BY <2>1 DEF SameRuns
  <2>3. \A m \in notes : m \in notes' \/ \A i \in DOMAIN runs : runs[i].user = m.to => runs'[i].status # "active"
    BY <2>1
  <2> QED  BY <2>1, <2>2, <2>3 DEF NothingNew, SamePlans
<1>6. CASE NodeStep \/ SetMaintenance
  BY <1>1, <1>6 DEF NodeStep, Register, Heartbeat, HeartbeatLapses, Drain, Activate, SetMaintenance
<1>7. ASSUME NEW u \in Users, \/ Logout(u) \/ CullIdle(u) \/ Suspend(u) \/ LoseApproval(u)
                              \/ Reinstate(u) \/ SpendQuota(u) \/ SetQuota(u)
      PROVE  NothingNew
  BY <1>1, <1>7 DEF Logout, CullIdle, Suspend, LoseApproval, Reinstate, SpendQuota, SetQuota
<1>8. CASE UNCHANGED vars
  BY <1>1, <1>8 DEF vars
<1> QED
  BY <1>3, <1>4, <1>5, <1>6, <1>7, <1>8 DEF Next, AccountStep

-----------------------------------------------------------------------------
(* A launch, and its commit. *)

\* What a launch reads when it starts: some run of its user, an approved grant or
\* none, and a plan that fits the runs of the others.
Launched(q, u, r) ==
  /\ req' = [req EXCEPT ![q] = r]
  /\ r.user = u /\ r.old \in ActiveRun(u)
  /\ r.boost # 0 => /\ r.boost \in DOMAIN boosts /\ boosts[r.boost].status = "approved"
                    /\ Cardinality(r.plan.span) =< boosts[r.boost].gpus
                    /\ r.plan.gpus \in 1..boosts[r.boost].gpus
  /\ \A j \in OthersRuns(u) :
       /\ r.plan.mode = "exclusive" /\ r.plan.host # NoHost => r.plan.host \notin Footprint(runs[j])
       /\ r.plan.mode = "shared" /\ runs[j].host = r.plan.host => j \in r.plan.colocated

LEMMA LaunchEffect ==
  ASSUME IInv, NEW q \in Reqs, NEW u \in Users, NEW gpu \in Profiles, Launch(q, u, gpu)
  PROVE  \E r : Launched(q, u, r)
<1>0. TypeOK /\ gpu \in BOOLEAN
  BY NotebooksAssumption DEF IInv
<1>1. PICK old \in ActiveRun(u), plan \in PlansFor(u, gpu) :
        req' = [req EXCEPT ![q] = [pc |-> "starting", user |-> u, old |-> old,
                                   boost |-> BoostFor(u, gpu), plan |-> plan]]
  BY DEF Launch
<1> DEFINE boost == BoostFor(u, gpu)
           wantsGpu == (gpu /\ ~Capped(u, gpu)) \/ boost # 0
           want == IF boost = 0 THEN 0 ELSE boosts[boost].gpus
           r == [pc |-> "starting", user |-> u, old |-> old, boost |-> boost, plan |-> plan]
<1>2. boost # 0 => /\ boost \in DOMAIN boosts /\ boosts[boost].status = "approved"
                   /\ boosts[boost] \in Boost
                   /\ Cardinality(plan.span) =< boosts[boost].gpus
                   /\ plan.gpus \in 1..boosts[boost].gpus
  BY <1>0, LaunchPlan, RowsTyped
<1>3. /\ runs \in Seq(Run) /\ OthersRuns(u) \in SUBSET DOMAIN runs
      /\ OnlineNodes(wantsGpu) \in SUBSET Hosts /\ want \in Nat
  BY <1>0, <1>2 DEF OthersRuns, ActiveRuns, OnlineNodes, TypeOK, Boost
<1>4. plan \in Placements(OnlineNodes(wantsGpu), runs, OthersRuns(u), wantsGpu, want)
  BY DEF PlansFor
<1>5. r.user = u /\ r.old = old /\ r.boost = boost /\ r.plan = plan
  OBVIOUS
<1>6. req' = [req EXCEPT ![q] = r]
  BY <1>1
<1> HIDE DEF boost, wantsGpu, want, r
<1>7. \A j \in OthersRuns(u) :
        /\ plan.mode = "exclusive" /\ plan.host # NoHost => plan.host \notin Footprint(runs[j])
        /\ plan.mode = "shared" /\ runs[j].host = plan.host => j \in plan.colocated
  BY <1>3, <1>4, PlacementFits
<1>8. Launched(q, u, r)
  BY <1>2, <1>5, <1>6, <1>7 DEF Launched
<1> QED  BY <1>8

\* A launch decides on what is so when it starts.
LEMMA LaunchSerial ==
  ASSUME IInv, SerialInv, NEW q \in Reqs, NEW u \in Users, NEW gpu \in Profiles, Launch(q, u, gpu)
  PROVE  SerialInv'
<1>0. TypeOK /\ req \in [Reqs -> Request]
  BY DEF IInv, TypeOK
<1>1. PICK r : Launched(q, u, r)
  BY LaunchEffect
<1>2. UNCHANGED runs /\ notes \subseteq notes'
  BY DEF Launch
<1>3. ActiveRunsOf(u) \subseteq {r.old}
  <2>1. \A i, j \in ActiveRunsOf(u) : i = j
    BY DEF SerialInv, OneRunEach, ActiveRunsOf
  <2>2. r.old \in ActiveRun(u)
    BY <1>1 DEF Launched
  <2> QED  BY <2>1, <2>2 DEF ActiveRun
<1>4. StillDecided(r)
  BY <1>1, <1>3 DEF StillDecided, Launched
<1>5. \A p \in Reqs : req'[p] \in Launching => StillDecided(req'[p])
  <2> SUFFICES ASSUME NEW p \in Reqs, req'[p] \in Launching  PROVE StillDecided(req'[p])
    OBVIOUS
  <2>1. CASE p = q
    BY <1>0, <1>1, <1>4, <2>1 DEF Launched
  <2>2. CASE p # q
    BY <1>0, <1>1, <2>2 DEF SerialInv, Launched
  <2> QED  BY <2>1, <2>2
<1>6. (\A p \in Reqs : req[p] \in Launching => StillDecided(req[p]))'
  BY <1>2, <1>5 DEF StillDecided, ActiveRunsOf, OthersRuns, ActiveRuns
<1>7. OneRunEach' /\ WholeNodeWasFree' /\ SharersTold'
  BY <1>2 DEF SerialInv, OneRunEach, WholeNodeWasFree, SharersTold, ActiveRuns
<1> QED  BY <1>6, <1>7 DEF SerialInv

\* With no other request in flight, the new run is what was decided.
LEMMA RecordLaunchSerial ==
  ASSUME IInv, SerialInv, NEW q \in Reqs, Reqs = {q}, RecordLaunch(q)
  PROVE  SerialInv'
<1> DEFINE r == req[q]
           n == Len(runs) + 1
<1>1. /\ r \in Launching /\ NewRun(r) \in Run
      /\ r.old \in Nat /\ (r.old # 0 => r.old \in DOMAIN runs /\ runs[r.old].user = r.user)
      /\ runs' \in Seq(Run) /\ DOMAIN runs' = DOMAIN runs \cup {n}
      /\ n \in Nat \ {0} /\ n \notin DOMAIN runs /\ \A i \in DOMAIN runs : i < n /\ i \in Nat
      /\ \A i \in DOMAIN runs :
           /\ SameRun(runs'[i], runs[i])
           /\ runs'[i].shared = runs[i].shared /\ runs'[i].told = runs[i].told
           /\ runs'[i].status = IF i = r.old THEN "stopped" ELSE runs[i].status
           /\ runs'[i].status = "deleted" <=> runs[i].status = "deleted"
      /\ runs'[n] = NewRun(r)
      /\ notes \subseteq notes' /\ SharingNotes(r) \subseteq notes'
      /\ req'[q] \in Request /\ req'[q] \notin Launching /\ req'[q] \notin Updating
  BY RecordLaunchEffect
<1>2. StillDecided(r)
  BY <1>1 DEF SerialInv
<1>3. /\ runs'[n].user = r.user /\ runs'[n].host = r.plan.host /\ runs'[n].mode = r.plan.mode
  BY <1>1 DEF NewRun
<1> HIDE DEF r
<1>0. n = Len(runs) + 1
  OBVIOUS
<1> HIDE DEF n
<1>4. \A i \in DOMAIN runs : /\ runs'[i].user = runs[i].user /\ runs'[i].host = runs[i].host
                             /\ runs'[i].mode = runs[i].mode
                             /\ Footprint(runs'[i]) = Footprint(runs[i])
  BY <1>1 DEF SameRun, Footprint
\* Of the runs that are active afterwards, all but the new one are the others'.
<1>5. \A i \in ActiveRuns' : i = n \/ (i \in OthersRuns(r.user) /\ i \in ActiveRuns /\ i \in DOMAIN runs)
  <2> SUFFICES ASSUME NEW i \in ActiveRuns', i # n
               PROVE  i \in OthersRuns(r.user) /\ i \in ActiveRuns /\ i \in DOMAIN runs
    OBVIOUS
  <2>1. i \in DOMAIN runs /\ runs'[i].status = "active"
    BY <1>1 DEF ActiveRuns
  <2>2. runs[i].status = "active" /\ i # r.old
    BY <1>1, <2>1
  <2>3. i \in ActiveRuns
    BY <2>1, <2>2 DEF ActiveRuns
  <2>4. i \notin ActiveRunsOf(r.user)
    BY <1>2, <2>2 DEF StillDecided
  <2> QED  BY <2>1, <2>3, <2>4 DEF ActiveRunsOf, OthersRuns
<1>6. OneRunEach'
  <2>1. \A i \in OthersRuns(r.user) : runs[i].user # r.user
    BY DEF OthersRuns
  <2> QED  BY <1>1, <1>3, <1>4, <1>5, <2>1 DEF SerialInv, OneRunEach
<1>9. WholeNodeWasFree'
  <2> SUFFICES ASSUME NEW i \in ActiveRuns', NEW j \in ActiveRuns',
                      j < i, runs'[i].mode = "exclusive", runs'[i].host # NoHost
               PROVE  runs'[i].host \notin Footprint(runs'[j])
    BY DEF WholeNodeWasFree
  <2>1. CASE i = n
    <3>1. j \in OthersRuns(r.user) /\ j \in DOMAIN runs
      BY <1>1, <1>5, <2>1
    <3> QED  BY <1>2, <1>3, <1>4, <2>1, <3>1 DEF StillDecided
  <2>2. CASE i # n
    <3>1. i \in ActiveRuns /\ i \in DOMAIN runs
      BY <1>5, <2>2
    <3>2. j # n
      BY <1>1, <3>1
    <3>3. j \in ActiveRuns /\ j \in DOMAIN runs
      BY <1>5, <3>2
    <3> QED  BY <1>1, <1>4, <3>1, <3>3 DEF SerialInv, WholeNodeWasFree
  <2> QED  BY <2>1, <2>2
<1>10. SharersTold'
  <2> SUFFICES ASSUME NEW i \in ActiveRuns', NEW j \in ActiveRuns',
                      j < i, runs'[i].mode = "shared", runs'[j].host = runs'[i].host
               PROVE  Notify(runs'[j].user, "sharing", i) \in notes'
    BY DEF SharersTold
  <2>1. CASE i = n
    <3>1. j \in OthersRuns(r.user) /\ j \in DOMAIN runs
      BY <1>1, <1>5, <2>1
    <3>2. j \in r.plan.colocated
      BY <1>1, <1>2, <1>3, <1>4, <2>1, <3>1 DEF StillDecided
    <3>3. Notify(runs[j].user, "sharing", n) \in SharingNotes(r)
      BY <1>0, <3>2 DEF SharingNotes
    <3> QED  BY <1>1, <1>4, <2>1, <3>1, <3>3
  <2>2. CASE i # n
    <3>1. i \in ActiveRuns /\ i \in DOMAIN runs
      BY <1>5, <2>2
    <3>2. j # n
      BY <1>1, <3>1
    <3>3. j \in ActiveRuns /\ j \in DOMAIN runs
      BY <1>5, <3>2
    <3> QED  BY <1>1, <1>4, <3>1, <3>3 DEF SerialInv, SharersTold
  <2> QED  BY <2>1, <2>2
<1>11. \A p \in Reqs : req'[p] \notin Launching
  BY <1>1
<1> QED  BY <1>6, <1>9, <1>10, <1>11 DEF SerialInv

-----------------------------------------------------------------------------
(* The theorems, for any number of users, hosts and desks, and any bounds. *)

LEMMA InitSerial == Init => SerialInv
<1> SUFFICES ASSUME Init PROVE SerialInv  OBVIOUS
<1>1. DOMAIN runs = {} /\ ActiveRuns = {}
  BY DEF Init, ActiveRuns
<1>2. \A q \in Reqs : req[q] \notin Launching
  BY IdleCarriesNothing DEF Init
<1> QED
  BY <1>1, <1>2 DEF SerialInv, OneRunEach, WholeNodeWasFree, SharersTold

LEMMA StepSerial ==
  ASSUME NEW c, Reqs = {c}, IInv, SerialInv, [Next]_vars
  PROVE  SerialInv'
<1>1. CASE RecordLaunch(c)
  BY <1>1, RecordLaunchSerial
<1>2. CASE \E u \in Users, gpu \in Profiles : Launch(c, u, gpu)
  BY <1>2, LaunchSerial
<1>3. CASE Quiet
  BY <1>3, QuietStepAddsNothing, NoNewRun
<1> QED  BY <1>1, <1>2, <1>3 DEF Quiet

\* Launches one at a time: what a launch decided before the Hub was awaited is so
\* when it commits (notebooks.py:78-160).
THEOREM SerialInvariant ==
  ASSUME NEW CONSTANT c, Reqs = {c}
  PROVE  Spec => []SerialInv
<1>1. IInv /\ SerialInv /\ [Next]_vars => SerialInv'
  BY StepSerial
<1> QED  BY <1>1, InitSerial, Invariant, PTL DEF Spec

\* "Close out any previous run of this user before re-placing them"
\* (notebooks.py:97): nobody has two notebooks.
THEOREM OneRunPerUser ==
  ASSUME NEW CONSTANT c, Reqs = {c}
  PROVE  Spec => []OneActiveRun
<1>1. ASSUME OneRunEach PROVE OneActiveRun
  <2> SUFFICES ASSUME NEW u \in Users PROVE Cardinality(ActiveRunsOf(u)) =< 1
    BY DEF OneActiveRun
  <2>1. CASE ActiveRunsOf(u) = {}
    BY <2>1, FS_EmptySet
  <2>2. CASE ActiveRunsOf(u) # {}
    <3>1. PICK i : ActiveRunsOf(u) = {i}
      BY <1>1, <2>2 DEF OneRunEach, ActiveRunsOf
    <3>2. Cardinality({i}) = 1
      BY FS_Singleton, Zenon
    <3> QED  BY <3>1, <3>2
  <2> QED  BY <2>1, <2>2
<1>2. SerialInv => OneActiveRun
  BY <1>1 DEF SerialInv
<1> QED  BY <1>2, SerialInvariant, PTL

\* A whole node was free of notebooks and of the peers of boosted jobs
\* (scheduler.py:69-79).
THEOREM WholeNodesWereFree ==
  ASSUME NEW CONSTANT c, Reqs = {c}
  PROVE  Spec => []WholeNodeWasFree
<1>1. SerialInv => WholeNodeWasFree
  BY DEF SerialInv
<1> QED  BY <1>1, SerialInvariant, PTL

\* Whoever was on the host of a sharer before it has been told (scheduler.py:11-12).
THEOREM SharersAreTold ==
  ASSUME NEW CONSTANT c, Reqs = {c}
  PROVE  Spec => []SharersTold
<1>1. SerialInv => SharersTold
  BY DEF SerialInv
<1> QED  BY <1>1, SerialInvariant, PTL

-----------------------------------------------------------------------------
(* Requests that overlap, any finite number of them.  What each carries    *)
(* across the await counts as if it were recorded already: a launch may    *)
(* add to what others hold only while nobody holds anything, and its       *)
(* commit turns what it carried into what is held.                         *)

\* What a finite set is mapped to is no more.
LEMMA ImageIsFew ==
  ASSUME NEW S, IsFiniteSet(S), NEW f, NEW T, \A t \in T : \E s \in S : t = f[s]
  PROVE  IsFiniteSet(T) /\ Cardinality(T) =< Cardinality(S)
<1> DEFINE g == [t \in T |-> CHOOSE s \in S : t = f[s]]
<1>1. \A t \in T : g[t] \in S /\ t = f[g[t]]
  OBVIOUS
<1>2. g \in [T -> S]
  BY <1>1
<1> HIDE DEF g
<1>3. g \in Injection(T, S)
  BY <1>1, <1>2 DEF Injection, IsInjective
<1> QED  BY <1>3, FS_Injection

\* The launches that carry the grant b, and those that will have host h whole.
Carrying(b) == {q \in Reqs : req[q] \in Launching /\ req[q].boost = b}
Taking(h) == {q \in Reqs : req[q] \in Launching /\ req[q].plan.mode = "exclusive"
                                                /\ req[q].plan.host = h}

\* The users who have host h whole, or will.
Holders(h) == WholeTo(h) \cup {req[q].user : q \in Taking(h)}

HoldersBounded ==
  \A h \in Hosts : IsFiniteSet(Holders(h)) /\ Cardinality(Holders(h)) =< Cardinality(Reqs)

\* No more holders than there were.
LEMMA FewerHolders ==
  ASSUME HoldersBounded, NEW h \in Hosts, NEW S \in SUBSET Holders(h), IsFiniteSet(Reqs)
  PROVE  IsFiniteSet(S) /\ Cardinality(S) =< Cardinality(Reqs)
<1>1. IsFiniteSet(Holders(h)) /\ Cardinality(Holders(h)) =< Cardinality(Reqs)
  BY DEF HoldersBounded
<1>2. IsFiniteSet(S) /\ Cardinality(S) =< Cardinality(Holders(h))
  BY <1>1, FS_Subset
<1> QED  BY <1>1, <1>2, FS_CardinalityType

LEMMA StepHolders ==
  ASSUME IsFiniteSet(Reqs), IInv, HoldersBounded, [Next]_vars
  PROVE  HoldersBounded'
<1>0. req \in [Reqs -> Request]
  BY DEF IInv, TypeOK
<1>1. SUFFICES ASSUME NEW h \in Hosts
               PROVE  IsFiniteSet(Holders(h)') /\ Cardinality(Holders(h)') =< Cardinality(Reqs)
  BY DEF HoldersBounded
<1>2. CASE Quiet
  <2>1. NothingNew
    BY <1>2, QuietStepAddsNothing
  <2>2. WholeTo(h)' \subseteq WholeTo(h)
    BY <2>1 DEF NothingNew, SameRuns, SameRun, WholeTo, ActiveRuns
  <2>3. \A q \in Taking(h)' : q \in Taking(h) /\ req'[q].user = req[q].user
    BY <2>1 DEF NothingNew, SamePlans, Taking
  <2>4. Holders(h)' \subseteq Holders(h)
    BY <2>2, <2>3 DEF Holders
  <2> QED  BY <2>4, FewerHolders
<1>3. ASSUME NEW q \in Reqs, RecordLaunch(q)
      PROVE  IsFiniteSet(Holders(h)') /\ Cardinality(Holders(h)') =< Cardinality(Reqs)
  <2> DEFINE r == req[q]
             n == Len(runs) + 1
  <2>1. /\ r \in Launching /\ NewRun(r) \in Run
        /\ r.old \in Nat /\ (r.old # 0 => r.old \in DOMAIN runs /\ runs[r.old].user = r.user)
        /\ runs' \in Seq(Run) /\ DOMAIN runs' = DOMAIN runs \cup {n}
        /\ n \in Nat \ {0} /\ n \notin DOMAIN runs /\ \A i \in DOMAIN runs : i < n /\ i \in Nat
        /\ \A i \in DOMAIN runs :
             /\ SameRun(runs'[i], runs[i])
             /\ runs'[i].shared = runs[i].shared /\ runs'[i].told = runs[i].told
             /\ runs'[i].status = IF i = r.old THEN "stopped" ELSE runs[i].status
             /\ runs'[i].status = "deleted" <=> runs[i].status = "deleted"
        /\ runs'[n] = NewRun(r)
        /\ req'[q] \in Request /\ req'[q] \notin Launching /\ req'[q] \notin Updating
        /\ req' = [req EXCEPT ![q] = req'[q]]
    BY <1>3, RecordLaunchEffect
  <2>0. r = req[q]
    OBVIOUS
  <2> HIDE DEF r, n
  <2>2. runs'[n].user = r.user /\ runs'[n].mode = r.plan.mode /\ runs'[n].host = r.plan.host
    BY <2>1 DEF NewRun
  <2>3. ASSUME NEW i \in DOMAIN runs', runs'[i].status = "active",
               runs'[i].mode = "exclusive", runs'[i].host = h
        PROVE  runs'[i].user \in Holders(h)
    <3>1. CASE i = n
      <4>1. q \in Taking(h) /\ req[q].user = runs'[i].user
        BY <2>0, <2>1, <2>2, <2>3, <3>1 DEF Taking
      <4> QED  BY <4>1 DEF Holders
    <3>2. CASE i # n
      <4>1. i \in DOMAIN runs /\ runs[i].status = "active" /\ runs[i].mode = "exclusive"
            /\ runs[i].host = h /\ runs'[i].user = runs[i].user
        BY <2>1, <2>3, <3>2 DEF SameRun
      <4> QED  BY <4>1 DEF Holders, WholeTo, ActiveRuns
    <3> QED  BY <3>1, <3>2
  <2>4. WholeTo(h)' \subseteq Holders(h)
    BY <2>3 DEF WholeTo, ActiveRuns
  <2>5. \A p \in Taking(h)' : p \in Taking(h) /\ req'[p].user = req[p].user
    BY <1>0, <2>1 DEF Taking
  <2>6. Holders(h)' \subseteq Holders(h)
    BY <2>4, <2>5 DEF Holders
  <2> QED  BY <2>6, FewerHolders
<1>4. ASSUME NEW q \in Reqs, NEW u \in Users, NEW gpu \in Profiles, Launch(q, u, gpu)
      PROVE  IsFiniteSet(Holders(h)') /\ Cardinality(Holders(h)') =< Cardinality(Reqs)
  <2>0. PICK r : Launched(q, u, r)
    BY <1>4, LaunchEffect
  <2>1. /\ req' = [req EXCEPT ![q] = r] /\ r.user = u
        /\ \A j \in OthersRuns(u) :
             r.plan.mode = "exclusive" /\ r.plan.host # NoHost
             => r.plan.host \notin Footprint(runs[j])
    BY <2>0 DEF Launched
  <2>2. WholeTo(h)' = WholeTo(h)
    BY <1>4 DEF Launch, WholeTo, ActiveRuns
  <2>3. \A p \in Reqs : req'[p] = IF p = q THEN r ELSE req[p]
    BY <1>0, <2>1
  <2>4. CASE q \notin Taking(h)'
    <3>1. \A p \in Taking(h)' : p \in Taking(h) /\ req'[p].user = req[p].user
      BY <2>3, <2>4 DEF Taking
    <3>2. Holders(h)' \subseteq Holders(h)
      BY <2>2, <3>1 DEF Holders
    <3> QED  BY <3>2, FewerHolders
  <2>5. CASE q \in Taking(h)'
    <3>1. r.plan.mode = "exclusive" /\ r.plan.host = h /\ h # NoHost
      BY <2>3, <2>5, HostsAssumption DEF Taking
    <3>2. \A j \in OthersRuns(u) : runs[j].host # h
      BY <2>1, <3>1 DEF Footprint
    <3>3. WholeTo(h) \subseteq {u}
      BY <3>2 DEF WholeTo, OthersRuns
    <3> DEFINE f == [p \in Reqs |-> req'[p].user]
    <3>4. \A v \in Holders(h)' : \E p \in Reqs : v = f[p]
      <4>1. f[q] = u
        BY <2>1, <2>3
      <4>2. \A p \in Taking(h)' : p \in Reqs /\ f[p] = req'[p].user
        BY DEF Taking
      <4> HIDE DEF f
      <4> QED  BY <2>2, <3>3, <4>1, <4>2 DEF Holders
    <3> HIDE DEF f
    <3> QED  BY <3>4, ImageIsFew
  <2> QED  BY <2>4, <2>5
<1> QED  BY <1>2, <1>3, <1>4 DEF Quiet

(* However launches overlap, a node is given whole to no more users at a   *)
(* time than requests overlap (scheduler.py:82-108, notebooks.py:105-160). *)
THEOREM WholeNodesOfFew ==
  ASSUME IsFiniteSet(Reqs)
  PROVE  Spec => []WholeNodeOfFew
<1>1. Init => HoldersBounded
  <2> SUFFICES ASSUME Init, NEW h \in Hosts
               PROVE  IsFiniteSet(Holders(h)) /\ Cardinality(Holders(h)) =< Cardinality(Reqs)
    BY DEF HoldersBounded
  <2>1. Holders(h) = {}
    BY DEF Init, Holders, WholeTo, ActiveRuns, Taking, Launching, Idle
  <2> QED  BY <2>1, FS_EmptySet, FS_CardinalityType
<1>2. IInv /\ HoldersBounded /\ [Next]_vars => HoldersBounded'
  BY StepHolders
<1>3. HoldersBounded => WholeNodeOfFew
  <2> SUFFICES ASSUME HoldersBounded, NEW h \in Hosts
               PROVE  Cardinality(WholeTo(h)) =< Cardinality(Reqs)
    BY DEF WholeNodeOfFew
  <2>1. WholeTo(h) \in SUBSET Holders(h)
    BY DEF Holders
  <2> QED  BY <2>1, FewerHolders
<1> QED  BY <1>1, <1>2, <1>3, Invariant, PTL DEF Spec

\* The promotions that are about to tell the user of run i of a free host.
Tellers(i) == {q \in Reqs : req[q].pc = "telling" /\ req[q].run = i}

\* A user in the queue has not been told; one who has left it has been told once
\* for every promotion that chose the same run and has committed.
TellersBounded ==
  \A i \in DOMAIN runs : /\ runs[i].shared => runs[i].told = 0
                         /\ ~runs[i].shared => runs[i].told + Cardinality(Tellers(i)) =< Cardinality(Reqs)

\* Of two bounded numbers one may grow when the other one shrinks.
LEMMA OneForAnother ==
  ASSUME IsFiniteSet(Reqs), NEW C \in SUBSET Reqs, NEW D \in SUBSET C, NEW s \in Nat, NEW t \in Nat,
         NEW bound \in Nat, s + Cardinality(C) =< bound,
         \/ t = s
         \/ /\ t = s + 1
            /\ D # C
  PROVE  t + Cardinality(D) =< bound
<1>1. IsFiniteSet(C) /\ Cardinality(C) \in Nat
  BY FS_Subset, FS_CardinalityType
<1>2. IsFiniteSet(D) /\ Cardinality(D) =< Cardinality(C) /\ (Cardinality(C) = Cardinality(D) => C = D)
  BY <1>1, FS_Subset
<1>3. Cardinality(D) \in Nat
  BY <1>2, FS_CardinalityType
<1> QED  BY <1>1, <1>2, <1>3

\* A step that tells nobody.
LEMMA NobodyTold ==
  ASSUME IsFiniteSet(Reqs), IInv, TellersBounded, DOMAIN runs' = DOMAIN runs,
         \A i \in DOMAIN runs : runs'[i].shared = runs[i].shared /\ runs'[i].told = runs[i].told,
         \A p \in Reqs : req'[p].pc = "telling" =>
           \/ req[p].pc = "telling" /\ req'[p].run = req[p].run
           \/ runs[req'[p].run].shared
  PROVE  TellersBounded'
<1> SUFFICES ASSUME NEW i \in DOMAIN runs, ~runs[i].shared
             PROVE  runs[i].told + Cardinality(Tellers(i)') =< Cardinality(Reqs)
  BY DEF TellersBounded
<1>1. Tellers(i)' \subseteq Tellers(i) /\ Tellers(i) \subseteq Reqs
  BY DEF Tellers
<1>2. runs[i].told + Cardinality(Tellers(i)) =< Cardinality(Reqs)
  BY DEF TellersBounded
<1>3. runs[i].told \in Nat /\ Cardinality(Reqs) \in Nat
  BY RowsTyped, FS_CardinalityType DEF IInv, Run
<1> QED  BY <1>1, <1>2, <1>3, OneForAnother

LEMMA StepTellers ==
  ASSUME IsFiniteSet(Reqs), IInv, TellersBounded, [Next]_vars
  PROVE  TellersBounded'
<1>0. TypeOK /\ req \in [Reqs -> Request] /\ Cardinality(Reqs) \in Nat
  BY FS_CardinalityType DEF IInv, TypeOK
<1>1. CASE UNCHANGED <<runs, req>>
  BY <1>1, NobodyTold
<1>2. ASSUME NEW q \in Reqs, UNCHANGED runs, \E r : req' = [req EXCEPT ![q] = r],
             req'[q].pc = "telling" => runs[req'[q].run].shared
      PROVE  TellersBounded'
  <2>1. \A p \in Reqs : p # q => req'[p] = req[p]
    BY <1>0, <1>2
  <2> QED  BY <1>2, <2>1, NobodyTold
<1>3. ASSUME NEW q \in Reqs, NEW u \in Users, (\E gpu \in Profiles : Launch(q, u, gpu)) \/ Stop(q, u)
      PROVE  TellersBounded'
  <2>1. UNCHANGED runs /\ \E r : req' = [req EXCEPT ![q] = r] /\ r.pc \in {"starting", "stopping"}
    <3>1. CASE Stop(q, u)
      <4> DEFINE r == [pc |-> "stopping", user |-> u]
      <4>1. UNCHANGED runs /\ req' = [req EXCEPT ![q] = r] /\ r.pc \in {"starting", "stopping"}
        BY <3>1 DEF Stop
      <4> QED  BY <4>1
    <3>2. ASSUME NEW gpu \in Profiles, Launch(q, u, gpu)
          PROVE  UNCHANGED runs /\ \E r : req' = [req EXCEPT ![q] = r] /\ r.pc \in {"starting", "stopping"}
      <4>1. PICK old \in ActiveRun(u), plan \in PlansFor(u, gpu) :
              req' = [req EXCEPT ![q] = [pc |-> "starting", user |-> u, old |-> old,
                                         boost |-> BoostFor(u, gpu), plan |-> plan]]
        BY <3>2 DEF Launch
      <4> DEFINE r == [pc |-> "starting", user |-> u, old |-> old,
                       boost |-> BoostFor(u, gpu), plan |-> plan]
      <4>2. req' = [req EXCEPT ![q] = r] /\ r.pc = "starting"
        BY <4>1
      <4> HIDE DEF r
      <4>3. UNCHANGED runs
        BY <3>2 DEF Launch
      <4> QED  BY <4>2, <4>3
    <3> QED  BY <1>3, <3>1, <3>2
  <2>2. req'[q].pc # "telling"
    BY <1>0, <2>1
  <2> QED  BY <1>2, <2>1, <2>2
<1>4. ASSUME NEW q \in Reqs, HubStart(q) \/ HubStop(q)
      PROVE  TellersBounded'
  <2>1. UNCHANGED runs /\ \E r : req' = [req EXCEPT ![q] = r]
    BY <1>4 DEF HubStart, HubStop
  <2>2. req[q] \in Launching \/ req[q] \in Stopping
    BY <1>0, <1>4, RequestByPc DEF HubStart, HubStop
  <2>3. \/ req'[q] = [req[q] EXCEPT !.pc = "recording"]
        \/ req'[q] = [req[q] EXCEPT !.pc = "closing"]
    BY <1>0, <1>4 DEF HubStart, HubStop
  <2>4. req'[q].pc # "telling"
    BY <2>2, <2>3 DEF Launching, Stopping
  <2> QED  BY <1>2, <2>1, <2>4
<1>5. ASSUME NEW q \in Reqs,
             RecordRefused(q) \/ UpdateRefused(q) \/ RequestLost(q) \/ FindStopped(q) \/ Promote(q)
      PROVE  TellersBounded'
  <2>1. UNCHANGED runs /\ \E r : req' = [req EXCEPT ![q] = r]
    BY <1>5 DEF RecordRefused, UpdateRefused, RequestLost, FindStopped, Promote
  <2>2. CASE ~Promote(q)
    <3>1. req'[q].pc \in {"idle", "ending"}
      BY <1>0, <1>5, <2>2 DEF RecordRefused, UpdateRefused, RequestLost, FindStopped, Idle
    <3> QED  BY <1>2, <2>1, <3>1
  <2>3. CASE Promote(q)
    <3>1. CASE Waiting = {} \/ Taken(req[q].freed)
      <4>1. req'[q].pc = "idle"
        BY <1>0, <2>3, <3>1 DEF Promote, Idle
      <4> QED  BY <1>2, <2>1, <4>1
    <3>2. CASE Waiting # {} /\ ~Taken(req[q].freed)
      <4>1. Waiting \in SUBSET Nat
        BY <1>0, RowsTyped DEF Waiting, ActiveRuns
      <4>2. \E w \in Waiting : \A i \in Waiting : w =< i
        BY <3>2, <4>1, HasLeast
      <4>3. runs[LongestWaiting].shared
        BY <4>2 DEF LongestWaiting, Waiting
      <4>4. req'[q].run = LongestWaiting
        BY <1>0, <2>3, <3>2 DEF Promote
      <4> QED  BY <1>2, <2>1, <4>3, <4>4
    <3> QED  BY <3>1, <3>2
  <2> QED  BY <2>2, <2>3
<1>6. ASSUME NEW q \in Reqs, CloseStopped(q)
      PROVE  TellersBounded'
  <2>1. /\ DOMAIN runs' = DOMAIN runs
        /\ \A i \in DOMAIN runs :
             /\ SameRun(runs'[i], runs[i])
             /\ runs'[i].shared = runs[i].shared /\ runs'[i].told = runs[i].told
             /\ runs'[i].status = IF i = req[q].run THEN "stopped" ELSE runs[i].status
             /\ runs'[i].status = "deleted" <=> runs[i].status = "deleted"
        /\ req'[q] \in Request /\ req'[q] \notin Launching /\ req'[q] \notin Updating
        /\ req' = [req EXCEPT ![q] = req'[q]]
    BY <1>6, CloseStoppedEffect
  <2>2. req'[q].pc # "telling" /\ \A p \in Reqs : p # q => req'[p] = req[p]
    BY <1>0, <2>1, RequestByPc
  <2> QED  BY <2>1, <2>2, NobodyTold
<1>7. ASSUME NEW q \in Reqs, RecordPromotion(q)
      PROVE  TellersBounded'
  <2> DEFINE w == req[q].run
  <2>1. /\ req[q] \in Updating /\ w \in DOMAIN runs
        /\ runs' \in Seq(Run) /\ DOMAIN runs' = DOMAIN runs
        /\ \A i \in DOMAIN runs :
             /\ SameRun(runs'[i], runs[i]) /\ runs'[i].status = runs[i].status
             /\ i # w => runs'[i] = runs[i]
        /\ runs'[w].shared = FALSE /\ runs'[w].told = runs[w].told + 1
        /\ req' = [req EXCEPT ![q] = Idle]
    BY <1>7, RecordPromotionEffect
  <2>2. req[q].pc = "telling"
    BY <1>7 DEF RecordPromotion
  <2>3. \A i : Tellers(i)' \subseteq Tellers(i) /\ Tellers(i) \subseteq Reqs
    BY <1>0, <2>1 DEF Tellers, Idle
  <2>4. \A i : i = w => q \in Tellers(i) /\ q \notin Tellers(i)'
    BY <1>0, <2>1, <2>2 DEF Tellers, Idle
  <2>5. \A i \in DOMAIN runs : runs[i].told \in Nat
    BY <1>0, RowsTyped DEF Run
  <2> HIDE DEF w
  <2> SUFFICES ASSUME NEW i \in DOMAIN runs
               PROVE  /\ runs'[i].shared => runs'[i].told = 0
                      /\ ~runs'[i].shared =>
                           runs'[i].told + Cardinality(Tellers(i)') =< Cardinality(Reqs)
    BY <2>1 DEF TellersBounded
  <2>6. CASE i # w
    <3>1. runs'[i] = runs[i]
      BY <2>1, <2>6
    <3>2. ~runs[i].shared => runs[i].told + Cardinality(Tellers(i)) =< Cardinality(Reqs)
      BY DEF TellersBounded
    <3>3. ~runs[i].shared => runs[i].told + Cardinality(Tellers(i)') =< Cardinality(Reqs)
      BY <1>0, <2>3, <2>5, <3>2, OneForAnother
    <3> QED  BY <3>1, <3>3 DEF TellersBounded
  <2>7. CASE i = w /\ ~runs[i].shared
    <3>1. runs[i].told + Cardinality(Tellers(i)) =< Cardinality(Reqs)
      BY <2>7 DEF TellersBounded
    <3>2. Tellers(i)' \in SUBSET Tellers(i) /\ Tellers(i) \in SUBSET Reqs /\ Tellers(i)' # Tellers(i)
      BY <2>3, <2>4, <2>7
    <3>3. runs[i].told \in Nat /\ runs'[i].told = runs[i].told + 1 /\ runs'[i].told \in Nat
      BY <2>1, <2>5, <2>7
    <3>4. runs'[i].told + Cardinality(Tellers(i)') =< Cardinality(Reqs)
      BY <1>0, <3>1, <3>2, <3>3, OneForAnother
    <3> QED  BY <2>1, <2>7, <3>4
  <2>8. CASE i = w /\ runs[i].shared
    <3>1. runs'[i].told = 1
      BY <2>1, <2>8 DEF TellersBounded
    <3>2. IsFiniteSet(Reqs \ {q}) /\ Cardinality(Reqs \ {q}) = Cardinality(Reqs) - 1
      BY FS_RemoveElement
    <3>3. Tellers(i)' \subseteq Reqs \ {q}
      BY <2>4, <2>8 DEF Tellers
    <3>4. Cardinality(Tellers(i)') =< Cardinality(Reqs \ {q}) /\ Cardinality(Tellers(i)') \in Nat
      BY <3>2, <3>3, FS_Subset, FS_CardinalityType
    <3> QED  BY <1>0, <2>1, <2>8, <3>1, <3>2, <3>4
  <2> QED  BY <2>6, <2>7, <2>8
<1>8. ASSUME NEW q \in Reqs, RecordLaunch(q)
      PROVE  TellersBounded'
  <2> DEFINE r == req[q]
             n == Len(runs) + 1
  <2>1. /\ r \in Launching /\ NewRun(r) \in Run
        /\ r.old \in Nat /\ (r.old # 0 => r.old \in DOMAIN runs /\ runs[r.old].user = r.user)
        /\ runs' \in Seq(Run) /\ DOMAIN runs' = DOMAIN runs \cup {n}
        /\ n \in Nat \ {0} /\ n \notin DOMAIN runs /\ \A i \in DOMAIN runs : i < n /\ i \in Nat
        /\ \A i \in DOMAIN runs :
             /\ SameRun(runs'[i], runs[i])
             /\ runs'[i].shared = runs[i].shared /\ runs'[i].told = runs[i].told
             /\ runs'[i].status = IF i = r.old THEN "stopped" ELSE runs[i].status
             /\ runs'[i].status = "deleted" <=> runs[i].status = "deleted"
        /\ runs'[n] = NewRun(r)
        /\ req'[q] \in Request /\ req'[q] \notin Launching /\ req'[q] \notin Updating
        /\ req' = [req EXCEPT ![q] = req'[q]]
    BY <1>8, RecordLaunchEffect
  <2>2. runs'[n].told = 0
    BY <2>1 DEF NewRun
  <2> HIDE DEF r, n
  <2>3. req'[q].pc # "telling" /\ \A p \in Reqs : p # q => req'[p] = req[p]
    BY <1>0, <2>1, RequestByPc
  <2> SUFFICES ASSUME NEW i \in DOMAIN runs'
               PROVE  /\ runs'[i].shared => runs'[i].told = 0
                      /\ ~runs'[i].shared =>
                           runs'[i].told + Cardinality(Tellers(i)') =< Cardinality(Reqs)
    BY DEF TellersBounded
  <2>4. CASE i = n
    <3>1. Cardinality(Tellers(i)') =< Cardinality(Reqs) /\ Cardinality(Tellers(i)') \in Nat
      <4>1. Tellers(i)' \subseteq Reqs
        BY DEF Tellers
      <4> QED  BY <4>1, FS_Subset, FS_CardinalityType
    <3> QED  BY <2>2, <2>4, <3>1
  <2>5. CASE i \in DOMAIN runs
    <3>1. Tellers(i)' \subseteq Tellers(i) /\ Tellers(i) \subseteq Reqs
      BY <2>3 DEF Tellers
    <3>2. runs[i].told \in Nat
      BY <1>0, <2>5, RowsTyped DEF Run
    <3>3. runs'[i].told = runs[i].told /\ runs'[i].shared = runs[i].shared
      BY <2>1, <2>5
    <3>4. ~runs[i].shared => runs[i].told + Cardinality(Tellers(i)) =< Cardinality(Reqs)
      BY <2>5 DEF TellersBounded
    <3>5. ~runs[i].shared => runs[i].told + Cardinality(Tellers(i)') =< Cardinality(Reqs)
      BY <1>0, <3>1, <3>2, <3>4, OneForAnother
    <3> QED  BY <2>5, <3>3, <3>5 DEF TellersBounded
  <2> QED  BY <2>1, <2>4, <2>5
<1>9. ASSUME NEW d \in Desks, BoostStep(d)
      PROVE  TellersBounded'
  <2>1. UNCHANGED <<runs, req>>
    BY <1>9 DEF BoostStep, RequestBoost, ApproveBoost, DenyBoost, RecordRequest, RecordDecision,
       DeskRefused, DeskLost
  <2> QED  BY <1>1, <2>1
<1>10. ASSUME NEW u \in Users, DeleteUser(u)
       PROVE  TellersBounded'
  <2>1. /\ DOMAIN runs' = DOMAIN runs
        /\ \A i \in DOMAIN runs :
             /\ SameRun(runs'[i], runs[i])
             /\ runs'[i].shared = runs[i].shared /\ runs'[i].told = runs[i].told
             /\ runs'[i].status = IF runs[i].user = u THEN "deleted" ELSE runs[i].status
        /\ UNCHANGED <<node, maintenance, req, desk>>
    BY <1>10, DeleteUserEffect
  <2> QED  BY <2>1, NobodyTold
<1>11. CASE NodeStep \/ SetMaintenance
  BY <1>1, <1>11 DEF NodeStep, Register, Heartbeat, HeartbeatLapses, Drain, Activate, SetMaintenance
<1>12. ASSUME NEW u \in Users, \/ Logout(u) \/ CullIdle(u) \/ Suspend(u) \/ LoseApproval(u)
                               \/ Reinstate(u) \/ SpendQuota(u) \/ SetQuota(u)
       PROVE  TellersBounded'
  BY <1>1, <1>12 DEF Logout, CullIdle, Suspend, LoseApproval, Reinstate, SpendQuota, SetQuota
<1>13. CASE UNCHANGED vars
  BY <1>1, <1>13 DEF vars
<1>14. ASSUME NEW q \in Reqs, RequestStep(q) PROVE TellersBounded'
  BY <1>3, <1>4, <1>5, <1>6, <1>7, <1>8, <1>14 DEF RequestStep
<1> QED
  BY <1>9, <1>10, <1>11, <1>12, <1>13, <1>14 DEF Next, AccountStep

(* "Mark it no longer queued so we don't spam" (scheduler.py:149), however *)
(* stops and launches overlap: a user is told of a free host no more often *)
(* for one run than requests overlap.                                      *)
THEOREM QueueSpamsFew ==
  ASSUME IsFiniteSet(Reqs)
  PROVE  Spec => []ToldByFew
<1>1. Init => TellersBounded
  BY DEF Init, TellersBounded
<1>2. IInv /\ TellersBounded /\ [Next]_vars => TellersBounded'
  BY StepTellers
<1>3. IInv /\ TellersBounded => ToldByFew
  <2> SUFFICES ASSUME IInv, TellersBounded, NEW i \in DOMAIN runs
               PROVE  runs[i].told =< Cardinality(Reqs)
    BY DEF ToldByFew
  <2>1. runs[i].told \in Nat /\ Cardinality(Reqs) \in Nat
    BY RowsTyped, FS_CardinalityType DEF IInv, Run
  <2>2. Cardinality(Tellers(i)) \in Nat
    <3>1. Tellers(i) \subseteq Reqs
      BY DEF Tellers
    <3> QED  BY <3>1, FS_Subset, FS_CardinalityType
  <2>3. CASE runs[i].shared
    BY <2>1, <2>3 DEF TellersBounded
  <2>4. CASE ~runs[i].shared
    BY <2>1, <2>2, <2>4 DEF TellersBounded
  <2> QED  BY <2>3, <2>4
<1> QED  BY <1>1, <1>2, <1>3, Invariant, PTL DEF Spec

-----------------------------------------------------------------------------
(* Grants, when requests and errands overlap.  An approval that is under   *)
(* way may still make a grant good once more, and then every launch at     *)
(* hand may read it: so many sessions are set aside for it.                *)

\* The approvals of grant b that are under way.
Rulings(b) == {d \in Desks : desk[d] \in Deciding /\ desk[d].boost = b
                                                  /\ desk[d].verdict = "approved"}

RoomFor(b) ==
  LET n == Cardinality(Reqs)
      most == n * Cardinality(Desks)
      asideFor == n * Cardinality(Rulings(b))
  IN  /\ boosts[b].status = "approved" => Sessions(b) + n + asideFor =< most
      /\ boosts[b].status \notin {"pending", "approved"} =>
           Sessions(b) + Cardinality(Carrying(b)) + asideFor =< most

UsesBounded == \A b \in DOMAIN boosts : RoomFor(b)

\* The sessions of a grant can be counted.
LEMMA SessionsTyped ==
  ASSUME NEW table \in Seq(Run), NEW b
  PROVE  Cardinality({i \in DOMAIN table : table[i].boost = b}) \in Nat
<1>1. IsFiniteSet({i \in DOMAIN table : table[i].boost = b})
  BY RowsAreFinite
<1> QED  BY <1>1, FS_CardinalityType

\* Runs that keep their number keep the sessions of a grant.
LEMMA SameSessions ==
  ASSUME DOMAIN runs' = DOMAIN runs, \A i \in DOMAIN runs : runs'[i].boost = runs[i].boost, NEW b
  PROVE  Sessions(b)' = Sessions(b)
BY DEF Sessions

\* A request for a boost that waits for its decision has been used by nobody.
LEMMA PendingIsUnused ==
  ASSUME IInv, NEW b \in DOMAIN boosts, boosts[b].status = "pending"
  PROVE  Sessions(b) = 0 /\ Carrying(b) = {}
<1>1. {i \in DOMAIN runs : runs[i].boost = b} = {}
  BY DEF IInv, GrantsTraced
<1>2. b # 0
  BY RowsTyped DEF IInv
<1>3. Carrying(b) = {}
  BY <1>2 DEF IInv, PlansStayMeaningful, Meaningful, Carrying
<1> QED  BY <1>1, <1>3, FS_EmptySet DEF Sessions

\* A commit of a launch adds a session to the grant it carries, and no other step
\* adds one.
LEMMA RecordLaunchUses ==
  ASSUME IInv, NEW q \in Reqs, RecordLaunch(q), NEW b \in DOMAIN boosts
  PROVE  /\ DOMAIN boosts' = DOMAIN boosts
         /\ UNCHANGED desk
         /\ \/ /\ Sessions(b)' = Sessions(b) /\ Carrying(b)' \subseteq Carrying(b)
               /\ boosts'[b].status = boosts[b].status
            \/ /\ Sessions(b)' = Sessions(b) + 1 /\ Carrying(b)' \subseteq Carrying(b)
               /\ Carrying(b)' # Carrying(b) /\ boosts'[b].status = "consumed"
<1> DEFINE r == req[q]
           n == Len(runs) + 1
           used == {i \in DOMAIN runs : runs[i].boost = b}
<1>0. req \in [Reqs -> Request] /\ runs \in Seq(Run) /\ b # 0
  BY RowsTyped DEF IInv, TypeOK
<1>1. /\ r \in Launching /\ NewRun(r) \in Run
      /\ r.boost \in Nat
      /\ runs' \in Seq(Run) /\ DOMAIN runs' = DOMAIN runs \cup {n}
      /\ n \in Nat \ {0} /\ n \notin DOMAIN runs /\ \A i \in DOMAIN runs : i < n /\ i \in Nat
      /\ \A i \in DOMAIN runs :
           /\ SameRun(runs'[i], runs[i])
           /\ runs'[i].shared = runs[i].shared /\ runs'[i].told = runs[i].told
           /\ runs'[i].status = IF i = r.old THEN "stopped" ELSE runs[i].status
           /\ runs'[i].status = "deleted" <=> runs[i].status = "deleted"
      /\ runs'[n] = NewRun(r)
      /\ boosts' \in Seq(Boost) /\ DOMAIN boosts' = DOMAIN boosts
      /\ \A c \in DOMAIN boosts :
           /\ boosts'[c].user = boosts[c].user /\ boosts'[c].gpus = boosts[c].gpus
           /\ boosts'[c].status = IF c = r.boost THEN "consumed" ELSE boosts[c].status
      /\ req'[q] \in Request /\ req'[q] \notin Launching /\ req'[q] \notin Updating
      /\ req' = [req EXCEPT ![q] = req'[q]]
      /\ UNCHANGED <<node, account, spent, maintenance, server, desk>>
  BY RecordLaunchEffect
<1>2. runs'[n].boost = r.boost
  BY <1>1 DEF NewRun
<1>3. r = req[q]
  OBVIOUS
<1> HIDE DEF r, n
<1>4. Carrying(b)' \subseteq Carrying(b) /\ q \notin Carrying(b)'
  BY <1>0, <1>1 DEF Carrying
<1>5. \A i \in DOMAIN runs : runs'[i].boost = runs[i].boost
  BY <1>1 DEF SameRun
<1>6. CASE r.boost # b
  <2>1. {i \in DOMAIN runs : runs[i].boost = b}' = used
    BY <1>1, <1>2, <1>5, <1>6
  <2>2. Sessions(b)' = Sessions(b)
    BY <2>1 DEF Sessions
  <2> QED  BY <1>1, <1>4, <1>6, <2>2
<1>7. CASE r.boost = b
  <2>1. {i \in DOMAIN runs : runs[i].boost = b}' = used \cup {n}
    BY <1>1, <1>2, <1>5, <1>7
  <2>2. IsFiniteSet(used) /\ n \notin used
    BY <1>0, <1>1, RowsAreFinite
  <2> HIDE DEF used
  <2>3. Cardinality(used \cup {n}) = Cardinality(used) + 1
    BY <2>2, FS_AddElement
  <2>4. Sessions(b)' = Sessions(b) + 1
    BY <2>1, <2>3 DEF Sessions, used
  <2>5. q \in Carrying(b)
    BY <1>1, <1>3, <1>7 DEF Carrying
  <2> QED  BY <1>1, <1>4, <1>7, <2>4, <2>5
<1> QED  BY <1>6, <1>7

\* What a step may do to a grant that is decided afterwards.
LEMMA GrantStep ==
  ASSUME IInv, [Next]_vars, NEW b \in DOMAIN boosts', boosts'[b].status # "pending"
  PROVE  /\ b \in DOMAIN boosts
         /\ Rulings(b)' \subseteq Rulings(b)
         /\ boosts'[b].status = "approved" /\ boosts[b].status # "approved" => Rulings(b)' # Rulings(b)
         /\ \/ Sessions(b)' = Sessions(b) /\ Carrying(b)' \subseteq Carrying(b)
            \/ Sessions(b)' = Sessions(b) /\ boosts[b].status = "approved" /\ boosts'[b].status = "approved"
            \/ /\ Sessions(b)' = Sessions(b) + 1 /\ Carrying(b)' \subseteq Carrying(b)
               /\ Carrying(b)' # Carrying(b) /\ boosts'[b].status = "consumed"
<1>0. /\ req \in [Reqs -> Request] /\ desk \in [Desks -> Errand]
      /\ DOMAIN boosts = 1..Len(boosts) /\ Len(boosts) \in Nat
  BY RowsTyped DEF IInv, TypeOK
<1>1. Quiet => Sessions(b)' = Sessions(b) /\ Carrying(b)' \subseteq Carrying(b)
  <2> SUFFICES ASSUME Quiet
               PROVE  Sessions(b)' = Sessions(b) /\ Carrying(b)' \subseteq Carrying(b)
    OBVIOUS
  <2>1. NothingNew
    BY QuietStepAddsNothing
  <2>2. Sessions(b)' = Sessions(b)
    BY <2>1, SameSessions DEF NothingNew, SameRuns, SameRun
  <2>3. Carrying(b)' \subseteq Carrying(b)
    BY <2>1 DEF NothingNew, SamePlans, Carrying
  <2> QED  BY <2>2, <2>3
<1>2. ASSUME NEW d \in Desks, BoostStep(d)
      PROVE  /\ b \in DOMAIN boosts
             /\ Rulings(b)' \subseteq Rulings(b)
             /\ boosts'[b].status = "approved" /\ boosts[b].status # "approved" => Rulings(b)' # Rulings(b)
             /\ Sessions(b)' = Sessions(b) /\ Carrying(b)' \subseteq Carrying(b)
  <2>1. UNCHANGED <<runs, req>>
    BY <1>2 DEF BoostStep, RequestBoost, ApproveBoost, DenyBoost, RecordRequest, RecordDecision,
       DeskRefused, DeskLost
  <2>2. Sessions(b)' = Sessions(b) /\ Carrying(b)' = Carrying(b)
    BY <2>1 DEF Sessions, Carrying
  <2>3. CASE DeskRefused(d) \/ DeskLost(d)
    <3>1. desk' = [desk EXCEPT ![d] = Idle] /\ UNCHANGED boosts
      BY <2>3 DEF DeskRefused, DeskLost
    <3>2. Rulings(b)' \subseteq Rulings(b)
      BY <1>0, <3>1, IdleCarriesNothing DEF Rulings
    <3> QED  BY <2>2, <3>1, <3>2
  <2>4. CASE \E u \in Users, gpus \in 1..MaxGpus : RequestBoost(d, u, gpus)
    <3>1. PICK u \in Users, gpus \in 1..MaxGpus : RequestBoost(d, u, gpus)
      BY <2>4
    <3> DEFINE e == [pc |-> "asking", user |-> u, gpus |-> gpus, pending |-> PendingOf(u)]
    <3>2. desk' = [desk EXCEPT ![d] = e] /\ UNCHANGED boosts /\ e.pc = "asking"
      BY <3>1 DEF RequestBoost
    <3> HIDE DEF e
    <3>3. Rulings(b)' \subseteq Rulings(b)
      BY <1>0, <3>2 DEF Rulings, Deciding
    <3> QED  BY <2>2, <3>2, <3>3
  <2>5. CASE \E c \in DOMAIN boosts : DenyBoost(d, c)
    <3>1. PICK c \in DOMAIN boosts : DenyBoost(d, c)
      BY <2>5
    <3>2. desk'[d].verdict = "denied" /\ UNCHANGED boosts /\ \A x \in Desks : x # d => desk'[x] = desk[x]
      BY <1>0, <3>1 DEF DenyBoost
    <3>3. Rulings(b)' \subseteq Rulings(b)
      BY <3>2 DEF Rulings
    <3> QED  BY <2>2, <3>2, <3>3
  <2>6. CASE \E c \in DOMAIN boosts, gpus \in 1..MaxGpus : ApproveBoost(d, c, gpus)
    <3>1. PICK c \in DOMAIN boosts, gpus \in 1..MaxGpus : ApproveBoost(d, c, gpus)
      BY <2>6
    <3>2. /\ desk'[d].boost = c /\ UNCHANGED boosts /\ \A x \in Desks : x # d => desk'[x] = desk[x]
          /\ boosts[c].status = "pending"
      BY <1>0, <3>1 DEF ApproveBoost
    <3>3. c # b
      BY <3>2
    <3>4. Rulings(b)' \subseteq Rulings(b)
      BY <3>2, <3>3 DEF Rulings
    <3> QED  BY <2>2, <3>2, <3>4
  <2>7. CASE RecordRequest(d)
    <3> DEFINE e == desk[d]
               m == Len(boosts) + 1
    <3>1. /\ DOMAIN boosts' = DOMAIN boosts \cup {m}
          /\ \A c \in DOMAIN boosts :
               /\ boosts'[c].user = boosts[c].user /\ boosts'[c].gpus = boosts[c].gpus
               /\ boosts'[c].status = IF c \in e.pending THEN "expired" ELSE boosts[c].status
               /\ boosts'[c].status = "deleted" <=> boosts[c].status = "deleted"
          /\ boosts'[m] = [user |-> e.user, gpus |-> e.gpus, status |-> "pending"]
          /\ desk' = [desk EXCEPT ![d] = Idle]
      BY <2>7, RecordRequestEffect
    <3>2. b \in DOMAIN boosts
      BY <3>1
    <3>3. Rulings(b)' \subseteq Rulings(b)
      BY <1>0, <3>1, IdleCarriesNothing DEF Rulings
    <3>4. boosts'[b].status = "approved" => boosts[b].status = "approved"
      BY <3>1, <3>2
    <3> QED  BY <2>2, <3>2, <3>3, <3>4
  <2>8. CASE RecordDecision(d)
    <3> DEFINE e == desk[d]
    <3>1. /\ e \in Deciding /\ e.boost \in DOMAIN boosts
          /\ boosts' \in Seq(Boost) /\ DOMAIN boosts' = DOMAIN boosts
          /\ \A c \in DOMAIN boosts :
               /\ boosts'[c].user = boosts[c].user
               /\ c # e.boost => boosts'[c] = boosts[c]
               /\ boosts'[c].status = IF c = e.boost THEN e.verdict ELSE boosts[c].status
               /\ boosts'[c].status = "deleted" <=> boosts[c].status = "deleted"
          /\ desk' = [desk EXCEPT ![d] = Idle]
      BY <2>8, RecordDecisionEffect
    <3>2. Rulings(b)' \subseteq Rulings(b) /\ d \notin Rulings(b)'
      BY <1>0, <3>1, IdleCarriesNothing DEF Rulings
    <3>3. boosts'[b].status = "approved" /\ boosts[b].status # "approved" => d \in Rulings(b)
      BY <3>1 DEF Rulings
    <3> QED  BY <2>2, <3>1, <3>2, <3>3
  <2> QED  BY <1>2, <2>3, <2>4, <2>5, <2>6, <2>7, <2>8 DEF BoostStep
<1>3. ASSUME UNCHANGED desk, DOMAIN boosts' = DOMAIN boosts,
             \A c \in DOMAIN boosts : boosts'[c].status = "approved" => boosts[c].status = "approved"
      PROVE  /\ b \in DOMAIN boosts
             /\ Rulings(b)' = Rulings(b)
             /\ boosts'[b].status = "approved" => boosts[b].status = "approved"
  BY <1>3 DEF Rulings
<1>4. CASE UNCHANGED <<boosts, desk>> /\ Quiet
  BY <1>1, <1>3, <1>4
<1>5. ASSUME NEW u \in Users, DeleteUser(u), Quiet
      PROVE  /\ b \in DOMAIN boosts
             /\ Rulings(b)' = Rulings(b)
             /\ boosts'[b].status = "approved" => boosts[b].status = "approved"
             /\ Sessions(b)' = Sessions(b) /\ Carrying(b)' \subseteq Carrying(b)
  <2>1. /\ boosts' \in Seq(Boost) /\ DOMAIN boosts' = DOMAIN boosts
        /\ \A c \in DOMAIN boosts :
             /\ boosts'[c].user = boosts[c].user /\ boosts'[c].gpus = boosts[c].gpus
             /\ boosts'[c].status = IF boosts[c].user = u THEN "deleted" ELSE boosts[c].status
        /\ UNCHANGED <<node, maintenance, req, desk>>
    BY <1>5, DeleteUserEffect
  <2> QED  BY <1>1, <1>3, <1>5, <2>1
<1>6. ASSUME NEW q \in Reqs, RecordLaunch(q)
      PROVE  /\ b \in DOMAIN boosts
             /\ Rulings(b)' = Rulings(b)
             /\ boosts'[b].status = "approved" => boosts[b].status = "approved"
             /\ \/ Sessions(b)' = Sessions(b) /\ Carrying(b)' \subseteq Carrying(b)
                \/ /\ Sessions(b)' = Sessions(b) + 1 /\ Carrying(b)' \subseteq Carrying(b)
                   /\ Carrying(b)' # Carrying(b) /\ boosts'[b].status = "consumed"
  <2>1. DOMAIN boosts' = DOMAIN boosts
    <3>1. /\ boosts' \in Seq(Boost) /\ DOMAIN boosts' = DOMAIN boosts
      BY <1>6, RecordLaunchEffect
    <3> QED  BY <3>1
  <2>2. /\ UNCHANGED desk
        /\ \/ /\ Sessions(b)' = Sessions(b) /\ Carrying(b)' \subseteq Carrying(b)
              /\ boosts'[b].status = boosts[b].status
           \/ /\ Sessions(b)' = Sessions(b) + 1 /\ Carrying(b)' \subseteq Carrying(b)
              /\ Carrying(b)' # Carrying(b) /\ boosts'[b].status = "consumed"
    BY <1>6, <2>1, RecordLaunchUses
  <2>3. Rulings(b)' = Rulings(b)
    BY <2>2 DEF Rulings
  <2> QED  BY <2>1, <2>2, <2>3
<1>7. ASSUME NEW q \in Reqs, NEW u \in Users, NEW gpu \in Profiles, Launch(q, u, gpu)
      PROVE  /\ b \in DOMAIN boosts
             /\ Rulings(b)' = Rulings(b)
             /\ boosts'[b].status = "approved" => boosts[b].status = "approved"
             /\ Sessions(b)' = Sessions(b)
             /\ \/ Carrying(b)' \subseteq Carrying(b)
                \/ boosts[b].status = "approved" /\ boosts'[b].status = "approved"
  <2>1. UNCHANGED <<runs, boosts, desk>>
    BY <1>7 DEF Launch
  <2>2. Sessions(b)' = Sessions(b)
    BY <2>1 DEF Sessions
  <2>3. PICK r : Launched(q, u, r)
    BY <1>7, LaunchEffect
  <2>4. \A p \in Reqs : req'[p] = IF p = q THEN r ELSE req[p]
    BY <1>0, <2>3 DEF Launched
  <2>5. CASE r.boost = b
    <3>1. b # 0
      BY <1>0, <2>1
    <3>2. boosts[b].status = "approved"
      BY <2>3, <2>5, <3>1 DEF Launched
    <3> QED  BY <1>3, <2>1, <2>2, <3>2
  <2>6. CASE r.boost # b
    <3>1. Carrying(b)' \subseteq Carrying(b)
      BY <2>4, <2>6 DEF Carrying
    <3> QED  BY <1>3, <2>1, <2>2, <3>1
  <2> QED  BY <2>5, <2>6
<1>8. CASE Quiet /\ ~(\E d \in Desks : BoostStep(d)) /\ ~(\E u \in Users : DeleteUser(u))
  <2>1. UNCHANGED <<boosts, desk>>
    BY <1>8 DEF Next, vars, Quiet, RequestStep, NodeStep, AccountStep, Stop, HubStart, RecordRefused, HubStop,
       FindStopped, CloseStopped, Promote, RecordPromotion, UpdateRefused, RequestLost,
       Register, Heartbeat, HeartbeatLapses, Drain, Activate, Logout, CullIdle, Suspend,
       LoseApproval, Reinstate, SpendQuota, SetQuota, SetMaintenance
  <2> QED  BY <1>4, <1>8, <2>1
<1>9. CASE ~Quiet
  BY <1>6, <1>7, <1>9 DEF Quiet
<1>10. CASE \E u \in Users : DeleteUser(u) /\ Quiet
  BY <1>5, <1>10
<1>11. CASE \E d \in Desks : BoostStep(d)
  BY <1>2, <1>11
<1> QED  BY <1>8, <1>9, <1>10, <1>11

\* Of n sessions for each of so many.
LEMMA Multiples ==
  ASSUME NEW n \in Nat, NEW a \in Nat, NEW b \in Nat
  PROVE  /\ n * a \in Nat
         /\ a =< b => n * a =< n * b
         /\ a + 1 =< b => n * a + n =< n * b
<1>1. n * a \in Nat /\ n * b \in Nat
  OBVIOUS
<1>2. ASSUME a =< b PROVE n * a =< n * b
  <2>1. b - a \in Nat /\ n * (b - a) \in Nat
    BY <1>2
  <2>2. n * b = n * a + n * (b - a)
    OBVIOUS
  <2> QED  BY <1>1, <2>1, <2>2
<1>3. ASSUME a + 1 =< b PROVE n * a + n =< n * b
  <2>1. b - (a + 1) \in Nat /\ n * (b - (a + 1)) \in Nat
    BY <1>3
  <2>2. n * b = n * a + n + n * (b - (a + 1))
    OBVIOUS
  <2> QED  BY <1>1, <2>1, <2>2
<1> QED  BY <1>1, <1>2, <1>3

LEMMA StepUses ==
  ASSUME IsFiniteSet(Reqs), IsFiniteSet(Desks), IInv, IInv', UsesBounded, [Next]_vars
  PROVE  UsesBounded'
<1> SUFFICES ASSUME NEW b \in DOMAIN boosts', boosts'[b].status # "pending"
             PROVE  RoomFor(b)'
  BY DEF UsesBounded, RoomFor
<1> DEFINE n == Cardinality(Reqs)
           k == Cardinality(Desks)
           S == Sessions(b)
           S2 == Sessions(b)'
           C == Cardinality(Carrying(b))
           C2 == Cardinality(Carrying(b)')
           R == Cardinality(Rulings(b))
           R2 == Cardinality(Rulings(b)')
           s == boosts[b].status
           t == boosts'[b].status
<1>1. /\ b \in DOMAIN boosts
      /\ Rulings(b)' \subseteq Rulings(b)
      /\ boosts'[b].status = "approved" /\ boosts[b].status # "approved" => Rulings(b)' # Rulings(b)
      /\ \/ Sessions(b)' = Sessions(b) /\ Carrying(b)' \subseteq Carrying(b)
         \/ Sessions(b)' = Sessions(b) /\ boosts[b].status = "approved" /\ boosts'[b].status = "approved"
         \/ /\ Sessions(b)' = Sessions(b) + 1 /\ Carrying(b)' \subseteq Carrying(b)
            /\ Carrying(b)' # Carrying(b) /\ boosts'[b].status = "consumed"
  BY GrantStep
<1>2. n \in Nat /\ k \in Nat /\ S \in Nat /\ S2 \in Nat
  <2>1. runs \in Seq(Run) /\ runs' \in Seq(Run)
    BY DEF IInv, TypeOK
  <2> QED  BY <2>1, SessionsTyped, FS_CardinalityType DEF Sessions
<1>3. /\ IsFiniteSet(Carrying(b)) /\ C \in Nat /\ C =< n
      /\ IsFiniteSet(Rulings(b)) /\ R \in Nat /\ R =< k
      /\ C2 \in Nat /\ C2 =< n /\ R2 \in Nat
  <2>1. Carrying(b) \in SUBSET Reqs /\ Carrying(b)' \in SUBSET Reqs
    BY DEF Carrying
  <2>2. Rulings(b) \in SUBSET Desks /\ Rulings(b)' \in SUBSET Desks
    BY DEF Rulings
  <2> QED  BY <2>1, <2>2, FS_Subset, FS_CardinalityType
<1>4. R2 =< R /\ (t = "approved" /\ s # "approved" => R2 + 1 =< R)
  <2>1. R2 =< R /\ (R = R2 => Rulings(b) = Rulings(b)')
    BY <1>1, <1>3, FS_Subset
  <2> QED  BY <1>1, <1>3, <2>1
<1>5. Carrying(b)' \subseteq Carrying(b) => C2 =< C /\ (Carrying(b)' # Carrying(b) => C2 + 1 =< C)
  <2> SUFFICES ASSUME Carrying(b)' \subseteq Carrying(b)
               PROVE  C2 =< C /\ (Carrying(b)' # Carrying(b) => C2 + 1 =< C)
    OBVIOUS
  <2>1. C2 =< C /\ (C = C2 => Carrying(b) = Carrying(b)')
    BY <1>3, FS_Subset
  <2> QED  BY <1>3, <2>1
<1>6. s = "pending" => S = 0 /\ C = 0
  BY <1>1, PendingIsUnused, FS_EmptySet
<1>7. /\ s = "approved" => S + n + n * R =< n * k
      /\ s \notin {"pending", "approved"} => S + C + n * R =< n * k
  BY <1>1 DEF UsesBounded, RoomFor
<1>8. \/ S2 = S /\ C2 =< C
      \/ S2 = S /\ s = "approved" /\ t = "approved"
      \/ S2 = S + 1 /\ C2 + 1 =< C /\ t = "consumed"
  BY <1>1, <1>5
<1> DEFINE x == n * R
           y == n * R2
           m == n * k
<1>9. x \in Nat /\ y \in Nat /\ m \in Nat /\ x =< m /\ y =< x
  BY <1>2, <1>3, <1>4, Multiples
<1>10. t = "approved" /\ s # "approved" => y + n =< x
  BY <1>2, <1>3, <1>4, Multiples
<1>11. /\ s = "approved" => S + n + x =< m
       /\ s \notin {"pending", "approved"} => S + C + x =< m
  BY <1>7
<1> HIDE DEF n, k, S, S2, C, C2, R, R2, s, t, x, y, m
<1>12. t = "approved" => S2 + n + y =< m
  <2> SUFFICES ASSUME t = "approved" PROVE S2 + n + y =< m
    OBVIOUS
  <2>1. CASE s = "approved"
    BY <1>2, <1>3, <1>8, <1>9, <1>11, <2>1
  <2>2. CASE s = "pending"
    BY <1>2, <1>3, <1>6, <1>8, <1>9, <1>10, <2>2
  <2>3. CASE s \notin {"pending", "approved"}
    BY <1>2, <1>3, <1>8, <1>9, <1>10, <1>11, <2>3
  <2> QED  BY <2>1, <2>2, <2>3
<1>13. t # "approved" => S2 + C2 + y =< m
  <2> SUFFICES ASSUME t # "approved" PROVE S2 + C2 + y =< m
    OBVIOUS
  <2>1. CASE s = "approved"
    BY <1>2, <1>3, <1>8, <1>9, <1>11, <2>1
  <2>2. CASE s = "pending"
    BY <1>2, <1>3, <1>6, <1>8, <1>9, <2>2
  <2>3. CASE s \notin {"pending", "approved"}
    BY <1>2, <1>3, <1>8, <1>9, <1>11, <2>3
  <2> QED  BY <2>1, <2>2, <2>3
<1> QED  BY <1>12, <1>13 DEF RoomFor, n, k, S2, C2, R2, t, y, m

(* However launches and decisions overlap, a grant serves no more sessions *)
(* than there are pairs of a request and an errand that overlap: the       *)
(* launches that had read it before it was consumed, once for every        *)
(* approval that had read it pending (notebooks.py:78-84, 147,             *)
(* admin.py:445-460).                                                      *)
THEOREM GrantsServeFew ==
  ASSUME IsFiniteSet(Reqs), IsFiniteSet(Desks)
  PROVE  Spec => []GrantUsesBounded
<1>1. Init => UsesBounded
  BY DEF Init, UsesBounded
<1>2. IInv /\ IInv' /\ UsesBounded /\ [Next]_vars => UsesBounded'
  BY StepUses
<1>3. IInv /\ UsesBounded => GrantUsesBounded
  <2> SUFFICES ASSUME IInv, UsesBounded, NEW b \in DOMAIN boosts
               PROVE  Sessions(b) =< Cardinality(Reqs) * Cardinality(Desks)
    BY DEF GrantUsesBounded
  <2> DEFINE m == Cardinality(Reqs) * Cardinality(Desks)
             x == Cardinality(Reqs) * Cardinality(Rulings(b))
  <2>1. Sessions(b) \in Nat
    BY SessionsTyped DEF Sessions, IInv, TypeOK
  <2>2. /\ Cardinality(Carrying(b)) \in Nat /\ Cardinality(Reqs) \in Nat /\ Cardinality(Desks) \in Nat
        /\ Cardinality(Rulings(b)) \in Nat
    <3>1. Carrying(b) \in SUBSET Reqs /\ Rulings(b) \in SUBSET Desks
      BY DEF Carrying, Rulings
    <3> QED  BY <3>1, FS_Subset, FS_CardinalityType
  <2>3. m \in Nat /\ x \in Nat
    BY <2>2, Multiples
  <2>4. boosts[b].status = "pending" => Sessions(b) = 0
    BY PendingIsUnused
  <2>5. /\ boosts[b].status = "approved" => Sessions(b) + Cardinality(Reqs) + x =< m
        /\ boosts[b].status \notin {"pending", "approved"} =>
             Sessions(b) + Cardinality(Carrying(b)) + x =< m
    BY DEF UsesBounded, RoomFor
  <2> HIDE DEF m, x
  <2>6. Sessions(b) =< m
    BY <2>1, <2>2, <2>3, <2>4, <2>5
  <2> QED  BY <2>6 DEF m
<1> QED  BY <1>1, <1>2, <1>3, Invariant, PTL DEF Spec

(* A grant is "good for exactly one session" (models.py:152) where neither *)
(* two launches nor two decisions overlap.                                 *)
THEOREM GrantsServeOnce ==
  ASSUME NEW CONSTANT c, NEW CONSTANT d, Reqs = {c}, Desks = {d}
  PROVE  Spec => [](\A b \in DOMAIN boosts : Sessions(b) =< 1)
<1>1. /\ IsFiniteSet(Reqs) /\ Cardinality(Reqs) = 1
      /\ IsFiniteSet(Desks) /\ Cardinality(Desks) = 1
  BY FS_Singleton, Zenon
<1>2. GrantUsesBounded => \A b \in DOMAIN boosts : Sessions(b) =< 1
  <2>1. Cardinality(Reqs) * Cardinality(Desks) = 1
    BY <1>1
  <2> QED  BY <2>1, Zenon DEF GrantUsesBounded
<1>3. Spec => []GrantUsesBounded
  BY <1>1, GrantsServeFew
<1> QED  BY <1>2, <1>3, PTL

-----------------------------------------------------------------------------
(* Grants, when boost requests and decisions come one at a time: then a    *)
(* grant that a run has used stays consumed, and covers the run.           *)

\* What a step may do to a grant once it is approved: use it up, or delete it.
OnlyUsedUp ==
  \A b \in DOMAIN boosts :
    /\ b \in DOMAIN boosts'
    /\ boosts[b].status \in {"approved", "consumed", "deleted"} =>
         /\ boosts'[b].gpus = boosts[b].gpus
         /\ boosts'[b].status \in {"approved", "consumed", "deleted"}
         /\ boosts[b].status # "approved" => boosts'[b].status # "approved"

\* The grant of run i is used up, and covers it.
Paid(i) ==
  runs[i].boost # 0 =>
    /\ boosts[runs[i].boost].status \in {"consumed", "deleted"}
    /\ Cardinality(runs[i].span) =< boosts[runs[i].boost].gpus
    /\ runs[i].gpus \in 1..boosts[runs[i].boost].gpus

\* That is all there is to the accounts: the rest is so in any case.
LEMMA PaidRuns ==
  IInv => (ConsumedGrantHasRun /\ BoostWithinGrant <=> \A i \in DOMAIN runs : Paid(i))
<1> SUFFICES ASSUME IInv
             PROVE  ConsumedGrantHasRun /\ BoostWithinGrant <=> \A i \in DOMAIN runs : Paid(i)
  OBVIOUS
<1>1. ASSUME NEW i \in DOMAIN runs, runs[i].boost # 0
      PROVE  /\ runs[i].boost \in DOMAIN boosts
             /\ boosts[runs[i].boost].status = "deleted" <=> runs[i].status = "deleted"
  <2>1. runs[i].boost \in DOMAIN boosts
    BY <1>1 DEF IInv, RunsKnowTheirBoost
  <2>2. runs[i].user = boosts[runs[i].boost].user
    BY <2>1 DEF IInv, GrantsTraced
  <2> QED  BY <2>1, <2>2 DEF IInv, DeletedWithUser
<1>2. 0 \notin DOMAIN boosts
  BY RowsTyped DEF IInv
<1>3. ASSUME ConsumedGrantHasRun, BoostWithinGrant, NEW i \in DOMAIN runs
      PROVE  Paid(i)
  BY <1>1, <1>3 DEF ConsumedGrantHasRun, BoostWithinGrant, Paid
<1>4. ASSUME \A i \in DOMAIN runs : Paid(i)
      PROVE  ConsumedGrantHasRun /\ BoostWithinGrant
  <2>1. BoostWithinGrant
    BY <1>4 DEF Paid, BoostWithinGrant
  <2>2. \A b \in DOMAIN boosts :
          boosts[b].status = "consumed" => \E i \in DOMAIN runs : runs[i].boost = b
    BY DEF IInv, GrantsTraced
  <2>3. ASSUME NEW b \in DOMAIN boosts, NEW i \in DOMAIN runs, runs[i].boost = b
        PROVE  boosts[b].status = IF runs[i].status = "deleted" THEN "deleted" ELSE "consumed"
    BY <1>1, <1>2, <1>4, <2>3 DEF Paid
  <2> QED  BY <2>1, <2>2, <2>3 DEF ConsumedGrantHasRun
<1> QED  BY <1>3, <1>4

LEMMA PaidRunsNext ==
  IInv' => ((ConsumedGrantHasRun /\ BoostWithinGrant)' <=> (\A i \in DOMAIN runs : Paid(i))')
BY PaidRuns, PTL

\* A step that only uses grants up, and pays for what it adds, keeps the accounts.
LEMMA AccountsKept ==
  ASSUME IInv, IInv', GrantInv, OnlyUsedUp,
         \A d \in Desks : ReadingHolds(desk[d])',
         \A p \in Reqs : \/ StillGranted(req[p])'
                         \/ /\ req[p] \in Launching
                            /\ req'[p].boost = req[p].boost /\ req'[p].plan = req[p].plan,
         \A i \in DOMAIN runs' : \/ Paid(i)'
                                 \/ i \in DOMAIN runs /\ SameRun(runs'[i], runs[i])
  PROVE  GrantInv'
<1>1. \A p \in Reqs : StillGranted(req[p])'
  <2> SUFFICES ASSUME NEW p \in Reqs, req[p] \in Launching,
                      req'[p].boost = req[p].boost, req'[p].plan = req[p].plan
               PROVE  StillGranted(req[p])'
    OBVIOUS
  <2>1. StillGranted(req[p])
    BY DEF GrantInv, ReadingsHold
  <2>2. req[p].boost # 0 => req[p].boost \in DOMAIN boosts
    BY DEF IInv, PlansStayMeaningful, Meaningful
  <2> QED  BY <2>1, <2>2 DEF StillGranted, OnlyUsedUp
<1>2. \A i \in DOMAIN runs' : Paid(i)'
  <2> SUFFICES ASSUME NEW i \in DOMAIN runs', i \in DOMAIN runs, SameRun(runs'[i], runs[i])
               PROVE  Paid(i)'
    OBVIOUS
  <2>1. Paid(i)
    BY PaidRuns DEF GrantInv
  <2>2. runs[i].boost # 0 => runs[i].boost \in DOMAIN boosts
    BY DEF IInv, RunsKnowTheirBoost
  <2>3. runs'[i].boost = runs[i].boost /\ runs'[i].span = runs[i].span /\ runs'[i].gpus = runs[i].gpus
    BY DEF SameRun
  <2> QED  BY <2>1, <2>2, <2>3 DEF Paid, OnlyUsedUp
<1>3. ReadingsHold'
  BY <1>1 DEF ReadingsHold
<1> QED  BY <1>2, <1>3, PaidRunsNext DEF GrantInv

\* Runs and plans that stay as they are need nothing new.
LEMMA NothingToPay ==
  ASSUME IInv, IInv', GrantInv, OnlyUsedUp, SamePlans, SameRuns,
         \A d \in Desks : ReadingHolds(desk[d])'
  PROVE  GrantInv'
<1>1. \A p \in Reqs : \/ StillGranted(req[p])'
                      \/ /\ req[p] \in Launching
                         /\ req'[p].boost = req[p].boost /\ req'[p].plan = req[p].plan
  BY DEF SamePlans, StillGranted
<1>2. \A i \in DOMAIN runs' : i \in DOMAIN runs /\ SameRun(runs'[i], runs[i])
  BY DEF SameRuns
<1> QED  BY <1>1, <1>2, AccountsKept

\* Where neither the grants nor an errand move, an errand reads what it read.
LEMMA ReadingsAlone ==
  ASSUME GrantInv, UNCHANGED <<boosts, desk>>
  PROVE  OnlyUsedUp /\ \A d \in Desks : ReadingHolds(desk[d])'
BY DEF GrantInv, ReadingsHold, ReadingHolds, OnlyUsedUp

\* A launch reads a grant that is approved, and plans for no more than it grants.
LEMMA LaunchPaid ==
  ASSUME IInv, IInv', GrantInv,
         NEW q \in Reqs, NEW u \in Users, NEW gpu \in Profiles, Launch(q, u, gpu)
  PROVE  GrantInv'
<1>0. req \in [Reqs -> Request]
  BY DEF IInv, TypeOK
<1>1. UNCHANGED <<runs, boosts, desk>>
  BY DEF Launch
<1>2. PICK r : Launched(q, u, r)
  BY LaunchEffect
<1>3. ASSUME NEW p \in Reqs
      PROVE  StillGranted(req[p])'
  <2>1. CASE p = q
    <3>1. req'[p] = r
      BY <1>0, <1>2, <2>1 DEF Launched
    <3> QED  BY <1>1, <1>2, <3>1 DEF Launched, StillGranted
  <2>2. CASE p # q
    <3>1. req'[p] = req[p]
      BY <1>0, <1>2, <2>2 DEF Launched
    <3> QED  BY <1>1, <3>1 DEF GrantInv, ReadingsHold, StillGranted
  <2> QED  BY <2>1, <2>2
<1>4. \A i \in DOMAIN runs' : i \in DOMAIN runs /\ SameRun(runs'[i], runs[i])
  BY <1>1 DEF SameRun
<1>5. OnlyUsedUp /\ \A d \in Desks : ReadingHolds(desk[d])'
  BY <1>1, ReadingsAlone
<1> QED  BY <1>3, <1>4, <1>5, AccountsKept

\* The commit of a launch uses up the grant it read.
LEMMA RecordLaunchPaid ==
  ASSUME IInv, IInv', GrantInv, NEW q \in Reqs, RecordLaunch(q)
  PROVE  GrantInv'
<1> DEFINE r == req[q]
           n == Len(runs) + 1
<1>0. req \in [Reqs -> Request] /\ desk \in [Desks -> Errand]
  BY DEF IInv, TypeOK
<1>1. /\ r \in Launching /\ NewRun(r) \in Run
      /\ r.boost \in Nat
      /\ r.boost # 0 => /\ r.boost \in DOMAIN boosts
                        /\ boosts[r.boost].user = r.user
                        /\ boosts[r.boost].status \notin {"pending", "deleted"}
      /\ runs' \in Seq(Run) /\ DOMAIN runs' = DOMAIN runs \cup {n}
      /\ \A i \in DOMAIN runs :
           /\ SameRun(runs'[i], runs[i])
           /\ runs'[i].shared = runs[i].shared /\ runs'[i].told = runs[i].told
           /\ runs'[i].status = IF i = r.old THEN "stopped" ELSE runs[i].status
           /\ runs'[i].status = "deleted" <=> runs[i].status = "deleted"
      /\ runs'[n] = NewRun(r)
      /\ boosts' \in Seq(Boost) /\ DOMAIN boosts' = DOMAIN boosts
      /\ \A c \in DOMAIN boosts :
           /\ boosts'[c].user = boosts[c].user /\ boosts'[c].gpus = boosts[c].gpus
           /\ boosts'[c].status = IF c = r.boost THEN "consumed" ELSE boosts[c].status
      /\ req'[q] \in Request /\ req'[q] \notin Launching /\ req'[q] \notin Updating
      /\ req' = [req EXCEPT ![q] = req'[q]]
      /\ UNCHANGED <<node, account, spent, maintenance, server, desk>>
  BY RecordLaunchEffect
<1>2. StillGranted(r)
  BY DEF GrantInv, ReadingsHold
<1>3. runs'[n].boost = r.boost /\ runs'[n].span = r.plan.span /\ runs'[n].gpus = r.plan.gpus
  BY <1>1 DEF NewRun
<1>4. r = req[q]
  OBVIOUS
<1> HIDE DEF r, n
<1>5. OnlyUsedUp
  BY <1>1, <1>2 DEF OnlyUsedUp, StillGranted
<1>6. ASSUME NEW d \in Desks PROVE ReadingHolds(desk[d])'
  <2>1. ReadingHolds(desk[d]) /\ desk'[d] = desk[d]
    BY <1>1 DEF GrantInv, ReadingsHold
  <2>2. desk[d] \in Deciding => desk[d].boost \in DOMAIN boosts
    BY DEF IInv, ErrandsStayMeaningful
  <2>3. ASSUME NEW b \in DOMAIN boosts
        PROVE  /\ boosts'[b].user = boosts[b].user
               /\ b = r.boost => boosts[b].status \notin {"pending", "deleted"} /\ boosts'[b].status = "consumed"
               /\ b # r.boost => boosts'[b].status = boosts[b].status
    <3>1. b # 0
      BY RowsTyped DEF IInv
    <3> QED  BY <1>1, <3>1
  <2>4. DOMAIN boosts' = DOMAIN boosts
    BY <1>1
  <2>5. desk[d] \in Deciding => boosts'[desk[d].boost].status \in {"pending", "deleted"}
    BY <2>1, <2>2, <2>3 DEF ReadingHolds
  <2>6. ASSUME desk[d] \in Asking, NEW b \in DOMAIN boosts, boosts[b].user = desk[d].user
        PROVE  \/ boosts'[b].status = "pending" <=> b \in desk[d].pending
               \/ boosts'[b].status = "deleted"
    <3>1. CASE b = r.boost
      BY <2>1, <2>3, <2>6, <3>1 DEF ReadingHolds
    <3>2. CASE b # r.boost
      BY <2>1, <2>3, <2>6, <3>2 DEF ReadingHolds
    <3> QED  BY <3>1, <3>2
  <2> QED  BY <2>1, <2>3, <2>4, <2>5, <2>6 DEF ReadingHolds
<1>7. \A p \in Reqs : \/ StillGranted(req[p])'
                      \/ /\ req[p] \in Launching
                         /\ req'[p].boost = req[p].boost /\ req'[p].plan = req[p].plan
  <2> SUFFICES ASSUME NEW p \in Reqs, ~StillGranted(req[p])'
               PROVE  req[p] \in Launching /\ req'[p] = req[p]
    OBVIOUS
  <2>1. req'[p] \in Launching
    BY DEF StillGranted
  <2> QED  BY <1>0, <1>1, <1>4, <2>1
<1>8. ASSUME NEW i \in DOMAIN runs'
      PROVE  Paid(i)' \/ (i \in DOMAIN runs /\ SameRun(runs'[i], runs[i]))
  <2>1. CASE i = n
    BY <1>1, <1>2, <1>3, <2>1 DEF Paid, StillGranted
  <2> QED  BY <1>1, <2>1
<1> QED  BY <1>5, <1>6, <1>7, <1>8, AccountsKept

\* A user is deleted, and with the user every grant.
LEMMA DeleteUserPaid ==
  ASSUME IInv, IInv', GrantInv, NEW u \in Users, DeleteUser(u)
  PROVE  GrantInv'
<1>1. /\ runs' \in Seq(Run) /\ DOMAIN runs' = DOMAIN runs
      /\ \A i \in DOMAIN runs :
           /\ SameRun(runs'[i], runs[i])
           /\ runs'[i].shared = runs[i].shared /\ runs'[i].told = runs[i].told
           /\ runs'[i].status = IF runs[i].user = u THEN "deleted" ELSE runs[i].status
      /\ boosts' \in Seq(Boost) /\ DOMAIN boosts' = DOMAIN boosts
      /\ \A b \in DOMAIN boosts :
           /\ boosts'[b].user = boosts[b].user /\ boosts'[b].gpus = boosts[b].gpus
           /\ boosts'[b].status = IF boosts[b].user = u THEN "deleted" ELSE boosts[b].status
      /\ UNCHANGED <<node, maintenance, req, desk>>
  BY DeleteUserEffect
<1>2. SamePlans /\ SameRuns
  BY <1>1 DEF SamePlans, SameRuns
<1>3. OnlyUsedUp
  BY <1>1 DEF OnlyUsedUp
<1>4. ASSUME NEW d \in Desks PROVE ReadingHolds(desk[d])'
  <2>1. ReadingHolds(desk[d]) /\ desk'[d] = desk[d]
    BY <1>1 DEF GrantInv, ReadingsHold
  <2>2. desk[d] \in Deciding => desk[d].boost \in DOMAIN boosts
    BY DEF IInv, ErrandsStayMeaningful
  <2> QED  BY <1>1, <2>1, <2>2 DEF ReadingHolds
<1> QED  BY <1>2, <1>3, <1>4, NothingToPay

\* A boost request or a decision, where there is no other: what it writes over is what
\* it read.
LEMMA BoostStepPaid ==
  ASSUME NEW d, Desks = {d}, IInv, IInv', GrantInv, BoostStep(d)
  PROVE  GrantInv'
<1>0. desk \in [Desks -> Errand] /\ d \in Desks
  BY DEF IInv, TypeOK
<1>1. ReadingHolds(desk[d])
  BY <1>0 DEF GrantInv, ReadingsHold
<1>2. ASSUME UNCHANGED <<runs, req>>, OnlyUsedUp, ReadingHolds(desk[d])'
      PROVE  GrantInv'
  <2>1. SamePlans /\ SameRuns
    BY <1>2 DEF SamePlans, SameRuns, SameRun
  <2>2. \A x \in Desks : ReadingHolds(desk[x])'
    BY <1>2
  <2> QED  BY <1>2, <2>1, <2>2, NothingToPay
<1>3. UNCHANGED boosts => OnlyUsedUp
  BY DEF OnlyUsedUp
<1>4. desk'[d] = Idle => ReadingHolds(desk[d])'
  BY IdleCarriesNothing DEF ReadingHolds
<1>5. ASSUME NEW u \in Users, NEW gpus \in 1..MaxGpus, RequestBoost(d, u, gpus)
      PROVE  GrantInv'
  <2> DEFINE e == [pc |-> "asking", user |-> u, gpus |-> gpus, pending |-> PendingOf(u)]
  <2>1. UNCHANGED <<runs, req, boosts>> /\ desk'[d] = e
    BY <1>0, <1>5 DEF RequestBoost
  <2>2. e.pc = "asking" /\ e.user = u /\ e.pending = PendingOf(u)
    OBVIOUS
  <2> HIDE DEF e
  <2>3. ReadingHolds(desk[d])'
    BY <2>1, <2>2 DEF ReadingHolds, PendingOf, Deciding
  <2> QED  BY <1>2, <1>3, <2>1, <2>3
<1>6. ASSUME NEW b \in DOMAIN boosts,
             DenyBoost(d, b) \/ \E gpus \in 1..MaxGpus : ApproveBoost(d, b, gpus)
      PROVE  GrantInv'
  <2>1. /\ UNCHANGED <<runs, req, boosts>>
        /\ desk'[d].pc = "deciding" /\ desk'[d].boost = b /\ boosts[b].status = "pending"
    BY <1>0, <1>6 DEF DenyBoost, ApproveBoost
  <2>2. ReadingHolds(desk[d])'
    BY <2>1 DEF ReadingHolds, Asking
  <2> QED  BY <1>2, <1>3, <2>1, <2>2
<1>7. CASE RecordRequest(d)
  <2> DEFINE e == desk[d]
             m == Len(boosts) + 1
  <2>1. /\ e \in Asking /\ account[e.user] # "deleted"
        /\ \A b \in e.pending : b \in DOMAIN boosts /\ boosts[b].user = e.user
        /\ boosts' \in Seq(Boost) /\ DOMAIN boosts' = DOMAIN boosts \cup {m}
        /\ \A b \in DOMAIN boosts :
             /\ boosts'[b].user = boosts[b].user /\ boosts'[b].gpus = boosts[b].gpus
             /\ boosts'[b].status = IF b \in e.pending THEN "expired" ELSE boosts[b].status
             /\ boosts'[b].status = "deleted" <=> boosts[b].status = "deleted"
        /\ desk' = [desk EXCEPT ![d] = Idle]
        /\ UNCHANGED <<node, runs, notes, account, spent, maintenance, server, req>>
    BY <1>0, <1>7, RecordRequestEffect
  <2>2. \A b \in e.pending : boosts[b].status \in {"pending", "deleted"}
    BY <1>1, <2>1 DEF ReadingHolds
  <2>3. \A b \in e.pending : boosts[b].status = "pending"
    BY <2>1, <2>2
  <2> HIDE DEF e, m
  <2>4. OnlyUsedUp
    BY <2>1, <2>3 DEF OnlyUsedUp
  <2>5. desk'[d] = Idle
    BY <1>0, <2>1
  <2> QED  BY <1>2, <1>4, <2>1, <2>4, <2>5
<1>8. CASE RecordDecision(d)
  <2> DEFINE e == desk[d]
  <2>1. /\ e \in Deciding /\ e.boost \in DOMAIN boosts
        /\ boosts[e.boost].status # "deleted" /\ account[boosts[e.boost].user] # "deleted"
        /\ boosts' \in Seq(Boost) /\ DOMAIN boosts' = DOMAIN boosts
        /\ \A b \in DOMAIN boosts :
             /\ boosts'[b].user = boosts[b].user
             /\ b # e.boost => boosts'[b] = boosts[b]
             /\ boosts'[b].status = IF b = e.boost THEN e.verdict ELSE boosts[b].status
             /\ boosts'[b].status = "deleted" <=> boosts[b].status = "deleted"
        /\ desk' = [desk EXCEPT ![d] = Idle]
        /\ UNCHANGED <<node, runs, account, spent, maintenance, server, req>>
    BY <1>0, <1>8, RecordDecisionEffect
  <2>2. boosts[e.boost].status = "pending"
    BY <1>1, <2>1 DEF ReadingHolds
  <2> HIDE DEF e
  <2>3. OnlyUsedUp
    BY <2>1, <2>2 DEF OnlyUsedUp
  <2>4. desk'[d] = Idle
    BY <1>0, <2>1
  <2> QED  BY <1>2, <1>4, <2>1, <2>3, <2>4
<1>9. CASE DeskRefused(d) \/ DeskLost(d)
  <2>1. UNCHANGED <<runs, req, boosts>> /\ desk'[d] = Idle
    BY <1>0, <1>9 DEF DeskRefused, DeskLost
  <2> QED  BY <1>2, <1>3, <1>4, <2>1
<1> QED  BY <1>5, <1>6, <1>7, <1>8, <1>9 DEF BoostStep

LEMMA StepPaid ==
  ASSUME NEW d, Desks = {d}, IInv, IInv', GrantInv, [Next]_vars
  PROVE  GrantInv'
<1>1. CASE \E x \in Desks : BoostStep(x)
  BY <1>1, BoostStepPaid
<1>2. CASE \E u \in Users : DeleteUser(u)
  BY <1>2, DeleteUserPaid
<1>3. CASE Quiet /\ ~(\E x \in Desks : BoostStep(x)) /\ ~(\E u \in Users : DeleteUser(u))
  <2>1. UNCHANGED <<boosts, desk>>
    BY <1>3 DEF Next, vars, Quiet, RequestStep, NodeStep, AccountStep, Stop, HubStart, RecordRefused, HubStop,
       FindStopped, CloseStopped, Promote, RecordPromotion, UpdateRefused, RequestLost,
       Register, Heartbeat, HeartbeatLapses, Drain, Activate, Logout, CullIdle, Suspend,
       LoseApproval, Reinstate, SpendQuota, SetQuota, SetMaintenance
  <2>2. SamePlans /\ SameRuns
    BY <1>3, QuietStepAddsNothing DEF NothingNew
  <2> QED  BY <2>1, <2>2, ReadingsAlone, NothingToPay
<1>4. CASE ~Quiet
  BY <1>4, LaunchPaid, RecordLaunchPaid DEF Quiet
<1> QED  BY <1>1, <1>2, <1>3, <1>4

LEMMA GrantInvariant ==
  ASSUME NEW CONSTANT d, Desks = {d}
  PROVE  Spec => []GrantInv
<1>1. Init => GrantInv
  <2> SUFFICES ASSUME Init PROVE GrantInv
    OBVIOUS
  <2>1. DOMAIN runs = {} /\ DOMAIN boosts = {}
    BY DEF Init
  <2>2. (\A x \in Desks : desk[x] = Idle) /\ (\A q \in Reqs : req[q] = Idle)
    BY DEF Init
  <2>3. ReadingsHold
    BY <2>2, IdleCarriesNothing DEF ReadingsHold, ReadingHolds, StillGranted
  <2> QED  BY <2>1, <2>3 DEF GrantInv, ConsumedGrantHasRun, BoostWithinGrant
<1>2. IInv /\ IInv' /\ GrantInv /\ [Next]_vars => GrantInv'
  BY StepPaid
<1> QED  BY <1>1, <1>2, Invariant, PTL DEF Spec

(* Where no decision overlaps another one, a grant is marked consumed      *)
(* exactly when a run was recorded for it, and stays so, however many      *)
(* launches overlap (notebooks.py:147, admin.py:451).                      *)
THEOREM GrantsAccounted ==
  ASSUME NEW CONSTANT d, Desks = {d}
  PROVE  Spec => []ConsumedGrantHasRun
<1>1. GrantInv => ConsumedGrantHasRun
  BY DEF GrantInv
<1> QED  BY <1>1, GrantInvariant, PTL

(* And a boosted run spans at most the nodes that were granted, however    *)
(* many launches overlap, and though the grant was read long before the    *)
(* commit (scheduler.py:96-104).                                           *)
THEOREM BoostsBounded ==
  ASSUME NEW CONSTANT d, Desks = {d}
  PROVE  Spec => []BoostWithinGrant
<1>1. GrantInv => BoostWithinGrant
  BY DEF GrantInv
<1> QED  BY <1>1, GrantInvariant, PTL

-----------------------------------------------------------------------------
(* And when launches come one at a time as well, the gateway implements    *)
(* BoostGrants.                                                            *)

\* Nobody else has used up the grant that a launch has read.
GrantUnspent ==
  \A q \in Reqs : req[q] \in Launching /\ req[q].boost # 0 =>
                    boosts[req[q].boost].status # "consumed"

\* Only the commit of a launch marks a grant consumed.
LEMMA OnlyLaunchesConsume ==
  ASSUME IInv, [Next]_vars, Quiet, NEW b \in DOMAIN boosts
  PROVE  boosts'[b].status = "consumed" => boosts[b].status = "consumed"
<1>0. /\ DOMAIN boosts = 1..Len(boosts) /\ desk \in [Desks -> Errand]
  BY RowsTyped DEF IInv, TypeOK
<1>1. CASE \E d \in Desks : RecordRequest(d)
  BY <1>1, RecordRequestEffect
<1>2. ASSUME NEW d \in Desks, RecordDecision(d)
      PROVE  boosts'[b].status = "consumed" => boosts[b].status = "consumed"
  <2>1. /\ desk[d] \in Deciding
        /\ \A c \in DOMAIN boosts :
             boosts'[c].status = IF c = desk[d].boost THEN desk[d].verdict ELSE boosts[c].status
    BY <1>2, RecordDecisionEffect
  <2> QED  BY <2>1 DEF Deciding
<1>3. CASE \E u \in Users : DeleteUser(u)
  BY <1>3, DeleteUserEffect
<1>4. CASE /\ ~(\E d \in Desks : RecordRequest(d) \/ RecordDecision(d))
           /\ ~(\E u \in Users : DeleteUser(u))
  <2>1. UNCHANGED boosts
    BY <1>4 DEF Next, vars, Quiet, RequestStep, BoostStep, NodeStep, AccountStep, Stop, HubStart,
       RecordRefused, HubStop, FindStopped, CloseStopped, Promote, RecordPromotion, UpdateRefused,
       RequestLost, RequestBoost, ApproveBoost, DenyBoost, DeskRefused, DeskLost,
       Register, Heartbeat, HeartbeatLapses, Drain, Activate, Logout, CullIdle, Suspend,
       LoseApproval, Reinstate, SpendQuota, SetQuota, SetMaintenance
  <2> QED  BY <2>1
<1> QED  BY <1>1, <1>2, <1>3, <1>4

LEMMA StepUnspent ==
  ASSUME NEW c, Reqs = {c}, IInv, GrantUnspent, [Next]_vars
  PROVE  GrantUnspent'
<1>0. req \in [Reqs -> Request] /\ c \in Reqs
  BY DEF IInv, TypeOK
<1> SUFFICES ASSUME req'[c] \in Launching, req'[c].boost # 0
             PROVE  boosts'[req'[c].boost].status # "consumed"
  BY DEF GrantUnspent
<1>1. ASSUME NEW u \in Users, NEW gpu \in Profiles, Launch(c, u, gpu)
      PROVE  boosts'[req'[c].boost].status # "consumed"
  <2>1. PICK r : Launched(c, u, r)
    BY <1>0, <1>1, LaunchEffect
  <2>2. req'[c] = r /\ UNCHANGED boosts
    BY <1>0, <1>1, <2>1 DEF Launched, Launch
  <2> QED  BY <2>1, <2>2 DEF Launched
<1>2. ~RecordLaunch(c)
  <2>1. RecordLaunch(c) => req'[c] \notin Launching
    BY <1>0, RecordLaunchEffect
  <2> QED  BY <2>1
<1>3. CASE Quiet
  <2>1. req[c] \in Launching /\ req'[c].boost = req[c].boost
    BY <1>0, <1>3, QuietStepAddsNothing DEF NothingNew, SamePlans
  <2>2. req[c].boost \in DOMAIN boosts
    BY <1>0, <2>1 DEF IInv, PlansStayMeaningful, Meaningful
  <2> QED  BY <1>0, <1>3, <2>1, <2>2, OnlyLaunchesConsume DEF GrantUnspent
<1> QED  BY <1>1, <1>2, <1>3 DEF Quiet

Grant(b) == [user |-> boosts[b].user, status |-> boosts[b].status, sessions |-> Sessions(b)]

Mapped == [b \in DOMAIN boosts |-> Grant(b)]

\* A step that leaves the user and the status of every grant, and the sessions,
\* is a stutter of BoostGrants.
LEMMA GrantsStutter ==
  ASSUME DOMAIN boosts' = DOMAIN boosts,
         \A b \in DOMAIN boosts : boosts'[b].user = boosts[b].user /\ boosts'[b].status = boosts[b].status,
         DOMAIN runs' = DOMAIN runs, \A i \in DOMAIN runs : runs'[i].boost = runs[i].boost
  PROVE  Mapped' = Mapped
<1>1. \A b \in DOMAIN boosts : Sessions(b)' = Sessions(b)
  BY SameSessions
<1>2. \A b \in DOMAIN boosts : Grant(b)' = Grant(b)
  BY <1>1 DEF Grant
<1> QED  BY <1>2 DEF Mapped

\* The steps of BoostGrants, on the mapped state.
LEMMA MappedSteps ==
  /\ \A u : Grants!Ask(u) <=>
       Mapped' = Append([b \in DOMAIN Mapped |->
                           IF Mapped[b].user = u /\ Mapped[b].status = "pending"
                           THEN [Mapped[b] EXCEPT !.status = "expired"] ELSE Mapped[b]],
                        [user |-> u, status |-> "pending", sessions |-> 0])
  /\ \A b, verdict : Grants!Decide(b, verdict) <=>
       /\ Mapped[b].status = "pending"
       /\ Mapped' = [Mapped EXCEPT ![b].status = verdict]
  /\ \A b : Grants!Use(b) <=>
       /\ Mapped[b].status = "approved"
       /\ Mapped' = [Mapped EXCEPT ![b].status = "consumed", ![b].sessions = 1]
  /\ \A u : Grants!Forget(u) <=>
       Mapped' = [b \in DOMAIN Mapped |-> IF Mapped[b].user = u
                                          THEN [Mapped[b] EXCEPT !.status = "deleted"] ELSE Mapped[b]]
BY DEF Mapped, Grant, Grants!Ask, Grants!Decide, Grants!Use, Grants!Forget

\* A request is recorded: exactly the pending ones of its user expire.
LEMMA AskImplements ==
  ASSUME IInv, NEW d \in Desks, ReadingHolds(desk[d]), RecordRequest(d)
  PROVE  \E u \in Users : Grants!Ask(u)
<1>0. PICK u, gpus, old, n :
        u = desk[d].user /\ gpus = desk[d].gpus /\ old = desk[d].pending /\ n = Len(boosts) + 1
  OBVIOUS
<1> DEFINE asked(b) == boosts[b].user = u /\ boosts[b].status = "pending"
           e == [user |-> u, gpus |-> gpus, status |-> "pending"]
           T == [b \in DOMAIN Mapped |->
                   IF Mapped[b].user = u /\ Mapped[b].status = "pending"
                   THEN [Mapped[b] EXCEPT !.status = "expired"] ELSE Mapped[b]]
           E == [user |-> u, status |-> "pending", sessions |-> 0]
<1>1. /\ desk[d] \in Asking /\ account[desk[d].user] # "deleted"
      /\ \A b \in old : b \in DOMAIN boosts /\ boosts[b].user = u
      /\ DOMAIN boosts' = DOMAIN boosts \cup {n}
      /\ \A b \in DOMAIN boosts :
           /\ boosts'[b].user = boosts[b].user /\ boosts'[b].gpus = boosts[b].gpus
           /\ boosts'[b].status = IF b \in old THEN "expired" ELSE boosts[b].status
           /\ boosts'[b].status = "deleted" <=> boosts[b].status = "deleted"
      /\ boosts'[n] = e
      /\ UNCHANGED <<node, runs, notes, account, spent, maintenance, server, req>>
  BY <1>0, RecordRequestEffect
<1>2. /\ DOMAIN boosts = 1..Len(boosts) /\ Len(boosts) \in Nat
      /\ \A b \in DOMAIN boosts : boosts[b] \in Boost
  BY RowsTyped DEF IInv
<1>3. DOMAIN T = 1..Len(boosts) /\ DOMAIN boosts' = 1..n
  BY <1>0, <1>1, <1>2 DEF Mapped
<1>4. \A b \in DOMAIN boosts : b \in old <=> asked(b)
  <2> SUFFICES ASSUME NEW b \in DOMAIN boosts PROVE b \in old <=> asked(b)
    OBVIOUS
  <2>1. boosts[b].user = u => boosts[b].status # "deleted"
    BY <1>0, <1>1 DEF IInv, DeletedWithUser
  <2>2. boosts[b].user = u => (boosts[b].status = "pending" <=> b \in old)
    BY <1>0, <1>1, <2>1 DEF ReadingHolds
  <2> QED  BY <1>1, <2>2
<1>5. \A b \in DOMAIN boosts :
        T[b] = [user |-> boosts[b].user,
                status |-> IF asked(b) THEN "expired" ELSE boosts[b].status,
                sessions |-> Sessions(b)]
  BY DEF Mapped, Grant
<1>6. e.user = u /\ e.status = "pending" /\ u \in Users
  BY <1>0, <1>1 DEF Asking
<1>7. T = [b \in 1..Len(boosts) |-> T[b]]
  BY <1>3
<1> HIDE DEF T, e, E, asked
<1>8. \A b \in DOMAIN boosts : /\ boosts'[b].user = boosts[b].user
                               /\ boosts'[b].status = IF asked(b) THEN "expired" ELSE boosts[b].status
  BY <1>1, <1>4
<1>9. /\ DOMAIN Append(T, E) = 1..n
      /\ Append(T, E) = [b \in 1..n |-> Append(T, E)[b]]
      /\ \A b \in DOMAIN boosts : Append(T, E)[b] = T[b]
      /\ Append(T, E)[n] = E
  <2>1. T \in Seq({T[b] : b \in 1..Len(boosts)} \cup {E})
    <3> DEFINE S == {T[b] : b \in 1..Len(boosts)} \cup {E}
    <3>1. T \in [1..Len(boosts) -> S]  BY <1>7
    <3> HIDE DEF S
    <3> QED  BY <1>2, <3>1, SeqDef DEF S
  <2>2. Len(T) = Len(boosts)
    BY <1>2, <1>3, <2>1, LenProperties
  <2>3. Append(T, E) \in Seq({T[b] : b \in 1..Len(boosts)} \cup {E})
    BY <2>1
  <2>4. /\ DOMAIN Append(T, E) = 1..(Len(T) + 1)
        /\ \A b \in DOMAIN T : Append(T, E)[b] = T[b]
        /\ Append(T, E)[Len(T) + 1] = E
    BY <2>1, TableWithNewRow
  <2> DEFINE A == Append(T, E)
  <2>5. A = [b \in DOMAIN A |-> A[b]]
    <3> HIDE DEF A
    <3>1. A \in [1..Len(A) -> {T[b] : b \in 1..Len(boosts)} \cup {E}]
      BY <2>3, LenProperties DEF A
    <3> QED  BY <3>1
  <2> QED  BY <1>0, <1>2, <1>3, <2>2, <2>4, <2>5
<1>10. \A b : Sessions(b)' = Sessions(b)
  BY <1>1, SameSessions
<1>11. Sessions(n) = 0
  <2>1. n \notin DOMAIN boosts /\ n # 0  BY <1>0, <1>2
  <2>2. {i \in DOMAIN runs : runs[i].boost = n} = {}
    BY <2>1 DEF IInv, RunsKnowTheirBoost
  <2> QED  BY <2>2, FS_EmptySet DEF Sessions
<1>12. \A b \in 1..n : Grant(b)' = Append(T, E)[b]
  <2> SUFFICES ASSUME NEW b \in 1..n PROVE Grant(b)' = Append(T, E)[b]
    OBVIOUS
  <2>1. CASE b \in DOMAIN boosts
    BY <1>5, <1>8, <1>9, <1>10, <2>1 DEF Grant
  <2>2. CASE b = n
    BY <1>1, <1>6, <1>9, <1>10, <1>11, <2>2 DEF Grant, E
  <2>3. b \in DOMAIN boosts \/ b = n
    BY <1>0, <1>2
  <2> QED  BY <2>1, <2>2, <2>3
<1>13. Mapped' = [b \in 1..n |-> Append(T, E)[b]]
  BY <1>3, <1>12 DEF Mapped
<1>14. Mapped' = Append(T, E)
  BY <1>9, <1>13
<1> QED  BY <1>6, <1>14, MappedSteps DEF T, E

\* A decision changes the status of the one grant that was pending.
LEMMA DecideImplements ==
  ASSUME IInv, NEW d \in Desks, ReadingHolds(desk[d]), RecordDecision(d)
  PROVE  \E b \in DOMAIN boosts : Grants!Decide(b, "approved") \/ Grants!Decide(b, "denied")
<1>0. PICK b, verdict : b = desk[d].boost /\ verdict = desk[d].verdict
  OBVIOUS
<1>1. /\ desk[d] \in Deciding /\ b \in DOMAIN boosts
      /\ boosts[b].status # "deleted"
      /\ DOMAIN boosts' = DOMAIN boosts
      /\ \A a \in DOMAIN boosts :
           /\ boosts'[a].user = boosts[a].user
           /\ boosts'[a].status = IF a = b THEN verdict ELSE boosts[a].status
      /\ UNCHANGED runs
  BY <1>0, RecordDecisionEffect
<1>2. boosts[b].status = "pending" /\ verdict \in {"approved", "denied"}
  BY <1>0, <1>1 DEF ReadingHolds, Deciding
<1>3. \A a : Sessions(a)' = Sessions(a)
  BY <1>1, SameSessions
<1>4. \A a \in DOMAIN boosts : Mapped[a] = Grant(a)
  BY DEF Mapped
<1>5. [Mapped[b] EXCEPT !.status = verdict] =
        [user |-> boosts[b].user, status |-> verdict, sessions |-> Sessions(b)]
  <2>1. Mapped[b] = [user |-> boosts[b].user, status |-> boosts[b].status, sessions |-> Sessions(b)]
    BY <1>1, <1>4 DEF Grant
  <2> QED  BY <2>1
<1>6. \A a \in DOMAIN boosts : Grant(a)' = IF a = b THEN [Mapped[b] EXCEPT !.status = verdict] ELSE Mapped[a]
  BY <1>1, <1>3, <1>4, <1>5 DEF Grant
<1>7. Mapped' = [Mapped EXCEPT ![b].status = verdict]
  BY <1>1, <1>6 DEF Mapped
<1>8. Mapped[b].status = "pending"
  BY <1>1, <1>2 DEF Mapped, Grant
<1>9. Grants!Decide(b, verdict)
  BY <1>7, <1>8, MappedSteps
<1> QED  BY <1>1, <1>2, <1>9

\* The account of a user is deleted.
LEMMA ForgetImplements ==
  ASSUME IInv, NEW u \in Users, DeleteUser(u)
  PROVE  Grants!Forget(u)
<1>1. /\ runs' \in Seq(Run) /\ DOMAIN runs' = DOMAIN runs
      /\ \A i \in DOMAIN runs :
           /\ SameRun(runs'[i], runs[i])
           /\ runs'[i].shared = runs[i].shared /\ runs'[i].told = runs[i].told
           /\ runs'[i].status = IF runs[i].user = u THEN "deleted" ELSE runs[i].status
      /\ boosts' \in Seq(Boost) /\ DOMAIN boosts' = DOMAIN boosts
      /\ \A b \in DOMAIN boosts :
           /\ boosts'[b].user = boosts[b].user /\ boosts'[b].gpus = boosts[b].gpus
           /\ boosts'[b].status = IF boosts[b].user = u THEN "deleted" ELSE boosts[b].status
  BY DeleteUserEffect
<1>2. \A b : Sessions(b)' = Sessions(b)
  BY <1>1, SameSessions DEF SameRun
<1>3. \A b \in DOMAIN boosts :
        Grant(b)' = IF Mapped[b].user = u THEN [Mapped[b] EXCEPT !.status = "deleted"] ELSE Mapped[b]
  BY <1>1, <1>2 DEF Grant, Mapped
<1>4. Mapped' = [b \in DOMAIN Mapped |-> IF Mapped[b].user = u
                                         THEN [Mapped[b] EXCEPT !.status = "deleted"] ELSE Mapped[b]]
  BY <1>1, <1>3 DEF Mapped
<1> QED  BY <1>4, MappedSteps

\* The commit of a launch uses up the grant it read, for the one session it
\* records; without a grant it leaves the grants alone.
LEMMA UseImplements ==
  ASSUME IInv, GrantInv, GrantUnspent, NEW q \in Reqs, RecordLaunch(q)
  PROVE  \/ Mapped' = Mapped
         \/ \E b \in DOMAIN boosts : Grants!Use(b)
<1>0. PICK r, n, g : r = req[q] /\ n = Len(runs) + 1 /\ g = r.boost
  OBVIOUS
<1>1. /\ r \in Launching /\ NewRun(r) \in Run
      /\ r.boost \in Nat
      /\ r.boost # 0 => /\ r.boost \in DOMAIN boosts
                        /\ boosts[r.boost].user = r.user
                        /\ boosts[r.boost].status \notin {"pending", "deleted"}
      /\ DOMAIN runs' = DOMAIN runs \cup {n}
      /\ n \notin DOMAIN runs /\ \A i \in DOMAIN runs : i < n /\ i \in Nat
      /\ \A i \in DOMAIN runs :
           /\ SameRun(runs'[i], runs[i])
           /\ runs'[i].shared = runs[i].shared /\ runs'[i].told = runs[i].told
           /\ runs'[i].status = IF i = r.old THEN "stopped" ELSE runs[i].status
           /\ runs'[i].status = "deleted" <=> runs[i].status = "deleted"
      /\ runs'[n] = NewRun(r)
      /\ DOMAIN boosts' = DOMAIN boosts
      /\ \A b \in DOMAIN boosts :
           /\ boosts'[b].user = boosts[b].user /\ boosts'[b].gpus = boosts[b].gpus
           /\ boosts'[b].status = IF b = r.boost THEN "consumed" ELSE boosts[b].status
  <2> DEFINE w == req[q]
             m == Len(runs) + 1
  <2>1. /\ w \in Launching /\ NewRun(w) \in Run
        /\ w.boost \in Nat
        /\ w.boost # 0 => /\ w.boost \in DOMAIN boosts
                          /\ boosts[w.boost].user = w.user
                          /\ boosts[w.boost].status \notin {"pending", "deleted"}
        /\ DOMAIN runs' = DOMAIN runs \cup {m}
        /\ m \notin DOMAIN runs /\ \A i \in DOMAIN runs : i < m /\ i \in Nat
        /\ \A i \in DOMAIN runs :
             /\ SameRun(runs'[i], runs[i])
             /\ runs'[i].shared = runs[i].shared /\ runs'[i].told = runs[i].told
             /\ runs'[i].status = IF i = w.old THEN "stopped" ELSE runs[i].status
             /\ runs'[i].status = "deleted" <=> runs[i].status = "deleted"
        /\ runs'[m] = NewRun(w)
        /\ DOMAIN boosts' = DOMAIN boosts
        /\ \A b \in DOMAIN boosts :
             /\ boosts'[b].user = boosts[b].user /\ boosts'[b].gpus = boosts[b].gpus
             /\ boosts'[b].status = IF b = w.boost THEN "consumed" ELSE boosts[b].status
    BY RecordLaunchEffect
  <2>2. w = r /\ m = n
    BY <1>0
  <2> HIDE DEF w, m
  <2> QED  BY <2>1, <2>2
<1>2. runs'[n].boost = g /\ g \in Nat
  BY <1>0, <1>1 DEF NewRun
<1>3. \A i \in DOMAIN runs : runs'[i].boost = runs[i].boost
  BY <1>1 DEF SameRun
<1>4. /\ DOMAIN boosts' = DOMAIN boosts
      /\ \A b \in DOMAIN boosts :
           /\ boosts'[b].user = boosts[b].user
           /\ boosts'[b].status = IF b = g THEN "consumed" ELSE boosts[b].status
  BY <1>0, <1>1
<1>5. g # 0 => g \in DOMAIN boosts /\ boosts[g].status = "approved"
  <2>1. StillGranted(r) /\ (g # 0 => boosts[g].status # "consumed")
    BY <1>0, <1>1 DEF GrantInv, ReadingsHold, GrantUnspent
  <2> QED  BY <1>0, <1>1, <2>1 DEF StillGranted
<1>6. n \notin DOMAIN runs
  BY <1>1
<1>7. \A b : b # g => Sessions(b)' = Sessions(b)
  <2> SUFFICES ASSUME NEW b, b # g PROVE Sessions(b)' = Sessions(b)
    OBVIOUS
  <2>1. {i \in DOMAIN runs : runs[i].boost = b}' = {i \in DOMAIN runs : runs[i].boost = b}
    BY <1>1, <1>2, <1>3, <1>6
  <2> QED  BY <2>1 DEF Sessions
<1>8. CASE g = 0
  <2>1. 0 \notin DOMAIN boosts
    BY RowsTyped DEF IInv
  <2>2. \A b \in DOMAIN boosts : Grant(b)' = Grant(b)
    BY <1>4, <1>7, <1>8, <2>1 DEF Grant
  <2> QED  BY <1>4, <2>2 DEF Mapped
<1>9. CASE g # 0
  <2>0. g \in DOMAIN boosts /\ boosts[g].status = "approved"
    BY <1>5, <1>9
  <2>1. Sessions(g)' = 1
    <3>1. \A i \in DOMAIN runs : runs[i].boost # g
      BY <2>0 DEF GrantInv, ConsumedGrantHasRun
    <3>2. {i \in DOMAIN runs : runs[i].boost = g}' = {n}
      BY <1>1, <1>2, <1>3, <3>1
    <3>3. Cardinality({n}) = 1
      BY FS_Singleton, Zenon
    <3> QED  BY <3>2, <3>3 DEF Sessions
  <2>2. \A b \in DOMAIN boosts : Mapped[b] = Grant(b)
    BY DEF Mapped
  <2> DEFINE M1 == [Mapped EXCEPT ![g].status = "consumed"]
             M2 == [M1 EXCEPT ![g].sessions = 1]
  <2>3. /\ DOMAIN M2 = DOMAIN boosts
        /\ M2 = [b \in DOMAIN M2 |-> M2[b]]
        /\ \A b \in DOMAIN boosts : b # g => M2[b] = Mapped[b]
    BY DEF Mapped
  <2>4. M2[g] = [user |-> boosts[g].user, status |-> "consumed", sessions |-> 1]
    <3>1. Mapped[g] = [user |-> boosts[g].user, status |-> boosts[g].status, sessions |-> Sessions(g)]
      BY <2>0, <2>2 DEF Grant
    <3>2. M1[g] = [Mapped[g] EXCEPT !.status = "consumed"]
      BY <2>0 DEF Mapped
    <3>3. M1[g] = [user |-> boosts[g].user, status |-> "consumed", sessions |-> Sessions(g)]
      BY <3>1, <3>2
    <3>4. M2[g] = [M1[g] EXCEPT !.sessions = 1]
      BY <2>0 DEF Mapped
    <3> HIDE DEF M1, M2
    <3> QED  BY <3>3, <3>4
  <2> HIDE DEF M1, M2
  <2>5. \A b \in DOMAIN boosts : Grant(b)' = M2[b]
    <3> SUFFICES ASSUME NEW b \in DOMAIN boosts PROVE Grant(b)' = M2[b]
      OBVIOUS
    <3>1. CASE b = g
      BY <1>4, <2>0, <2>1, <2>4, <3>1 DEF Grant
    <3>2. CASE b # g
      BY <1>4, <1>7, <2>2, <2>3, <3>2 DEF Grant
    <3> QED  BY <3>1, <3>2
  <2>6. Mapped' = [b \in DOMAIN boosts |-> M2[b]]
    BY <1>4, <2>5 DEF Mapped
  <2>7. Mapped' = M2
    BY <2>3, <2>6
  <2>8. Mapped[g].status = "approved"
    <3>1. Mapped[g] = Grant(g)
      BY <2>0, <2>2
    <3>2. Grant(g).status = boosts[g].status
      BY DEF Grant
    <3> QED  BY <2>0, <3>1, <3>2
  <2>9. Grants!Use(g)
    BY <2>7, <2>8, MappedSteps DEF M1, M2
  <2> QED  BY <2>0, <2>9
<1> QED  BY <1>8, <1>9

\* One step of the gateway is one step of BoostGrants, or none.
LEMMA StepImplements ==
  ASSUME IInv, GrantInv, GrantUnspent, [Next]_vars
  PROVE  [Grants!Next]_Mapped
<1>1. DOMAIN Mapped = DOMAIN boosts
  BY DEF Mapped
<1>2. Grants!Next <=>
        \/ \E u \in Users : Grants!Ask(u) \/ Grants!Forget(u)
        \/ \E b \in DOMAIN Mapped :
             Grants!Decide(b, "approved") \/ Grants!Decide(b, "denied") \/ Grants!Use(b)
  BY DEF Grants!Next, Mapped, Grant
<1>3. CASE UNCHANGED <<runs, boosts>>
  BY <1>3, GrantsStutter
<1>4. CASE \E q \in Reqs : RecordLaunch(q)
  BY <1>1, <1>2, <1>4, UseImplements
<1>5. CASE \E d \in Desks : RecordRequest(d) \/ RecordDecision(d)
  <2>1. PICK d \in Desks : RecordRequest(d) \/ RecordDecision(d)
    BY <1>5
  <2>2. ReadingHolds(desk[d])
    BY DEF GrantInv, ReadingsHold
  <2> QED  BY <1>1, <1>2, <2>1, <2>2, AskImplements, DecideImplements
<1>6. CASE \E u \in Users : DeleteUser(u)
  BY <1>2, <1>6, ForgetImplements
<1>7. CASE \E q \in Reqs, u \in Users, gpu \in Profiles : Launch(q, u, gpu)
  <2>1. UNCHANGED <<runs, boosts>>
    BY <1>7 DEF Launch
  <2> QED  BY <1>3, <2>1
<1>8. CASE /\ Quiet /\ ~(\E u \in Users : DeleteUser(u))
           /\ ~(\E d \in Desks : RecordRequest(d) \/ RecordDecision(d))
  <2>1. UNCHANGED boosts
    BY <1>8 DEF Next, vars, Quiet, RequestStep, BoostStep, NodeStep, AccountStep, Stop, HubStart,
       RecordRefused, HubStop, FindStopped, CloseStopped, Promote, RecordPromotion, UpdateRefused,
       RequestLost, RequestBoost, ApproveBoost, DenyBoost, DeskRefused, DeskLost,
       Register, Heartbeat, HeartbeatLapses, Drain, Activate, Logout, CullIdle, Suspend,
       LoseApproval, Reinstate, SpendQuota, SetQuota, SetMaintenance
  <2>2. DOMAIN runs' = DOMAIN runs /\ \A i \in DOMAIN runs : runs'[i].boost = runs[i].boost
    BY <1>8, QuietStepAddsNothing DEF NothingNew, SameRuns, SameRun
  <2>3. Mapped' = Mapped
    BY <2>1, <2>2, GrantsStutter
  <2> QED  BY <2>3
<1> QED
  BY <1>4, <1>5, <1>6, <1>7, <1>8 DEF Quiet

(* One launch and one errand at a time, the gateway's boosts are           *)
(* BoostGrants: a request waits for one decision, a grant is good for one  *)
(* session, and nothing that has been decided or spent is reopened         *)
(* (models.py:141-169, notebooks.py:147, admin.py:451).                    *)
THEOREM GrantsImplemented ==
  ASSUME NEW CONSTANT c, NEW CONSTANT d, Reqs = {c}, Desks = {d}
  PROVE  Spec => GrantsAsPromised
<1>1. Init => Mapped = <<>> /\ GrantUnspent
  <2>1. Init => GrantUnspent
    BY IdleCarriesNothing DEF Init, GrantUnspent
  <2> QED  BY <2>1 DEF Init, Mapped
<1>2. IInv /\ GrantUnspent /\ [Next]_vars => GrantUnspent'
  BY StepUnspent
<1>3. IInv /\ GrantInv /\ GrantUnspent /\ [Next]_vars => [Grants!Next]_Mapped
  BY StepImplements
<1>4. GrantsAsPromised <=> (Mapped = <<>> /\ [][Grants!Next]_Mapped)
  BY DEF GrantsAsPromised, Mapped, Grant, Grants!Spec, Grants!Init
<1> QED  BY <1>1, <1>2, <1>3, <1>4, Invariant, GrantInvariant, PTL DEF Spec
=============================================================================
