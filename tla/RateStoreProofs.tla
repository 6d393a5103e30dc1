--------------------------- MODULE RateStoreProofs ---------------------------
(***************************************************************************)
(* How often a signed request is let through, and how often a client, for  *)
(* any number of replicas and requests, any limit, clock skew and faults   *)
(* of the store.                                                           *)
(*                                                                         *)
(* Both arguments count who knows.  Of a request: Redis, and the replicas  *)
(* that hold it in memory; as long as it can still arrive nobody forgets   *)
(* it but by a restart or an eviction, and each time it is let through one *)
(* more store knows it.  Of a client: the memories, each of which keeps    *)
(* the limit, and Redis, whose counter keeps it window by window.          *)
(***************************************************************************)
EXTENDS RateStore, FiniteSetTheorems, WellFoundedInduction, TLAPS

\* The clocks, the connections and the replay check; the limiter plays no part.
ReplayTyped ==
  /\ now \in Nat /\ lost \in Nat /\ failed \in BOOLEAN
  /\ keys \in [Signed -> Nat] /\ passed \in [Signed -> Nat]
  /\ nextTry \in [Replicas -> Nat]
  /\ nonces \in [Replicas -> SUBSET [nonce : Signed, at : Nat]]

\* The replicas whose memory holds m.
Holders(m) == {r \in Replicas : \E n \in nonces[r] : n.nonce = m}

InRedisOnce(m) == IF keys[m] = 0 THEN 0 ELSE 1

\* May m still arrive?
InTime(m) == now =< Stamp[m] + Skew

Bound == (IF failed THEN 1 + Cardinality(Replicas) ELSE 1) + lost

ReplayInv ==
  /\ \A m \in Signed : keys[m] # 0 => keys[m] > Stamp[m] + Skew
  /\ \A r \in Replicas : \A n \in nonces[r] : n.at >= Stamp[n.nonce] - Skew
  /\ ~failed => \A r \in Replicas : nextTry[r] = 0 /\ nonces[r] = {}
  /\ \A m \in Signed : InTime(m) => passed[m] =< lost + InRedisOnce(m) + Cardinality(Holders(m))
  /\ \A m \in Signed : passed[m] =< Bound

IInv == ReplayTyped /\ ReplayInv

-----------------------------------------------------------------------------
(* Lemmas.                                                                 *)

LEMMA Parameters ==
  /\ Skew \in Nat \ {0} /\ Backoff \in Nat \ {0}
  /\ Stamp \in [Signed -> Nat]
  /\ IsFiniteSet(Replicas) /\ Cardinality(Replicas) \in Nat
BY RateStoreAssumption, FS_CardinalityType

LEMMA SomeReplicas ==
  ASSUME NEW S, S \subseteq Replicas
  PROVE  /\ IsFiniteSet(S) /\ Cardinality(S) \in Nat
         /\ Cardinality(S) =< Cardinality(Replicas)
BY Parameters, FS_Subset, FS_CardinalityType

\* While m may arrive, the key is there when Redis knows it, and the purge keeps it.
LEMMA WhoKnows ==
  ASSUME IInv, NEW m \in Signed, NEW r \in Replicas
  PROVE  /\ InTime(m) => (InRedis(m) <=> keys[m] # 0)
         /\ InTime(m) => (InMemory(r, m) <=> r \in Holders(m))
<1>1. /\ now \in Nat /\ keys[m] \in Nat /\ Stamp[m] \in Nat /\ Skew \in Nat
      /\ keys[m] # 0 => keys[m] > Stamp[m] + Skew
  BY Parameters DEF IInv, ReplayTyped, ReplayInv
<1>2. InTime(m) => (InRedis(m) <=> keys[m] # 0)
  BY <1>1 DEF InTime, InRedis
<1>3. \A n \in nonces[r] : n.at \in Nat /\ n.at >= Stamp[n.nonce] - Skew
  BY DEF IInv, ReplayTyped, ReplayInv
<1>4. ASSUME InTime(m), NEW n \in nonces[r], n.nonce = m
      PROVE  n \in Kept(r)
  <2>1. n.at >= Stamp[m] - Skew /\ n.at \in Nat
    BY <1>3, <1>4
  <2>2. n.at >= now - 2 * Skew
    BY <1>1, <1>4, <2>1 DEF InTime
  <2> QED BY <2>2 DEF Kept
<1>5. Kept(r) \subseteq nonces[r]
  BY DEF Kept
<1> QED BY <1>2, <1>4, <1>5 DEF InMemory, Holders

\* Who can know a request: Redis, k, and some replicas, H.
LEMMA BoundFollows ==
  ASSUME NEW H, H \subseteq Replicas, NEW k \in {0, 1}, NEW l \in Nat, NEW p \in Nat,
         NEW f \in BOOLEAN, ~f => H = {}, p =< l + k + Cardinality(H)
  PROVE  p =< (IF f THEN 1 + Cardinality(Replicas) ELSE 1) + l
<1>1. /\ Cardinality(H) \in Nat
      /\ Cardinality(H) =< Cardinality(Replicas) /\ Cardinality(Replicas) \in Nat
  BY SomeReplicas, Parameters
<1>2. CASE f
  BY <1>1, <1>2
<1>3. CASE ~f
  <2>1. Cardinality(H) = 0
    BY <1>3, FS_EmptySet
  <2> QED BY <1>3, <2>1
<1> QED BY <1>2, <1>3

-----------------------------------------------------------------------------
(* A signed request arrives.                                               *)

\* What Redis is asked to remember: the key outlives the request.
LEMMA KeyOutlives ==
  ASSUME IInv, NEW m \in Signed, InWindow(m)
  PROVE  /\ InTime(m) /\ now >= Stamp[m] - Skew
         /\ KeyExpires \in Nat \ {0} /\ KeyExpires > Stamp[m] + Skew
<1>1. now \in Nat /\ Stamp[m] \in Nat /\ Skew \in Nat \ {0}
  BY Parameters DEF IInv, ReplayTyped
<1>2. now - Stamp[m] \in -Skew..Skew
  BY DEF InWindow
<1>3. -Skew =< now - Stamp[m] /\ now - Stamp[m] =< Skew
  BY <1>1, <1>2
<1> QED BY <1>1, <1>3 DEF InTime, KeyExpires

LEMMA MarkRedisIs ==
  ASSUME IInv, NEW m \in Signed, InWindow(m), MarkRedis(m)
  PROVE  /\ keys' \in [Signed -> Nat] /\ keys'[m] > Stamp[m] + Skew
         /\ \A o \in Signed \ {m} : keys'[o] = keys[o]
<1>1. /\ KeyExpires \in Nat /\ KeyExpires > Stamp[m] + Skew /\ InTime(m)
      /\ keys \in [Signed -> Nat]
      /\ keys[m] # 0 => keys[m] > Stamp[m] + Skew
  BY KeyOutlives DEF IInv, ReplayTyped, ReplayInv
<1>2. CASE InRedis(m)
  <2>1. keys' = keys /\ keys[m] > now /\ now \in Nat
    BY <1>2 DEF MarkRedis, InRedis, IInv, ReplayTyped
  <2> QED BY <1>1, <2>1
<1>3. CASE ~InRedis(m)
  <2>1. keys' = [keys EXCEPT ![m] = KeyExpires]
    BY <1>3 DEF MarkRedis
  <2> QED BY <1>1, <2>1
<1> QED BY <1>2, <1>3

LEMMA PassIs ==
  ASSUME ReplayTyped, NEW m \in Signed, Pass(m)
  PROVE  /\ passed' \in [Signed -> Nat] /\ passed'[m] = passed[m] + 1
         /\ \A o \in Signed \ {m} : passed'[o] = passed[o]
BY DEF Pass, ReplayTyped

LEMMA RememberIs ==
  ASSUME IInv, NEW r \in Replicas, NEW m \in Signed, InWindow(m), Remember(r, m)
  PROVE  /\ nonces' \in [Replicas -> SUBSET [nonce : Signed, at : Nat]]
         /\ \A p \in Replicas : \A n \in nonces'[p] : n.at >= Stamp[n.nonce] - Skew
         /\ Holders(m)' = Holders(m) \cup {r}
         /\ \A o \in Signed \ {m} : InTime(o) => Holders(o)' = Holders(o)
<1> DEFINE new == [nonce |-> m, at |-> now]
<1>1. /\ now \in Nat /\ nonces \in [Replicas -> SUBSET [nonce : Signed, at : Nat]]
      /\ now >= Stamp[m] - Skew
      /\ \A p \in Replicas : \A n \in nonces[p] : n.at >= Stamp[n.nonce] - Skew
  BY KeyOutlives DEF IInv, ReplayTyped, ReplayInv
<1>2. nonces' = [nonces EXCEPT ![r] = Kept(r) \cup {new}]
  BY DEF Remember
<1>3. new \in [nonce : Signed, at : Nat] /\ new.nonce = m /\ new.at = now
  BY <1>1
<1>4. Kept(r) \subseteq nonces[r]
  BY DEF Kept
<1> HIDE DEF new
<1>5. /\ nonces'[r] = Kept(r) \cup {new}
      /\ \A p \in Replicas \ {r} : nonces'[p] = nonces[p]
  BY <1>1, <1>2
<1>6. nonces' \in [Replicas -> SUBSET [nonce : Signed, at : Nat]]
  BY <1>1, <1>2, <1>3, <1>4
<1>7. \A p \in Replicas : \A n \in nonces'[p] : n.at >= Stamp[n.nonce] - Skew
  BY <1>1, <1>3, <1>4, <1>5
<1>8. ASSUME NEW o \in Signed, InTime(o), NEW p \in Replicas
      PROVE  (\E n \in nonces'[p] : n.nonce = o) <=> p \in Holders(o) \/ (p = r /\ o = m)
  <2>1. CASE p # r
    BY <1>5, <2>1 DEF Holders
  <2>2. CASE p = r
    <3>1. InMemory(r, o) <=> r \in Holders(o)
      BY <1>8, WhoKnows
    <3>2. (\E n \in nonces'[r] : n.nonce = o) <=> InMemory(r, o) \/ o = m
      BY <1>3, <1>5 DEF InMemory
    <3> QED BY <2>2, <3>1, <3>2
  <2> QED BY <2>1, <2>2
<1>9. ASSUME NEW o \in Signed, InTime(o)
      PROVE  Holders(o)' = IF o = m THEN Holders(o) \cup {r} ELSE Holders(o)
  <2>1. Holders(o)' = {p \in Replicas : \E n \in nonces'[p] : n.nonce = o}
    BY DEF Holders
  <2>2. Holders(o) \subseteq Replicas
    BY DEF Holders
  <2> QED BY <1>8, <1>9, <2>1, <2>2
<1>10. InTime(m)
  BY KeyOutlives
<1> QED BY <1>6, <1>7, <1>9, <1>10

LEMMA ArriveStep ==
  ASSUME IInv, NEW r \in Replicas, NEW m \in Signed, Arrive(r, m)
  PROVE  IInv'
<1>1. /\ ReplayTyped /\ ReplayInv /\ InWindow(m) /\ InTime(m)
      /\ UNCHANGED <<now, lost>>
  BY KeyOutlives DEF IInv, Arrive
<1>2. /\ now \in Nat /\ lost \in Nat /\ failed \in BOOLEAN
      /\ keys \in [Signed -> Nat] /\ passed \in [Signed -> Nat]
      /\ nextTry \in [Replicas -> Nat] /\ Backoff \in Nat
  BY <1>1, Parameters DEF ReplayTyped
<1>3. /\ InRedis(m) <=> keys[m] # 0
      /\ InMemory(r, m) <=> r \in Holders(m)
  BY <1>1, WhoKnows
<1>4. \A o \in Signed :
        /\ IsFiniteSet(Holders(o)) /\ Cardinality(Holders(o)) \in Nat
        /\ InRedisOnce(o) \in {0, 1}
  BY SomeReplicas DEF Holders, InRedisOnce
\* It suffices that the bound on those in time is kept: the other follows.
<1>5. ASSUME keys' \in [Signed -> Nat] /\ passed' \in [Signed -> Nat],
             nextTry' \in [Replicas -> Nat], failed' \in BOOLEAN, failed => failed',
             nonces' \in [Replicas -> SUBSET [nonce : Signed, at : Nat]],
             \A o \in Signed : keys'[o] # 0 => keys'[o] > Stamp[o] + Skew,
             \A p \in Replicas : \A n \in nonces'[p] : n.at >= Stamp[n.nonce] - Skew,
             ~failed' => \A p \in Replicas : nextTry'[p] = 0 /\ nonces'[p] = {},
             \A o \in Signed \ {m} : passed'[o] = passed[o],
             \A o \in Signed : InTime(o) =>
               passed'[o] =< lost + InRedisOnce(o)' + Cardinality(Holders(o)')
      PROVE  IInv'
  <2>1. ReplayTyped'
    BY <1>1, <1>2, <1>5 DEF ReplayTyped
  <2>2. \A o \in Signed : InTime(o)' <=> InTime(o)
    BY <1>1 DEF InTime
  <2>3. ASSUME NEW o \in Signed
        PROVE  passed'[o] =< Bound'
    <3>1. CASE InTime(o)
      <4> DEFINE H == Holders(o)'
                 k == InRedisOnce(o)'
      <4>1. H \subseteq Replicas /\ k \in {0, 1} /\ (~failed' => H = {})
        BY <1>5 DEF Holders, InRedisOnce
      <4>2. passed'[o] =< lost + k + Cardinality(H) /\ passed'[o] \in Nat
        BY <1>5, <3>1
      <4> HIDE DEF H, k
      <4>3. passed'[o] =< (IF failed' THEN 1 + Cardinality(Replicas) ELSE 1) + lost
        BY <1>2, <1>5, <4>1, <4>2, BoundFollows
      <4> QED BY <1>1, <4>3 DEF Bound
    <3>2. CASE ~InTime(o)
      <4>1. passed'[o] = passed[o] /\ passed[o] =< Bound
        BY <1>1, <1>5, <3>2 DEF ReplayInv
      <4>2. Bound =< Bound'
        BY <1>1, <1>2, <1>5, Parameters DEF Bound
      <4>3. Bound \in Nat /\ Bound' \in Nat /\ passed[o] \in Nat
        BY <1>1, <1>2, <1>5, Parameters DEF Bound
      <4> QED BY <4>1, <4>2, <4>3
    <3> QED BY <3>1, <3>2
  <2> QED BY <1>1, <1>5, <2>1, <2>2, <2>3 DEF IInv, ReplayInv
<1>6. CASE SeenInRedis(r, m)
  <2>1. UNCHANGED <<nonces, nextTry, failed>> /\ MarkRedis(m)
    BY <1>6 DEF SeenInRedis, Answered
  <2>2. /\ keys' \in [Signed -> Nat] /\ keys'[m] > Stamp[m] + Skew
        /\ \A o \in Signed \ {m} : keys'[o] = keys[o]
    BY <1>1, <2>1, MarkRedisIs DEF IInv
  <2>3. IF keys[m] # 0 THEN passed' = passed ELSE Pass(m)
    BY <1>3, <1>6 DEF SeenInRedis
  <2>4. /\ passed' \in [Signed -> Nat]
        /\ \A o \in Signed \ {m} : passed'[o] = passed[o]
        /\ passed'[m] = IF keys[m] # 0 THEN passed[m] ELSE passed[m] + 1
    BY <1>1, <1>2, <2>3, PassIs
  <2>5. /\ \A o \in Signed : Holders(o)' = Holders(o)
        /\ InRedisOnce(m)' = 1
        /\ \A o \in Signed \ {m} : InRedisOnce(o)' = InRedisOnce(o)
    <3>1. keys'[m] # 0
      BY <2>2, Parameters
    <3> QED BY <2>1, <2>2, <3>1 DEF Holders, InRedisOnce
  <2>6. \A o \in Signed : InTime(o) =>
          passed'[o] =< lost + InRedisOnce(o)' + Cardinality(Holders(o)')
    <3> SUFFICES ASSUME NEW o \in Signed, InTime(o)
                 PROVE  passed'[o] =< lost + InRedisOnce(o)' + Cardinality(Holders(o)')
      OBVIOUS
    <3>1. passed[o] =< lost + InRedisOnce(o) + Cardinality(Holders(o))
      BY <1>1 DEF ReplayInv
    <3>2. CASE o # m
      BY <2>4, <2>5, <3>1, <3>2
    <3>3. CASE o = m
      <4>1. InRedisOnce(m) = IF keys[m] = 0 THEN 0 ELSE 1
        BY DEF InRedisOnce
      <4> QED BY <1>2, <1>4, <2>4, <2>5, <3>1, <3>3, <4>1
    <3> QED BY <3>2, <3>3
  <2> QED BY <1>1, <1>2, <1>5, <2>1, <2>2, <2>4, <2>6 DEF ReplayTyped, ReplayInv
<1>7. CASE SeenInMemory(r, m)
  <2>1. failed' = TRUE
    <3>1. BackedOff(r) => failed' = TRUE
      <4>1. ~failed => nextTry[r] = 0
        BY <1>1 DEF ReplayInv
      <4> QED BY <1>2, <4>1 DEF BackedOff, Tries
    <3> QED BY <1>7, <3>1 DEF SeenInMemory, Unseen, Unanswered, Dropped
  <2>2. nextTry' \in [Replicas -> Nat]
    BY <1>2, <1>7 DEF SeenInMemory, Unseen, Unanswered, BackedOff, Dropped, conn
  <2>3. UNCHANGED keys \/ MarkRedis(m)
    BY <1>7 DEF SeenInMemory
  <2>4. /\ keys' \in [Signed -> Nat]
        /\ \A o \in Signed : keys'[o] # 0 => keys'[o] > Stamp[o] + Skew
        /\ \A o \in Signed : InRedisOnce(o)' >= InRedisOnce(o) /\ InRedisOnce(o)' \in {0, 1}
    <3>1. CASE UNCHANGED keys
      BY <1>1, <1>2, <1>4, <3>1 DEF ReplayInv, InRedisOnce
    <3>2. CASE MarkRedis(m)
      <4>1. /\ keys' \in [Signed -> Nat] /\ keys'[m] > Stamp[m] + Skew
            /\ \A o \in Signed \ {m} : keys'[o] = keys[o]
        BY <1>1, <3>2, MarkRedisIs DEF IInv
      <4>2. keys'[m] # 0
        BY <4>1, Parameters
      <4>3. \A o \in Signed : keys'[o] # 0 => keys'[o] > Stamp[o] + Skew
        BY <1>1, <4>1 DEF ReplayInv
      <4>4. \A o \in Signed : InRedisOnce(o)' >= InRedisOnce(o) /\ InRedisOnce(o)' \in {0, 1}
        BY <4>1, <4>2 DEF InRedisOnce
      <4> QED BY <4>1, <4>3, <4>4
    <3> QED BY <2>3, <3>1, <3>2
  <2>5. CASE r \in Holders(m)
    <3>1. UNCHANGED <<nonces, passed>>
      BY <1>3, <1>7, <2>5 DEF SeenInMemory
    <3>2. \A o \in Signed : Holders(o)' = Holders(o)
      BY <3>1 DEF Holders
    <3>3. \A o \in Signed : InTime(o) =>
            passed'[o] =< lost + InRedisOnce(o)' + Cardinality(Holders(o)')
      <4> SUFFICES ASSUME NEW o \in Signed, InTime(o)
                   PROVE  passed'[o] =< lost + InRedisOnce(o)' + Cardinality(Holders(o)')
        OBVIOUS
      <4>1. passed[o] =< lost + InRedisOnce(o) + Cardinality(Holders(o))
        BY <1>1 DEF ReplayInv
      <4> QED BY <1>2, <1>4, <2>4, <3>1, <3>2, <4>1
    <3> QED BY <1>1, <1>2, <1>5, <2>1, <2>2, <2>4, <3>1, <3>3 DEF ReplayTyped, ReplayInv
  <2>6. CASE r \notin Holders(m)
    <3>1. Remember(r, m) /\ Pass(m)
      BY <1>3, <1>7, <2>6 DEF SeenInMemory
    <3>2. /\ nonces' \in [Replicas -> SUBSET [nonce : Signed, at : Nat]]
          /\ \A p \in Replicas : \A n \in nonces'[p] : n.at >= Stamp[n.nonce] - Skew
          /\ Holders(m)' = Holders(m) \cup {r}
          /\ \A o \in Signed \ {m} : InTime(o) => Holders(o)' = Holders(o)
      BY <1>1, <3>1, RememberIs DEF IInv
    <3>3. /\ passed' \in [Signed -> Nat] /\ passed'[m] = passed[m] + 1
          /\ \A o \in Signed \ {m} : passed'[o] = passed[o]
      BY <1>1, <3>1, PassIs
    <3>4. Cardinality(Holders(m)') = Cardinality(Holders(m)) + 1
      <4> DEFINE H == Holders(m)
      <4>1. IsFiniteSet(H) /\ r \notin H /\ Holders(m)' = H \cup {r}
        BY <1>4, <2>6, <3>2
      <4> HIDE DEF H
      <4>2. Cardinality(H \cup {r}) = Cardinality(H) + 1
        BY ONLY <4>1, FS_AddElement
      <4> QED BY <4>1, <4>2 DEF H
    <3>5. \A o \in Signed : InTime(o) =>
            passed'[o] =< lost + InRedisOnce(o)' + Cardinality(Holders(o)')
      <4> SUFFICES ASSUME NEW o \in Signed, InTime(o)
                   PROVE  passed'[o] =< lost + InRedisOnce(o)' + Cardinality(Holders(o)')
        OBVIOUS
      <4>1. passed[o] =< lost + InRedisOnce(o) + Cardinality(Holders(o))
        BY <1>1 DEF ReplayInv
      <4> DEFINE p == passed[o]
                 i == InRedisOnce(o)
                 j == InRedisOnce(o)'
                 h == Cardinality(Holders(o))
      <4>2. /\ p \in Nat /\ lost \in Nat /\ i \in Nat /\ j \in Nat /\ h \in Nat
            /\ i =< j /\ p =< lost + i + h
        BY <1>2, <1>4, <2>4, <4>1
      <4>3. CASE o = m
        <5>1. passed'[o] = p + 1 /\ Cardinality(Holders(o)') = h + 1
          BY <3>3, <3>4, <4>3
        <5> HIDE DEF p, i, j, h
        <5>2. p + 1 =< lost + j + (h + 1)
          BY ONLY <4>2
        <5> QED BY <5>1, <5>2 DEF j
      <4>4. CASE o # m
        <5>1. passed'[o] = p /\ Cardinality(Holders(o)') = h
          BY <3>2, <3>3, <4>4
        <5> HIDE DEF p, i, j, h
        <5>2. p =< lost + j + h
          BY ONLY <4>2
        <5> QED BY <5>1, <5>2 DEF j
      <4> QED BY <4>3, <4>4
    <3> QED BY <1>1, <1>2, <1>5, <2>1, <2>2, <2>4, <3>2, <3>3, <3>5
  <2> QED BY <2>5, <2>6
<1> QED BY <1>6, <1>7 DEF Arrive

-----------------------------------------------------------------------------
(* The other steps.                                                        *)

\* A counted request moves the connection, and finds out about failures.
LEMMA RequestStep ==
  ASSUME IInv, NEW r \in Replicas, Request(r)
  PROVE  IInv'
<1>1. /\ ReplayTyped /\ ReplayInv
      /\ UNCHANGED <<now, keys, nonces, passed, lost>>
  BY DEF IInv, Request, replay
<1>2. /\ now \in Nat /\ failed \in BOOLEAN /\ nextTry \in [Replicas -> Nat]
      /\ lost \in Nat /\ Backoff \in Nat /\ Cardinality(Replicas) \in Nat
  BY <1>1, Parameters DEF ReplayTyped
<1>3. \/ UNCHANGED <<nextTry, failed>>
      \/ nextTry' = [nextTry EXCEPT ![r] = now + Backoff] /\ failed' = TRUE
  BY DEF Request, CountInRedis, CountInMemory, Answered, Unseen, Unanswered, BackedOff,
         Dropped, conn
<1>4. /\ nextTry' \in [Replicas -> Nat] /\ failed' \in BOOLEAN
      /\ failed => failed'
      /\ ~failed' => UNCHANGED nextTry
  <2>1. CASE UNCHANGED <<nextTry, failed>>
    BY <1>2, <2>1
  <2>2. CASE nextTry' = [nextTry EXCEPT ![r] = now + Backoff] /\ failed' = TRUE
    <3>1. now + Backoff \in Nat
      BY <1>2
    <3>2. nextTry' \in [Replicas -> Nat]
      BY <1>2, <2>2, <3>1
    <3> QED BY <2>2, <3>2
  <2> QED BY <1>3, <2>1, <2>2
<1>5. ReplayTyped'
  BY <1>1, <1>2, <1>4 DEF ReplayTyped
<1>6. Bound =< Bound' /\ Bound \in Nat /\ Bound' \in Nat
  BY <1>1, <1>2, <1>4 DEF Bound
<1>7. \A m \in Signed : passed[m] \in Nat /\ passed[m] =< Bound
  BY <1>1 DEF ReplayInv, ReplayTyped
<1>8. \A m \in Signed : passed'[m] =< Bound'
  BY <1>1, <1>6, <1>7
<1>9. ReplayInv'
  BY <1>1, <1>4, <1>8 DEF ReplayInv, InTime, InRedisOnce, Holders
<1> QED BY <1>5, <1>9 DEF IInv

LEMMA TickStep ==
  ASSUME IInv, Tick \/ Outage
  PROVE  IInv'
<1>1. /\ ReplayTyped /\ ReplayInv /\ now' \in {now, now + 1}
      /\ UNCHANGED <<keys, nonces, passed, lost, failed, nextTry>>
  BY DEF IInv, Tick, Outage, replay, conn
<1>2. \A m \in Signed : InTime(m)' => InTime(m)
  BY <1>1, Parameters DEF ReplayTyped, InTime
<1>3. ReplayTyped'
  BY <1>1 DEF ReplayTyped
<1>4. Bound' = Bound
  BY <1>1 DEF Bound
<1>5. ReplayInv'
  BY <1>1, <1>2, <1>4 DEF ReplayInv, InRedisOnce, Holders
<1> QED BY <1>3, <1>5 DEF IInv

\* A store forgets: at most one of those who knew a request does not any more.
LEMMA ForgetStep ==
  ASSUME IInv, RestartRedis \/ \E r \in Replicas : RestartReplica(r) \/ Evict(r)
  PROVE  IInv'
<1>1. /\ ReplayTyped /\ ReplayInv /\ lost' = lost + 1
      /\ UNCHANGED <<now, passed, failed>>
  BY DEF IInv, RestartRedis, RestartReplica, Evict
<1>2. /\ lost \in Nat /\ keys \in [Signed -> Nat] /\ passed \in [Signed -> Nat]
      /\ nextTry \in [Replicas -> Nat]
      /\ nonces \in [Replicas -> SUBSET [nonce : Signed, at : Nat]]
  BY <1>1 DEF ReplayTyped
<1>3. \A m \in Signed :
        /\ IsFiniteSet(Holders(m)) /\ Cardinality(Holders(m)) \in Nat
        /\ InRedisOnce(m) \in {0, 1}
  BY SomeReplicas DEF Holders, InRedisOnce
<1>4. Bound' = Bound + 1 /\ Bound \in Nat
  BY <1>1, <1>2, Parameters DEF Bound
<1>5. ASSUME keys' \in [Signed -> Nat], nextTry' \in [Replicas -> Nat],
             nonces' \in [Replicas -> SUBSET [nonce : Signed, at : Nat]],
             \A m \in Signed : keys'[m] \in {0, keys[m]},
             \A p \in Replicas : nonces'[p] \in {{}, nonces[p]} /\ nextTry'[p] \in {0, nextTry[p]},
             \A m \in Signed :
               InRedisOnce(m) + Cardinality(Holders(m))
                 =< 1 + InRedisOnce(m)' + Cardinality(Holders(m)')
      PROVE  IInv'
  <2>1. ReplayTyped'
    BY <1>1, <1>2, <1>5 DEF ReplayTyped
  <2>2. \A m \in Signed : InTime(m)' <=> InTime(m)
    BY <1>1 DEF InTime
  <2>3. \A m \in Signed : passed'[m] =< Bound'
    BY <1>1, <1>2, <1>4 DEF ReplayInv
  <2>4. ASSUME NEW m \in Signed, InTime(m)
        PROVE  passed'[m] =< lost' + InRedisOnce(m)' + Cardinality(Holders(m)')
    <3>1. passed[m] =< lost + InRedisOnce(m) + Cardinality(Holders(m))
      BY <1>1, <2>4 DEF ReplayInv
    <3>2. InRedisOnce(m)' \in {0, 1} /\ Cardinality(Holders(m)') \in Nat
      <4>1. Holders(m)' \subseteq Replicas
        BY DEF Holders
      <4> QED BY <4>1, SomeReplicas DEF InRedisOnce
    <3>3. InRedisOnce(m) + Cardinality(Holders(m))
            =< 1 + InRedisOnce(m)' + Cardinality(Holders(m)')
      BY <1>5
    <3> QED BY <1>1, <1>2, <1>3, <3>1, <3>2, <3>3
  <2>5. \A m \in Signed : keys'[m] # 0 => keys'[m] > Stamp[m] + Skew
    BY <1>1, <1>5 DEF ReplayInv
  <2>6. \A p \in Replicas : \A n \in nonces'[p] : n.at >= Stamp[n.nonce] - Skew
    BY <1>1, <1>5 DEF ReplayInv
  <2>7. ~failed' => \A p \in Replicas : nextTry'[p] = 0 /\ nonces'[p] = {}
    BY <1>1, <1>5 DEF ReplayInv
  <2> QED BY <2>1, <2>2, <2>3, <2>4, <2>5, <2>6, <2>7 DEF IInv, ReplayInv
<1>6. CASE RestartRedis
  <2>1. keys' = [m \in Signed |-> 0] /\ UNCHANGED <<nonces, nextTry>>
    BY <1>6 DEF RestartRedis, conn
  <2>2. \A m \in Signed : Holders(m)' = Holders(m) /\ InRedisOnce(m)' = 0
    BY <2>1 DEF Holders, InRedisOnce
  <2>3. \A m \in Signed : InRedisOnce(m) + Cardinality(Holders(m))
                            =< 1 + InRedisOnce(m)' + Cardinality(Holders(m)')
    BY <1>3, <2>2
  <2> QED BY <1>2, <1>5, <2>1, <2>3
<1>7. ASSUME NEW r \in Replicas, RestartReplica(r) \/ Evict(r)
      PROVE  IInv'
  <2>1. /\ UNCHANGED keys /\ nonces' = [nonces EXCEPT ![r] = {}]
        /\ nextTry' = [nextTry EXCEPT ![r] = 0] \/ UNCHANGED nextTry
    BY <1>7 DEF RestartReplica, Evict, conn
  <2>2. ASSUME NEW m \in Signed
        PROVE  InRedisOnce(m) + Cardinality(Holders(m))
                 =< 1 + InRedisOnce(m)' + Cardinality(Holders(m)')
    <3>1. Holders(m)' = Holders(m) \ {r}
      BY <1>2, <2>1 DEF Holders
    <3>2. Cardinality(Holders(m)')
            = IF r \in Holders(m) THEN Cardinality(Holders(m)) - 1 ELSE Cardinality(Holders(m))
      BY <1>3, <3>1, FS_RemoveElement
    <3>3. InRedisOnce(m)' = InRedisOnce(m)
      BY <2>1 DEF InRedisOnce
    <3> QED BY <1>3, <3>2, <3>3
  <2> QED BY <1>2, <1>5, <2>1, <2>2
<1> QED BY <1>6, <1>7

(* Whoever has let a signed request through knows it as long as it can     *)
(* arrive again, in Redis or in memory, but for what was lost.             *)
THEOREM Invariant == Spec => []IInv
<1>1. Init => IInv
  <2> SUFFICES ASSUME Init PROVE IInv
    OBVIOUS
  <2>1. ReplayTyped
    BY DEF Init, ReplayTyped
  <2>2. \A m \in Signed : Holders(m) = {}
    BY DEF Init, Holders
  <2>3. \A m \in Signed : Cardinality(Holders(m)) = 0 /\ InRedisOnce(m) = 0
    BY <2>2, FS_EmptySet DEF Init, InRedisOnce
  <2>4. Bound = 1
    BY DEF Init, Bound
  <2> QED BY <2>1, <2>3, <2>4 DEF Init, IInv, ReplayInv
<1>2. IInv /\ [Next]_vars => IInv'
  <2> SUFFICES ASSUME IInv, [Next]_vars PROVE IInv'
    OBVIOUS
  <2>1. CASE UNCHANGED vars
    BY <2>1 DEF vars, conn, replay, IInv, ReplayTyped, ReplayInv, InTime, InRedisOnce,
                Holders, Bound
  <2>2. ASSUME NEW r \in Replicas, NEW m \in Signed, Arrive(r, m) PROVE IInv'
    BY <2>2, ArriveStep
  <2>3. ASSUME NEW r \in Replicas, Request(r) PROVE IInv'
    BY <2>3, RequestStep
  <2>4. CASE Tick \/ Outage
    BY <2>4, TickStep
  <2>5. CASE RestartRedis \/ \E r \in Replicas : RestartReplica(r) \/ Evict(r)
    BY <2>5, ForgetStep
  <2> QED BY <2>1, <2>2, <2>3, <2>4, <2>5 DEF Next
<1> QED BY <1>1, <1>2, PTL DEF Spec

(* Store.seen_nonce across replicas: a signed request is let through once  *)
(* while Redis answers, at most once more per replica's memory through     *)
(* outages, late answers and reconnections, and once more per loss.        *)
THEOREM ReplaysAreBounded == Spec => []PassedBounded
<1>1. IInv => PassedBounded
  BY DEF IInv, ReplayInv, PassedBounded, Bound
<1> QED BY <1>1, Invariant, PTL

-----------------------------------------------------------------------------
(* Sums.  SumFunction takes the elements of a finite set one by one: what  *)
(* holds of nothing, and of any elements once it does without the one it   *)
(* takes next, holds of them all.                                          *)

\* No number below it is no other number above it.
LEMMA MinimalIsLeast ==
  ASSUME NEW R, NEW S \in SUBSET Nat,
         \A x, y \in Nat : <<x, y>> \in R <=> x < y,
         \E i \in S : \A j \in S : <<j, i>> \notin R
  PROVE  \E i \in S : \A j \in S : i =< j
<1>1. PICK i \in S : \A j \in S : <<j, i>> \notin R
  OBVIOUS
<1>2. \A j \in S : ~(j < i)
  BY <1>1
<1> QED BY <1>2

LEMMA HasLeast ==
  ASSUME NEW S \in SUBSET Nat, S # {}
  PROVE  \E i \in S : \A j \in S : i =< j
<1> DEFINE R == OpToRel(<, Nat)
<1>1. IsWellFoundedOn(R, Nat)
  BY NatLessThanWellFounded, Zenon
<1>2. \A x, y \in Nat : <<x, y>> \in R <=> x < y
  BY DEF OpToRel
<1> HIDE DEF R
<1>3. \E i \in S : \A j \in S : <<j, i>> \notin R
  BY <1>1, WFMin, Zenon
<1> QED BY <1>2, <1>3, MinimalIsLeast, Zenon

\* Induction over the numbers.
LEMMA NumbersInduction ==
  ASSUME NEW G, 0 \in G, \A n \in Nat : n \in G => n + 1 \in G
  PROVE  Nat \subseteq G
<1> DEFINE Bad == Nat \ G
<1>1. ASSUME Bad # {} PROVE FALSE
  <2>1. PICK i \in Bad : \A j \in Bad : i =< j
    BY <1>1, HasLeast
  <2>2. i # 0 /\ i \in Nat
    OBVIOUS
  <2>3. i - 1 \in Nat /\ ~(i =< i - 1)
    BY <2>2
  <2>4. i - 1 \in G
    BY <2>1, <2>3
  <2>5. (i - 1) + 1 \in G
    BY <2>3, <2>4
  <2> QED BY <2>2, <2>5
<1> QED BY <1>1

\* The element a sum takes next.
Taken(T) == CHOOSE x \in T : TRUE

LEMMA NextIsOne == \A T : T # {} => Taken(T) \in T
  BY DEF Taken

\* Induction over the subsets of a finite set.
LEMMA SubsetsInduction ==
  ASSUME NEW D, IsFiniteSet(D), NEW G, {} \in G,
         \A T \in SUBSET D : T # {} /\ T \ {Taken(T)} \in G => T \in G
  PROVE  SUBSET D \subseteq G
<1> DEFINE N == {n \in Nat : \A T \in SUBSET D : Cardinality(T) = n => T \in G}
<1>1. \A T \in SUBSET D : IsFiniteSet(T) /\ Cardinality(T) \in Nat
  BY FS_Subset, FS_CardinalityType
<1>2. 0 \in N
  <2>1. \A T \in SUBSET D : Cardinality(T) = 0 => T = {}
    BY <1>1, FS_EmptySet
  <2> QED BY <2>1
<1>3. ASSUME NEW n \in Nat, n \in N PROVE n + 1 \in N
  <2>1. ASSUME NEW T \in SUBSET D, Cardinality(T) = n + 1 PROVE T \in G
    <3>1. T # {}
      BY <1>1, <2>1, FS_EmptySet
    <3>2. Taken(T) \in T
      BY <3>1, NextIsOne
    <3>3. Cardinality(T \ {Taken(T)}) = n
      BY <1>1, <2>1, <3>2, FS_RemoveElement
    <3>4. T \ {Taken(T)} \in G
      BY <1>3, <3>3
    <3> QED BY <3>1, <3>4
  <2> QED BY <2>1
<1> HIDE DEF N
<1>4. Nat \subseteq N
  BY <1>2, <1>3, NumbersInduction
<1> QED BY <1>1, <1>4 DEF N

\* g sums f over the subsets of D, up to those of size n.
Sums(g, f, D, n) ==
  /\ g \in [SUBSET D -> Nat]
  /\ g[{}] = 0
  /\ \A T \in SUBSET D : T # {} /\ Cardinality(T) =< n =>
       g[T] = f[Taken(T)] + g[T \ {Taken(T)}]

LEMMA SumsExist ==
  ASSUME NEW D, IsFiniteSet(D), NEW f \in [D -> Nat]
  PROVE  \E g : Sums(g, f, D, Cardinality(D))
<1> DEFINE N == {n \in Nat : \E g : Sums(g, f, D, n)}
<1>1. \A T \in SUBSET D : IsFiniteSet(T) /\ Cardinality(T) \in Nat /\ Cardinality(T) =< Cardinality(D)
  BY FS_Subset, FS_CardinalityType
<1>0. \A T \in SUBSET D : T # {} => /\ Taken(T) \in D /\ T \ {Taken(T)} \in SUBSET D
                                     /\ Cardinality(T \ {Taken(T)}) = Cardinality(T) - 1
  <2> TAKE T \in SUBSET D
  <2> HAVE T # {}
  <2>1. Taken(T) \in T
    BY NextIsOne
  <2>2. Cardinality(T \ {Taken(T)}) = Cardinality(T) - 1
    BY <1>1, <2>1, FS_RemoveElement
  <2> QED BY <2>1, <2>2
<1>2. 0 \in N
  <2> DEFINE g == [T \in SUBSET D |-> 0]
  <2>1. \A T \in SUBSET D : Cardinality(T) =< 0 => T = {}
    BY <1>1, FS_EmptySet
  <2>2. Sums(g, f, D, 0)
    BY <2>1 DEF Sums
  <2> QED BY <2>2
<1>3. ASSUME NEW n \in Nat, n \in N PROVE n + 1 \in N
  <2>1. PICK g : Sums(g, f, D, n)
    BY <1>3
  <2> DEFINE h == [T \in SUBSET D |-> IF T # {} /\ Cardinality(T) = n + 1
                                        THEN f[Taken(T)] + g[T \ {Taken(T)}] ELSE g[T]]
  <2>2. h \in [SUBSET D -> Nat] /\ h[{}] = 0
    BY <1>0, <2>1 DEF Sums
  <2>3. ASSUME NEW T \in SUBSET D, T # {}, Cardinality(T) =< n + 1
        PROVE  h[T] = f[Taken(T)] + h[T \ {Taken(T)}]
    <3>1. h[T \ {Taken(T)}] = g[T \ {Taken(T)}]
      BY <1>0, <1>1, <2>3
    <3>2. CASE Cardinality(T) = n + 1
      BY <2>3, <3>1, <3>2
    <3>3. CASE Cardinality(T) # n + 1
      <4>1. Cardinality(T) =< n
        BY <1>1, <2>3, <3>3
      <4>2. h[T] = g[T]
        BY <3>3
      <4> HIDE DEF h
      <4> QED BY <2>1, <2>3, <3>1, <4>1, <4>2 DEF Sums
    <3> QED BY <3>2, <3>3
  <2> HIDE DEF h
  <2>4. Sums(h, f, D, n + 1)
    BY <2>2, <2>3 DEF Sums
  <2> QED BY <2>4
<1> HIDE DEF N
<1>4. Nat \subseteq N
  BY <1>2, <1>3, NumbersInduction
<1>5. Cardinality(D) \in N
  BY <1>4, FS_CardinalityType
<1> QED BY <1>5 DEF N

\* What SumFunction computes.
LEMMA SumIs ==
  ASSUME NEW D, IsFiniteSet(D), NEW f \in [D -> Nat]
  PROVE  \E g : /\ g \in [SUBSET D -> Nat] /\ g[{}] = 0
                /\ \A T \in SUBSET D : T # {} => g[T] = f[Taken(T)] + g[T \ {Taken(T)}]
                /\ SumFunction(f) = g[D]
<1> DEFINE Unfolds(g) == g = [T \in SUBSET D |-> IF T = {} THEN 0 ELSE f[Taken(T)] + g[T \ {Taken(T)}]]
           it == CHOOSE g : Unfolds(g)
<1>1. PICK g : Sums(g, f, D, Cardinality(D))
  BY SumsExist
<1>2. \A T \in SUBSET D : Cardinality(T) =< Cardinality(D)
  BY FS_Subset
<1>3. \A T \in SUBSET D : g[T] = IF T = {} THEN 0 ELSE f[Taken(T)] + g[T \ {Taken(T)}]
  BY <1>1, <1>2 DEF Sums
<1>4. g = [T \in SUBSET D |-> g[T]]
  BY <1>1 DEF Sums
<1>5. Unfolds(g)
  BY <1>3, <1>4
<1>6. Unfolds(it)
  BY <1>5
<1>7. SumFunction(f) = it[D]
  BY DEF SumFunction, SumFunctionOnSet, FoldFunctionOnSet, MapThenFoldSet, Taken
<1> HIDE DEF it
<1>8. it[{}] = 0 /\ \A T \in SUBSET D : T # {} => it[T] = f[Taken(T)] + it[T \ {Taken(T)}]
  BY <1>6
<1>9. it \in [SUBSET D -> Nat]
  <2> DEFINE G == {T \in SUBSET D : it[T] \in Nat}
  <2>1. {} \in G
    BY <1>8
  <2>2. ASSUME NEW T \in SUBSET D, T # {}, T \ {Taken(T)} \in G PROVE T \in G
    <3>1. Taken(T) \in D
      BY <2>2, NextIsOne
    <3>2. it[T \ {Taken(T)}] \in Nat /\ f[Taken(T)] \in Nat
      BY <2>2, <3>1
    <3>3. it[T] = f[Taken(T)] + it[T \ {Taken(T)}]
      BY <1>8, <2>2
    <3>4. it[T] \in Nat
      BY <3>2, <3>3
    <3> QED BY <3>4
  <2> HIDE DEF G
  <2>3. SUBSET D \subseteq G
    BY <2>1, <2>2, SubsetsInduction
  <2> QED BY <1>6, <2>3 DEF G
<1> QED BY <1>7, <1>8, <1>9

LEMMA SumIsNat ==
  ASSUME NEW D, IsFiniteSet(D), NEW f \in [D -> Nat]
  PROVE  SumFunction(f) \in Nat
<1>1. PICK g : g \in [SUBSET D -> Nat] /\ SumFunction(f) = g[D]
  BY SumIs
<1> QED BY <1>1

\* The sum of sums.
LEMMA SumOfBoth ==
  ASSUME NEW D, IsFiniteSet(D), NEW f \in [D -> Nat], NEW k \in [D -> Nat], NEW h \in [D -> Nat],
         \A x \in D : h[x] = f[x] + k[x]
  PROVE  SumFunction(h) = SumFunction(f) + SumFunction(k)
<1>1. PICK a : /\ a \in [SUBSET D -> Nat] /\ a[{}] = 0
               /\ \A T \in SUBSET D : T # {} => a[T] = f[Taken(T)] + a[T \ {Taken(T)}]
               /\ SumFunction(f) = a[D]
  BY SumIs
<1>2. PICK b : /\ b \in [SUBSET D -> Nat] /\ b[{}] = 0
               /\ \A T \in SUBSET D : T # {} => b[T] = k[Taken(T)] + b[T \ {Taken(T)}]
               /\ SumFunction(k) = b[D]
  BY SumIs
<1>3. PICK c : /\ c \in [SUBSET D -> Nat] /\ c[{}] = 0
               /\ \A T \in SUBSET D : T # {} => c[T] = h[Taken(T)] + c[T \ {Taken(T)}]
               /\ SumFunction(h) = c[D]
  BY SumIs
<1> DEFINE G == {T \in SUBSET D : c[T] = a[T] + b[T]}
<1>4. {} \in G
  BY <1>1, <1>2, <1>3
<1>5. ASSUME NEW T \in SUBSET D, T # {}, T \ {Taken(T)} \in G PROVE T \in G
  <2> DEFINE x == Taken(T)
             U == T \ {Taken(T)}
  <2>1. x \in D /\ U \in SUBSET D
    BY <1>5, NextIsOne
  <2>2. a[T] = f[x] + a[U] /\ b[T] = k[x] + b[U] /\ c[T] = h[x] + c[U] /\ c[U] = a[U] + b[U]
    BY <1>1, <1>2, <1>3, <1>5
  <2>3. a[U] \in Nat /\ b[U] \in Nat /\ f[x] \in Nat /\ k[x] \in Nat /\ h[x] = f[x] + k[x]
    BY <1>1, <1>2, <2>1
  <2> HIDE DEF x, U
  <2> QED BY <2>2, <2>3
<1> HIDE DEF G
<1>6. SUBSET D \subseteq G
  BY <1>4, <1>5, SubsetsInduction
<1> QED BY <1>1, <1>2, <1>3, <1>6 DEF G

\* Nothing is at most L anywhere: so the sum is at most L times their number.
LEMMA SumIsBounded ==
  ASSUME NEW D, IsFiniteSet(D), NEW f \in [D -> Nat], NEW L \in Nat,
         \A x \in D : f[x] =< L
  PROVE  SumFunction(f) =< L * Cardinality(D)
<1>1. PICK a : /\ a \in [SUBSET D -> Nat] /\ a[{}] = 0
               /\ \A T \in SUBSET D : T # {} => a[T] = f[Taken(T)] + a[T \ {Taken(T)}]
               /\ SumFunction(f) = a[D]
  BY SumIs
<1>2. \A T \in SUBSET D : IsFiniteSet(T) /\ Cardinality(T) \in Nat
  BY FS_Subset, FS_CardinalityType
<1> DEFINE G == {T \in SUBSET D : a[T] =< L * Cardinality(T)}
<1>4. {} \in G
  BY <1>1, FS_EmptySet
<1>5. ASSUME NEW T \in SUBSET D, T # {}, T \ {Taken(T)} \in G PROVE T \in G
  <2> DEFINE x == Taken(T)
             U == T \ {Taken(T)}
             n == Cardinality(U)
  <2>1. x \in T /\ U \in SUBSET D
    BY <1>5, NextIsOne
  <2>2. a[T] = f[x] + a[U] /\ a[U] =< L * n
    BY <1>1, <1>5
  <2>3. a[U] \in Nat /\ f[x] \in Nat /\ f[x] =< L /\ n \in Nat
    BY <1>1, <1>2, <2>1
  <2>4. Cardinality(T) = n + 1
    BY <1>2, <2>1, FS_RemoveElement
  <2> HIDE DEF x, U, n
  <2>5. L * (n + 1) = L * n + L /\ L * n \in Nat
    BY <2>3
  <2>6. a[T] =< L * (n + 1)
    BY <2>2, <2>3, <2>5
  <2> QED BY <2>4, <2>6
<1> HIDE DEF G
<1>6. SUBSET D \subseteq G
  BY <1>4, <1>5, SubsetsInduction
<1> QED BY <1>1, <1>6 DEF G

\* One term grows, the sum grows as much.
LEMMA OneTermGrows ==
  ASSUME NEW D, IsFiniteSet(D), NEW f \in [D -> Nat], NEW h \in [D -> Nat], NEW x \in D,
         NEW v \in Nat, h[x] = f[x] + v, \A y \in D : y # x => h[y] = f[y]
  PROVE  SumFunction(h) = SumFunction(f) + v
<1>1. PICK a : /\ a \in [SUBSET D -> Nat] /\ a[{}] = 0
               /\ \A T \in SUBSET D : T # {} => a[T] = f[Taken(T)] + a[T \ {Taken(T)}]
               /\ SumFunction(f) = a[D]
  BY SumIs
<1>3. PICK c : /\ c \in [SUBSET D -> Nat] /\ c[{}] = 0
               /\ \A T \in SUBSET D : T # {} => c[T] = h[Taken(T)] + c[T \ {Taken(T)}]
               /\ SumFunction(h) = c[D]
  BY SumIs
<1> DEFINE G == {T \in SUBSET D : c[T] = a[T] + IF x \in T THEN v ELSE 0}
<1>4. {} \in G
  BY <1>1, <1>3
<1>5. ASSUME NEW T \in SUBSET D, T # {}, T \ {Taken(T)} \in G PROVE T \in G
  <2> DEFINE y == Taken(T)
             U == T \ {Taken(T)}
  <2>1. y \in D /\ U \in SUBSET D /\ y \in T /\ U = T \ {y}
    BY <1>5, NextIsOne
  <2>2. a[T] = f[y] + a[U] /\ c[T] = h[y] + c[U] /\ c[U] = a[U] + IF x \in U THEN v ELSE 0
    BY <1>1, <1>3, <1>5
  <2>3. a[U] \in Nat /\ f[y] \in Nat /\ c[U] \in Nat
    BY <1>1, <1>3, <2>1
  <2> HIDE DEF y, U
  <2>4. c[T] = a[T] + IF x \in T THEN v ELSE 0
    BY <2>1, <2>2, <2>3
  <2> QED BY <2>4
<1> HIDE DEF G
<1>6. SUBSET D \subseteq G
  BY <1>4, <1>5, SubsetsInduction
<1>7. D \in G
  BY <1>6
<1> QED BY <1>1, <1>3, <1>7 DEF G

\* The same, of a fact that is one name to the provers.
Raised(D, f, h, x, v) ==
  /\ IsFiniteSet(D) /\ f \in [D -> Nat] /\ h \in [D -> Nat] /\ x \in D /\ v \in Nat
  /\ h[x] = f[x] + v /\ \A y \in D : y # x => h[y] = f[y]

LEMMA SumWithMore ==
  ASSUME NEW D, NEW f, NEW h, NEW x, NEW v, Raised(D, f, h, x, v)
  PROVE  SumFunction(h) = SumFunction(f) + v
BY OneTermGrows DEF Raised

\* A sum grows with its terms.
LEMMA SumIsMonotone ==
  ASSUME NEW D, IsFiniteSet(D), NEW f \in [D -> Nat], NEW h \in [D -> Nat],
         \A x \in D : f[x] =< h[x]
  PROVE  SumFunction(f) =< SumFunction(h)
<1> DEFINE k == [x \in D |-> h[x] - f[x]]
<1>1. k \in [D -> Nat] /\ \A x \in D : h[x] = f[x] + k[x]
  OBVIOUS
<1> HIDE DEF k
<1>2. SumFunction(h) = SumFunction(f) + SumFunction(k)
  BY <1>1, SumOfBoth
<1>3. SumFunction(f) \in Nat /\ SumFunction(k) \in Nat
  BY <1>1, SumIsNat
<1> QED BY <1>2, <1>3

LEMMA SumOfZeros ==
  ASSUME NEW D, IsFiniteSet(D), NEW f \in [D -> Nat], \A x \in D : f[x] = 0
  PROVE  SumFunction(f) = 0
<1>1. SumFunction(f) =< 0 * Cardinality(D)
  BY SumIsBounded
<1>2. Cardinality(D) \in Nat /\ SumFunction(f) \in Nat
  BY SumIsNat, FS_CardinalityType
<1> QED BY <1>1, <1>2

\* The order of summation does not matter.
LEMMA SumsSwap ==
  ASSUME NEW D, IsFiniteSet(D), NEW R, IsFiniteSet(R), NEW F \in [R -> [D -> Nat]]
  PROVE  SumFunction([t \in D |-> SumFunction([r \in R |-> F[r][t]])])
           = SumFunction([r \in R |-> SumFunction(F[r])])
<1> DEFINE Row(T, t) == [r \in R |-> IF r \in T THEN F[r][t] ELSE 0]
           Column(T) == [t \in D |-> SumFunction(Row(T, t))]
           Rows(T) == [r \in R |-> IF r \in T THEN SumFunction(F[r]) ELSE 0]
           G == {T \in SUBSET R : SumFunction(Column(T)) = SumFunction(Rows(T))}
<1>1. \A T \in SUBSET R : \A t \in D : Row(T, t) \in [R -> Nat]
  OBVIOUS
<1>2. \A T \in SUBSET R : Column(T) \in [D -> Nat]
  <2> TAKE T \in SUBSET R
  <2>1. \A t \in D : SumFunction(Row(T, t)) \in Nat
    <3> TAKE t \in D
    <3>1. Row(T, t) \in [R -> Nat]
      BY <1>1
    <3> HIDE DEF Row
    <3> QED BY <3>1, SumIsNat
  <2> QED BY <2>1
<1>3. \A r \in R : SumFunction(F[r]) \in Nat
  BY SumIsNat
<1>4. \A T \in SUBSET R : Rows(T) \in [R -> Nat]
  BY <1>3
<1>5. {} \in G
  <2>1. \A t \in D : SumFunction(Row({}, t)) = 0
    <3> TAKE t \in D
    <3>1. Row({}, t) \in [R -> Nat] /\ \A r \in R : Row({}, t)[r] = 0
      OBVIOUS
    <3> HIDE DEF Row
    <3> QED BY <3>1, SumOfZeros
  <2>2. \A t \in D : Column({})[t] = 0
    BY <2>1
  <2>3. \A r \in R : Rows({})[r] = 0
    OBVIOUS
  <2> HIDE DEF Column, Rows
  <2>4. Column({}) \in [D -> Nat] /\ Rows({}) \in [R -> Nat]
    BY <1>2, <1>4
  <2>5. SumFunction(Column({})) = 0 /\ SumFunction(Rows({})) = 0
    BY <2>2, <2>3, <2>4, SumOfZeros
  <2> QED BY <2>5
<1>6. ASSUME NEW T \in SUBSET R, T # {}, T \ {Taken(T)} \in G PROVE T \in G
  <2> DEFINE x == Taken(T)
             U == T \ {Taken(T)}
  <2>1. x \in T /\ U \in SUBSET R /\ U = T \ {x} /\ SumFunction(Column(U)) = SumFunction(Rows(U))
    BY <1>6, NextIsOne
  <2> HIDE DEF x, U
  <2>2. \A t \in D : SumFunction(Row(T, t)) = SumFunction(Row(U, t)) + F[x][t]
    <3> TAKE t \in D
    <3>1. Raised(R, Row(U, t), Row(T, t), x, F[x][t])
      BY <2>1 DEF Raised
    <3> HIDE DEF Row
    <3> QED BY <3>1, SumWithMore
  <2>3. \A t \in D : Column(T)[t] = Column(U)[t] + F[x][t]
    BY <2>2
  <2>4. /\ Rows(T)[x] = Rows(U)[x] + SumFunction(F[x])
        /\ \A y \in R : y # x => Rows(T)[y] = Rows(U)[y]
    BY <1>3, <2>1
  <2>5. /\ Column(T) \in [D -> Nat] /\ Column(U) \in [D -> Nat] /\ F[x] \in [D -> Nat]
        /\ Rows(T) \in [R -> Nat] /\ Rows(U) \in [R -> Nat] /\ SumFunction(F[x]) \in Nat
        /\ x \in R
    BY <1>2, <1>3, <1>4, <2>1
  <2> HIDE DEF Column, Rows
  <2>6. SumFunction(Column(T)) = SumFunction(Column(U)) + SumFunction(F[x])
    BY <2>3, <2>5, SumOfBoth, SMTT(30)
  <2>7. SumFunction(Rows(T)) = SumFunction(Rows(U)) + SumFunction(F[x])
    <3>1. Raised(R, Rows(U), Rows(T), x, SumFunction(F[x]))
      BY <2>4, <2>5 DEF Raised
    <3> QED BY <3>1, SumWithMore
  <2> QED BY <2>1, <2>6, <2>7
<1>7. R \in G
  <2> HIDE DEF G
  <2>1. SUBSET R \subseteq G
    BY <1>5, <1>6, SubsetsInduction
  <2> QED BY <2>1
<1>8. Column(R) = [t \in D |-> SumFunction([r \in R |-> F[r][t]])]
  <2>1. \A t \in D : Row(R, t) = [r \in R |-> F[r][t]]
    OBVIOUS
  <2> HIDE DEF Row
  <2> QED BY <2>1
<1>9. Rows(R) = [r \in R |-> SumFunction(F[r])]
  OBVIOUS
<1> HIDE DEF Column, Rows
<1> QED BY <1>7, <1>8, <1>9

-----------------------------------------------------------------------------
(* The limiter: what holds of the counters c, the memories h, the grants g *)
(* and the losses l at second n.                                           *)

\* How much of the last Window seconds the memories account for, second by second.
Held(h, t) == SumFunction([r \in Replicas |-> h[r][t]])

\* What they do not: Redis granted it, or a memory that has forgotten.
Other(n, h, g) == [t \in Times |-> IF t > n - Window THEN g[t] - Held(h, t) ELSE 0]

WindowAt(t) == t \div Window

\* The part of it that falls into Redis's window.
Current(n, f) == [t \in Times |-> IF WindowAt(t) = WindowAt(n) THEN f[t] ELSE 0]

RecentOf(n, f) == [t \in Times |-> IF t > n - Window THEN f[t] ELSE 0]

\* The counter goes on counting behind the limit.
Got(n, c) == IF c[n \div Window] < Limit THEN c[n \div Window] ELSE Limit

LimiterTyped(n, c, h, g, l) ==
  /\ n \in Times /\ l \in Nat
  /\ c \in [0..(LastTime \div Window) -> Nat]
  /\ h \in [Replicas -> [Times -> Nat]]
  /\ g \in [Times -> Nat]

Covered(n, h, g) ==
  /\ \A t \in Times : t > n => g[t] = 0
  /\ \A t \in Times : IF t > n - Window THEN Held(h, t) =< g[t] ELSE g[t] = 0

Limited(n, c, h, g, l) ==
  /\ LimiterTyped(n, c, h, g, l)
  /\ Covered(n, h, g)
  /\ \A r \in Replicas : SumFunction(RecentOf(n, h[r])) =< Limit
  /\ SumFunction(Other(n, h, g)) =< Limit + Got(n, c) + Limit * l
  /\ SumFunction(Current(n, Other(n, h, g))) =< Got(n, c) + Limit * l

LEMMA LimiterParameters ==
  /\ Limit \in Nat \ {0} /\ Window \in Nat \ {0} /\ LastTime \in Nat
  /\ IsFiniteSet(Times) /\ Times \subseteq Nat
  /\ IsFiniteSet(Replicas) /\ Cardinality(Replicas) \in Nat
<1>1. /\ Limit \in Nat \ {0} /\ Window \in Nat \ {0} /\ LastTime \in Nat /\ IsFiniteSet(Replicas)
  BY RateStoreAssumption
<1>2. IsFiniteSet(Times)
  BY <1>1, FS_Interval DEF Times
<1> QED BY <1>1, <1>2, FS_CardinalityType DEF Times

\* Windows of Redis: the second after n is in the window of n, or begins the next.
LEMMA WindowOf ==
  ASSUME NEW n \in Nat, NEW W \in Nat \ {0}
  PROVE  n \div W \in Nat /\ (n \div W) * W =< n /\ n < (n \div W + 1) * W
OBVIOUS

LEMMA WindowIs ==
  ASSUME NEW n \in Nat, NEW W \in Nat \ {0}, NEW q \in Nat, q * W =< n, n < (q + 1) * W
  PROVE  n \div W = q
OBVIOUS

LEMMA WindowsGrow ==
  ASSUME NEW m \in Nat, NEW n \in Nat, m =< n, NEW W \in Nat \ {0}
  PROVE  m \div W =< n \div W
<1> DEFINE p == m \div W
           q == n \div W
<1>1. p \in Nat /\ p * W =< m /\ m < (p + 1) * W
  BY WindowOf
<1>2. q \in Nat /\ q * W =< n /\ n < (q + 1) * W
  BY WindowOf
<1> HIDE DEF p, q
<1>3. ASSUME q + 1 =< p PROVE FALSE
  <2>1. (q + 1) * W =< p * W
    BY <1>1, <1>2, <1>3
  <2> QED BY <1>1, <1>2, <2>1
<1> QED BY <1>1, <1>2, <1>3 DEF p, q

LEMMA NextWindow ==
  ASSUME NEW n \in Nat, NEW m \in Nat, m = n + 1, WindowAt(m) # WindowAt(n)
  PROVE  /\ \A t \in Nat : t =< n /\ t > m - Window => WindowAt(t) = WindowAt(n)
         /\ \A t \in Nat : WindowAt(t) = WindowAt(m) => t > n
<1> DEFINE W == Window
           q == n \div W
           p == m \div W
<1>0. W \in Nat \ {0} /\ p # q
  BY LimiterParameters DEF WindowAt
<1> HIDE DEF W
<1>1. q \in Nat /\ q * W =< n /\ n < (q + 1) * W /\ p \in Nat /\ p # q
  BY <1>0, WindowOf
<1>2. q =< p
  BY <1>0, WindowsGrow
<1>4. \A t \in Nat : t =< n => t \div W =< q
  BY <1>0, WindowsGrow
<1> HIDE DEF q, p
<1>3. m >= (q + 1) * W
  <2>1. ASSUME m < (q + 1) * W PROVE FALSE
    <3>1. q * W =< m
      BY <1>0, <1>1
    <3>2. m \div W = q
      BY <1>0, <1>1, <2>1, <3>1, WindowIs
    <3> QED BY <1>1, <3>2 DEF p
  <2>2. (q + 1) * W \in Nat
    BY <1>0, <1>1
  <2> QED BY <1>1, <2>1, <2>2
<1>5. ASSUME NEW t \in Nat, t =< n, t > m - W PROVE t \div W = q
  <2>1. (q + 1) * W = q * W + W /\ q * W \in Nat
    BY <1>0, <1>1
  <2>2. q * W =< t /\ t < (q + 1) * W
    BY <1>0, <1>1, <1>3, <1>5, <2>1
  <2> QED BY <1>0, <1>1, <2>2, WindowIs
<1>6. ASSUME NEW t \in Nat, t \div W = p PROVE t > n
  <2>1. ASSUME t =< n PROVE FALSE
    <3>1. p =< q
      BY <1>4, <1>6, <2>1
    <3> QED BY <1>1, <1>2, <3>1
  <2> QED BY <2>1
<1> QED BY <1>5, <1>6 DEF q, p, W, WindowAt

LEMMA HeldIsNat ==
  ASSUME NEW h \in [Replicas -> [Times -> Nat]], NEW t \in Times
  PROVE  Held(h, t) \in Nat
<1> DEFINE f == [r \in Replicas |-> h[r][t]]
<1>1. f \in [Replicas -> Nat]
  OBVIOUS
<1> HIDE DEF f
<1>2. SumFunction(f) \in Nat
  BY <1>1, SumIsNat, LimiterParameters
<1> QED BY <1>2 DEF Held, f

LEMMA OtherTyped ==
  ASSUME NEW c, NEW n, NEW h, NEW g, NEW l, LimiterTyped(n, c, h, g, l), Covered(n, h, g)
  PROVE  /\ Other(n, h, g) \in [Times -> Nat]
         /\ Current(n, Other(n, h, g)) \in [Times -> Nat]
         /\ SumFunction(Other(n, h, g)) \in Nat
         /\ SumFunction(Current(n, Other(n, h, g))) \in Nat
         /\ n \div Window \in 0..(LastTime \div Window)
         /\ Got(n, c) \in 0..Limit /\ c[n \div Window] \in Nat
         /\ \A r \in Replicas : RecentOf(n, h[r]) \in [Times -> Nat]
<1>1. \A t \in Times : Held(h, t) \in Nat
  BY HeldIsNat DEF LimiterTyped
<1>2. Other(n, h, g) \in [Times -> Nat]
  BY <1>1, LimiterParameters DEF LimiterTyped, Covered, Other
<1>3. Current(n, Other(n, h, g)) \in [Times -> Nat]
  BY <1>2 DEF Current
<1>4. n \div Window \in 0..(LastTime \div Window)
  <2>1. n \in Nat /\ n =< LastTime
    BY LimiterParameters DEF LimiterTyped, Times
  <2>2. n \div Window \in Nat /\ LastTime \div Window \in Nat
    BY <2>1, WindowOf, LimiterParameters
  <2> QED BY <2>1, <2>2, WindowsGrow, LimiterParameters
<1>5. c[n \div Window] \in Nat
  BY <1>4 DEF LimiterTyped
<1>6. Got(n, c) \in 0..Limit
  BY <1>5, LimiterParameters DEF Got
<1>7. \A r \in Replicas : RecentOf(n, h[r]) \in [Times -> Nat]
  BY DEF RecentOf, LimiterTyped
<1> QED BY <1>2, <1>3, <1>4, <1>5, <1>6, <1>7, SumIsNat, LimiterParameters

\* The counter counts one more call.
Counted(n, c) == [c EXCEPT ![n \div Window] = IF @ > Limit THEN @ ELSE @ + 1]

LEMMA CountedIs ==
  ASSUME NEW n, NEW c, NEW h, NEW g, NEW l, LimiterTyped(n, c, h, g, l), Covered(n, h, g)
  PROVE  /\ Counted(n, c) \in [0..(LastTime \div Window) -> Nat]
         /\ Got(n, Counted(n, c))
              = IF c[n \div Window] < Limit THEN Got(n, c) + 1 ELSE Got(n, c)
<1> DEFINE w == n \div Window
           k == IF c[w] > Limit THEN c[w] ELSE c[w] + 1
<1>1. w \in 0..(LastTime \div Window) /\ c[w] \in Nat /\ Limit \in Nat
  BY OtherTyped, LimiterParameters
<1>2. c \in [0..(LastTime \div Window) -> Nat]
  BY DEF LimiterTyped
<1>3. Counted(n, c) = [c EXCEPT ![w] = k] /\ k \in Nat
  BY <1>1 DEF Counted
<1> HIDE DEF w
<1>4. Counted(n, c) \in [0..(LastTime \div Window) -> Nat] /\ Counted(n, c)[w] = k
  BY <1>1, <1>2, <1>3
<1>5. Got(n, Counted(n, c)) = (IF k < Limit THEN k ELSE Limit)
  BY <1>4 DEF Got, w
<1>6. Got(n, c) = IF c[w] < Limit THEN c[w] ELSE Limit
  BY DEF Got, w
<1> QED BY <1>1, <1>4, <1>5, <1>6 DEF w

\* Redis counts, and lets the client through while it is under the limit.
LEMMA LimitedByRedis ==
  ASSUME NEW n, NEW c, NEW h, NEW g, NEW l, Limited(n, c, h, g, l),
         NEW v \in {0, 1}, v = IF c[n \div Window] < Limit THEN 1 ELSE 0,
         NEW k \in [Times -> Nat], k[n] = g[n] + v, \A t \in Times : t # n => k[t] = g[t]
  PROVE  Limited(n, Counted(n, c), h, k, l)
<1> DEFINE d == Counted(n, c)
<1>1. LimiterTyped(n, c, h, g, l) /\ Covered(n, h, g)
  BY DEF Limited
<1>2. /\ n \in Times /\ l \in Nat /\ h \in [Replicas -> [Times -> Nat]] /\ g \in [Times -> Nat]
      /\ n \in Nat /\ Window \in Nat \ {0} /\ Limit \in Nat \ {0} /\ Times \subseteq Nat
      /\ IsFiniteSet(Times) /\ v \in Nat
  BY <1>1, LimiterParameters DEF LimiterTyped
<1>3. /\ d \in [0..(LastTime \div Window) -> Nat]
      /\ Got(n, d) = Got(n, c) + v /\ Got(n, c) \in Nat
  BY <1>1, CountedIs, OtherTyped
<1> HIDE DEF d
<1>6. LimiterTyped(n, d, h, k, l)
  BY <1>2, <1>3 DEF LimiterTyped
<1>7. \A t \in Times : Held(h, t) \in Nat
  BY <1>2, HeldIsNat
<1>8. Covered(n, h, k)
  <2>1. \A t \in Times : t > n => k[t] = 0
    BY <1>1, <1>2 DEF Covered
  <2>2. ASSUME NEW t \in Times
        PROVE  IF t > n - Window THEN Held(h, t) =< k[t] ELSE k[t] = 0
    <3>1. IF t > n - Window THEN Held(h, t) =< g[t] ELSE g[t] = 0
      BY <1>1 DEF Covered
    <3>2. CASE t # n
      BY <3>1, <3>2
    <3>3. CASE t = n
      <4>1. g[n] \in Nat /\ n > n - Window
        BY <1>2
      <4> QED BY <1>7, <3>1, <3>3, <4>1
    <3> QED BY <3>2, <3>3
  <2> QED BY <2>1, <2>2 DEF Covered
<1> DEFINE f == Other(n, h, g)
           e == Other(n, h, k)
<1>9. /\ f \in [Times -> Nat] /\ Current(n, f) \in [Times -> Nat]
      /\ SumFunction(f) \in Nat /\ SumFunction(Current(n, f)) \in Nat
  BY <1>1, OtherTyped
<1>10. e \in [Times -> Nat] /\ Current(n, e) \in [Times -> Nat]
  BY <1>6, <1>8, OtherTyped
<1>11. e[n] = f[n] + v /\ \A t \in Times : t # n => e[t] = f[t]
  <2>1. n > n - Window /\ g[n] \in Nat /\ Held(h, n) \in Nat
    BY <1>2, <1>7
  <2> QED BY <1>2, <2>1 DEF Other
<1> HIDE DEF f, e
<1>12. /\ Current(n, e)[n] = Current(n, f)[n] + v
       /\ \A t \in Times : t # n => Current(n, e)[t] = Current(n, f)[t]
  BY <1>2, <1>11 DEF Current
<1>13. SumFunction(e) = SumFunction(f) + v
  <2>1. Raised(Times, f, e, n, v)
    BY <1>2, <1>9, <1>10, <1>11 DEF Raised
  <2> QED BY <2>1, SumWithMore
<1>14. SumFunction(Current(n, e)) = SumFunction(Current(n, f)) + v
  <2> DEFINE fc == Current(n, f)
             ec == Current(n, e)
  <2>1. Raised(Times, fc, ec, n, v)
    BY <1>2, <1>9, <1>10, <1>12 DEF Raised
  <2> HIDE DEF fc, ec
  <2>2. SumFunction(ec) = SumFunction(fc) + v
    BY <2>1, SumWithMore
  <2> QED BY <2>2 DEF fc, ec
<1>15. /\ SumFunction(f) =< Limit + Got(n, c) + Limit * l
       /\ SumFunction(Current(n, f)) =< Got(n, c) + Limit * l
  BY DEF Limited, f
<1>16. Limit * l \in Nat
  BY <1>2
<1>17. /\ SumFunction(e) =< Limit + Got(n, d) + Limit * l
       /\ SumFunction(Current(n, e)) =< Got(n, d) + Limit * l
  <2> DEFINE x == SumFunction(e)
             y == SumFunction(f)
             xc == SumFunction(Current(n, e))
             yc == SumFunction(Current(n, f))
             got == Got(n, c)
             more == Got(n, d)
             loss == Limit * l
  <2>1. /\ x = y + v /\ xc = yc + v /\ more = got + v
        /\ y =< Limit + got + loss /\ yc =< got + loss
    BY <1>3, <1>13, <1>14, <1>15
  <2>2. y \in Nat /\ yc \in Nat /\ v \in Nat /\ got \in Nat /\ loss \in Nat /\ Limit \in Nat
    BY <1>2, <1>3, <1>9, <1>16
  <2> HIDE DEF x, y, xc, yc, got, more, loss
  <2>3. x =< Limit + more + loss /\ xc =< more + loss
    BY ONLY <2>1, <2>2
  <2> QED BY <2>3 DEF x, xc, more, loss
<1> QED BY <1>6, <1>8, <1>17 DEF Limited, d, e

\* A memory purges its hits, and lets the client through, v = 1, while it is under the
\* limit; Redis may have counted the call.
LEMMA LimitedByMemory ==
  ASSUME NEW n, NEW c, NEW h, NEW g, NEW l, Limited(n, c, h, g, l), NEW r \in Replicas,
         NEW d, d = c \/ d = Counted(n, c), NEW v \in {0, 1},
         NEW q, q = RecentOf(n, h[r]), SumFunction(q) + v =< Limit,
         NEW b \in [Replicas -> [Times -> Nat]], \A p \in Replicas : p # r => b[p] = h[p],
         b[r][n] = q[n] + v, \A t \in Times : t # n => b[r][t] = q[t],
         NEW k \in [Times -> Nat], k[n] = g[n] + v, \A t \in Times : t # n => k[t] = g[t]
  PROVE  Limited(n, d, b, k, l)
<1>1. LimiterTyped(n, c, h, g, l) /\ Covered(n, h, g)
  BY DEF Limited
<1>2. /\ n \in Times /\ l \in Nat /\ h \in [Replicas -> [Times -> Nat]] /\ g \in [Times -> Nat]
      /\ n \in Nat /\ Window \in Nat \ {0} /\ Limit \in Nat \ {0} /\ Times \subseteq Nat
      /\ IsFiniteSet(Times) /\ IsFiniteSet(Replicas) /\ v \in Nat
  BY <1>1, LimiterParameters DEF LimiterTyped
<1>3. /\ d \in [0..(LastTime \div Window) -> Nat] /\ Got(n, d) >= Got(n, c)
      /\ Got(n, c) \in Nat /\ Got(n, d) \in Nat
  <2>1. c \in [0..(LastTime \div Window) -> Nat]
    BY <1>1 DEF LimiterTyped
  <2>3. Got(n, c) \in 0..Limit /\ Limit \in Nat
    BY <1>1, <1>2, OtherTyped
  <2>2. /\ Counted(n, c) \in [0..(LastTime \div Window) -> Nat]
        /\ Got(n, Counted(n, c)) \in {Got(n, c), Got(n, c) + 1}
    BY <1>1, CountedIs
  <2> QED BY <2>1, <2>2, <2>3
<1>4. q \in [Times -> Nat] /\ SumFunction(q) \in Nat
  BY <1>1, <1>2, OtherTyped, SumIsNat
<1>8. \A t \in Times : q[t] = IF t > n - Window THEN h[r][t] ELSE 0
  BY DEF RecentOf
<1>9. \A p \in Replicas : SumFunction(RecentOf(n, h[p])) =< Limit
  BY DEF Limited
<1>10. LimiterTyped(n, d, b, k, l)
  BY <1>2, <1>3 DEF LimiterTyped
<1>11. ASSUME NEW t \in Times, t > n - Window
       PROVE  /\ Held(h, t) \in Nat
              /\ Held(b, t) = IF t = n THEN Held(h, t) + v ELSE Held(h, t)
  <2> DEFINE old == [p \in Replicas |-> h[p][t]]
             new == [p \in Replicas |-> b[p][t]]
             u == IF t = n THEN v ELSE 0
  <2>1. /\ old \in [Replicas -> Nat] /\ new \in [Replicas -> Nat] /\ u \in Nat
        /\ new[r] = old[r] + u /\ \A p \in Replicas : p # r => new[p] = old[p]
    BY <1>2, <1>4, <1>8, <1>11
  <2> HIDE DEF old, new, u
  <2>2. IsFiniteSet(Replicas) /\ r \in Replicas
    BY <1>2
  <2>3. SumFunction(new) = SumFunction(old) + u
    <3>1. Raised(Replicas, old, new, r, u)
      BY <2>1, <2>2 DEF Raised
    <3> QED BY <3>1, SumWithMore
  <2>4. SumFunction(old) \in Nat
    BY ONLY <2>1, <2>2, SumIsNat
  <2> QED BY <2>3, <2>4 DEF Held, old, new, u
<1>12. n > n - Window
  BY <1>2
<1>13. Covered(n, b, k)
  <2>1. \A t \in Times : t > n => k[t] = 0
    BY <1>1, <1>2 DEF Covered
  <2>2. ASSUME NEW t \in Times
        PROVE  IF t > n - Window THEN Held(b, t) =< k[t] ELSE k[t] = 0
    <3>1. /\ IF t > n - Window THEN Held(h, t) =< g[t] ELSE g[t] = 0
          /\ g[t] \in Nat
      BY <1>1, <1>2 DEF Covered
    <3> QED BY <1>11, <1>12, <3>1
  <2> QED BY <2>1, <2>2 DEF Covered
<1>14. Other(n, b, k) = Other(n, h, g)
  <2>1. ASSUME NEW t \in Times, t > n - Window PROVE k[t] - Held(b, t) = g[t] - Held(h, t)
    <3>1. Held(h, t) \in Nat /\ g[t] \in Nat /\ g[n] \in Nat
      BY <1>2, <1>11, <2>1
    <3> QED BY <1>2, <1>11, <2>1, <3>1
  <2> QED BY <2>1 DEF Other
<1>15. \A p \in Replicas : SumFunction(RecentOf(n, b[p])) =< Limit
  <2>1. ASSUME NEW p \in Replicas, p # r PROVE SumFunction(RecentOf(n, b[p])) =< Limit
    BY <1>9, <2>1
  <2> DEFINE e == RecentOf(n, b[r])
  <2>2. e \in [Times -> Nat]
    BY <1>10, <1>13, OtherTyped
  <2>3. e[n] = q[n] + v /\ \A t \in Times : t # n => e[t] = q[t]
    BY <1>2, <1>8, <1>12 DEF RecentOf
  <2> HIDE DEF e
  <2>4. SumFunction(e) = SumFunction(q) + v
    <3>1. Raised(Times, q, e, n, v)
      BY <1>2, <1>4, <2>2, <2>3 DEF Raised
    <3> QED BY <3>1, SumWithMore
  <2> QED BY <2>1, <2>4 DEF e
<1>16. /\ SumFunction(Other(n, h, g)) \in Nat /\ SumFunction(Current(n, Other(n, h, g))) \in Nat
       /\ SumFunction(Other(n, h, g)) =< Limit + Got(n, c) + Limit * l
       /\ SumFunction(Current(n, Other(n, h, g))) =< Got(n, c) + Limit * l
       /\ Limit * l \in Nat
  BY <1>1, <1>2, OtherTyped DEF Limited
<1>17. /\ SumFunction(Other(n, b, k)) =< Limit + Got(n, d) + Limit * l
       /\ SumFunction(Current(n, Other(n, b, k))) =< Got(n, d) + Limit * l
  <2> DEFINE y == SumFunction(Other(n, h, g))
             yc == SumFunction(Current(n, Other(n, h, g)))
             got == Got(n, c)
             more == Got(n, d)
             loss == Limit * l
  <2>1. /\ more >= got /\ y =< Limit + got + loss /\ yc =< got + loss
    BY <1>3, <1>16
  <2>2. /\ y \in Nat /\ yc \in Nat /\ got \in Nat /\ more \in Nat /\ loss \in Nat
        /\ Limit \in Nat
    BY <1>2, <1>3, <1>16
  <2>3. /\ SumFunction(Other(n, b, k)) = y
        /\ SumFunction(Current(n, Other(n, b, k))) = yc
    BY <1>14
  <2> HIDE DEF y, yc, got, more, loss
  <2>4. y =< Limit + more + loss /\ yc =< more + loss
    BY ONLY <2>1, <2>2
  <2> QED BY <2>3, <2>4 DEF more, loss
<1> QED BY <1>10, <1>13, <1>15, <1>17 DEF Limited

\* A second passes: what leaves the last Window seconds is forgotten.  With a new window of
\* Redis, all that is left of the old one is what its counter has let through.
LEMMA LimitedByTick ==
  ASSUME NEW n, NEW c, NEW h, NEW g, NEW l, Limited(n, c, h, g, l), n + 1 \in Times,
         NEW k \in [Times -> Nat],
         \A t \in Times : k[t] = IF t > n + 1 - Window THEN g[t] ELSE 0
  PROVE  Limited(n + 1, c, h, k, l)
<1> DEFINE m == n + 1
           f == Other(n, h, g)
           e == Other(m, h, k)
<1>1. LimiterTyped(n, c, h, g, l) /\ Covered(n, h, g)
  BY DEF Limited
<1>2. /\ n \in Times /\ l \in Nat /\ h \in [Replicas -> [Times -> Nat]] /\ g \in [Times -> Nat]
      /\ n \in Nat /\ Window \in Nat \ {0} /\ Limit \in Nat \ {0} /\ Times \subseteq Nat
      /\ IsFiniteSet(Times) /\ m = n + 1
  BY <1>1, LimiterParameters DEF LimiterTyped
<1>3. LimiterTyped(m, c, h, k, l)
  BY <1>1 DEF LimiterTyped
<1> HIDE DEF m
<1>4. \A t \in Times : Held(h, t) \in Nat
  BY <1>2, HeldIsNat
<1>5. \A t \in Times : k[t] = IF t > m - Window THEN g[t] ELSE 0
  BY <1>2
<1>6. Covered(m, h, k)
  <2>1. ASSUME NEW t \in Times, t > m PROVE k[t] = 0
    BY <1>1, <1>2, <1>5, <2>1 DEF Covered
  <2>2. ASSUME NEW t \in Times
        PROVE  IF t > m - Window THEN Held(h, t) =< k[t] ELSE k[t] = 0
    <3>1. t > m - Window => t > n - Window
      BY <1>2
    <3> QED BY <1>1, <1>5, <3>1 DEF Covered
  <2> QED BY <2>1, <2>2 DEF Covered
<1>7. \A r \in Replicas : SumFunction(RecentOf(m, h[r])) =< Limit
  <2> TAKE r \in Replicas
  <2> DEFINE was == RecentOf(n, h[r])
             is == RecentOf(m, h[r])
  <2>1. was \in [Times -> Nat] /\ is \in [Times -> Nat]
    BY <1>1, <1>3, <1>6, OtherTyped
  <2>2. ASSUME NEW t \in Times PROVE is[t] =< was[t]
    <3>1. h[r][t] \in Nat /\ (t > m - Window => t > n - Window)
      BY <1>2
    <3> QED BY <3>1 DEF RecentOf
  <2>3. SumFunction(was) =< Limit
    BY DEF Limited
  <2> HIDE DEF was, is
  <2>4. SumFunction(is) =< SumFunction(was)
    BY <1>2, <2>1, <2>2, SumIsMonotone
  <2>5. SumFunction(is) \in Nat /\ SumFunction(was) \in Nat
    BY <1>2, <2>1, SumIsNat
  <2>6. SumFunction(is) =< Limit
    BY <1>2, <2>3, <2>4, <2>5
  <2> QED BY <2>6 DEF is
<1>8. /\ f \in [Times -> Nat] /\ Current(n, f) \in [Times -> Nat]
      /\ SumFunction(f) \in Nat /\ SumFunction(Current(n, f)) \in Nat
      /\ Got(n, c) \in 0..Limit
  BY <1>1, OtherTyped
<1>9. /\ e \in [Times -> Nat] /\ Current(m, e) \in [Times -> Nat]
      /\ SumFunction(e) \in Nat /\ SumFunction(Current(m, e)) \in Nat
      /\ Got(m, c) \in 0..Limit
  BY <1>3, <1>6, OtherTyped
<1>10. \A t \in Times : e[t] =< f[t] /\ (t =< m - Window => e[t] = 0)
  <2> TAKE t \in Times
  <2>1. /\ g[t] \in Nat /\ Held(h, t) \in Nat /\ f[t] \in Nat
        /\ t > m - Window => t > n - Window
    BY <1>2, <1>4, <1>8
  <2>2. e[t] = IF t > m - Window THEN k[t] - Held(h, t) ELSE 0
    BY DEF Other
  <2>3. f[t] = IF t > n - Window THEN g[t] - Held(h, t) ELSE 0
    BY DEF Other
  <2>4. k[t] = IF t > m - Window THEN g[t] ELSE 0
    BY <1>5
  <2>5. t \in Nat /\ m \in Nat /\ n \in Nat /\ Window \in Nat
    BY <1>2
  <2> HIDE DEF e, f
  <2> QED BY <2>1, <2>2, <2>3, <2>4, <2>5
<1>11. \A t \in Times : t > n => e[t] = 0
  <2> TAKE t \in Times
  <2> HAVE t > n
  <2>1. t > n - Window /\ g[t] = 0 /\ Held(h, t) = 0
    BY <1>1, <1>2, <1>4 DEF Covered
  <2>2. f[t] = 0
    BY <2>1 DEF Other
  <2> HIDE DEF e, f
  <2> QED BY <1>8, <1>9, <1>10, <2>2
<1>12. /\ SumFunction(f) =< Limit + Got(n, c) + Limit * l
       /\ SumFunction(Current(n, f)) =< Got(n, c) + Limit * l
       /\ Limit * l \in Nat
  BY <1>2 DEF Limited
<1> HIDE DEF e, f
<1>13. CASE WindowAt(m) = WindowAt(n)
  <2>1. Got(m, c) = Got(n, c)
    BY <1>13 DEF Got, WindowAt
  <2>2. \A t \in Times : Current(m, e)[t] =< Current(n, f)[t]
    BY <1>8, <1>9, <1>10, <1>13 DEF Current
  <2> DEFINE fc == Current(n, f)
             ec == Current(m, e)
  <2>3. fc \in [Times -> Nat] /\ ec \in [Times -> Nat] /\ \A t \in Times : ec[t] =< fc[t]
    BY <1>8, <1>9, <2>2
  <2>4. IsFiniteSet(Times)
    BY <1>2
  <2> HIDE DEF fc, ec
  <2>5. SumFunction(ec) =< SumFunction(fc)
    BY ONLY <2>3, <2>4, SumIsMonotone
  <2>6. SumFunction(e) =< SumFunction(f)
    BY <1>8, <1>9, <1>10, <2>4, SumIsMonotone
  <2>7. /\ SumFunction(e) =< Limit + Got(m, c) + Limit * l
        /\ SumFunction(Current(m, e)) =< Got(m, c) + Limit * l
    BY <1>2, <1>8, <1>9, <1>12, <2>1, <2>5, <2>6 DEF fc, ec
  <2> QED BY <1>3, <1>6, <1>7, <2>7 DEF Limited, e, m
<1>14. CASE WindowAt(m) # WindowAt(n)
  <2>1. /\ \A t \in Nat : t =< n /\ t > m - Window => WindowAt(t) = WindowAt(n)
        /\ \A t \in Nat : WindowAt(t) = WindowAt(m) => t > n
    <3>1. n \in Nat /\ m \in Nat /\ m = n + 1 /\ WindowAt(m) # WindowAt(n)
      BY <1>2, <1>14
    <3> QED BY ONLY <3>1, NextWindow
  <2> DEFINE fc == Current(n, f)
             ec == Current(m, e)
  <2>2. \A t \in Times : ec[t] = 0
    BY <1>2, <1>11, <2>1 DEF Current
  <2>3. ASSUME NEW t \in Times PROVE e[t] =< fc[t]
    <3>1. t \in Nat /\ m \in Nat /\ n \in Nat /\ Window \in Nat /\ e[t] \in Nat /\ fc[t] \in Nat
      BY <1>2, <1>8, <1>9
    <3>2. CASE t > n \/ t =< m - Window
      <4>1. e[t] = 0
        BY <1>10, <1>11, <3>2
      <4> HIDE DEF fc
      <4> QED BY <3>1, <4>1
    <3>3. CASE t =< n /\ t > m - Window
      <4>1. WindowAt(t) = WindowAt(n)
        BY <2>1, <3>1, <3>3
      <4>2. fc[t] = f[t]
        BY <4>1 DEF Current
      <4> HIDE DEF fc
      <4> QED BY <1>10, <4>2
    <3> QED BY <3>1, <3>2, <3>3
  <2>4. fc \in [Times -> Nat] /\ ec \in [Times -> Nat] /\ IsFiniteSet(Times) /\ e \in [Times -> Nat]
    BY <1>2, <1>8, <1>9
  <2> HIDE DEF fc, ec
  <2>5. SumFunction(ec) = 0
    BY ONLY <2>2, <2>4, SumOfZeros
  <2>6. SumFunction(e) =< SumFunction(fc)
    BY ONLY <2>3, <2>4, SumIsMonotone
  <2>7. /\ SumFunction(e) =< Limit + Got(m, c) + Limit * l
        /\ SumFunction(Current(m, e)) =< Got(m, c) + Limit * l
    BY <1>2, <1>8, <1>9, <1>12, <2>5, <2>6 DEF fc, ec
  <2> QED BY <1>3, <1>6, <1>7, <2>7 DEF Limited, e, m
<1> QED BY <1>13, <1>14 DEF m

\* Redis restarts, or something else is lost: a limit more.
LEMMA LimitedByLoss ==
  ASSUME NEW n, NEW c, NEW h, NEW g, NEW l, Limited(n, c, h, g, l),
         NEW d \in [0..(LastTime \div Window) -> Nat]
  PROVE  Limited(n, d, h, g, l + 1)
<1>1. LimiterTyped(n, c, h, g, l) /\ Covered(n, h, g)
  BY DEF Limited
<1>2. l \in Nat /\ LimiterTyped(n, d, h, g, l + 1)
  BY <1>1 DEF LimiterTyped
<1>3. Got(n, c) \in 0..Limit /\ Got(n, d) \in 0..Limit /\ Limit \in Nat
  BY <1>1, <1>2, OtherTyped, LimiterParameters
<1>4. /\ SumFunction(Other(n, h, g)) =< Limit + Got(n, c) + Limit * l
      /\ SumFunction(Current(n, Other(n, h, g))) =< Got(n, c) + Limit * l
      /\ SumFunction(Other(n, h, g)) \in Nat /\ SumFunction(Current(n, Other(n, h, g))) \in Nat
  BY <1>1, OtherTyped DEF Limited
<1>5. Limit * (l + 1) = Limit * l + Limit /\ Limit * l \in Nat
  BY <1>2, <1>3
<1>6. /\ SumFunction(Other(n, h, g)) =< Limit + Got(n, d) + Limit * (l + 1)
      /\ SumFunction(Current(n, Other(n, h, g))) =< Got(n, d) + Limit * (l + 1)
  BY <1>3, <1>4, <1>5
<1>7. \A r \in Replicas : SumFunction(RecentOf(n, h[r])) =< Limit
  BY DEF Limited
<1> QED BY <1>1, <1>2, <1>6, <1>7 DEF Limited

\* A replica restarts: what its memory accounted for, at most a limit, is accounted for no more.
LEMMA LimitedByForgetting ==
  ASSUME NEW n, NEW c, NEW h, NEW g, NEW l, Limited(n, c, h, g, l), NEW r \in Replicas,
         NEW b \in [Replicas -> [Times -> Nat]], \A p \in Replicas : p # r => b[p] = h[p],
         \A t \in Times : b[r][t] = 0
  PROVE  Limited(n, c, b, g, l + 1)
<1> DEFINE q == RecentOf(n, h[r])
           f == Other(n, h, g)
           e == Other(n, b, g)
<1>1. LimiterTyped(n, c, h, g, l) /\ Covered(n, h, g)
  BY DEF Limited
<1>2. /\ n \in Times /\ l \in Nat /\ h \in [Replicas -> [Times -> Nat]] /\ g \in [Times -> Nat]
      /\ Limit \in Nat /\ IsFiniteSet(Times) /\ IsFiniteSet(Replicas)
  BY <1>1, LimiterParameters DEF LimiterTyped
<1>3. LimiterTyped(n, c, b, g, l + 1)
  BY <1>1 DEF LimiterTyped
<1>4. \A t \in Times : Held(b, t) \in Nat /\ h[r][t] \in Nat
  BY <1>2, HeldIsNat
<1>5. \A t \in Times : Held(h, t) = Held(b, t) + h[r][t]
  <2> TAKE t \in Times
  <2> DEFINE old == [p \in Replicas |-> h[p][t]]
             new == [p \in Replicas |-> b[p][t]]
             u == h[r][t]
  <2>1. /\ old \in [Replicas -> Nat] /\ new \in [Replicas -> Nat] /\ u \in Nat
        /\ old[r] = new[r] + u /\ \A p \in Replicas : p # r => old[p] = new[p]
    BY <1>2
  <2>2. IsFiniteSet(Replicas) /\ r \in Replicas
    BY <1>2
  <2> HIDE DEF old, new, u
  <2>3. SumFunction(old) = SumFunction(new) + u
    <3>1. Raised(Replicas, new, old, r, u)
      BY <2>1, <2>2 DEF Raised
    <3> QED BY <3>1, SumWithMore
  <2> QED BY <2>3 DEF Held, old, new, u
<1>6. Covered(n, b, g)
  <2>1. ASSUME NEW t \in Times
        PROVE  IF t > n - Window THEN Held(b, t) =< g[t] ELSE g[t] = 0
    <3>1. /\ IF t > n - Window THEN Held(h, t) =< g[t] ELSE g[t] = 0
          /\ g[t] \in Nat /\ Held(b, t) \in Nat /\ h[r][t] \in Nat
          /\ Held(h, t) = Held(b, t) + h[r][t]
      BY <1>1, <1>2, <1>4, <1>5 DEF Covered
    <3> QED BY <3>1
  <2> QED BY <1>1, <2>1 DEF Covered
<1>7. \A p \in Replicas : SumFunction(RecentOf(n, b[p])) =< Limit
  <2>1. ASSUME NEW p \in Replicas, p # r PROVE SumFunction(RecentOf(n, b[p])) =< Limit
    BY <2>1 DEF Limited
  <2> DEFINE none == RecentOf(n, b[r])
  <2>2. none \in [Times -> Nat] /\ \A t \in Times : none[t] = 0
    BY <1>3, <1>6, OtherTyped DEF RecentOf
  <2> HIDE DEF none
  <2>3. SumFunction(none) = 0
    BY <1>2, <2>2, SumOfZeros
  <2> QED BY <1>2, <2>1, <2>3 DEF none
<1>8. /\ f \in [Times -> Nat] /\ Current(n, f) \in [Times -> Nat] /\ q \in [Times -> Nat]
      /\ SumFunction(f) \in Nat /\ SumFunction(Current(n, f)) \in Nat /\ Got(n, c) \in Nat
  BY <1>1, OtherTyped
<1>9. e \in [Times -> Nat] /\ Current(n, e) \in [Times -> Nat]
  BY <1>3, <1>6, OtherTyped
<1>10. \A t \in Times : e[t] = f[t] + q[t]
  <2> TAKE t \in Times
  <2>1. /\ Held(h, t) = Held(b, t) + h[r][t] /\ Held(b, t) \in Nat /\ h[r][t] \in Nat
        /\ g[t] \in Nat
    BY <1>2, <1>4, <1>5
  <2>2. /\ f[t] = IF t > n - Window THEN g[t] - Held(h, t) ELSE 0
        /\ e[t] = IF t > n - Window THEN g[t] - Held(b, t) ELSE 0
        /\ q[t] = IF t > n - Window THEN h[r][t] ELSE 0
    BY DEF Other, RecentOf
  <2> HIDE DEF e, f, q
  <2> QED BY <2>1, <2>2
<1>11. SumFunction(q) =< Limit /\ SumFunction(q) \in Nat
  BY <1>2, <1>8, SumIsNat DEF Limited
<1>12. /\ SumFunction(f) =< Limit + Got(n, c) + Limit * l
       /\ SumFunction(Current(n, f)) =< Got(n, c) + Limit * l
       /\ Limit * l \in Nat /\ Limit * (l + 1) = Limit * l + Limit
  BY <1>2 DEF Limited
<1> HIDE DEF e, f, q
<1> DEFINE fc == Current(n, f)
           ec == Current(n, e)
           qc == Current(n, q)
<1>13. \A t \in Times : ec[t] = fc[t] + qc[t] /\ qc[t] =< q[t]
  BY <1>8, <1>10 DEF Current
<1>14. /\ fc \in [Times -> Nat] /\ ec \in [Times -> Nat] /\ qc \in [Times -> Nat]
       /\ IsFiniteSet(Times)
  BY <1>2, <1>8, <1>9 DEF Current
<1> HIDE DEF fc, ec, qc
<1>15. SumFunction(e) = SumFunction(f) + SumFunction(q)
  BY ONLY <1>8, <1>9, <1>10, <1>14, SumOfBoth
<1>16. SumFunction(ec) = SumFunction(fc) + SumFunction(qc)
  BY ONLY <1>13, <1>14, SumOfBoth
<1>17. SumFunction(qc) =< SumFunction(q)
  BY ONLY <1>8, <1>13, <1>14, SumIsMonotone
<1>18. SumFunction(qc) \in Nat /\ SumFunction(fc) \in Nat
  BY ONLY <1>14, SumIsNat
<1>19. /\ SumFunction(e) =< Limit + Got(n, c) + Limit * (l + 1)
       /\ SumFunction(ec) =< Got(n, c) + Limit * (l + 1)
  BY <1>2, <1>8, <1>11, <1>12, <1>15, <1>16, <1>17, <1>18 DEF fc
<1> QED BY <1>3, <1>6, <1>7, <1>19 DEF Limited, e, ec

\* What follows for the grants: those of Redis and of forgotten memories, and at most a limit
\* for each memory.
LEMMA LimitFollows ==
  ASSUME NEW n, NEW c, NEW h, NEW g, NEW l, Limited(n, c, h, g, l), NEW f \in BOOLEAN,
         ~f => \A r \in Replicas : \A t \in Times : h[r][t] = 0
  PROVE  SumFunction(g) =< Limit * ((IF f THEN 2 + Cardinality(Replicas) ELSE 2) + l)
<1> DEFINE o == Other(n, h, g)
           F == [r \in Replicas |-> RecentOf(n, h[r])]
           held == [t \in Times |-> SumFunction([r \in Replicas |-> F[r][t]])]
           sums == [r \in Replicas |-> SumFunction(F[r])]
<1>1. LimiterTyped(n, c, h, g, l) /\ Covered(n, h, g)
  BY DEF Limited
<1>2. /\ n \in Nat /\ l \in Nat /\ h \in [Replicas -> [Times -> Nat]] /\ g \in [Times -> Nat]
      /\ Limit \in Nat \ {0} /\ Window \in Nat \ {0} /\ Times \subseteq Nat
      /\ IsFiniteSet(Times) /\ IsFiniteSet(Replicas) /\ Cardinality(Replicas) \in Nat
  BY <1>1, LimiterParameters DEF LimiterTyped
<1>3. /\ o \in [Times -> Nat] /\ SumFunction(o) \in Nat /\ Got(n, c) \in 0..Limit
      /\ F \in [Replicas -> [Times -> Nat]]
  BY <1>1, OtherTyped
<1>4. \A t \in Times : [r \in Replicas |-> F[r][t]] \in [Replicas -> Nat]
  BY <1>3
<1>5. held \in [Times -> Nat]
  <2>1. \A t \in Times : SumFunction([r \in Replicas |-> F[r][t]]) \in Nat
    <3> TAKE t \in Times
    <3> DEFINE row == [r \in Replicas |-> F[r][t]]
    <3>1. row \in [Replicas -> Nat]
      BY <1>4
    <3> HIDE DEF row
    <3>2. SumFunction(row) \in Nat
      BY <1>2, <3>1, SumIsNat
    <3> QED BY <3>2 DEF row
  <2> QED BY <2>1
<1>6. \A r \in Replicas : sums[r] \in Nat /\ sums[r] =< Limit /\ (~f => sums[r] = 0)
  <2> TAKE r \in Replicas
  <2> DEFINE q == RecentOf(n, h[r])
  <2>1. q \in [Times -> Nat] /\ sums[r] = SumFunction(q) /\ SumFunction(q) =< Limit
    BY <1>3 DEF Limited
  <2>2. ~f => \A t \in Times : q[t] = 0
    BY DEF RecentOf
  <2> HIDE DEF q, sums
  <2>3. SumFunction(q) \in Nat
    BY <1>2, <2>1, SumIsNat
  <2>4. ~f => SumFunction(q) = 0
    BY <1>2, <2>1, <2>2, SumOfZeros
  <2> QED BY <2>1, <2>3, <2>4
<1>7. \A t \in Times : g[t] = o[t] + held[t]
  <2> TAKE t \in Times
  <2>1. t \in Nat /\ g[t] \in Nat /\ Held(h, t) \in Nat
    BY <1>2, HeldIsNat
  <2>2. CASE t > n - Window
    <3>1. Held(h, t) =< g[t] /\ o[t] = g[t] - Held(h, t)
      BY <1>1, <2>2 DEF Covered, Other
    <3>2. \A r \in Replicas : F[r][t] = h[r][t]
      BY <2>2 DEF RecentOf
    <3>3. held[t] = Held(h, t)
      BY <3>2 DEF Held
    <3> HIDE DEF o, held
    <3> QED BY <2>1, <3>1, <3>3
  <2>3. CASE ~(t > n - Window)
    <3> DEFINE row == [r \in Replicas |-> F[r][t]]
    <3>1. g[t] = 0 /\ o[t] = 0
      BY <1>1, <2>3 DEF Covered, Other
    <3>2. row \in [Replicas -> Nat] /\ (\A r \in Replicas : row[r] = 0) /\ held[t] = SumFunction(row)
      BY <1>4, <2>3 DEF RecentOf
    <3> HIDE DEF o, held, row
    <3>3. SumFunction(row) = 0
      BY <1>2, <3>2, SumOfZeros
    <3> QED BY <3>1, <3>2, <3>3
  <2> QED BY <2>2, <2>3
<1>8. sums \in [Replicas -> Nat]
  BY <1>6
<1> HIDE DEF F
<1>9. SumFunction(held) = SumFunction(sums)
  <2>1. IsFiniteSet(Times) /\ IsFiniteSet(Replicas) /\ F \in [Replicas -> [Times -> Nat]]
    BY <1>2, <1>3
  <2> QED BY ONLY <2>1, SumsSwap
<1> HIDE DEF o, held, sums
<1>10. SumFunction(g) = SumFunction(o) + SumFunction(held)
  <2>1. IsFiniteSet(Times) /\ g \in [Times -> Nat] /\ o \in [Times -> Nat]
    BY <1>2, <1>3
  <2> QED BY ONLY <1>5, <1>7, <2>1, SumOfBoth
<1>11. SumFunction(o) =< Limit + Got(n, c) + Limit * l
  BY DEF Limited, o
<1>12. Limit * l \in Nat /\ SumFunction(sums) \in Nat /\ Limit * Cardinality(Replicas) \in Nat
  BY <1>2, <1>8, SumIsNat
<1>13. CASE f
  <2>1. SumFunction(sums) =< Limit * Cardinality(Replicas)
    BY <1>2, <1>6, <1>8, SumIsBounded
  <2>2. Limit * (2 + Cardinality(Replicas) + l) = Limit + Limit + Limit * Cardinality(Replicas) + Limit * l
    BY <1>2
  <2> QED BY <1>2, <1>3, <1>9, <1>10, <1>11, <1>12, <1>13, <2>1, <2>2
<1>14. CASE ~f
  <2>1. SumFunction(sums) = 0
    BY <1>2, <1>6, <1>8, <1>14, SumOfZeros
  <2>2. Limit * (2 + l) = Limit + Limit + Limit * l
    BY <1>2
  <2> QED BY <1>2, <1>3, <1>9, <1>10, <1>11, <1>12, <1>14, <2>1, <2>2
<1> QED BY <1>13, <1>14

-----------------------------------------------------------------------------
(* The limiter, step by step.                                              *)

LimiterInv ==
  /\ Limited(now, counts, hits, granted, lost)
  /\ ~failed => \A r \in Replicas : \A t \in Times : hits[r][t] = 0

LEMMA LimiterTypes ==
  ASSUME LimiterInv
  PROVE  /\ now \in Nat /\ lost \in Nat /\ IsFiniteSet(Times) /\ now \in Times
         /\ counts \in [0..(LastTime \div Window) -> Nat] /\ granted \in [Times -> Nat]
         /\ hits \in [Replicas -> [Times -> Nat]]
BY LimiterParameters DEF LimiterInv, Limited, LimiterTyped

LEMMA LimiterInit ==
  ASSUME Init
  PROVE  LimiterInv
<1> DEFINE o == Other(now, hits, granted)
           oc == Current(now, o)
<1>1. /\ now = 0 /\ lost = 0 /\ 0 \in Times /\ Window \in Nat \ {0} /\ Limit \in Nat
      /\ IsFiniteSet(Times) /\ IsFiniteSet(Replicas) /\ Times \subseteq Nat
  BY LimiterParameters DEF Init, Times
<1>2. /\ counts \in [0..(LastTime \div Window) -> Nat]
      /\ hits \in [Replicas -> [Times -> Nat]] /\ granted \in [Times -> Nat]
      /\ \A r \in Replicas : \A t \in Times : hits[r][t] = 0
      /\ \A t \in Times : granted[t] = 0
  BY DEF Init
<1>3. LimiterTyped(now, counts, hits, granted, lost)
  BY <1>1, <1>2 DEF LimiterTyped
<1>4. ASSUME NEW t \in Times PROVE Held(hits, t) = 0
  <2> DEFINE row == [r \in Replicas |-> hits[r][t]]
  <2>1. row \in [Replicas -> Nat] /\ \A r \in Replicas : row[r] = 0
    BY <1>2
  <2> HIDE DEF row
  <2>2. SumFunction(row) = 0
    BY <1>1, <2>1, SumOfZeros
  <2> QED BY <2>2 DEF Held, row
<1>5. Covered(now, hits, granted)
  BY <1>2, <1>4 DEF Covered
<1>6. \A r \in Replicas : SumFunction(RecentOf(now, hits[r])) =< Limit
  <2> TAKE r \in Replicas
  <2> DEFINE q == RecentOf(now, hits[r])
  <2>1. q \in [Times -> Nat] /\ \A t \in Times : q[t] = 0
    BY <1>2 DEF RecentOf
  <2> HIDE DEF q
  <2>2. SumFunction(q) = 0
    BY <1>1, <2>1, SumOfZeros
  <2> QED BY <1>1, <2>2 DEF q
<1>7. o \in [Times -> Nat] /\ oc \in [Times -> Nat] /\ Got(now, counts) \in Nat
  BY <1>3, <1>5, OtherTyped
<1>8. \A t \in Times : o[t] = 0
  BY <1>2, <1>4 DEF Other
<1>9. \A t \in Times : oc[t] = 0
  BY <1>8 DEF Current
<1> HIDE DEF o, oc
<1>10. SumFunction(o) = 0 /\ SumFunction(oc) = 0
  BY <1>1, <1>7, <1>8, <1>9, SumOfZeros
<1>11. /\ SumFunction(o) =< Limit + Got(now, counts) + Limit * lost
       /\ SumFunction(oc) =< Got(now, counts) + Limit * lost
  BY <1>1, <1>7, <1>10
<1> QED BY <1>2, <1>3, <1>5, <1>6, <1>11 DEF LimiterInv, Limited, o, oc

\* The connection of a call that the memory answers has failed, now or before.
LEMMA MemoryMeansFailed ==
  ASSUME IInv, NEW r \in Replicas, CountInMemory(r)
  PROVE  failed' = TRUE
<1>1. BackedOff(r) => failed' = TRUE
  <2>1. /\ ~failed => nextTry[r] = 0
        /\ now \in Nat /\ failed \in BOOLEAN
    BY DEF IInv, ReplayTyped, ReplayInv
  <2> QED BY <2>1 DEF BackedOff, Tries
<1> QED BY <1>1 DEF CountInMemory, Unseen, Unanswered, Dropped

\* Count and Grant are what the lemmas on the limiter speak of.
LEMMA GrantIs ==
  ASSUME LimiterInv, NEW ok \in BOOLEAN, Grant(ok)
  PROVE  /\ granted' \in [Times -> Nat]
         /\ granted'[now] = granted[now] + IF ok THEN 1 ELSE 0
         /\ \A t \in Times : t # now => granted'[t] = granted[t]
<1>1. granted \in [Times -> Nat] /\ now \in Times
  BY LimiterTypes
<1>2. CASE ok
  BY <1>1, <1>2 DEF Grant
<1>3. CASE ~ok
  BY <1>1, <1>3 DEF Grant
<1> QED BY <1>2, <1>3

LEMMA CountInRedisStep ==
  ASSUME LimiterInv, NEW r \in Replicas, CountInRedis(r), UNCHANGED <<now, lost>>
  PROVE  LimiterInv'
<1> DEFINE ok == counts[now \div Window] < Limit
           v == IF ok THEN 1 ELSE 0
<1>1. Limited(now, counts, hits, granted, lost) /\ UNCHANGED <<hits, failed>>
  BY DEF LimiterInv, CountInRedis, Answered
<1>2. counts' = Counted(now, counts)
  BY DEF CountInRedis, Count, Counted
<1>3. Grant(ok) /\ ok \in BOOLEAN
  BY DEF CountInRedis, UnderLimit
<1>4. v \in {0, 1} /\ v = IF counts[now \div Window] < Limit THEN 1 ELSE 0
  OBVIOUS
<1> HIDE DEF ok
<1>5. /\ granted' \in [Times -> Nat] /\ granted'[now] = granted[now] + v
      /\ \A t \in Times : t # now => granted'[t] = granted[t]
  BY <1>3, GrantIs
<1> HIDE DEF v
<1>6. Limited(now, Counted(now, counts), hits, granted', lost)
  BY ONLY <1>1, <1>4, <1>5, LimitedByRedis
<1> QED BY <1>1, <1>2, <1>6 DEF LimiterInv

LEMMA CountInMemoryStep ==
  ASSUME IInv, LimiterInv, NEW r \in Replicas, CountInMemory(r), UNCHANGED <<now, lost>>
  PROVE  LimiterInv'
<1> DEFINE q == RecentOf(now, hits[r])
           ok == SumFunction(q) < Limit
           v == IF ok THEN 1 ELSE 0
<1>1. /\ Limited(now, counts, hits, granted, lost) /\ failed' = TRUE
      /\ LimiterTyped(now, counts, hits, granted, lost) /\ Covered(now, hits, granted)
  BY MemoryMeansFailed DEF LimiterInv, Limited
<1>2. counts' = counts \/ counts' = Counted(now, counts)
  BY DEF CountInMemory, Count, Counted
<1>3. /\ Recent(r) = q /\ Limit \in Nat
      /\ now \in Times /\ hits \in [Replicas -> [Times -> Nat]] /\ IsFiniteSet(Times)
  BY LimiterTypes, LimiterParameters DEF Recent, RecentOf
<1>4. q \in [Times -> Nat] /\ SumFunction(q) \in Nat /\ SumFunction(q) =< Limit
  <2>1. q \in [Times -> Nat]
    BY <1>1, OtherTyped
  <2>2. SumFunction(q) =< Limit
    BY <1>1 DEF Limited
  <2> HIDE DEF q
  <2> QED BY <1>3, <2>1, <2>2, SumIsNat
<1> HIDE DEF q
<1>5. /\ hits' = [hits EXCEPT ![r] = IF ok THEN [q EXCEPT ![now] = @ + 1] ELSE q]
      /\ Grant(ok) /\ ok \in BOOLEAN
  BY <1>3 DEF CountInMemory, UnderLimit
<1>6. v \in {0, 1} /\ SumFunction(q) + v =< Limit
  BY <1>3, <1>4
<1> HIDE DEF ok
<1>7. /\ granted' \in [Times -> Nat] /\ granted'[now] = granted[now] + v
      /\ \A t \in Times : t # now => granted'[t] = granted[t]
  BY <1>5, GrantIs
<1>8. /\ hits' \in [Replicas -> [Times -> Nat]]
      /\ \A p \in Replicas : p # r => hits'[p] = hits[p]
      /\ hits'[r][now] = q[now] + v /\ \A t \in Times : t # now => hits'[r][t] = q[t]
  <2>1. CASE ok
    <3> DEFINE k == [q EXCEPT ![now] = @ + 1]
    <3>1. /\ k \in [Times -> Nat] /\ k[now] = q[now] + 1
          /\ \A t \in Times : t # now => k[t] = q[t]
      BY <1>3, <1>4
    <3>2. hits' = [hits EXCEPT ![r] = k] /\ v = 1
      BY <1>5, <2>1
    <3> HIDE DEF k, v
    <3> QED BY <1>3, <3>1, <3>2
  <2>2. CASE ~ok
    <3>1. hits' = [hits EXCEPT ![r] = q] /\ v = 0 /\ q[now] \in Nat
      BY <1>3, <1>4, <1>5, <2>2
    <3> HIDE DEF v
    <3> QED BY <1>3, <1>4, <3>1
  <2> QED BY <2>1, <2>2
<1> HIDE DEF v
<1>9. Limited(now, counts', hits', granted', lost)
  BY ONLY <1>1, <1>2, <1>6, <1>7, <1>8, r \in Replicas, LimitedByMemory DEF q
<1> QED BY <1>1, <1>9 DEF LimiterInv

LEMMA LimiterStep ==
  ASSUME IInv, LimiterInv, [Next]_vars
  PROVE  LimiterInv'
<1>1. /\ Limited(now, counts, hits, granted, lost) /\ lost \in Nat
      /\ counts \in [0..(LastTime \div Window) -> Nat] /\ hits \in [Replicas -> [Times -> Nat]]
      /\ granted \in [Times -> Nat]
      /\ ~failed => \A r \in Replicas : \A t \in Times : hits[r][t] = 0
  BY LimiterTypes DEF LimiterInv
<1>2. ASSUME NEW r \in Replicas, NEW m \in Signed, Arrive(r, m) PROVE LimiterInv'
  <2>1. UNCHANGED <<now, counts, hits, granted, lost>> /\ (failed => failed')
    BY <1>2 DEF Arrive, limiter, SeenInRedis, SeenInMemory, Answered, Unseen, Unanswered,
                BackedOff, Dropped
  <2> QED BY <1>1, <2>1 DEF LimiterInv
<1>3. ASSUME NEW r \in Replicas, Request(r) PROVE LimiterInv'
  <2>1. UNCHANGED <<now, lost>> /\ (CountInRedis(r) \/ CountInMemory(r))
    BY <1>3 DEF Request
  <2> QED BY <2>1, CountInRedisStep, CountInMemoryStep
<1>4. ASSUME NEW r \in Replicas, RestartReplica(r) PROVE LimiterInv'
  <2>1. /\ UNCHANGED <<now, counts, granted, failed>> /\ lost' = lost + 1
        /\ hits' = [hits EXCEPT ![r] = [t \in Times |-> 0]]
    BY <1>4 DEF RestartReplica
  <2>2. /\ hits' \in [Replicas -> [Times -> Nat]]
        /\ \A p \in Replicas : p # r => hits'[p] = hits[p]
        /\ \A t \in Times : hits'[r][t] = 0
    BY <1>1, <2>1
  <2>3. Limited(now, counts, hits', granted, lost + 1)
    BY ONLY <1>1, <2>2, r \in Replicas, LimitedByForgetting
  <2>4. ~failed' => \A p \in Replicas : \A t \in Times : hits'[p][t] = 0
    BY <1>1, <2>1, <2>2
  <2> QED BY <2>1, <2>3, <2>4 DEF LimiterInv
<1>5. ASSUME NEW r \in Replicas, Evict(r) PROVE LimiterInv'
  <2>1. UNCHANGED <<now, counts, hits, granted, failed>> /\ lost' = lost + 1
    BY <1>5 DEF Evict, limiter
  <2>2. Limited(now, counts, hits, granted, lost + 1)
    BY ONLY <1>1, LimitedByLoss
  <2> QED BY <1>1, <2>1, <2>2 DEF LimiterInv
<1>6. CASE Tick
  <2>1. /\ now' = now + 1 /\ now < LastTime /\ UNCHANGED <<counts, hits, failed, lost>>
        /\ granted' = [t \in Times |-> IF t > now' - Window THEN granted[t] ELSE 0]
    BY <1>6 DEF Tick
  <2>2. now + 1 \in Times
    BY <2>1, LimiterTypes, LimiterParameters, SMTT(30) DEF Times
  <2>3. /\ granted' \in [Times -> Nat]
        /\ \A t \in Times : granted'[t] = IF t > now + 1 - Window THEN granted[t] ELSE 0
    <3>1. ASSUME NEW t \in Times
          PROVE  /\ granted'[t] = IF t > now + 1 - Window THEN granted[t] ELSE 0
                 /\ granted'[t] \in Nat
      <4>1. granted'[t] = IF t > now' - Window THEN granted[t] ELSE 0
        BY <2>1
      <4>2. /\ granted[t] \in Nat /\ now' = now + 1
            /\ now \in Nat /\ Window \in Nat /\ t \in Nat
        BY <1>1, <2>1, LimiterTypes, LimiterParameters
      <4> QED BY <4>1, <4>2
    <3>2. granted' = [t \in Times |-> granted'[t]]
      BY <2>1
    <3> QED BY <3>1, <3>2
  <2>4. Limited(now + 1, counts, hits, granted', lost)
    BY ONLY <1>1, <2>2, <2>3, LimitedByTick
  <2> QED BY <1>1, <2>1, <2>4 DEF LimiterInv
<1>7. CASE Outage
  BY <1>1, <1>7 DEF Outage, limiter, LimiterInv
<1>8. CASE RestartRedis
  <2>1. /\ UNCHANGED <<now, hits, granted, failed>> /\ lost' = lost + 1
        /\ counts' = [w \in DOMAIN counts |-> 0]
    BY <1>8 DEF RestartRedis
  <2> DEFINE W == 0..(LastTime \div Window)
  <2>2. counts' \in [W -> Nat]
    <3>1. counts \in [W -> Nat]
      BY <1>1
    <3> HIDE DEF W
    <3>2. DOMAIN counts = W
      BY <3>1
    <3> QED BY <2>1, <3>2
  <2>3. Limited(now, counts', hits, granted, lost + 1)
    BY ONLY <1>1, <2>2, LimitedByLoss
  <2> QED BY <1>1, <2>1, <2>3 DEF LimiterInv
<1>9. CASE UNCHANGED vars
  BY <1>1, <1>9 DEF vars, limiter, LimiterInv
<1> QED BY <1>2, <1>3, <1>4, <1>5, <1>6, <1>7, <1>8, <1>9 DEF Next

LEMMA LimiterFollows ==
  ASSUME IInv, LimiterInv
  PROVE  GrantedBounded
<1>1. /\ Limited(now, counts, hits, granted, lost) /\ failed \in BOOLEAN
      /\ ~failed => \A r \in Replicas : \A t \in Times : hits[r][t] = 0
  BY DEF IInv, ReplayTyped, LimiterInv
<1>2. SumFunction(granted) =< Limit * ((IF failed THEN 2 + Cardinality(Replicas) ELSE 2) + lost)
  BY ONLY <1>1, LimitFollows
<1> QED BY <1>2 DEF GrantedBounded

(* What the limiter has granted in the last Window seconds is accounted    *)
(* for: by the memories, at most a limit each; by Redis's counter of the   *)
(* window and that of the window before; or by what has been lost.         *)
THEOREM LimiterInvariant == Spec => []LimiterInv
<1>1. Init => LimiterInv
  BY LimiterInit
<1>2. IInv /\ LimiterInv /\ [Next]_vars => LimiterInv'
  BY LimiterStep
<1> QED BY <1>1, <1>2, Invariant, PTL DEF Spec

(* Store.allow across replicas: in Window seconds a client is let through  *)
(* at most twice its limit while Redis answers, one limit more for each    *)
(* replica's memory through outages, late answers and reconnections, and   *)
(* one more for each restart.                                              *)
THEOREM GrantsAreBounded == Spec => []GrantedBounded
<1>1. IInv /\ LimiterInv => GrantedBounded
  BY LimiterFollows
<1> QED BY <1>1, Invariant, LimiterInvariant, PTL

=============================================================================
