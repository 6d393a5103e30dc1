----------------------------- MODULE RateStore ------------------------------
(***************************************************************************)
(* The shared store behind the rate limiter and the replay check           *)
(* (gateway/app/ratestore.py; middleware/rate_limit.py and                 *)
(* middleware/request_signing.py call it): Redis when it can be reached,   *)
(* the replica's own memory for the calls it cannot be, Redis again later. *)
(*                                                                         *)
(* Time is counted in seconds.  A call takes none: SET NX and INCR are     *)
(* atomic in Redis, and a replica makes one call at a time.  One client    *)
(* (the key of its limit) and a few signed requests, each of which arrives *)
(* any number of times, at any replica.                                    *)
(*                                                                         *)
(* passed, granted, failed and lost are history.                           *)
(***************************************************************************)
EXTENDS Integers, FiniteSets, Functions

CONSTANTS Replicas,
          Signed,     \* bound: signed requests, each with its nonce
          Stamp,      \* their timestamps
          Skew,       \* request_signing_skew_seconds
          Limit,      \* rate_limit_per_minute
          Window,     \* the 60 seconds of a limit
          Backoff,    \* the 5 seconds to the next attempt to connect
          LastTime,   \* bound: how long the model runs
          MaxLost     \* bound: restarts and evictions

ASSUME RateStoreAssumption ==
  /\ IsFiniteSet(Replicas)
  /\ Stamp \in [Signed -> Nat]
  /\ {Skew, Limit, Window, Backoff, LastTime, MaxLost} \subseteq Nat \ {0}

VARIABLES now,
          up,       \* Redis answers
          keys,     \* Redis: the nonces, with the second their keys expire
          counts,   \* Redis: the counters, by window
          client,   \* per replica: connected
          nextTry,  \* per replica: no attempt to connect before this second
          nonces,   \* per replica: those in memory, with the second they were seen
          hits,     \* per replica: those in memory, how many by second
          passed,   \* per signed request, how often it was let through
          granted,  \* the seconds of the last Window, how many were let through
          failed,   \* Redis has failed a call or a connection, once
          lost      \* how often a store has forgotten something

Times == 0..LastTime

conn    == <<client, nextTry>>
replay  == <<keys, nonces, passed>>
limiter == <<counts, hits, granted>>
vars    == <<now, up, conn, replay, limiter, failed, lost>>

Init ==
  /\ now = 0 /\ up = TRUE
  /\ keys = [m \in Signed |-> 0]
  /\ counts = [w \in 0..(LastTime \div Window) |-> 0]
  /\ client = [r \in Replicas |-> FALSE]
  /\ nextTry = [r \in Replicas |-> 0]
  /\ nonces = [r \in Replicas |-> {}]
  /\ hits = [r \in Replicas |-> [t \in Times |-> 0]]
  /\ passed = [m \in Signed |-> 0]
  /\ granted = [t \in Times |-> 0]
  /\ failed = FALSE
  /\ lost = 0

-----------------------------------------------------------------------------
(* Store._redis, Store._drop *)

\* Connected, or to be connected now; the call may find out that it is not.
Tries(r) == client[r] \/ now >= nextTry[r]

\* The call is made over Redis and answered.
Answered(r) ==
  /\ Tries(r) /\ up
  /\ client' = [client EXCEPT ![r] = TRUE]
  /\ UNCHANGED <<nextTry, failed>>

\* The ping or the call raises: drop the connection, and back off.
Dropped(r) ==
  /\ Tries(r)
  /\ client' = [client EXCEPT ![r] = FALSE]
  /\ nextTry' = [nextTry EXCEPT ![r] = now + Backoff]
  /\ failed' = TRUE

BackedOff(r) == ~Tries(r) /\ UNCHANGED <<conn, failed>>

\* The call was carried out, its answer did not come in time.
Unanswered(r) == up /\ Dropped(r)

\* The call is left to the memory, and Redis has not seen it.
Unseen(r) == BackedOff(r) \/ (~up /\ Dropped(r))

-----------------------------------------------------------------------------
(* RequestSigningMiddleware, Store.seen_nonce *)

\* The purge drops what is older than the window.
Kept(r) == {n \in nonces[r] : n.at >= now - 2 * Skew}

InMemory(r, m) == \E n \in Kept(r) : n.nonce = m

Remember(r, m) == nonces' = [nonces EXCEPT ![r] = Kept(r) \cup {[nonce |-> m, at |-> now]}]

\* A plausible slip: the key lives for one skew.
KeyLivesOneSkew == now + Skew + 1

\* ex = ttl + 1
KeyExpires == now + 2 * Skew + 1

InRedis(m) == keys[m] > now

InWindow(m) == now - Stamp[m] \in -Skew..Skew

Pass(m) == passed' = [passed EXCEPT ![m] = @ + 1]

MarkRedis(m) == keys' = IF InRedis(m) THEN keys ELSE [keys EXCEPT ![m] = KeyExpires]

SeenInRedis(r, m) ==
  /\ Answered(r)
  /\ MarkRedis(m)
  /\ IF InRedis(m) THEN UNCHANGED passed ELSE Pass(m)
  /\ UNCHANGED nonces

SeenInMemory(r, m) ==
  /\ \/ Unseen(r) /\ UNCHANGED keys
     \/ Unanswered(r) /\ MarkRedis(m)
  /\ IF InMemory(r, m) THEN UNCHANGED <<nonces, passed>> ELSE Remember(r, m) /\ Pass(m)

\* A request with a good signature arrives, for the first time or again.
Arrive(r, m) ==
  /\ InWindow(m)
  /\ SeenInRedis(r, m) \/ SeenInMemory(r, m)
  /\ UNCHANGED <<now, up, limiter, lost>>

-----------------------------------------------------------------------------
(* RateLimitMiddleware, Store.allow *)

\* A plausible slip: the limit is off by one.
UnderLimitOrAt(n) == n =< Limit

UnderLimit(n) == n < Limit

Recent(r) == [t \in Times |-> IF t > now - Window THEN hits[r][t] ELSE 0]

Grant(ok) == granted' = IF ok THEN [granted EXCEPT ![now] = @ + 1] ELSE granted

Count == counts' = [counts EXCEPT ![now \div Window] = IF @ > Limit THEN @ ELSE @ + 1]

CountInRedis(r) ==
  /\ Answered(r)
  /\ Count
  /\ Grant(UnderLimit(counts[now \div Window]))
  /\ UNCHANGED hits

CountInMemory(r) ==
  /\ \/ Unseen(r) /\ UNCHANGED counts
     \/ Unanswered(r) /\ Count
  /\ LET ok == UnderLimit(SumFunction(Recent(r)))
     IN  /\ hits' = [hits EXCEPT ![r] = IF ok THEN [Recent(r) EXCEPT ![now] = @ + 1] ELSE Recent(r)]
         /\ Grant(ok)

Request(r) ==
  /\ CountInRedis(r) \/ CountInMemory(r)
  /\ UNCHANGED <<now, up, replay, lost>>

-----------------------------------------------------------------------------
(* Time and faults. *)

Tick ==
  /\ now < LastTime
  /\ now' = now + 1
  /\ granted' = [t \in Times |-> IF t > now' - Window THEN granted[t] ELSE 0]
  /\ UNCHANGED <<up, conn, replay, counts, hits, failed, lost>>

Outage ==
  /\ up' = ~up
  /\ UNCHANGED <<now, conn, replay, limiter, failed, lost>>

\* Redis keeps nothing on disk.
RestartRedis ==
  /\ lost < MaxLost
  /\ keys' = [m \in Signed |-> 0]
  /\ counts' = [w \in DOMAIN counts |-> 0]
  /\ lost' = lost + 1
  /\ UNCHANGED <<now, up, conn, nonces, passed, hits, granted, failed>>

RestartReplica(r) ==
  /\ lost < MaxLost
  /\ client' = [client EXCEPT ![r] = FALSE]
  /\ nextTry' = [nextTry EXCEPT ![r] = 0]
  /\ nonces' = [nonces EXCEPT ![r] = {}]
  /\ hits' = [hits EXCEPT ![r] = [t \in Times |-> 0]]
  /\ lost' = lost + 1
  /\ UNCHANGED <<now, up, keys, passed, counts, granted, failed>>

\* More other nonces than the memory holds (100_000) came in one window.
Evict(r) ==
  /\ lost < MaxLost /\ nonces[r] # {}
  /\ nonces' = [nonces EXCEPT ![r] = {}]
  /\ lost' = lost + 1
  /\ UNCHANGED <<now, up, conn, keys, passed, limiter, failed>>

Next ==
  \/ \E r \in Replicas, m \in Signed : Arrive(r, m)
  \/ \E r \in Replicas : Request(r) \/ RestartReplica(r) \/ Evict(r)
  \/ Tick \/ Outage \/ RestartRedis

Spec == Init /\ [][Next]_vars

-----------------------------------------------------------------------------
(* The module's docstring: "limits/replay protection hold across gateway   *)
(* replicas".  A signed request is let through once as long as Redis       *)
(* answers; through outages, late answers and reconnections at most once   *)
(* more for every replica's memory, and once more for every store that     *)
(* has forgotten what it knew.                                             *)
PassedBounded ==
  \A m \in Signed : passed[m] =< (IF failed THEN 1 + Cardinality(Replicas) ELSE 1) + lost

(* In no Window seconds is a client let through more than twice its limit, *)
(* in two of Redis's fixed windows, as long as Redis answers; through      *)
(* outages each replica's memory adds at most one limit, a restart another.*)
GrantedBounded ==
  SumFunction(granted)
    =< Limit * ((IF failed THEN 2 + Cardinality(Replicas) ELSE 2) + lost)
=============================================================================
