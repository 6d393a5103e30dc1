------------------------------ MODULE Placement ------------------------------
(***************************************************************************)
(* The placement policy of gateway/app/scheduler.py: a pure function of    *)
(* the node table and the notebook runs.                                   *)
(*                                                                         *)
(* A run is a record with the host its notebook is pinned to and the set   *)
(* of hosts a boosted job spreads over; `runs' is the table, indexed by    *)
(* the order the rows were started in, and `ids' the rows the policy is    *)
(* shown.  Rows and nodes come from queries without ORDER BY, so wherever  *)
(* the code takes "the first" of several equally good hosts every one of   *)
(* them is a possible answer: a policy here is the SET of its answers.     *)
(***************************************************************************)
EXTENDS Naturals, FiniteSets

CONSTANTS Hosts,    \* node hostnames
          NoHost    \* node_hostname = "": nothing pinned

ASSUME HostsAssumption == IsFiniteSet(Hosts) /\ NoHost \notin Hosts

Modes == {"exclusive", "shared", "boost"}

\* What plan_placement returns.  `span' is ddp_nodes; the notebooks already on
\* the host (`colocated') are row numbers of the run table.
Placement == [host : Hosts \cup {NoHost}, mode : Modes, shared : BOOLEAN,
              gpus : Nat, span : SUBSET Hosts, colocated : SUBSET (Nat \ {0})]

\* The hosts a run occupies: its own and, for a boost, its peers.
Footprint(run) == {run.host} \cup run.span

-----------------------------------------------------------------------------
(* How many of the runs `ids' occupy host h. *)

\* A plausible slip: forget the peers of a boosted job.
LoadNoPeers(runs, ids, h) == Cardinality({i \in ids : h = runs[i].host})

\* A plausible slip: count the stopped rows as well.
LoadOfAllRows(runs, ids, h) == Cardinality({i \in DOMAIN runs : h \in Footprint(runs[i])})

Load(runs, ids, h) == Cardinality({i \in ids : h \in Footprint(runs[i])})

\* A plausible slip: count an occupied node as free.
FreeOffByOne(nodes, runs, ids) == {h \in nodes : Load(runs, ids, h) =< 1}

Free(nodes, runs, ids) == {h \in nodes : Load(runs, ids, h) = 0}

LeastLoaded(nodes, runs, ids) ==
  {h \in nodes : \A k \in nodes : Load(runs, ids, h) =< Load(runs, ids, k)}

-----------------------------------------------------------------------------
(* The three ways to place a launch on a registered cluster, and the one   *)
(* without a cluster.  `want' is the number of GPU nodes a granted boost   *)
(* asks for, 0 when there is no boost.                                     *)

Unpinned(want) ==
  [host |-> NoHost, mode |-> IF want > 0 THEN "boost" ELSE "exclusive",
   shared |-> FALSE, gpus |-> want, span |-> {}, colocated |-> {}]

WholeNode(h, wantsGpu) ==
  [host |-> h, mode |-> "exclusive", shared |-> FALSE,
   gpus |-> IF wantsGpu THEN 1 ELSE 0, span |-> {}, colocated |-> {}]

\* A plausible slip: only the runs that are sharing already count as colocated.
SharingWithSharers(h, wantsGpu, runs, ids) ==
  [host |-> h, mode |-> "shared", shared |-> TRUE,
   gpus |-> IF wantsGpu THEN 1 ELSE 0, span |-> {},
   colocated |-> {i \in ids : runs[i].host = h /\ runs[i].shared}]

Sharing(h, wantsGpu, runs, ids) ==
  [host |-> h, mode |-> "shared", shared |-> TRUE,
   gpus |-> IF wantsGpu THEN 1 ELSE 0, span |-> {},
   colocated |-> {i \in ids : runs[i].host = h}]

Spread(h, span) ==
  [host |-> h, mode |-> "boost", shared |-> FALSE,
   gpus |-> Cardinality(span), span |-> span, colocated |-> {}]

\* A plausible slip: free, not free[:want].
SpansUnlimited(nodes, runs, ids, want) ==
  LET free == Free(nodes, runs, ids)
  IN  IF free = {} THEN {{h} : h \in LeastLoaded(nodes, runs, ids)} ELSE {free}

\* free[:want], or the least-loaded host when nothing is free.
Spans(nodes, runs, ids, want) ==
  LET free == Free(nodes, runs, ids)
  IN  IF free = {}
      THEN {{h} : h \in LeastLoaded(nodes, runs, ids)}
      ELSE {s \in SUBSET free : /\ s # {}
                                /\ Cardinality(s) =< want
                                /\ Cardinality(s) < want => s = free}

(* Every placement plan_placement may return for a launch that is shown    *)
(* `nodes' and the active runs `ids' of the other users.                   *)
Placements(nodes, runs, ids, wantsGpu, want) ==
  IF nodes = {} THEN {Unpinned(want)}
  ELSE IF want > 0
       THEN UNION {{Spread(h, s) : h \in s} : s \in Spans(nodes, runs, ids, want)}
  ELSE IF Free(nodes, runs, ids) # {}
       THEN {WholeNode(h, wantsGpu) : h \in Free(nodes, runs, ids)}
  ELSE {Sharing(h, wantsGpu, runs, ids) : h \in LeastLoaded(nodes, runs, ids)}

=============================================================================
