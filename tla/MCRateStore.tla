---------------------------- MODULE MCRateStore -----------------------------
\* Two replicas; every message is stamped at second 1.
EXTENDS RateStore, TLC

MCStamp == [m \in Signed |-> 1]

ReplicaSymmetry == Permutations(Replicas)
=============================================================================
