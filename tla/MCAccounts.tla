----------------------------- MODULE MCAccounts -----------------------------
\* One account besides the owner, any one login followed; requests and sessions are
\* interchangeable.
EXTENDS Accounts, TLC

Symmetry == Permutations(Reqs) \cup Permutations(SessionIds)
=============================================================================
