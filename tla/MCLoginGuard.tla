---------------------------- MODULE MCLoginGuard ----------------------------
\* Requests that overlap on one account.
EXTENDS LoginGuard, TLC

ReqSymmetry == Permutations(Reqs)
=============================================================================
