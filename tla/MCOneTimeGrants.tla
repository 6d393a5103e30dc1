-------------------------- MODULE MCOneTimeGrants ---------------------------
\* Requests that overlap on one token and one invite.
EXTENDS OneTimeGrants, TLC

ReqSymmetry == Permutations(Reqs)
=============================================================================
