----------------------------- MODULE MCNotebooks -----------------------------
(***************************************************************************)
(* Instances of Notebooks for TLC.  Users, hosts and request slots are     *)
(* model values; those no constant tells apart may be permuted.            *)
(***************************************************************************)
EXTENDS Notebooks, TLC

ReqSymmetry == Permutations(Reqs) \cup Permutations(Desks)
UserReqSymmetry == Permutations(Users) \cup Permutations(Reqs)
RestSymmetry == Permutations(Users \ Managed) \cup Permutations(Reqs) \cup Permutations(Hosts)
=============================================================================
