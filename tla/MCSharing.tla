------------------------------ MODULE MCSharing ------------------------------
(* Sharing and its queries for TLC: every set of ids is interchangeable.   *)
EXTENDS Discovery, TLC

Symmetry == Permutations(User) \cup Permutations(Dashboard)
                \cup Permutations(Revision) \cup Permutations(Grant)
                \cup Permutations(Epoch)
=============================================================================
