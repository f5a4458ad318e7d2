----------------------------- MODULE MCSessions -----------------------------
(* Sessions with interchangeable users and browsers, for TLC.              *)
EXTENDS Sessions, TLC

Symmetry == Permutations(User) \cup Permutations(Session)
=============================================================================
