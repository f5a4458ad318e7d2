-------------------------- MODULE MCRevisionStorage --------------------------
(* RevisionStorage with interchangeable cleaners and calls, for TLC.       *)
EXTENDS RevisionStorage, TLC

Symmetry == Permutations(Writer) \cup Permutations(Cleaner)
=============================================================================
