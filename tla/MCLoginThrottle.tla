--------------------------- MODULE MCLoginThrottle ---------------------------
(* LoginThrottle for TLC.                                                  *)
EXTENDS LoginThrottle, TLC

Workers == Permutations(Attempt)
=============================================================================
