----------------------------- MODULE MCRowLocks -----------------------------
(* RowLocks for TLC: dashboards and calls are interchangeable, users have an *)
(* order.                                                                    *)
EXTENDS RowLocks, TLC

MCAdministratorsById == <<1, 3>>

Symmetry == Permutations(Dashboard) \cup Permutations(Transaction)
=============================================================================
