----------------------------- MODULE MCAnalytics -----------------------------
(* Analytics for TLC.                                                      *)
EXTENDS Analytics, TLC
=============================================================================
