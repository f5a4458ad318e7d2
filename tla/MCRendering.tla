----------------------------- MODULE MCRendering -----------------------------
(* Rendering for TLC: every set of ids is interchangeable.                 *)
EXTENDS Rendering, TLC

Symmetry == Permutations(User) \cup Permutations(Dashboard)
                \cup Permutations(Revision) \cup Permutations(Grant)
                \cup Permutations(Epoch) \cup Permutations(Credential)

\* Leaves requests out: approving one only opens a grant, which the owner can
\* also do directly.
NoRequests == \A d \in Dashboard, u \in User : requests[d][u] = "none"
=============================================================================
