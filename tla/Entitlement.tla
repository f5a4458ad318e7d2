----------------------------- MODULE Entitlement -----------------------------
(***************************************************************************)
(* What the content origin promises, without owners, grants, epochs or     *)
(* versions: a credential shows its content only while its holder is       *)
(* entitled to it, without interruption, and one that has failed to        *)
(* resolve never resolves again.  A preview may be suspended, which is     *)
(* what happens to it while its dashboard is archived.                     *)
(*                                                                         *)
(* Rendering implements this specification.                                *)
(***************************************************************************)
CONSTANTS Credential,
          Content,    \* what one may be entitled to: a viewer and what they see
          Suspending, \* the contents whose credentials may be suspended
          NoContent

VARIABLES entitled,   \* the contents somebody is entitled to now
          shows,      \* per credential: its content once it is issued
          status      \* per credential

vars == <<entitled, shows, status>>

Init == /\ entitled \in SUBSET Content
        /\ shows = [c \in Credential |-> NoContent]
        /\ status = [c \in Credential |-> "unissued"]

\* What may become of a credential when the entitlements become `now`.
Follows(c, now) ==
    \/ /\ status[c] = "unissued"
       /\ status'[c] = "unissued"
       /\ shows'[c] = shows[c]
    \/ /\ status[c] = "unissued"
       /\ shows'[c] \in Content
       /\ \/ status'[c] = "usable" /\ shows'[c] \in now
          \/ status'[c] = "suspended" /\ shows'[c] \in Suspending
          \/ status'[c] = "retired"
    \/ /\ status[c] \in {"usable", "suspended"}
       /\ shows'[c] = shows[c]
       /\ \/ status'[c] = "usable" /\ shows[c] \in now
          \/ status'[c] = "suspended" /\ shows[c] \in Suspending
          \/ status'[c] = "retired"
    \/ /\ status[c] = "retired"
       /\ status'[c] = "retired"
       /\ shows'[c] = shows[c]

Next == /\ entitled' \in SUBSET Content
        /\ \A c \in Credential : Follows(c, entitled')

Spec == Init /\ [][Next]_vars
=============================================================================
