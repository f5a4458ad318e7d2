---------------------------- MODULE SharingProofs ----------------------------
(***************************************************************************)
(* Sharing, the queries of Discovery and the render authorizations of      *)
(* Rendering, for any number of dashboards, users, grants, transfers,      *)
(* requests and credentials: types, the one active grant, the owner        *)
(* without grants, the transfer chain, the action properties of            *)
(* publication, approval and consent, that every query shows the same      *)
(* dashboards, that resolving implies being entitled, and that the         *)
(* query-by-query issue implements Entitlement.                            *)
(*                                                                         *)
(* The invariants are not inductive alone.  Creating a dashboard would     *)
(* make an owner of somebody with a grant or a request on it were there    *)
(* any on a dashboard not yet created (GrantsFollowCreation), and a        *)
(* restore would take a pending request back to a draft did requests not   *)
(* imply a first publication (RequestsFollowPublication).  The viewers an  *)
(* owner is told of can be counted because finitely many grants were ever  *)
(* given (GrantsAreFinite).                                                *)
(*                                                                         *)
(* What makes a retired credential stay retired is in CredentialsFollow:   *)
(* the versions and the epoch a row copied were current once, so whatever  *)
(* has moved on from them never comes back to them, and while the epoch is *)
(* current the owner is still the one that was read with it.               *)
(***************************************************************************)
EXTENDS Rendering, Discovery, AccountsProofs, FiniteSetTheorems

GrantsFollowCreation ==
    \A g \in Grant : grants[g] # NoGrant => state[grants[g].dashboard] # "absent"

RequestsFollowPublication ==
    \A d \in Dashboard, u \in User : requests[d][u] = "pending" => first_published[d]

GrantsAreFinite == IsFiniteSet({g \in Grant : grants[g] # NoGrant})

SharingInvariant == /\ TypeOK
                    /\ GrantsAreFinite
                    /\ OneActiveGrant
                    /\ OwnerHoldsNoGrant
                    /\ GrantsFollowCreation
                    /\ RequestsFollowPublication
                    /\ TransferChain

USE DEF publicationVars, ownershipVars

----------------------------------------------------------------------------
\* Types.

\* Who leaves the accounts alone keeps their types.
LEMMA AccountsUntouched ==
    ASSUME TypeOK, UNCHANGED accountVars
    PROVE  AccountsTypeOK' /\ users' = User
BY DEF TypeOK, Types, AccountsTypeOK, accountVars

\* Who leaves the dashboards alone keeps their constraints.
LEMMA DashboardsUntouched ==
    ASSUME TypeOK, UNCHANGED <<state, publicationVars, owner, revision_of>>
    PROVE  \A d \in Dashboard : DashboardConstraints(d)'
BY DEF TypeOK, DashboardConstraints

\* create_project leaves a well-formed draft.
LEMMA create_projectTypes ==
    ASSUME TypeOK, NEW d \in Dashboard, NEW u \in User, create_project(d, u)
    PROVE  TypeOK'
<1>1. Types'
  BY AccountsUntouched DEF create_project, TypeOK, Types, States, Editable
<1>2. ASSUME NEW x \in Dashboard
      PROVE  DashboardConstraints(x)'
  BY SharingAssumption DEF create_project, TypeOK, Types, DashboardConstraints
<1> QED
  BY <1>1, <1>2 DEF TypeOK

\* A committed revision disturbs no pin: the revision had no dashboard before.
LEMMA commit_revisionTypes ==
    ASSUME TypeOK, NEW d \in Dashboard, NEW actor \in User, NEW r \in Revision,
           commit_revision(d, actor, r)
    PROVE  TypeOK'
<1>1. Types'
  BY AccountsUntouched DEF commit_revision, TypeOK, Types
<1>2. ASSUME NEW x \in Dashboard
      PROVE  DashboardConstraints(x)'
  BY SharingAssumption DEF commit_revision, TypeOK, Types, DashboardConstraints
<1> QED
  BY <1>1, <1>2 DEF TypeOK

\* Publishing pins a revision of this dashboard and counts a version.
LEMMA publish_dashboard_revisionTypes ==
    ASSUME TypeOK, NEW d \in Dashboard, NEW actor \in User, NEW r \in Revision,
           NEW t \in 1..MaxClock, publish_dashboard_revision(d, actor, r, t)
    PROVE  TypeOK'
<1>1. Types'
  BY AccountsUntouched, SharingAssumption
  DEF publish_dashboard_revision, TypeOK, Types, States, Editable
<1>2. ASSUME NEW x \in Dashboard
      PROVE  DashboardConstraints(x)'
  <2>1. CASE x = d
    <3>1. /\ state'[d] = "published" /\ published_revision'[d] = r
          /\ first_published'[d] /\ publication_version'[d] = publication_version[d] + 1
          /\ publication_version[d] \in Nat
          /\ revision_of'[r] = d /\ owner'[d] = owner[d] /\ owner[d] # NoUser
      BY SharingAssumption
      DEF publish_dashboard_revision, Publishable, CurrentOwner, TypeOK, Types
    <3> QED
      BY <2>1, <3>1, SharingAssumption DEF DashboardConstraints
  <2>2. CASE x # d
    BY <2>2 DEF publish_dashboard_revision, TypeOK, Types, DashboardConstraints
  <2> QED
    BY <2>1, <2>2
<1> QED
  BY <1>1, <1>2 DEF TypeOK

\* A withdrawal and the lifecycle saves, with what the guards say of "to".
LEMMA LeavePublicationTypes ==
    ASSUME TypeOK, NEW d \in Dashboard, NEW to \in {"draft", "unpublished", "archived",
                                                    "deleted"},
           state[d] # "absent", to = "draft" => ~first_published[d],
           to = "unpublished" => first_published[d], LeavePublication(d, to)
    PROVE  TypeOK'
<1>1. Types'
  BY AccountsUntouched DEF LeavePublication, TypeOK, Types, States, Editable
<1>2. ASSUME NEW x \in Dashboard
      PROVE  DashboardConstraints(x)'
  BY SharingAssumption DEF LeavePublication, TypeOK, Types, DashboardConstraints
<1> QED
  BY <1>1, <1>2 DEF TypeOK

\* Lifecycle services and saves keep TypeOK.
LEMMA LifecycleTypes ==
    ASSUME TypeOK, NEW d \in Dashboard, Lifecycle(d)
    PROVE  TypeOK'
<1>1. ASSUME NEW actor \in User, unpublish_dashboard(d, actor)
      PROVE  TypeOK'
  <2>1. first_published[d]
    BY <1>1 DEF unpublish_dashboard, TypeOK, DashboardConstraints
  <2> QED
    BY <1>1, <2>1, LeavePublicationTypes DEF unpublish_dashboard
<1>2. ASSUME NEW to \in States, save_lifecycle(d, to)
      PROVE  TypeOK'
  <2>1. /\ to \in {"draft", "unpublished", "archived", "deleted"}
        /\ state[d] # "absent"
        /\ to = "draft" => ~first_published[d]
        /\ to = "unpublished" => first_published[d]
    BY <1>2 DEF save_lifecycle, LifecycleTransition, Editable
  <2> QED
    BY <1>2, <2>1, LeavePublicationTypes DEF save_lifecycle
<1> QED
  BY <1>1, <1>2, create_projectTypes, commit_revisionTypes,
     publish_dashboard_revisionTypes DEF Lifecycle

\* Revoking touches only the rows it is given, and only their revoked flag.
LEMMA RevokedFacts ==
    ASSUME TypeOK, NEW gs \in SUBSET Grant, \A g \in gs : grants[g] # NoGrant,
           grants' = Revoked(gs)
    PROVE  /\ grants' \in [Grant -> GrantRow \cup {NoGrant}]
           /\ \A g \in Grant :
                 /\ g \notin gs => grants'[g] = grants[g]
                 /\ g \in gs => grants'[g] = [dashboard |-> grants[g].dashboard,
                                             viewer |-> grants[g].viewer,
                                             revoked |-> TRUE]
<1>1. ASSUME NEW g \in gs
      PROVE  /\ grants'[g] \in GrantRow
             /\ grants'[g] = [dashboard |-> grants[g].dashboard,
                             viewer |-> grants[g].viewer, revoked |-> TRUE]
  <2>1. grants[g] \in GrantRow
    BY DEF TypeOK, Types
  <2>2. grants'[g] = [grants[g] EXCEPT !.revoked = TRUE]
    BY DEF Revoked
  <2> QED
    BY <2>1, <2>2 DEF GrantRow
<1>2. ASSUME NEW g \in Grant, g \notin gs
      PROVE  grants'[g] = grants[g] /\ grants[g] \in GrantRow \cup {NoGrant}
  BY <1>2 DEF Revoked, TypeOK, Types
<1>3. grants' = [g \in Grant |-> grants'[g]]
  BY DEF Revoked
<1> QED
  BY <1>1, <1>2, <1>3

\* Setting one request touches that request.
LEMMA SetRequestFacts ==
    ASSUME TypeOK, NEW d \in Dashboard, NEW u \in User, NEW status \in Statuses,
           SetRequest(d, u, status)
    PROVE  /\ requests' \in [Dashboard -> [User -> Statuses]]
           /\ requests'[d][u] = status
           /\ \A x \in Dashboard, v \in User :
                 x # d \/ v # u => requests'[x][v] = requests[x][v]
BY DEF SetRequest, TypeOK, Types

\* Grants and requests keep TypeOK.
LEMMA AccessTypes ==
    ASSUME TypeOK, NEW d \in Dashboard, Access(d)
    PROVE  TypeOK'
<1>1. PICK actor \in User, u \in User :
         \/ dismiss_access_request(d, actor, u)
         \/ u = actor /\ request_dashboard_access(d, u)
         \/ \E g \in Grant : \/ grant_project_viewer(d, actor, u, g)
                             \/ approve_access_request(d, actor, u, g)
                             \/ u = actor /\ revoke_project_viewer(d, actor, g)
  BY DEF Access
<1>2. UNCHANGED <<accountVars, state, publicationVars, ownershipVars, revision_of,
                  confirmations, clock>>
  BY <1>1 DEF dismiss_access_request, request_dashboard_access, grant_project_viewer,
              approve_access_request, revoke_project_viewer
<1>3. grants' \in [Grant -> GrantRow \cup {NoGrant}]
  <2>1. CASE UNCHANGED grants
    BY <2>1 DEF TypeOK, Types
  <2>2. CASE \E g \in Grant : InsertGrant(g, d, u)
    BY <2>2 DEF InsertGrant, TypeOK, Types, GrantRow
  <2>3. CASE \E g \in Grant : grants[g].dashboard = d /\ grants' = Revoked({g})
    <3>1. PICK g \in Grant : grants[g].dashboard = d /\ grants' = Revoked({g})
      BY <2>3
    <3>2. grants[g] # NoGrant
      BY <3>1, SharingAssumption DEF NoGrant
    <3> QED
      BY <3>1, <3>2, RevokedFacts
  <2> QED
    BY <1>1, <2>1, <2>2, <2>3
    DEF dismiss_access_request, request_dashboard_access, grant_project_viewer,
        approve_access_request, OpenGrant, revoke_project_viewer
<1>4. requests' \in [Dashboard -> [User -> Statuses]]
  <2>1. CASE UNCHANGED requests
    BY <2>1 DEF TypeOK, Types
  <2>2. CASE \E status \in Statuses : SetRequest(d, u, status)
    BY <2>2, SetRequestFacts
  <2> QED
    BY <1>1, <2>1, <2>2
    DEF dismiss_access_request, request_dashboard_access, grant_project_viewer,
        approve_access_request, revoke_project_viewer, Statuses
<1> QED
  BY <1>2, <1>3, <1>4, AccountsUntouched, DashboardsUntouched DEF TypeOK, Types

\* Signing keeps TypeOK.
LEMMA sign_transfer_confirmationTypes ==
    ASSUME TypeOK, NEW d \in Dashboard, NEW actor \in User, NEW u \in User,
           sign_transfer_confirmation(d, actor, u)
    PROVE  TypeOK'
<1>1. confirmations' \subseteq Confirmation
  BY DEF sign_transfer_confirmation, Confirmation, TypeOK, Types
<1> QED
  BY <1>1, AccountsUntouched, DashboardsUntouched
  DEF sign_transfer_confirmation, TypeOK, Types

\* A transfer keeps TypeOK.
LEMMA transfer_dashboard_ownershipTypes ==
    ASSUME TypeOK, NEW c \in confirmations, NEW e \in Epoch,
           transfer_dashboard_ownership(c, e)
    PROVE  TypeOK'
<1> DEFINE d == c.dashboard
           u == c.incoming
<1>1. d \in Dashboard /\ c.actor \in User /\ u \in User
  BY DEF TypeOK, Types, Confirmation
<1>2. grants' \in [Grant -> GrantRow \cup {NoGrant}]
  <2>1. \A g \in ActiveGrants(d, u) : g \in Grant /\ grants[g] # NoGrant
    BY <1>1, SharingAssumption DEF ActiveGrants, NoGrant
  <2>2. grants' = Revoked(ActiveGrants(d, u))
    BY DEF transfer_dashboard_ownership, SettleIncoming
  <2> QED
    BY <2>1, <2>2, RevokedFacts
<1>3. requests' \in [Dashboard -> [User -> Statuses]]
  <2>1. UNCHANGED requests \/ SetRequest(d, u, "approved")
    BY DEF transfer_dashboard_ownership, SettleIncoming
  <2> QED
    BY <1>1, <2>1, SetRequestFacts DEF Statuses, TypeOK, Types
<1>4. owner[d] \in User
  BY <1>1 DEF transfer_dashboard_ownership, CurrentOwner
<1>5. /\ transfers' \in [Epoch -> TransferRow \cup {NoTransfer}]
      /\ owner' = [owner EXCEPT ![d] = u]
      /\ last_ownership_transfer' \in [Dashboard -> Epoch \cup {NoEpoch}]
  BY <1>1, <1>4 DEF transfer_dashboard_ownership, RecordTransfer, InsertMarker,
                    TransferRow, TypeOK, Types
<1>6. UNCHANGED <<accountVars, state, publicationVars, revision_of, confirmations, clock>>
  BY DEF transfer_dashboard_ownership
<1>7. ASSUME NEW x \in Dashboard
      PROVE  DashboardConstraints(x)'
  BY <1>1, <1>4, <1>5, <1>6, SharingAssumption DEF DashboardConstraints, TypeOK, Types
<1> QED
  BY <1>1, <1>2, <1>3, <1>5, <1>6, <1>7, AccountsUntouched DEF TypeOK, Types

\* TypeOK is inductive.
LEMMA TypesKept ==
    ASSUME TypeOK, [Next]_sharingVars
    PROVE  TypeOK'
<1>1. ASSUME NEW d \in Dashboard, Ownership(d)
      PROVE  TypeOK'
  BY <1>1, sign_transfer_confirmationTypes, transfer_dashboard_ownershipTypes DEF Ownership
<1>2. CASE AccountStep
  <2>1. AccountsTypeOK' /\ users' = User
    BY <1>2, ChangeFacts DEF AccountStep, TypeOK, Types
  <2> QED
    BY <1>2, <2>1, DashboardsUntouched DEF AccountStep, TypeOK, Types
<1>3. CASE Tick
  BY <1>3, AccountsUntouched, DashboardsUntouched DEF Tick, TypeOK, Types
<1>4. CASE UNCHANGED sharingVars
  BY <1>4, AccountsUntouched, DashboardsUntouched DEF sharingVars, TypeOK, Types
<1> QED
  BY <1>1, <1>2, <1>3, <1>4, LifecycleTypes, AccessTypes DEF Next

----------------------------------------------------------------------------
\* What a step may do to grants, requests, owners and publication.

\* A transfer, seen from the rows it settles.
LEMMA TransferFacts ==
    ASSUME TypeOK, NEW c \in confirmations, NEW e \in Epoch,
           transfer_dashboard_ownership(c, e)
    PROVE  LET d == c.dashboard
               u == c.incoming
           IN  /\ d \in Dashboard /\ u \in User /\ c.actor \in User
               /\ owner' = [owner EXCEPT ![d] = u]
               /\ \A g \in ActiveGrants(d, u) : grants[g] # NoGrant
               /\ grants' = Revoked(ActiveGrants(d, u))
               /\ requests'[d][u] # "pending"
               /\ \A x \in Dashboard, v \in User :
                     x # d \/ v # u => requests'[x][v] = requests[x][v]
<1>1. c.dashboard \in Dashboard /\ c.incoming \in User /\ c.actor \in User
  BY DEF TypeOK, Types, Confirmation
<1>2. owner' = [owner EXCEPT ![c.dashboard] = c.incoming]
  BY DEF transfer_dashboard_ownership, RecordTransfer, InsertMarker
<1>3. grants' = Revoked(ActiveGrants(c.dashboard, c.incoming))
  BY DEF transfer_dashboard_ownership, SettleIncoming
<1>4. \A g \in ActiveGrants(c.dashboard, c.incoming) : grants[g] # NoGrant
  BY <1>1, SharingAssumption DEF ActiveGrants, NoGrant
<1>5. \/ SetRequest(c.dashboard, c.incoming, "approved")
      \/ UNCHANGED requests /\ requests[c.dashboard][c.incoming] # "pending"
  BY DEF transfer_dashboard_ownership, SettleIncoming
<1>6. /\ requests'[c.dashboard][c.incoming] # "pending"
      /\ \A x \in Dashboard, v \in User :
            x # c.dashboard \/ v # c.incoming => requests'[x][v] = requests[x][v]
  BY <1>1, <1>5, SetRequestFacts DEF Statuses
<1> QED
  BY <1>1, <1>2, <1>3, <1>4, <1>6

\* Grants are revoked, or one is opened for a viewer without one who is not the
\* owner.
LEMMA GrantsMove ==
    ASSUME TypeOK, OwnerHoldsNoGrant, [Next]_sharingVars
    PROVE  \/ UNCHANGED grants
           \/ \E gs \in SUBSET Grant : /\ \A g \in gs : grants[g] # NoGrant
                                      /\ grants' = Revoked(gs)
           \/ \E g \in Grant, d \in Dashboard, u \in User :
                 /\ InsertGrant(g, d, u)
                 /\ ActiveGrants(d, u) = {}
                 /\ u # owner[d] /\ state[d] # "absent"
                 /\ UNCHANGED <<owner, state>>
<1>1. ASSUME NEW d \in Dashboard, Lifecycle(d)
      PROVE  UNCHANGED grants
  BY <1>1 DEF Lifecycle, create_project, commit_revision, publish_dashboard_revision,
              unpublish_dashboard, save_lifecycle, LeavePublication
<1>2. ASSUME NEW d \in Dashboard, NEW actor \in User, NEW u \in User, NEW g \in Grant,
             grant_project_viewer(d, actor, u, g) \/ approve_access_request(d, actor, u, g)
      PROVE  \/ UNCHANGED grants
             \/ /\ InsertGrant(g, d, u)
                /\ ActiveGrants(d, u) = {}
                /\ u # owner[d] /\ state[d] # "absent"
                /\ UNCHANGED <<owner, state>>
  BY <1>2 DEF grant_project_viewer, approve_access_request, OpenGrant, CurrentOwner,
              OwnerHoldsNoGrant, Editable, Approvable
<1>3. ASSUME NEW d \in Dashboard, NEW actor \in User, NEW g \in Grant,
             revoke_project_viewer(d, actor, g)
      PROVE  \E gs \in SUBSET Grant : /\ \A h \in gs : grants[h] # NoGrant
                                    /\ grants' = Revoked(gs)
  <2>1. grants' = Revoked({g}) /\ grants[g] # NoGrant
    BY <1>3, SharingAssumption DEF revoke_project_viewer, NoGrant
  <2> QED
    BY <2>1
<1>4. ASSUME NEW c \in confirmations, NEW e \in Epoch, transfer_dashboard_ownership(c, e)
      PROVE  \E gs \in SUBSET Grant : /\ \A g \in gs : grants[g] # NoGrant
                                    /\ grants' = Revoked(gs)
  <2>1. ActiveGrants(c.dashboard, c.incoming) \in SUBSET Grant
    BY DEF ActiveGrants
  <2> QED
    BY <1>4, <2>1, TransferFacts
<1>5. ASSUME NEW d \in Dashboard, NEW actor \in User, NEW u \in User,
             \/ dismiss_access_request(d, actor, u)
             \/ request_dashboard_access(d, u)
             \/ sign_transfer_confirmation(d, actor, u)
      PROVE  UNCHANGED grants
  BY <1>5 DEF dismiss_access_request, request_dashboard_access, sign_transfer_confirmation
<1>6. CASE AccountStep \/ Tick \/ UNCHANGED sharingVars
  BY <1>6 DEF AccountStep, Tick, sharingVars
<1>7. ASSUME NEW d \in Dashboard, Access(d) \/ Ownership(d)
      PROVE  \/ UNCHANGED grants
             \/ \E gs \in SUBSET Grant : /\ \A g \in gs : grants[g] # NoGrant
                                        /\ grants' = Revoked(gs)
             \/ \E g \in Grant, u \in User :
                   /\ InsertGrant(g, d, u)
                   /\ ActiveGrants(d, u) = {}
                   /\ u # owner[d] /\ state[d] # "absent"
                   /\ UNCHANGED <<owner, state>>
  <2>1. CASE Access(d)
    BY <2>1, <1>2, <1>3, <1>5 DEF Access
  <2>2. CASE Ownership(d)
    BY <2>2, <1>4, <1>5 DEF Ownership
  <2> QED
    BY <1>7, <2>1, <2>2
<1> QED
  BY <1>1, <1>6, <1>7 DEF Next

\* The same, seen from a dashboard and a viewer.
LEMMA ActiveGrantsMove ==
    ASSUME TypeOK, OwnerHoldsNoGrant, [Next]_sharingVars,
           NEW d \in Dashboard, NEW u \in User
    PROVE  \/ ActiveGrants(d, u)' \subseteq ActiveGrants(d, u)
           \/ /\ u # owner[d] /\ UNCHANGED owner
              /\ \E g \in Grant : ActiveGrants(d, u)' = {g}
<1>1. CASE UNCHANGED grants
  BY <1>1 DEF ActiveGrants
<1>2. ASSUME NEW gs \in SUBSET Grant, \A g \in gs : grants[g] # NoGrant,
             grants' = Revoked(gs)
      PROVE  ActiveGrants(d, u)' \subseteq ActiveGrants(d, u)
  <2> SUFFICES ASSUME NEW g \in Grant,
                      grants'[g] = [dashboard |-> d, viewer |-> u, revoked |-> FALSE]
               PROVE  grants[g] = [dashboard |-> d, viewer |-> u, revoked |-> FALSE]
    BY DEF ActiveGrants
  <2>1. g \notin gs
    <3> SUFFICES ASSUME g \in gs
                 PROVE  FALSE
      OBVIOUS
    <3>1. grants'[g] = [dashboard |-> grants[g].dashboard, viewer |-> grants[g].viewer,
                        revoked |-> TRUE]
      BY <1>2, RevokedFacts
    <3>2. [dashboard |-> d, viewer |-> u, revoked |-> FALSE]
              = [dashboard |-> grants[g].dashboard, viewer |-> grants[g].viewer,
                 revoked |-> TRUE]
      BY <3>1
    <3> QED
      BY <3>2
  <2> QED
    BY <1>2, <2>1, RevokedFacts
<1>3. ASSUME NEW g \in Grant, NEW x \in Dashboard, NEW v \in User,
             InsertGrant(g, x, v), ActiveGrants(x, v) = {}, v # owner[x],
             UNCHANGED <<owner, state>>
      PROVE  \/ ActiveGrants(d, u)' \subseteq ActiveGrants(d, u)
             \/ /\ u # owner[d] /\ UNCHANGED owner
                /\ \E h \in Grant : ActiveGrants(d, u)' = {h}
  <2>1. /\ grants'[g] = [dashboard |-> x, viewer |-> v, revoked |-> FALSE]
        /\ \A h \in Grant : h # g => grants'[h] = grants[h]
    BY <1>3 DEF InsertGrant, TypeOK, Types
  <2>2. CASE x = d /\ v = u
    <3>1. ActiveGrants(d, u)' = {g}
      BY <1>3, <2>1, <2>2 DEF ActiveGrants
    <3> QED
      BY <1>3, <2>2, <3>1
  <2>3. CASE x # d \/ v # u
    <3>1. g \notin ActiveGrants(d, u)'
      BY <2>1, <2>3 DEF ActiveGrants
    <3> QED
      BY <2>1, <3>1 DEF ActiveGrants
  <2> QED
    BY <2>2, <2>3
<1> QED
  BY <1>1, <1>2, <1>3, GrantsMove

\* A request becomes pending only on a published dashboard, and not the owner's.
LEMMA RequestsMove ==
    ASSUME TypeOK, [Next]_sharingVars, NEW d \in Dashboard, NEW u \in User,
           requests'[d][u] = "pending", requests[d][u] # "pending"
    PROVE  /\ state[d] = "published" /\ u # owner[d]
           /\ UNCHANGED <<owner, publicationVars>>
<1>1. ASSUME NEW x \in Dashboard, Lifecycle(x)
      PROVE  UNCHANGED requests
  BY <1>1 DEF Lifecycle, create_project, commit_revision, publish_dashboard_revision,
              unpublish_dashboard, save_lifecycle, LeavePublication
<1>2. ASSUME NEW x \in Dashboard, NEW actor \in User, NEW v \in User,
             \/ \E g \in Grant : \/ grant_project_viewer(x, actor, v, g)
                               \/ revoke_project_viewer(x, actor, g)
             \/ sign_transfer_confirmation(x, actor, v)
      PROVE  UNCHANGED requests
  BY <1>2 DEF grant_project_viewer, revoke_project_viewer, sign_transfer_confirmation
<1>3. ASSUME NEW x \in Dashboard, NEW actor \in User, NEW v \in User,
             \/ \E g \in Grant : approve_access_request(x, actor, v, g)
             \/ dismiss_access_request(x, actor, v)
      PROVE  FALSE
  <2>1. \E status \in {"approved", "denied", "cancelled"} : SetRequest(x, v, status)
    BY <1>3 DEF approve_access_request, dismiss_access_request
  <2> QED
    BY <2>1, SetRequestFacts DEF Statuses
<1>4. ASSUME NEW c \in confirmations, NEW e \in Epoch, transfer_dashboard_ownership(c, e)
      PROVE  FALSE
  BY <1>4, TransferFacts
<1>5. ASSUME NEW x \in Dashboard, NEW v \in User, request_dashboard_access(x, v)
      PROVE  /\ state[d] = "published" /\ u # owner[d]
             /\ UNCHANGED <<owner, publicationVars>>
  <2>1. x = d /\ v = u
    BY <1>5, SetRequestFacts DEF request_dashboard_access, Statuses
  <2> QED
    BY <1>5, <2>1 DEF request_dashboard_access, Requestable
<1>6. CASE AccountStep \/ Tick \/ UNCHANGED sharingVars
  BY <1>6 DEF AccountStep, Tick, sharingVars
<1>7. ASSUME NEW x \in Dashboard, Access(x)
      PROVE  /\ state[d] = "published" /\ u # owner[d]
             /\ UNCHANGED <<owner, publicationVars>>
  BY <1>2, <1>3, <1>5, <1>7 DEF Access
<1>8. ASSUME NEW x \in Dashboard, Ownership(x)
      PROVE  FALSE
  BY <1>2, <1>4, <1>8 DEF Ownership, sign_transfer_confirmation
<1> QED
  BY <1>1, <1>6, <1>7, <1>8 DEF Next

\* Created and first published for good; the owner moves by creation or transfer.
LEMMA DashboardsMove ==
    ASSUME TypeOK, [Next]_sharingVars, NEW d \in Dashboard
    PROVE  /\ state[d] # "absent" => state'[d] # "absent"
           /\ first_published[d] => first_published'[d]
           /\ \/ owner'[d] = owner[d]
              \/ state[d] = "absent" /\ UNCHANGED <<grants, requests>>
              \/ \E c \in confirmations, e \in Epoch :
                    c.dashboard = d /\ transfer_dashboard_ownership(c, e)
<1>1. ASSUME NEW x \in Dashboard, Lifecycle(x)
      PROVE  /\ state[d] # "absent" => state'[d] # "absent"
             /\ first_published[d] => first_published'[d]
             /\ \/ owner'[d] = owner[d]
                \/ state[d] = "absent" /\ UNCHANGED <<grants, requests>>
  <2>1. ASSUME NEW u \in User, create_project(x, u)
        PROVE  /\ state[d] # "absent" => state'[d] # "absent"
               /\ first_published[d] => first_published'[d]
               /\ \/ owner'[d] = owner[d]
                  \/ state[d] = "absent" /\ UNCHANGED <<grants, requests>>
    BY <2>1 DEF create_project, TypeOK, Types
  <2>2. ASSUME NEW to \in States, LeavePublication(x, to), to # "absent"
        PROVE  /\ state[d] # "absent" => state'[d] # "absent"
               /\ first_published[d] => first_published'[d]
               /\ owner'[d] = owner[d]
    BY <2>2 DEF LeavePublication, TypeOK, Types
  <2>3. ASSUME NEW to \in States, save_lifecycle(x, to)
        PROVE  LeavePublication(x, to) /\ to # "absent"
    BY <2>3 DEF save_lifecycle, LifecycleTransition
  <2>4. ASSUME NEW u \in User, unpublish_dashboard(x, u)
        PROVE  LeavePublication(x, "unpublished") /\ "unpublished" \in States
    BY <2>4 DEF unpublish_dashboard, States, Editable
  <2>5. ASSUME NEW u \in User, NEW r \in Revision, NEW t \in 1..MaxClock,
               commit_revision(x, u, r) \/ publish_dashboard_revision(x, u, r, t)
        PROVE  /\ state[d] # "absent" => state'[d] # "absent"
               /\ first_published[d] => first_published'[d]
               /\ owner'[d] = owner[d]
    BY <2>5 DEF commit_revision, publish_dashboard_revision, TypeOK, Types
  <2>6. ASSUME NEW u \in User, NEW r \in Revision, commit_revision(x, u, r)
        PROVE  UNCHANGED <<state, first_published, owner>>
    BY <2>6 DEF commit_revision
  <2> QED
    BY <1>1, <2>1, <2>2, <2>3, <2>4, <2>5, <2>6 DEF Lifecycle
<1>2. ASSUME NEW x \in Dashboard, Access(x)
      PROVE  UNCHANGED <<state, first_published, owner>>
  BY <1>2 DEF Access, dismiss_access_request, request_dashboard_access,
              grant_project_viewer, approve_access_request, revoke_project_viewer
<1>3. ASSUME NEW x \in Dashboard, NEW actor \in User, NEW u \in User,
             sign_transfer_confirmation(x, actor, u)
      PROVE  UNCHANGED <<state, first_published, owner>>
  BY <1>3 DEF sign_transfer_confirmation
<1>4. ASSUME NEW c \in confirmations, NEW e \in Epoch, transfer_dashboard_ownership(c, e)
      PROVE  /\ UNCHANGED <<state, first_published>>
             /\ c.dashboard # d => owner'[d] = owner[d]
  BY <1>4, TransferFacts DEF transfer_dashboard_ownership, TypeOK, Types
<1>5. CASE AccountStep \/ Tick \/ UNCHANGED sharingVars
  BY <1>5 DEF AccountStep, Tick, sharingVars
<1> QED
  BY <1>1, <1>2, <1>3, <1>4, <1>5 DEF Next, Ownership

----------------------------------------------------------------------------
\* Each part of the invariant is kept.

\* One grant is opened at a time.
LEMMA GrantsAreFiniteKept ==
    ASSUME TypeOK, OwnerHoldsNoGrant, GrantsAreFinite, [Next]_sharingVars
    PROVE  GrantsAreFinite'
<1> DEFINE Given == {g \in Grant : grants[g] # NoGrant}
           GivenNext == {g \in Grant : grants'[g] # NoGrant}
<1>1. \A x : IsFiniteSet(Given \cup {x})
  BY FS_AddElement DEF GrantsAreFinite
<1>2. IsFiniteSet(Given)
  BY DEF GrantsAreFinite
<1>3. CASE UNCHANGED grants
  BY <1>2, <1>3 DEF GrantsAreFinite
<1>4. ASSUME NEW gs \in SUBSET Grant, \A g \in gs : grants[g] # NoGrant,
             grants' = Revoked(gs)
      PROVE  GivenNext \subseteq Given
  BY <1>4, RevokedFacts
<1>5. ASSUME NEW g \in Grant, NEW d, NEW u, InsertGrant(g, d, u)
      PROVE  GivenNext \subseteq Given \cup {g}
  BY <1>5 DEF InsertGrant, TypeOK, Types
<1>6. CASE UNCHANGED grants \/ GivenNext \subseteq Given
  BY <1>2, <1>3, <1>6, FS_Subset DEF GrantsAreFinite
<1>7. CASE \E g \in Grant : GivenNext \subseteq Given \cup {g}
  BY <1>1, <1>7, FS_Subset DEF GrantsAreFinite
<1> QED
  BY <1>4, <1>5, <1>6, <1>7, GrantsMove

\* A grant is opened only where none is active.
LEMMA OneActiveGrantKept ==
    ASSUME TypeOK, OneActiveGrant, OwnerHoldsNoGrant, [Next]_sharingVars
    PROVE  OneActiveGrant'
<1> SUFFICES ASSUME NEW d \in Dashboard, NEW u \in User,
                    NEW g \in ActiveGrants(d, u)', NEW h \in ActiveGrants(d, u)'
             PROVE  g = h
  BY DEF OneActiveGrant
<1> QED
  BY ActiveGrantsMove DEF OneActiveGrant

\* Grants and requests avoid the owner; a transfer settles the incoming owner's.
LEMMA OwnerHoldsNoGrantKept ==
    ASSUME TypeOK, OwnerHoldsNoGrant, GrantsFollowCreation, RequestsFollowPublication,
           [Next]_sharingVars
    PROVE  OwnerHoldsNoGrant'
<1> SUFFICES ASSUME NEW d \in Dashboard, NEW u \in User, owner'[d] = u
             PROVE  ActiveGrants(d, u)' = {} /\ requests'[d][u] # "pending"
  BY DEF OwnerHoldsNoGrant
<1>1. CASE owner'[d] = owner[d]
  <2>1. ActiveGrants(d, u) = {} /\ requests[d][u] # "pending"
    BY <1>1 DEF OwnerHoldsNoGrant
  <2>2. ActiveGrants(d, u)' = {}
    BY <1>1, <2>1, ActiveGrantsMove
  <2>3. requests'[d][u] # "pending"
    BY <1>1, <2>1, RequestsMove
  <2> QED
    BY <2>2, <2>3
<1>2. CASE state[d] = "absent" /\ UNCHANGED <<grants, requests>>
  <2>1. ActiveGrants(d, u)' = {}
    BY <1>2, SharingAssumption DEF ActiveGrants, GrantsFollowCreation, NoGrant
  <2>2. requests'[d][u] # "pending"
    BY <1>2 DEF RequestsFollowPublication, TypeOK, DashboardConstraints
  <2> QED
    BY <2>1, <2>2
<1>3. ASSUME NEW c \in confirmations, NEW e \in Epoch, c.dashboard = d,
             transfer_dashboard_ownership(c, e)
      PROVE  ActiveGrants(d, u)' = {} /\ requests'[d][u] # "pending"
  <2>1. /\ c.incoming = u
        /\ requests'[d][u] # "pending"
        /\ \A g \in ActiveGrants(d, u) : grants[g] # NoGrant
        /\ grants' = Revoked(ActiveGrants(d, u))
    BY <1>3, TransferFacts DEF TypeOK, Types
  <2>2. ASSUME NEW g \in Grant,
               grants'[g] = [dashboard |-> d, viewer |-> u, revoked |-> FALSE]
        PROVE  FALSE
    <3>1. CASE g \in ActiveGrants(d, u)
      <4>1. [dashboard |-> d, viewer |-> u, revoked |-> FALSE]
                = [dashboard |-> grants[g].dashboard, viewer |-> grants[g].viewer,
                   revoked |-> TRUE]
        BY <2>1, <2>2, <3>1, RevokedFacts DEF ActiveGrants
      <4> QED
        BY <4>1
    <3>2. CASE g \notin ActiveGrants(d, u)
      <4>1. grants'[g] = grants[g]
        BY <3>2, <2>1 DEF Revoked
      <4> QED
        BY <2>2, <3>2, <4>1 DEF ActiveGrants
    <3> QED
      BY <3>1, <3>2
  <2> QED
    BY <2>1, <2>2 DEF ActiveGrants
<1> QED
  BY <1>1, <1>2, <1>3, DashboardsMove

\* Grants are opened on dashboards that exist.
LEMMA GrantsFollowCreationKept ==
    ASSUME TypeOK, OwnerHoldsNoGrant, GrantsFollowCreation, [Next]_sharingVars
    PROVE  GrantsFollowCreation'
<1> SUFFICES ASSUME NEW g \in Grant, grants'[g] # NoGrant
             PROVE  state'[grants'[g].dashboard] # "absent"
  BY DEF GrantsFollowCreation
<1>1. CASE grants[g] # NoGrant /\ grants'[g].dashboard = grants[g].dashboard
  <2>1. grants[g].dashboard \in Dashboard
    BY <1>1 DEF TypeOK, Types, GrantRow
  <2> QED
    BY <1>1, <2>1, DashboardsMove DEF GrantsFollowCreation
<1>2. CASE UNCHANGED grants
  BY <1>1, <1>2
<1>3. ASSUME NEW gs \in SUBSET Grant, \A h \in gs : grants[h] # NoGrant,
             grants' = Revoked(gs)
      PROVE  state'[grants'[g].dashboard] # "absent"
  <2>1. CASE g \in gs
    <3>1. grants'[g] = [dashboard |-> grants[g].dashboard, viewer |-> grants[g].viewer,
                        revoked |-> TRUE]
      BY <1>3, <2>1, RevokedFacts
    <3>2. grants'[g].dashboard = grants[g].dashboard
      BY <3>1
    <3> QED
      BY <1>1, <1>3, <2>1, <3>2
  <2>2. CASE g \notin gs
    <3>1. grants'[g] = grants[g]
      BY <1>3, <2>2, RevokedFacts
    <3> QED
      BY <1>1, <3>1
  <2> QED
    BY <2>1, <2>2
<1>4. ASSUME NEW h \in Grant, NEW d \in Dashboard, NEW u \in User,
             InsertGrant(h, d, u), state[d] # "absent", UNCHANGED state
      PROVE  state'[grants'[g].dashboard] # "absent"
  <2>1. CASE g = h
    BY <1>4, <2>1 DEF InsertGrant, TypeOK, Types
  <2>2. CASE g # h
    BY <1>1, <1>4, <2>2 DEF InsertGrant, TypeOK, Types
  <2> QED
    BY <2>1, <2>2
<1> QED
  BY <1>2, <1>3, <1>4, GrantsMove

\* Requests are opened on published dashboards; first_published never goes.
LEMMA RequestsFollowPublicationKept ==
    ASSUME TypeOK, RequestsFollowPublication, [Next]_sharingVars
    PROVE  RequestsFollowPublication'
<1> SUFFICES ASSUME NEW d \in Dashboard, NEW u \in User, requests'[d][u] = "pending"
             PROVE  first_published'[d]
  BY DEF RequestsFollowPublication
<1>1. CASE requests[d][u] = "pending"
  BY <1>1, DashboardsMove DEF RequestsFollowPublication
<1>2. CASE requests[d][u] # "pending"
  BY <1>2, RequestsMove DEF TypeOK, DashboardConstraints
<1> QED
  BY <1>1, <1>2

\* The chain of markers grows at its end, by transfers only.
LEMMA TransfersMove ==
    ASSUME TypeOK, [Next]_sharingVars
    PROVE  \/ UNCHANGED ownershipVars
           \/ \E d \in Dashboard, u \in User :
                 /\ owner[d] = NoUser
                 /\ owner' = [owner EXCEPT ![d] = u]
                 /\ UNCHANGED <<last_ownership_transfer, transfers>>
           \/ \E d \in Dashboard, u \in User, e \in Epoch :
                 owner[d] \in User /\ RecordTransfer(d, u, e)
<1>1. ASSUME NEW d \in Dashboard, Lifecycle(d)
      PROVE  \/ UNCHANGED ownershipVars
             \/ \E u \in User :
                   /\ owner[d] = NoUser
                   /\ owner' = [owner EXCEPT ![d] = u]
                   /\ UNCHANGED <<last_ownership_transfer, transfers>>
  BY <1>1 DEF Lifecycle, create_project, commit_revision, publish_dashboard_revision,
              unpublish_dashboard, save_lifecycle, LeavePublication, TypeOK,
              DashboardConstraints
<1>2. ASSUME NEW d \in Dashboard, Access(d)
      PROVE  UNCHANGED ownershipVars
  BY <1>2 DEF Access, dismiss_access_request, request_dashboard_access,
              grant_project_viewer, approve_access_request, revoke_project_viewer
<1>3. ASSUME NEW d \in Dashboard, NEW actor \in User, NEW u \in User,
             sign_transfer_confirmation(d, actor, u)
      PROVE  UNCHANGED ownershipVars
  BY <1>3 DEF sign_transfer_confirmation
<1>4. ASSUME NEW c \in confirmations, NEW e \in Epoch, transfer_dashboard_ownership(c, e)
      PROVE  \E d \in Dashboard, u \in User :
                 owner[d] \in User /\ RecordTransfer(d, u, e)
  BY <1>4, TransferFacts DEF transfer_dashboard_ownership, CurrentOwner
<1>5. CASE AccountStep \/ Tick \/ UNCHANGED sharingVars
  BY <1>5 DEF AccountStep, Tick, sharingVars
<1> QED
  BY <1>1, <1>2, <1>3, <1>4, <1>5 DEF Next, Ownership

\* A transfer appends one fresh marker behind the tip.
LEMMA TransferChainKept ==
    ASSUME TypeOK, TransferChain, [Next]_sharingVars
    PROVE  TransferChain'
<1>1. CASE UNCHANGED ownershipVars
  BY <1>1 DEF TransferChain, Markers
<1>2. ASSUME NEW d \in Dashboard, NEW u \in User, owner[d] = NoUser,
             owner' = [owner EXCEPT ![d] = u],
             UNCHANGED <<last_ownership_transfer, transfers>>
      PROVE  TransferChain'
  <2>1. last_ownership_transfer[d] = NoEpoch
    BY <1>2, SharingAssumption
    DEF TransferChain, Markers, TypeOK, Types, TransferRow, NoTransfer
  <2>2. \A x \in Dashboard : x # d => owner'[x] = owner[x]
    BY <1>2 DEF TypeOK, Types
  <2> QED
    BY <1>2, <2>1, <2>2 DEF TransferChain, Markers
<1>3. ASSUME NEW d \in Dashboard, NEW u \in User, NEW e \in Epoch, owner[d] \in User,
             RecordTransfer(d, u, e)
      PROVE  TransferChain'
  <2> DEFINE tip == last_ownership_transfer[d]
  <2>1. /\ transfers[e] = NoTransfer
        /\ transfers'[e] = [dashboard |-> d, from_owner |-> owner[d], to_owner |-> u,
                            previous |-> tip]
        /\ \A f \in Epoch : f # e => transfers'[f] = transfers[f]
    BY <1>3 DEF RecordTransfer, InsertMarker, TypeOK, Types
  <2>2. /\ owner'[d] = u /\ last_ownership_transfer'[d] = e
        /\ \A x \in Dashboard : x # d =>
              owner'[x] = owner[x] /\ last_ownership_transfer'[x] = last_ownership_transfer[x]
    BY <1>3 DEF RecordTransfer, InsertMarker, TypeOK, Types
  <2>3. /\ Markers(d)' = Markers(d) \cup {e}
        /\ \A x \in Dashboard : x # d => Markers(x)' = Markers(x)
        /\ \A x \in Dashboard : e \notin Markers(x)
    BY <2>1, SharingAssumption DEF Markers, NoTransfer
  <2>4. e # NoEpoch
    BY SharingAssumption
  <2>5. ASSUME NEW x \in Dashboard, x # d
        PROVE  /\ IF last_ownership_transfer'[x] = NoEpoch
                  THEN Markers(x)' = {}
                  ELSE /\ last_ownership_transfer'[x] \in Markers(x)'
                       /\ transfers'[last_ownership_transfer'[x]].to_owner = owner'[x]
               /\ \A f \in Markers(x)' :
                     /\ \/ transfers'[f].previous = NoEpoch
                        \/ /\ transfers'[f].previous \in Markers(x)'
                           /\ transfers'[transfers'[f].previous].to_owner
                                  = transfers'[f].from_owner
                     /\ transfers'[f].previous # last_ownership_transfer'[x]
                     /\ \A h \in Markers(x)' \ {f} :
                           transfers'[h].previous # transfers'[f].previous
    <3>1. Markers(x)' = Markers(x) /\ e \notin Markers(x)
      BY <2>3, <2>5
    <3>2. \A f \in Markers(x) : f \in Epoch /\ transfers'[f] = transfers[f]
      BY <2>1, <3>1 DEF Markers
    <3> QED
      BY <2>2, <2>5, <3>1, <3>2 DEF TransferChain
  <2>6. \A f \in Markers(d) : f \in Epoch /\ f # e /\ transfers'[f] = transfers[f]
    BY <2>1, <2>3 DEF Markers
  <2>7. transfers'[e].to_owner = owner'[d] /\ e \in Markers(d)'
    BY <2>1, <2>2, <2>3
  <2>8. /\ transfers'[e].previous = tip /\ tip # e
        /\ tip = NoEpoch \/ /\ tip \in Markers(d)'
                            /\ transfers'[tip].to_owner = transfers'[e].from_owner
        /\ \A f \in Markers(d) : transfers'[f].previous # tip
    BY <2>1, <2>3, <2>4, <2>6 DEF TransferChain
  <2>9. ASSUME NEW f \in Markers(d)
        PROVE  /\ \/ transfers'[f].previous = NoEpoch
                  \/ /\ transfers'[f].previous \in Markers(d)'
                     /\ transfers'[transfers'[f].previous].to_owner
                            = transfers'[f].from_owner
               /\ transfers'[f].previous # e
               /\ \A h \in Markers(d) \ {f} :
                     transfers'[h].previous # transfers'[f].previous
    BY <2>3, <2>4, <2>6 DEF TransferChain
  <2>10. ASSUME NEW f \in Markers(d)'
         PROVE  /\ \/ transfers'[f].previous = NoEpoch
                   \/ /\ transfers'[f].previous \in Markers(d)'
                      /\ transfers'[transfers'[f].previous].to_owner
                             = transfers'[f].from_owner
                /\ transfers'[f].previous # e
                /\ \A h \in Markers(d)' \ {f} :
                      transfers'[h].previous # transfers'[f].previous
    BY <2>3, <2>8, <2>9
  <2>11. ASSUME NEW x \in Dashboard
         PROVE  /\ IF last_ownership_transfer'[x] = NoEpoch
                   THEN Markers(x)' = {}
                   ELSE /\ last_ownership_transfer'[x] \in Markers(x)'
                        /\ transfers'[last_ownership_transfer'[x]].to_owner = owner'[x]
                /\ \A f \in Markers(x)' :
                      /\ \/ transfers'[f].previous = NoEpoch
                         \/ /\ transfers'[f].previous \in Markers(x)'
                            /\ transfers'[transfers'[f].previous].to_owner
                                   = transfers'[f].from_owner
                      /\ transfers'[f].previous # last_ownership_transfer'[x]
                      /\ \A h \in Markers(x)' \ {f} :
                            transfers'[h].previous # transfers'[f].previous
    BY <2>2, <2>4, <2>5, <2>7, <2>10
  <2> QED
    BY <2>11 DEF TransferChain
<1> QED
  BY <1>1, <1>2, <1>3, TransfersMove

----------------------------------------------------------------------------
\* The whole invariant is inductive.
LEMMA SharingInductive ==
    ASSUME SharingInvariant, [Next]_sharingVars
    PROVE  SharingInvariant'
BY TypesKept, GrantsAreFiniteKept, OneActiveGrantKept, OwnerHoldsNoGrantKept, GrantsFollowCreationKept,
   RequestsFollowPublicationKept, TransferChainKept DEF SharingInvariant

\* It holds when everybody is provisioned and nothing is created yet.
LEMMA SharingInitially == Init => SharingInvariant
<1> SUFFICES ASSUME Init
             PROVE  SharingInvariant
  OBVIOUS
<1>1. TypeOK
  BY AccountsAssumption, SharingAssumption
  DEF Init, TypeOK, Types, AccountsTypeOK, DashboardConstraints, States, Statuses
<1>2. \A d \in Dashboard, u \in User : ActiveGrants(d, u) = {}
  BY SharingAssumption DEF Init, ActiveGrants, NoGrant
<1>3. \A d \in Dashboard : Markers(d) = {}
  BY SharingAssumption DEF Init, Markers, NoTransfer
<1>4. {g \in Grant : grants[g] # NoGrant} = {}
  BY DEF Init
<1>5. GrantsAreFinite
  BY <1>4, FS_EmptySet DEF GrantsAreFinite
<1> QED
  BY <1>1, <1>2, <1>3, <1>5
  DEF Init, SharingInvariant, OneActiveGrant, OwnerHoldsNoGrant, GrantsFollowCreation,
      RequestsFollowPublication, TransferChain

\* It holds in every reachable state.
LEMMA SharingAlways == Spec => []SharingInvariant
BY SharingInitially, SharingInductive, PTL DEF Spec

\* Every service and every lifecycle save leaves rows that the table constraints
\* accept.
THEOREM SharingTypeCorrect == Spec => []TypeOK
<1>1. SharingInvariant => TypeOK
  BY DEF SharingInvariant
<1> QED
  BY <1>1, SharingAlways, PTL

\* Direct grants, approvals, revocations and transfers never leave a viewer two
\* active grants of a dashboard: agora_grant_active never rejects.
THEOREM AtMostOneActiveGrant == Spec => []OneActiveGrant
<1>1. SharingInvariant => OneActiveGrant
  BY DEF SharingInvariant
<1> QED
  BY <1>1, SharingAlways, PTL

\* However ownership came to them, an owner has no active grant and no pending
\* request on the dashboard.
THEOREM OwnersHoldNoGrant == Spec => []OwnerHoldsNoGrant
<1>1. SharingInvariant => OwnerHoldsNoGrant
  BY DEF SharingInvariant
<1> QED
  BY <1>1, SharingAlways, PTL

\* The approval inside transfer_dashboard_ownership is never refused for the
\* dashboard's state.
THEOREM RequestsNeverBlockTransfers == Spec => []PendingNeverBlocksTransfer
<1>1. SharingInvariant => PendingNeverBlocksTransfer
  BY DEF SharingInvariant, RequestsFollowPublication, PendingNeverBlocksTransfer, TypeOK,
         DashboardConstraints
<1> QED
  BY <1>1, SharingAlways, PTL

\* The ownership history of a dashboard is one chain that ends in its owner.
THEOREM OwnershipIsOneChain == Spec => []TransferChain
<1>1. SharingInvariant => TransferChain
  BY DEF SharingInvariant
<1> QED
  BY <1>1, SharingAlways, PTL

----------------------------------------------------------------------------
\* What the portal's queries show (Discovery).

\* The facts that the queries' joins rest on.
LEMMA EntitlementFacts ==
    ASSUME SharingInvariant, NEW d \in Dashboard, NEW u \in User
    PROVE  /\ Pinned(d) <=> state[d] = "published"
           /\ Pinned(d) => Retained(d)
           /\ HasActiveGrant(d, u) => ~OwnedBy(d, u) /\ owner[d] # u /\ u \in is_active
           /\ u \in is_active => (d \in GrantedTo(u) <=> HasActiveGrant(d, u))
           /\ HasActiveGrant(d, u) <=> u \in is_active /\ ActiveGrants(d, u) # {}
           /\ OwnedBy(d, u) <=> u \in is_active /\ owner[d] = u
           /\ CurrentOwner(d, u) <=> OwnedBy(d, u)
           /\ u \in User /\ owner[d] = u => state[d] # "absent"
           /\ owner[d] = u => ActiveGrants(d, u) = {} /\ requests[d][u] # "pending"
<1>1. /\ DashboardConstraints(d)
      /\ owner[d] = u => ActiveGrants(d, u) = {} /\ requests[d][u] # "pending"
  BY DEF SharingInvariant, TypeOK, OwnerHoldsNoGrant
<1>2. Pinned(d) <=> state[d] = "published"
  BY <1>1 DEF DashboardConstraints, Pinned
<1>3. Pinned(d) => Retained(d)
  BY DEF Pinned, Retained, Absent
<1>4. u # NoUser
  BY SharingAssumption
<1>5. owner[d] = u => state[d] # "absent"
  BY <1>1, <1>4 DEF DashboardConstraints
<1>6. d \in GrantedTo(u) <=> ActiveGrants(d, u) # {}
  <2>1. \A g \in Grant : grants[g] \in GrantRow \cup {NoGrant}
    BY DEF SharingInvariant, TypeOK, Types
  <2>2. \A g \in Grant : g \in ActiveGrants(d, u)
            <=> grants[g].viewer = u /\ ~grants[g].revoked /\ grants[g].dashboard = d
    <3> SUFFICES ASSUME NEW g \in Grant
                 PROVE  grants[g] = [dashboard |-> d, viewer |-> u, revoked |-> FALSE]
                            <=> /\ grants[g].viewer = u
                                /\ ~grants[g].revoked
                                /\ grants[g].dashboard = d
      BY DEF ActiveGrants
    <3>1. CASE grants[g] \in GrantRow
      <4>1. grants[g] = [dashboard |-> grants[g].dashboard, viewer |-> grants[g].viewer,
                         revoked |-> grants[g].revoked]
        BY <3>1 DEF GrantRow
      <4>2. grants[g].revoked \in BOOLEAN
        BY <3>1 DEF GrantRow
      <4>3. ~grants[g].revoked <=> grants[g].revoked = FALSE
        BY <4>2
      <4>4. ASSUME grants[g] = [dashboard |-> d, viewer |-> u, revoked |-> FALSE]
            PROVE  /\ grants[g].viewer = u
                   /\ grants[g].revoked = FALSE
                   /\ grants[g].dashboard = d
        BY <4>4
      <4> QED
        BY <4>1, <4>3, <4>4
    <3>2. CASE grants[g] = NoGrant
      <4>1. grants[g].viewer # u
        BY <3>2, SharingAssumption DEF NoGrant
      <4> QED
        BY <4>1
    <3> QED
      BY <2>1, <3>1, <3>2
  <2>3. ActiveGrants(d, u) \subseteq Grant
    BY DEF ActiveGrants
  <2> QED
    BY <2>2, <2>3 DEF GrantedTo
<1> QED
  BY <1>1, <1>2, <1>3, <1>5, <1>6 DEF HasActiveGrant, OwnedBy, CurrentOwner

\* The lists and the single look-ups of one person are cut from two disjoint
\* lists, "mine" and "shared".
LEMMA RoutesOfOnePerson ==
    ASSUME SharingInvariant, NEW u \in User
    PROVE  LET mine == search_dashboards(u, "mine", Dashboard)
               shared == search_dashboards(u, "shared", Dashboard)
               open == {d \in Dashboard : visible_project(d, u) /\ Pinned(d)}
           IN  /\ mine \cap shared = {}
               /\ mine = owned_projects(u) /\ shared = shared_projects(u)
               /\ open = authorized_published_dashboard(u)
               /\ open = {d \in mine : state[d] = "published"} \cup shared
               /\ \A rows \in SUBSET Dashboard :
                     /\ favorite_dashboards(u, rows) = open \cap rows
                     /\ recently_viewed_dashboards(u, rows) = open \cap rows
                     /\ dashboards_by_tag_key(u, rows) = open \cap rows
                     /\ stale_owned_dashboards(u, rows) = mine \cap open \cap rows
                     /\ recent_favorite_dashboards(u, rows) = (mine \cup shared) \cap rows
               /\ dashboard_tags(u) = mine \cup shared
               /\ open = {d \in Dashboard : set_dashboard_favorite(d, u)}
               /\ \A d \in Dashboard :
                     /\ rename_project(d, u) => d \in mine
                     /\ replace_dashboard_tags(d, u) <=> rename_project(d, u)
                     /\ confirm_dashboard_freshness(d, u) => d \in mine \cap open
<1> DEFINE Facts(d) ==
               /\ Pinned(d) <=> state[d] = "published"
               /\ Pinned(d) => Retained(d)
               /\ HasActiveGrant(d, u) => ~OwnedBy(d, u) /\ owner[d] # u /\ u \in is_active
               /\ u \in is_active => (d \in GrantedTo(u) <=> HasActiveGrant(d, u))
               /\ HasActiveGrant(d, u) <=> u \in is_active /\ ActiveGrants(d, u) # {}
               /\ OwnedBy(d, u) <=> u \in is_active /\ owner[d] = u
               /\ CurrentOwner(d, u) <=> OwnedBy(d, u)
               /\ owner[d] = u => state[d] # "absent"
           mine == search_dashboards(u, "mine", Dashboard)
           shared == search_dashboards(u, "shared", Dashboard)
           open == {d \in Dashboard : visible_project(d, u) /\ Pinned(d)}
<1>1. \A d \in Dashboard : Facts(d)
  BY EntitlementFacts
<1> HIDE DEF Facts
<1>2. mine = owned_projects(u)
  BY DEF search_dashboards, _scope_dashboards, owned_projects
<1>3. shared = shared_projects(u)
  BY <1>1 DEF search_dashboards, _scope_dashboards, shared_projects, Facts
<1> HIDE DEF mine, shared
<1>4. \A d \in Dashboard :
          /\ d \in mine <=> OwnedBy(d, u) /\ Retained(d)
          /\ d \in shared <=> HasActiveGrant(d, u) /\ Pinned(d)
          /\ d \in open <=> (OwnedBy(d, u) \/ HasActiveGrant(d, u)) /\ Pinned(d)
  BY <1>1, <1>2, <1>3
  DEF owned_projects, shared_projects, visible_project, manageable_project, Facts
<1>5. mine \subseteq Dashboard /\ shared \subseteq Dashboard /\ open \subseteq Dashboard
  BY <1>2, <1>3 DEF owned_projects, shared_projects
<1> HIDE DEF open
<1>6. mine \cap shared = {}
  BY <1>1, <1>4, <1>5 DEF Facts
<1>7. open = authorized_published_dashboard(u)
  BY <1>4, <1>5 DEF authorized_published_dashboard, _published_authorization
<1>8. open = {d \in mine : state[d] = "published"} \cup shared
  BY <1>1, <1>4, <1>5 DEF Facts
<1>9. ASSUME NEW rows \in SUBSET Dashboard
      PROVE  /\ favorite_dashboards(u, rows) = open \cap rows
             /\ recently_viewed_dashboards(u, rows) = open \cap rows
             /\ dashboards_by_tag_key(u, rows) = open \cap rows
             /\ stale_owned_dashboards(u, rows) = mine \cap open \cap rows
             /\ recent_favorite_dashboards(u, rows) = (mine \cup shared) \cap rows
  <2>1. favorite_dashboards(u, rows) = open \cap rows
    BY <1>1, <1>4, <1>5 DEF favorite_dashboards, _published_authorization, Facts
  <2>2. recently_viewed_dashboards(u, rows) = open \cap rows
    BY <1>1, <1>4, <1>5 DEF recently_viewed_dashboards, _published_authorization, Facts
  <2>3. dashboards_by_tag_key(u, rows) = open \cap rows
    BY <1>4, <1>5 DEF dashboards_by_tag_key
  <2>4. stale_owned_dashboards(u, rows) = mine \cap open \cap rows
    BY <1>1, <1>4, <1>5 DEF stale_owned_dashboards, Facts
  <2>5. recent_favorite_dashboards(u, rows) = (mine \cup shared) \cap rows
    BY <1>1, <1>4, <1>5 DEF recent_favorite_dashboards, Facts
  <2> QED
    BY <2>1, <2>2, <2>3, <2>4, <2>5
<1>10. dashboard_tags(u) = mine \cup shared
  BY <1>1, <1>4, <1>5 DEF dashboard_tags, Facts
<1>11. open = {d \in Dashboard : set_dashboard_favorite(d, u)}
  BY <1>1, <1>4, <1>5 DEF set_dashboard_favorite, Facts
<1>12. ASSUME NEW d \in Dashboard
       PROVE  /\ rename_project(d, u) => d \in mine
              /\ replace_dashboard_tags(d, u) <=> rename_project(d, u)
              /\ confirm_dashboard_freshness(d, u) => d \in mine \cap open
  <2>1. Facts(d)
    BY <1>1
  <2>2. rename_project(d, u) => d \in mine
    BY <1>4 DEF rename_project, Retained, Absent
  <2>3. replace_dashboard_tags(d, u) <=> rename_project(d, u)
    BY <2>1 DEF replace_dashboard_tags, rename_project, Facts
  <2>4. confirm_dashboard_freshness(d, u) => d \in mine \cap open
    BY <1>4, <2>1 DEF confirm_dashboard_freshness, Facts
  <2> QED
    BY <2>2, <2>3, <2>4
<1> QED
  BY <1>2, <1>3, <1>6, <1>7, <1>8, <1>9, <1>10, <1>11, <1>12 DEF mine, shared, open

\* The viewers an owner is told of are as many as there are people who find the
\* dashboard shared: each holds one grant row.
LEMMA ViewersAreCounted ==
    ASSUME SharingInvariant, NEW d \in Dashboard, NEW u \in User,
           manageable_project(d, u), Pinned(d)
    PROVE  Cardinality({v \in User : d \in shared_projects(v)})
               = project_effective_viewer_count(d, u)
<1> DEFINE Viewers == {v \in User : d \in shared_projects(v)}
           Counted == {g \in project_active_grants(d, u) : grants[g].viewer \in is_active}
           Viewer == [g \in Counted |-> grants[g].viewer]
<1>1. \A g \in Grant : grants[g] \in GrantRow \cup {NoGrant}
  BY DEF SharingInvariant, TypeOK, Types
<1>2. \A v \in User : v \in Viewers <=> v \in is_active /\ ActiveGrants(d, v) # {}
  BY DEF shared_projects, HasActiveGrant
<1>3. \A g : g \in Counted <=> /\ g \in Grant /\ grants[g].dashboard = d
                              /\ ~grants[g].revoked /\ grants[g].viewer \in is_active
  BY DEF project_active_grants
<1>4. \A g \in Counted : /\ g \in Grant /\ grants[g] \in GrantRow
                        /\ grants[g] = [dashboard |-> d, viewer |-> grants[g].viewer,
                                        revoked |-> FALSE]
  <2> SUFFICES ASSUME NEW g \in Counted
               PROVE  /\ grants[g] \in GrantRow
                      /\ grants[g] = [dashboard |-> d, viewer |-> grants[g].viewer,
                                      revoked |-> FALSE]
    BY <1>3
  <2>1. grants[g] # NoGrant
    BY <1>3, SharingAssumption DEF NoGrant
  <2>2. grants[g] \in GrantRow
    BY <1>1, <1>3, <2>1
  <2> QED
    BY <1>3, <2>2 DEF GrantRow
<1>5. \A g \in Counted : g \in ActiveGrants(d, grants[g].viewer) /\ grants[g].viewer \in User
  BY <1>4 DEF ActiveGrants, GrantRow
<1>6. \A v \in User : \A g \in ActiveGrants(d, v) :
          v \in is_active => g \in Counted /\ grants[g].viewer = v
  BY <1>3 DEF ActiveGrants
<1> HIDE DEF Viewers, Counted
<1>7. Viewer \in [Counted -> Viewers]
  BY <1>2, <1>3, <1>5
<1>8. \A g, h \in Counted : Viewer[g] = Viewer[h] => g = h
  BY <1>5 DEF SharingInvariant, OneActiveGrant
<1>9. \A v \in Viewers : v \in User /\ \E g \in Counted : Viewer[g] = v
  <2>1. \A v \in Viewers : v \in User
    BY DEF Viewers
  <2> QED
    BY <1>2, <1>6, <2>1
<1>10. ExistsBijection(Counted, Viewers)
  <2>1. Viewer \in Injection(Counted, Viewers)
    BY <1>7, <1>8 DEF Injection, IsInjective
  <2>2. Viewer \in Surjection(Counted, Viewers)
    BY <1>7, <1>9 DEF Surjection
  <2> QED
    BY <2>1, <2>2 DEF ExistsBijection, Bijection
<1>11. IsFiniteSet(Counted)
  <2>1. \A g \in Counted : g \in Grant /\ grants[g].dashboard \in Dashboard
    BY <1>3
  <2>2. \A g \in Counted : grants[g] # NoGrant
    BY <2>1, SharingAssumption DEF NoGrant
  <2>3. Counted \subseteq {g \in Grant : grants[g] # NoGrant}
    BY <2>1, <2>2
  <2> QED
    BY <2>3, FS_Subset DEF SharingInvariant, GrantsAreFinite
<1> QED
  BY <1>10, <1>11, FS_Bijection DEF project_effective_viewer_count, Viewers, Counted

\* Whoever finds a dashboard in one list can open it from every other, and the
\* owner's numbers are about the same people.
THEOREM EveryRouteIsTheSame == Spec => []EveryRouteAgrees
<1>1. ASSUME SharingInvariant
      PROVE  EveryRouteAgrees
  <2>1. ASSUME NEW d \in Dashboard, NEW u \in User
        PROVE  /\ owner_pending_access_requests(d, u) =
                      {v \in pending_access_requests(d, u) : manageable_project(d, u)}
               /\ u \notin pending_access_requests(d, u)
               /\ \A v \in pending_access_requests(d, u) : Dismissable(d, u, v)
    <3>1. OwnedBy(d, u) => u \in is_active /\ owner[d] = u /\ requests[d][u] # "pending"
      BY <1>1, EntitlementFacts
    <3> QED
      BY <3>1 DEF owner_pending_access_requests, pending_access_requests,
                  manageable_project, Dismissable
  <2>2. ASSUME NEW d \in Dashboard, NEW u \in User, manageable_project(d, u)
        PROVE  /\ project_grant_epoch(d, u) =
                      project_active_grants(d, u) \cup project_grant_history(d, u)
               /\ Pinned(d) => published_revision[d] \in project_revisions(d, u)
    <3>1. project_grant_epoch(d, u) =
              project_active_grants(d, u) \cup project_grant_history(d, u)
      BY DEF project_grant_epoch, project_active_grants, project_grant_history
    <3>2. ASSUME Pinned(d)
          PROVE  published_revision[d] \in project_revisions(d, u)
      BY <1>1, <2>2, <3>2
      DEF SharingInvariant, TypeOK, Types, DashboardConstraints, Pinned, project_revisions
    <3> QED
      BY <3>1, <3>2
  <2> QED
    BY <1>1, <2>1, <2>2, RoutesOfOnePerson, ViewersAreCounted DEF EveryRouteAgrees
<1> QED
  BY <1>1, SharingAlways, PTL

\* A published dashboard of an active owner is never a dead end: whoever cannot
\* open it waits for an answer to a request or may make one.
THEOREM NoDeadEnds == Spec => []OpenOrRequest
<1>1. ASSUME SharingInvariant
      PROVE  OpenOrRequest
  <2> SUFFICES ASSUME NEW d \in Dashboard, NEW u \in is_active, Pinned(d),
                      owner[d] \in is_active
               PROVE  IF visible_project(d, u)
                      THEN ~Requestable(d, u)
                      ELSE requests[d][u] # "pending" => Requestable(d, u)
    BY DEF OpenOrRequest
  <2>1. u \in User
    BY <1>1 DEF SharingInvariant, TypeOK, Types, AccountsTypeOK
  <2>2. /\ state[d] = "published" /\ Retained(d)
        /\ OwnedBy(d, u) <=> owner[d] = u
        /\ HasActiveGrant(d, u) <=> ActiveGrants(d, u) # {}
    BY <1>1, <2>1, EntitlementFacts
  <2>3. visible_project(d, u) <=> OwnedBy(d, u) \/ HasActiveGrant(d, u)
    BY <2>2 DEF visible_project, manageable_project, shared_projects
  <2> QED
    BY <2>2, <2>3 DEF Requestable
<1> QED
  BY <1>1, SharingAlways, PTL

----------------------------------------------------------------------------
\* Action properties.

\* Ownership is handed on only with a confirmation signed in this very epoch.
THEOREM ConsentStaysCurrent == Spec => ConsentIsCurrent
<1>1. SharingInvariant /\ [Next]_sharingVars
          => [\A d \in Dashboard :
                 state[d] # "absent" /\ owner'[d] # owner[d] =>
                     [dashboard |-> d, actor |-> owner[d], incoming |-> owner'[d],
                      epoch |-> last_ownership_transfer[d]] \in confirmations]_sharingVars
  <2> SUFFICES ASSUME SharingInvariant, [Next]_sharingVars, NEW d \in Dashboard,
                      state[d] # "absent", owner'[d] # owner[d]
               PROVE  [dashboard |-> d, actor |-> owner[d], incoming |-> owner'[d],
                       epoch |-> last_ownership_transfer[d]] \in confirmations
    OBVIOUS
  <2>1. PICK c \in confirmations, e \in Epoch :
            c.dashboard = d /\ transfer_dashboard_ownership(c, e)
    BY DashboardsMove DEF SharingInvariant
  <2>2. owner' = [owner EXCEPT ![d] = c.incoming]
    BY <2>1 DEF transfer_dashboard_ownership, RecordTransfer, InsertMarker
  <2>3. /\ c.actor = owner[d]
        /\ c.incoming = owner'[d]
        /\ c.epoch = last_ownership_transfer[d]
    BY <2>1, <2>2
    DEF transfer_dashboard_ownership, CurrentOwner, ConfirmsCurrentEpoch,
        SharingInvariant, TypeOK, Types
  <2>4. c = [dashboard |-> c.dashboard, actor |-> c.actor, incoming |-> c.incoming,
             epoch |-> c.epoch]
    BY <2>1 DEF SharingInvariant, TypeOK, Types, Confirmation
  <2> QED
    BY <2>1, <2>3, <2>4
<1> QED
  BY <1>1, SharingAlways, PTL DEF Spec, ConsentIsCurrent

\* Approval, by itself or within a transfer, is never without its effect.
THEOREM ApprovalsGiveAccess == Spec => ApprovalGivesAccess
<1>1. SharingInvariant /\ [Next]_sharingVars
          => [\A d \in Dashboard, u \in User :
                 requests[d][u] # "approved" /\ requests'[d][u] = "approved"
                     => owner'[d] = u \/ ActiveGrants(d, u)' # {}]_sharingVars
  <2> SUFFICES ASSUME SharingInvariant, [Next]_sharingVars,
                      NEW d \in Dashboard, NEW u \in User,
                      requests[d][u] # "approved", requests'[d][u] = "approved"
               PROVE  owner'[d] = u \/ ActiveGrants(d, u)' # {}
    OBVIOUS
  <2>0. TypeOK
    BY DEF SharingInvariant
  <2>1. ASSUME NEW x \in Dashboard, Lifecycle(x)
        PROVE  UNCHANGED requests
    BY <2>1 DEF Lifecycle, create_project, commit_revision, publish_dashboard_revision,
                unpublish_dashboard, save_lifecycle, LeavePublication
  <2>2. ASSUME NEW x \in Dashboard, NEW actor \in User, NEW v \in User,
               \/ \E g \in Grant : \/ grant_project_viewer(x, actor, v, g)
                                 \/ revoke_project_viewer(x, actor, g)
               \/ sign_transfer_confirmation(x, actor, v)
        PROVE  UNCHANGED requests
    BY <2>2 DEF grant_project_viewer, revoke_project_viewer, sign_transfer_confirmation
  <2>3. ASSUME NEW x \in Dashboard, NEW actor \in User, NEW v \in User,
               request_dashboard_access(x, v) \/ dismiss_access_request(x, actor, v)
        PROVE  FALSE
    <3>1. \E status \in {"pending", "denied", "cancelled"} : SetRequest(x, v, status)
      BY <2>3 DEF request_dashboard_access, dismiss_access_request
    <3> QED
      BY <2>0, <3>1, SetRequestFacts DEF Statuses
  <2>4. ASSUME NEW x \in Dashboard, NEW actor \in User, NEW v \in User, NEW g \in Grant,
               approve_access_request(x, actor, v, g)
        PROVE  ActiveGrants(d, u)' # {}
    <3>1. x = d /\ v = u
      BY <2>0, <2>4, SetRequestFacts DEF approve_access_request, Statuses
    <3>2. CASE ActiveGrants(d, u) = {}
      <4>1. grants'[g] = [dashboard |-> d, viewer |-> u, revoked |-> FALSE]
        BY <2>0, <2>4, <3>1, <3>2
        DEF approve_access_request, OpenGrant, InsertGrant, TypeOK, Types
      <4> QED
        BY <4>1 DEF ActiveGrants
    <3>3. CASE ActiveGrants(d, u) # {}
      BY <2>4, <3>1, <3>3 DEF approve_access_request, OpenGrant, ActiveGrants
    <3> QED
      BY <3>2, <3>3
  <2>5. ASSUME NEW c \in confirmations, NEW e \in Epoch,
               transfer_dashboard_ownership(c, e)
        PROVE  owner'[d] = u
    <3>1. c.dashboard = d /\ c.incoming = u
      BY <2>0, <2>5, TransferFacts
    <3>2. owner' = [owner EXCEPT ![c.dashboard] = c.incoming]
      BY <2>0, <2>5, TransferFacts
    <3> QED
      BY <2>0, <3>1, <3>2 DEF TypeOK, Types
  <2>6. CASE AccountStep \/ Tick \/ UNCHANGED sharingVars
    BY <2>6 DEF AccountStep, Tick, sharingVars
  <2>7. ASSUME NEW x \in Dashboard, Access(x)
        PROVE  ActiveGrants(d, u)' # {}
    BY <2>2, <2>3, <2>4, <2>7 DEF Access
  <2>8. ASSUME NEW x \in Dashboard, Ownership(x)
        PROVE  owner'[d] = u
    BY <2>2, <2>5, <2>8 DEF Ownership
  <2> QED
    BY <2>1, <2>6, <2>7, <2>8 DEF Next
<1> QED
  BY <1>1, SharingAlways, PTL DEF Spec, ApprovalGivesAccess

\* What a step may do to the publication of one dashboard.
LEMMA PublicationMoves ==
    ASSUME TypeOK, [Next]_sharingVars, NEW d \in Dashboard
    PROVE  /\ state[d] = "deleted" => state'[d] = "deleted"
           /\ \/ /\ published_revision'[d] \in {published_revision[d], NoRevision}
                 /\ publication_version'[d] = publication_version[d]
                 /\ last_published_at'[d] = last_published_at[d]
              \/ /\ publication_version'[d] = publication_version[d] + 1
                 /\ last_published_at'[d] >= last_published_at[d]
<1> DEFINE Moved ==
        /\ state[d] = "deleted" => state'[d] = "deleted"
        /\ \/ /\ published_revision'[d] \in {published_revision[d], NoRevision}
              /\ publication_version'[d] = publication_version[d]
              /\ last_published_at'[d] = last_published_at[d]
           \/ /\ publication_version'[d] = publication_version[d] + 1
              /\ last_published_at'[d] >= last_published_at[d]
<1>1. ASSUME NEW x \in Dashboard, NEW u \in User, create_project(x, u)
      PROVE  Moved
  BY <1>1 DEF create_project, TypeOK, Types
<1>2. ASSUME NEW x \in Dashboard, NEW u \in User, unpublish_dashboard(x, u)
      PROVE  Moved
  BY <1>2 DEF unpublish_dashboard, LeavePublication, TypeOK, Types
<1>3. ASSUME NEW x \in Dashboard, NEW to \in States, save_lifecycle(x, to)
      PROVE  Moved
  BY <1>3 DEF save_lifecycle, LifecycleTransition, LeavePublication, Editable, TypeOK, Types
<1>4. ASSUME NEW x \in Dashboard, NEW u \in User, NEW r \in Revision,
             commit_revision(x, u, r)
      PROVE  Moved
  BY <1>4 DEF commit_revision
<1>5. ASSUME NEW x \in Dashboard, NEW u \in User, NEW r \in Revision,
             NEW t \in 1..MaxClock, publish_dashboard_revision(x, u, r, t)
      PROVE  Moved
  <2>1. CASE x = d
    BY <1>5, <2>1
    DEF publish_dashboard_revision, NotBackdated, Editable, TypeOK, Types
  <2>2. CASE x # d
    BY <1>5, <2>2 DEF publish_dashboard_revision, TypeOK, Types
  <2> QED
    BY <2>1, <2>2
<1>6. ASSUME NEW x \in Dashboard, Access(x)
      PROVE  Moved
  BY <1>6 DEF Access, dismiss_access_request, request_dashboard_access,
              grant_project_viewer, approve_access_request, revoke_project_viewer
<1>7. ASSUME NEW x \in Dashboard, Ownership(x)
      PROVE  Moved
  BY <1>7 DEF Ownership, sign_transfer_confirmation, transfer_dashboard_ownership
<1>8. CASE AccountStep \/ Tick \/ UNCHANGED sharingVars
  BY <1>8 DEF AccountStep, Tick, sharingVars
<1>9. ASSUME NEW x \in Dashboard, Lifecycle(x)
      PROVE  Moved
  BY <1>1, <1>2, <1>3, <1>4, <1>5, <1>9 DEF Lifecycle
<1>10. Moved
  BY <1>6, <1>7, <1>8, <1>9 DEF Next
<1> QED
  BY <1>10

\* A publication version never comes to name another release, and times of
\* publication never go back, whatever order locks are granted in.
THEOREM ReleasesStayPinned == Spec => ReleaseIsPinned
<1>1. SharingInvariant /\ [Next]_sharingVars
          => [\A d \in Dashboard :
                 /\ state[d] = "deleted" => state'[d] = "deleted"
                 /\ last_published_at'[d] >= last_published_at[d]
                 /\ publication_version'[d] - publication_version[d] \in {0, 1}
                 /\ /\ publication_version'[d] = publication_version[d]
                    /\ published_revision'[d] # NoRevision
                    => published_revision'[d] = published_revision[d]]_sharingVars
  <2> SUFFICES ASSUME SharingInvariant, [Next]_sharingVars, NEW d \in Dashboard
               PROVE  /\ state[d] = "deleted" => state'[d] = "deleted"
                      /\ last_published_at'[d] >= last_published_at[d]
                      /\ publication_version'[d] - publication_version[d] \in {0, 1}
                      /\ /\ publication_version'[d] = publication_version[d]
                         /\ published_revision'[d] # NoRevision
                         => published_revision'[d] = published_revision[d]
    OBVIOUS
  <2>1. publication_version[d] \in Nat /\ last_published_at[d] \in Nat /\ TypeOK
    BY SharingAssumption DEF SharingInvariant, TypeOK, Types
  <2> QED
    BY <2>1, PublicationMoves
<1> QED
  BY <1>1, SharingAlways, PTL DEF Spec, ReleaseIsPinned

----------------------------------------------------------------------------
\* Render authorizations.

CopiesFollow(row) ==
    row.stage # "none" =>
        LET d == row.dashboard IN
        /\ row.stage \in {"viewer", "captured"} => row.audience = "viewer"
        /\ state[d] # "absent"
        /\ row.epoch # NoEpoch => transfers[row.epoch] # NoTransfer
        /\ row.version <= publication_version[d]
        /\ row.auth_version <= auth_version[row.viewer]
        /\ row.grant = NoGrantId =>
              /\ row.epoch = last_ownership_transfer[d] => owner[d] = row.owner
              /\ row.stage \in {"authorized", "captured", "issued"}
                     => row.owner = row.viewer

CredentialsFollow == \A c \in Credential : CopiesFollow(credentials[c])

RenderInvariant == SharingInvariant /\ RenderTypeOK /\ CredentialsFollow

----------------------------------------------------------------------------
\* What a step of Sharing may do to what a row refers to.

\* Accounts: a version that is still the copied one has not been left meanwhile.
LEMMA AccountsMove ==
    ASSUME TypeOK, [Next]_sharingVars, NEW u \in User
    PROVE  /\ auth_version[u] \in Nat /\ auth_version'[u] \in Nat
           /\ auth_version'[u] >= auth_version[u]
           /\ (u \in is_active) # (u \in is_active')
                  => auth_version'[u] > auth_version[u]
<1>1. auth_version[u] \in Nat /\ auth_version'[u] \in Nat
  BY TypesKept DEF TypeOK, Types, AccountsTypeOK
<1>2. CASE AccountStep
  BY <1>1, <1>2, ChangeFacts DEF AccountStep, TypeOK, Types
<1>3. CASE UNCHANGED accountVars
  BY <1>1, <1>3 DEF accountVars
<1>4. ASSUME NEW d \in Dashboard, Lifecycle(d) \/ Access(d) \/ Ownership(d)
      PROVE  UNCHANGED accountVars
  <2>1. CASE Lifecycle(d)
    BY <2>1 DEF Lifecycle, create_project, commit_revision, publish_dashboard_revision,
                unpublish_dashboard, save_lifecycle, LeavePublication
  <2>2. CASE Access(d)
    BY <2>2 DEF Access, dismiss_access_request, request_dashboard_access,
                grant_project_viewer, approve_access_request, revoke_project_viewer
  <2>3. CASE Ownership(d)
    BY <2>3 DEF Ownership, sign_transfer_confirmation, transfer_dashboard_ownership
  <2> QED
    BY <1>4, <2>1, <2>2, <2>3
<1> QED
  BY <1>2, <1>3, <1>4 DEF Next, Tick, sharingVars

\* Revisions stay where they were committed.
LEMMA RevisionsMove ==
    ASSUME TypeOK, [Next]_sharingVars, NEW r \in Revision, revision_of[r] \in Dashboard
    PROVE  revision_of'[r] = revision_of[r]
<1>1. ASSUME NEW d \in Dashboard, Lifecycle(d)
      PROVE  revision_of'[r] = revision_of[r]
  BY <1>1, SharingAssumption
  DEF Lifecycle, create_project, commit_revision, publish_dashboard_revision,
      unpublish_dashboard, save_lifecycle, LeavePublication, TypeOK, Types
<1>2. ASSUME NEW d \in Dashboard, Access(d) \/ Ownership(d)
      PROVE  UNCHANGED revision_of
  BY <1>2 DEF Access, dismiss_access_request, request_dashboard_access,
              grant_project_viewer, approve_access_request, revoke_project_viewer,
              Ownership, sign_transfer_confirmation, transfer_dashboard_ownership
<1> QED
  BY <1>1, <1>2 DEF Next, AccountStep, Tick, sharingVars

\* A grant keeps its dashboard and viewer, and is never reopened.
LEMMA GrantRowsMove ==
    ASSUME TypeOK, OwnerHoldsNoGrant, [Next]_sharingVars, NEW g \in Grant,
           grants[g] # NoGrant
    PROVE  /\ grants'[g] # NoGrant
           /\ grants'[g].dashboard = grants[g].dashboard
           /\ grants'[g].viewer = grants[g].viewer
           /\ grants[g].revoked => grants'[g].revoked
<1>1. grants[g] \in GrantRow
  BY DEF TypeOK, Types
<1>2. CASE UNCHANGED grants
  BY <1>2
<1>3. ASSUME NEW gs \in SUBSET Grant, \A h \in gs : grants[h] # NoGrant,
             grants' = Revoked(gs)
      PROVE  /\ grants'[g] # NoGrant
             /\ grants'[g].dashboard = grants[g].dashboard
             /\ grants'[g].viewer = grants[g].viewer
             /\ grants[g].revoked => grants'[g].revoked
  <2>1. grants'[g] = grants[g] \/ grants'[g] = [dashboard |-> grants[g].dashboard,
                                                viewer |-> grants[g].viewer,
                                                revoked |-> TRUE]
    BY <1>3, RevokedFacts
  <2> QED
    BY <1>1, <2>1, SharingAssumption DEF NoGrant, GrantRow
<1>4. ASSUME NEW h \in Grant, NEW d \in Dashboard, NEW u \in User, InsertGrant(h, d, u)
      PROVE  grants'[g] = grants[g]
  BY <1>4 DEF InsertGrant, TypeOK, Types
<1> QED
  BY <1>2, <1>3, <1>4, GrantsMove

\* An epoch that was current once is current only while nothing was transferred,
\* and until then the owner stays.
LEMMA EpochsMove ==
    ASSUME SharingInvariant, [Next]_sharingVars, NEW d \in Dashboard,
           state[d] # "absent"
    PROVE  /\ \A e \in Epoch : transfers[e] # NoTransfer => transfers'[e] # NoTransfer
           /\ \/ /\ last_ownership_transfer'[d] = last_ownership_transfer[d]
                 /\ owner'[d] = owner[d]
              \/ /\ last_ownership_transfer'[d] \in Epoch
                 /\ transfers[last_ownership_transfer'[d]] = NoTransfer
<1> USE DEF SharingInvariant
<1>1. CASE UNCHANGED ownershipVars
  BY <1>1
<1>2. ASSUME NEW x \in Dashboard, NEW u \in User, owner[x] = NoUser,
             owner' = [owner EXCEPT ![x] = u],
             UNCHANGED <<last_ownership_transfer, transfers>>
      PROVE  owner'[d] = owner[d]
  BY <1>2 DEF TypeOK, Types, DashboardConstraints
<1>3. ASSUME NEW x \in Dashboard, NEW u \in User, NEW e \in Epoch, owner[x] \in User,
             RecordTransfer(x, u, e)
      PROVE  /\ \A f \in Epoch : transfers[f] # NoTransfer => transfers'[f] # NoTransfer
             /\ \/ /\ last_ownership_transfer'[d] = last_ownership_transfer[d]
                   /\ owner'[d] = owner[d]
                \/ /\ last_ownership_transfer'[d] \in Epoch
                   /\ transfers[last_ownership_transfer'[d]] = NoTransfer
  <2>1. \A f \in Epoch : f # e => transfers'[f] = transfers[f]
    BY <1>3 DEF RecordTransfer, InsertMarker, TypeOK, Types
  <2>2. transfers[e] = NoTransfer
    BY <1>3 DEF RecordTransfer, InsertMarker
  <2>3. x # d => /\ last_ownership_transfer'[d] = last_ownership_transfer[d]
                 /\ owner'[d] = owner[d]
    BY <1>3 DEF RecordTransfer, InsertMarker, TypeOK, Types
  <2>4. x = d => last_ownership_transfer'[d] = e
    BY <1>3 DEF RecordTransfer, InsertMarker, TypeOK, Types
  <2> QED
    BY <2>1, <2>2, <2>3, <2>4
<1> QED
  BY <1>1, <1>2, <1>3, TransfersMove

\* The current epoch has a marker.
LEMMA TipIsUsed ==
    ASSUME SharingInvariant, NEW d \in Dashboard, last_ownership_transfer[d] # NoEpoch
    PROVE  transfers[last_ownership_transfer[d]] # NoTransfer
BY SharingAssumption DEF SharingInvariant, TransferChain, Markers, NoTransfer, TypeOK, Types

----------------------------------------------------------------------------
\* Types and copies.

\* Whatever commits while a request is under way, its row stays well-formed.
LEMMA TablesMove ==
    ASSUME RenderInvariant, [Next]_sharingVars, UNCHANGED credentials,
           NEW c \in Credential
    PROVE  CredentialConstraints(credentials[c])' /\ CopiesFollow(credentials[c])'
<1> DEFINE row == credentials[c]
           d == row.dashboard
<1> SUFFICES ASSUME row.stage # "none"
             PROVE  CredentialConstraints(row)' /\ CopiesFollow(row)'
  BY DEF CredentialConstraints, CopiesFollow
<1> USE DEF RenderInvariant, SharingInvariant
<1>1. /\ row \in CredentialType
      /\ CredentialConstraints(row)
      /\ CopiesFollow(row)
  BY DEF RenderTypeOK, CredentialsFollow
<1>2. d \in Dashboard /\ row.viewer \in User /\ row.revision \in Revision
  BY <1>1 DEF CredentialConstraints
<1>3. row.audience = "viewer" \/ row.stage = "issued" => revision_of'[row.revision] = d
  BY <1>1, <1>2, RevisionsMove DEF CredentialConstraints
<1>4. row.grant # NoGrantId => /\ grants'[row.grant].dashboard = d
                               /\ grants'[row.grant].viewer = row.viewer
  <2> SUFFICES ASSUME row.grant # NoGrantId
               PROVE  /\ grants'[row.grant].dashboard = d
                      /\ grants'[row.grant].viewer = row.viewer
    OBVIOUS
  <2>1. row.grant \in Grant
    BY <1>1 DEF CredentialType
  <2>2. grants[row.grant].dashboard = d /\ grants[row.grant].viewer = row.viewer
    BY <1>1 DEF CredentialConstraints
  <2>3. grants[row.grant] # NoGrant
    BY <1>2, <2>2, SharingAssumption DEF NoGrant
  <2> QED
    BY <2>1, <2>2, <2>3, GrantRowsMove
<1>5. CredentialConstraints(row)'
  BY <1>1, <1>3, <1>4 DEF CredentialConstraints
<1>6. state[d] # "absent"
  BY <1>1 DEF CopiesFollow
<1>7. state'[d] # "absent"
  BY <1>2, <1>6, DashboardsMove
<1>8. row.epoch # NoEpoch => transfers'[row.epoch] # NoTransfer
  BY <1>1, <1>2, <1>6, EpochsMove DEF CopiesFollow, CredentialType
<1>9. row.version <= publication_version'[d]
  BY <1>1, <1>2, PublicationMoves DEF CopiesFollow, CredentialType, TypeOK, Types
<1>10. row.auth_version <= auth_version'[row.viewer]
  BY <1>1, <1>2, AccountsMove DEF CopiesFollow, CredentialType
<1>11. ASSUME row.grant = NoGrantId, row.epoch = last_ownership_transfer'[d]
       PROVE  owner'[d] = row.owner
  BY <1>1, <1>2, <1>6, <1>11, EpochsMove, SharingAssumption DEF CopiesFollow
<1> QED
  BY <1>1, <1>5, <1>7, <1>8, <1>9, <1>10, <1>11 DEF CopiesFollow

\* An unused id is a well-formed row.
LEMMA NoCredentialFacts ==
    /\ NoCredential \in CredentialType
    /\ NoCredential.stage = "none"
    /\ CredentialConstraints(NoCredential) /\ CopiesFollow(NoCredential)
BY SharingAssumption, AccountsAssumption
DEF NoCredential, CredentialType, CredentialConstraints, CopiesFollow

Sound(row) == /\ row \in CredentialType
              /\ CredentialConstraints(row)
              /\ CopiesFollow(row)

\* The first query copies what is current.
LEMMA ReadDashboardFacts ==
    ASSUME RenderInvariant, NEW d \in Dashboard, NEW u \in User, NEW r \in Revision,
           NEW audience \in {"preview", "viewer"}, NEW version \in 0..MaxVersion,
           state[d] \in Editable, version <= publication_version[d],
           version > 0 <=> audience = "viewer",
           audience = "viewer" => revision_of[r] = d
    PROVE  Sound(ReadDashboard(d, u, r, audience, version))
<1> DEFINE row == ReadDashboard(d, u, r, audience, version)
<1> USE DEF RenderInvariant, SharingInvariant
<1>1. /\ owner[d] \in User \cup {NoUser}
      /\ last_ownership_transfer[d] \in Epoch \cup {NoEpoch}
      /\ auth_version[u] \in Nat
  BY DEF TypeOK, Types, AccountsTypeOK
<1>2. row \in CredentialType
  BY <1>1, SharingAssumption, AccountsAssumption DEF CredentialType, ReadDashboard
<1>3. CredentialConstraints(row)
  BY DEF CredentialConstraints, ReadDashboard
<1>4. CopiesFollow(row)
  BY <1>1, TipIsUsed DEF CopiesFollow, Editable, ReadDashboard
<1> QED
  BY <1>2, <1>3, <1>4 DEF Sound

\* Every query and every insert of a request keeps its row sound, or gives it up;
\* an issued row only ends.
LEMMA IssueFacts ==
    ASSUME RenderInvariant, NEW c \in Credential, Issue(c)
    PROVE  \E row : /\ Update(c, row) /\ Sound(row)
                    /\ credentials[c].stage = "issued"
                           => row = [credentials[c] EXCEPT !.ended = TRUE]
<1> DEFINE old == credentials[c]
           Goal == \E row : /\ Update(c, row) /\ Sound(row)
                            /\ old.stage = "issued" => row = [old EXCEPT !.ended = TRUE]
<1>1. Sound(old)
  BY DEF RenderInvariant, RenderTypeOK, CredentialsFollow, Sound
<1>2. /\ Sound(NoCredential)
      /\ \A u \in User : /\ auth_version[u] \in 0..MaxAuthVersion
                         /\ auth_version[u] <= auth_version[u]
  BY NoCredentialFacts, AccountsAssumption
  DEF Sound, RenderInvariant, SharingInvariant, TypeOK, Types, AccountsTypeOK
<1>3. ASSUME NEW d \in Dashboard, NEW u \in User, NEW r \in Revision,
             preview_reads_dashboard(c, d, u, r)
      PROVE  Goal
  <2>1. Sound(ReadDashboard(d, u, r, "preview", 0))
    <3>1. 0 \in 0..MaxVersion /\ 0 <= publication_version[d]
      BY SharingAssumption DEF RenderInvariant, SharingInvariant, TypeOK, Types
    <3> QED
      BY <1>3, <3>1, ReadDashboardFacts DEF preview_reads_dashboard
  <2> QED
    BY <1>3, <2>1 DEF preview_reads_dashboard
<1>4. ASSUME NEW d \in Dashboard, NEW u \in User, view_reads_dashboard(c, d, u)
      PROVE  Goal
  <2>1. /\ published_revision[d] \in Revision
        /\ revision_of[published_revision[d]] = d
        /\ publication_version[d] \in 0..MaxVersion
        /\ publication_version[d] > 0
        /\ publication_version[d] <= publication_version[d]
    BY <1>4
    DEF view_reads_dashboard, RenderInvariant, SharingInvariant, TypeOK, Types,
        DashboardConstraints
  <2>2. Sound(ReadDashboard(d, u, published_revision[d], "viewer",
                            publication_version[d]))
    BY <1>4, <2>1, ReadDashboardFacts DEF view_reads_dashboard, Editable
  <2> QED
    BY <1>4, <2>2 DEF view_reads_dashboard
<1>5. CASE preview_reads_viewer(c)
  <2> DEFINE new == [old EXCEPT !.stage = "authorized",
                                !.auth_version = auth_version[old.viewer]]
  <2>1. CASE Update(c, NoCredential)
    BY <1>2, <1>5, <2>1 DEF preview_reads_viewer
  <2>2. CASE old.owner = old.viewer /\ Update(c, new)
    <3>1. /\ old.stage = "dashboard" /\ old.viewer \in User
      BY <1>1, <1>5 DEF preview_reads_viewer, Sound, CredentialConstraints
    <3>2. new \in CredentialType
      BY <1>1, <1>2, <3>1 DEF Sound, CredentialType
    <3>3. CredentialConstraints(new)
      BY <1>1, <3>1 DEF Sound, CredentialType, CredentialConstraints
    <3>4. CopiesFollow(new)
      BY <1>1, <1>5, <1>2, <2>2, <3>1 DEF preview_reads_viewer, Sound, CredentialType, CopiesFollow
    <3>5. Sound(new)
      BY <3>2, <3>3, <3>4 DEF Sound
    <3> QED
      BY <1>5, <2>2, <3>5 DEF preview_reads_viewer
  <2> QED
    BY <1>5, <2>1, <2>2 DEF preview_reads_viewer
<1>6. CASE preview_commits(c)
  <2> DEFINE new == [old EXCEPT !.stage = "issued"]
  <2>1. CASE Update(c, NoCredential)
    BY <1>2, <1>6, <2>1 DEF preview_commits
  <2>2. CASE revision_of[old.revision] = old.dashboard /\ Update(c, new)
    <3>1. Sound(new)
      BY <1>1, <1>6, <2>2
      DEF preview_commits, Sound, CredentialType, CredentialConstraints, CopiesFollow
    <3> QED
      BY <1>6, <2>2, <3>1 DEF preview_commits
  <2> QED
    BY <1>6, <2>1, <2>2 DEF preview_commits
<1>7. CASE view_reads_viewer(c)
  <2> DEFINE new == [old EXCEPT !.stage = "viewer",
                                !.auth_version = auth_version[old.viewer]]
  <2>1. CASE Update(c, NoCredential)
    BY <1>2, <1>7, <2>1 DEF view_reads_viewer
  <2>2. CASE Update(c, new)
    <3>1. /\ old.stage = "dashboard" /\ old.viewer \in User
      BY <1>1, <1>7 DEF view_reads_viewer, Sound, CredentialConstraints
    <3>2. new \in CredentialType
      BY <1>1, <1>2, <3>1 DEF Sound, CredentialType
    <3>3. CredentialConstraints(new)
      BY <1>1, <3>1 DEF Sound, CredentialType, CredentialConstraints
    <3>4. CopiesFollow(new)
      BY <1>1, <1>7, <1>2, <2>2, <3>1 DEF view_reads_viewer, Sound, CredentialType, CopiesFollow
    <3>5. Sound(new)
      BY <3>2, <3>3, <3>4 DEF Sound
    <3> QED
      BY <1>7, <2>2, <3>5 DEF view_reads_viewer
  <2> QED
    BY <1>7, <2>1, <2>2 DEF view_reads_viewer
<1>8. CASE view_reads_grant(c)
  <2>1. CASE Update(c, NoCredential)
    BY <1>2, <1>8, <2>1 DEF view_reads_grant
  <2>2. CASE old.owner = old.viewer /\ Update(c, [old EXCEPT !.stage = "authorized"])
    <3>1. Sound([old EXCEPT !.stage = "authorized"])
      BY <1>1, <1>8, <2>2
      DEF view_reads_grant, Sound, CredentialType, CredentialConstraints, CopiesFollow
    <3> QED
      BY <1>8, <2>2, <3>1 DEF view_reads_grant
  <2>3. ASSUME NEW g \in ActiveGrants(old.dashboard, old.viewer),
               Update(c, [old EXCEPT !.stage = "authorized", !.grant = g,
                                     !.epoch = NoEpoch])
        PROVE  Goal
    <3> DEFINE new == [old EXCEPT !.stage = "authorized", !.grant = g, !.epoch = NoEpoch]
    <3>1. /\ g \in Grant /\ g # NoGrantId
          /\ grants[g].dashboard = old.dashboard /\ grants[g].viewer = old.viewer
      BY <2>3, RenderingAssumption DEF ActiveGrants
    <3>2. old.audience = "viewer" /\ old.stage = "viewer"
      BY <1>1, <1>8 DEF view_reads_grant, Sound, CopiesFollow
    <3>3. Sound(new)
      BY <1>1, <3>1, <3>2 DEF Sound, CredentialType, CredentialConstraints, CopiesFollow
    <3> QED
      BY <2>3, <3>2, <3>3
  <2> QED
    BY <1>8, <2>1, <2>2, <2>3 DEF view_reads_grant
<1>9. CASE view_captures_open(c)
  <2> DEFINE new == [old EXCEPT !.stage = "captured"]
  <2>1. CASE Update(c, NoCredential)
    BY <1>2, <1>9, <2>1 DEF view_captures_open
  <2>2. CASE Update(c, new)
    <3>1. Sound(new)
      BY <1>1, <1>9
      DEF view_captures_open, Sound, CredentialType, CredentialConstraints, CopiesFollow
    <3> QED
      BY <1>9, <2>2, <3>1 DEF view_captures_open
  <2> QED
    BY <1>9, <2>1, <2>2 DEF view_captures_open
<1>10. CASE view_commits(c)
  <2> DEFINE new == [old EXCEPT !.stage = "issued"]
  <2>1. Sound(new)
    BY <1>1, <1>10
    DEF view_commits, Sound, CredentialType, CredentialConstraints, CopiesFollow
  <2> QED
    BY <1>10, <2>1 DEF view_commits
<1>11. CASE end_authorization(c)
  <2> DEFINE new == [old EXCEPT !.ended = TRUE]
  <2>1. Sound(new)
    BY <1>1 DEF Sound, CredentialType, CredentialConstraints, CopiesFollow
  <2> QED
    BY <1>11, <2>1 DEF end_authorization
<1> QED
  BY <1>3, <1>4, <1>5, <1>6, <1>7, <1>8, <1>9, <1>10, <1>11 DEF Issue

----------------------------------------------------------------------------
\* The invariant.

\* No credential has been issued.
LEMMA RenderInitially == RenderInit => RenderInvariant
<1> SUFFICES ASSUME RenderInit
             PROVE  RenderInvariant
  OBVIOUS
<1>1. SharingInvariant
  BY SharingInitially DEF RenderInit
<1>2. RenderTypeOK /\ CredentialsFollow
  BY <1>1, NoCredentialFacts, SharingAssumption
  DEF RenderInit, RenderTypeOK, CredentialsFollow, SharingInvariant
<1> QED
  BY <1>1, <1>2 DEF RenderInvariant

\* Every step is one of Sharing or one of a request.
LEMMA RenderSteps ==
    ASSUME RenderInvariant, [RenderNext]_renderVars
    PROVE  /\ [Next]_sharingVars
           /\ \/ UNCHANGED credentials
              \/ UNCHANGED sharingVars /\ \E c \in Credential : Issue(c)
<1>1. ASSUME NEW c \in Credential, Issue(c)
      PROVE  UNCHANGED sharingVars
  BY <1>1, IssueFacts DEF Update
<1> QED
  BY <1>1 DEF RenderNext, renderVars

\* The later of two versions.
LEMMA LaterFacts ==
    ASSUME NEW m \in 0..MaxVersion, NEW n \in 0..MaxVersion
    PROVE  Later(m, n) \in 0..MaxVersion /\ Later(m, n) >= m
BY SharingAssumption DEF Later

\* The seen versions move only when a view commits.
LEMMA SeenMoves ==
    ASSUME RenderInvariant, [RenderNext]_renderVars
    PROVE  /\ seen' \in [Dashboard -> [User -> 0..MaxVersion]]
           /\ \A d \in Dashboard, u \in User : seen'[d][u] >= seen[d][u]
<1>1. seen \in [Dashboard -> [User -> 0..MaxVersion]]
  BY DEF RenderInvariant, RenderTypeOK
<1>2. CASE UNCHANGED seen
  BY <1>1, <1>2, SharingAssumption
<1>3. ASSUME NEW c \in Credential, view_commits(c)
      PROVE  /\ seen' \in [Dashboard -> [User -> 0..MaxVersion]]
             /\ \A d \in Dashboard, u \in User : seen'[d][u] >= seen[d][u]
  <2> DEFINE x == credentials[c].dashboard
             v == credentials[c].viewer
             n == credentials[c].version
  <2>1. x \in Dashboard /\ v \in User /\ n \in 0..MaxVersion
    BY <1>3
    DEF view_commits, RenderInvariant, RenderTypeOK, CredentialConstraints, CredentialType
  <2>2. seen' = [seen EXCEPT ![x][v] = Later(seen[x][v], n)]
    BY <1>3 DEF view_commits
  <2>3. Later(seen[x][v], n) \in 0..MaxVersion /\ Later(seen[x][v], n) >= seen[x][v]
    BY <1>1, <2>1, LaterFacts
  <2> HIDE DEF x, v, n
  <2>4. \A d \in Dashboard, u \in User : seen[d][u] \in Int
    BY <1>1, SharingAssumption
  <2> QED
    BY <1>1, <2>1, <2>2, <2>3, <2>4
<1>4. UNCHANGED seen \/ \E c \in Credential : view_commits(c)
  BY DEF RenderNext, renderVars, Issue, preview_reads_dashboard, preview_reads_viewer,
         preview_commits, view_reads_dashboard, view_reads_viewer, view_reads_grant,
         view_captures_open, end_authorization
<1> QED
  BY <1>2, <1>3, <1>4

\* Types, copies and the tables they follow are inductive together.
LEMMA RenderInductive ==
    ASSUME RenderInvariant, [RenderNext]_renderVars
    PROVE  RenderInvariant'
<1>1. SharingInvariant'
  BY RenderSteps, SharingInductive DEF RenderInvariant
<1>2. CASE UNCHANGED credentials
  BY <1>1, <1>2, TablesMove, SeenMoves, RenderSteps
  DEF RenderInvariant, RenderTypeOK, CredentialsFollow, SharingInvariant
<1>3. ASSUME UNCHANGED sharingVars, NEW c \in Credential, Issue(c)
      PROVE  RenderInvariant'
  <2>1. PICK row : Update(c, row) /\ Sound(row)
    BY <1>3, IssueFacts
  <2>2. credentials' = [credentials EXCEPT ![c] = row]
    BY <2>1 DEF Update
  <2>3. \A x \in Credential : Sound(credentials'[x])
    BY <2>1, <2>2 DEF RenderInvariant, RenderTypeOK, CredentialsFollow, Sound
  <2>4. credentials' \in [Credential -> CredentialType]
    BY <2>1, <2>2 DEF RenderInvariant, RenderTypeOK, Sound
  <2>5. \A x \in Credential : CredentialConstraints(credentials[x])'
                             /\ CopiesFollow(credentials[x])'
    BY <1>3, <2>3 DEF Sound, CredentialConstraints, CopiesFollow, sharingVars, accountVars
  <2> QED
    BY <1>1, <2>4, <2>5, SeenMoves
    DEF RenderInvariant, RenderTypeOK, CredentialsFollow, SharingInvariant
<1> QED
  BY <1>2, <1>3, RenderSteps

\* It holds for ever.
LEMMA RenderAlways == RenderSpec => []RenderInvariant
BY RenderInitially, RenderInductive, PTL DEF RenderSpec

\* No interleaving of queries with the services leaves a row that
\* RenderAuthorization.clean would reject.
THEOREM CredentialsTypeCorrect == RenderSpec => []RenderTypeOK
<1>1. RenderInvariant => RenderTypeOK
  BY DEF RenderInvariant
<1> QED
  BY <1>1, RenderAlways, PTL

----------------------------------------------------------------------------
\* Resolving.

\* A row that resolves is of somebody entitled to what it shows.
LEMMA CurrentIsEntitled ==
    ASSUME RenderInvariant
    PROVE  CurrentMeansEntitled
<1> SUFFICES ASSUME NEW c \in Credential, AuthorizationIsCurrent(credentials[c])
             PROVE  Entitled(credentials[c].viewer, credentials[c].dashboard,
                             credentials[c].revision, credentials[c].audience)
  BY DEF CurrentMeansEntitled
<1> DEFINE row == credentials[c]
           d == row.dashboard
<1>1. /\ row \in CredentialType /\ row.stage = "issued"
      /\ d \in Dashboard /\ row.viewer \in User /\ row.revision \in Revision
      /\ row.viewer \in is_active
  BY DEF RenderInvariant, RenderTypeOK, CredentialConstraints, AuthorizationIsCurrent,
         AccountIsCurrent
<1>2. CASE row.audience = "preview"
  BY <1>1, <1>2 DEF AuthorizationIsCurrent, Entitled
<1>3. CASE row.audience = "viewer"
  <2>1. published_revision[d] = row.revision
    BY <1>3 DEF AuthorizationIsCurrent
  <2>2. state[d] = "published"
    BY <1>1, <2>1, SharingAssumption
    DEF RenderInvariant, SharingInvariant, TypeOK, DashboardConstraints
  <2>3. owner[d] = row.viewer \/ ActiveGrants(d, row.viewer) # {}
    BY <1>1, <1>3
    DEF AuthorizationIsCurrent, BindsActiveGrant, ActiveGrants, CredentialType
  <2> QED
    BY <1>1, <1>3, <2>1, <2>2, <2>3 DEF Entitled
<1> QED
  BY <1>2, <1>3 DEF AuthorizationIsCurrent

\* Although no query of issue_published_view or issue_owner_preview locks what the
\* next one relies on, resolve_render_authorization admits only the entitled.
THEOREM ResolvingMeansEntitled == RenderSpec => []CurrentMeansEntitled
BY CurrentIsEntitled, RenderAlways, PTL

\* _advance_viewer_state never takes back a later version.
THEOREM SeenVersionsGrow == RenderSpec => SeenNeverGoesBack
<1>1. RenderInvariant /\ [RenderNext]_renderVars
          => [\A d \in Dashboard, u \in User : seen'[d][u] >= seen[d][u]]_renderVars
  BY SeenMoves
<1> QED
  BY <1>1, RenderAlways, PTL DEF RenderSpec, SeenNeverGoesBack

----------------------------------------------------------------------------
\* The promise of Entitlement.

Alive(row) == AuthorizationIsCurrent(row) \/ IsSuspended(row)

\* What has retired stays retired: a row that resolves, or is suspended, after a
\* step of Sharing did so before.  Its version, its grant and its epoch are those
\* it copied, and none of them comes back once left.
LEMMA RetiredForGood ==
    ASSUME RenderInvariant, [Next]_sharingVars, UNCHANGED credentials,
           NEW c \in Credential, Alive(credentials[c])'
    PROVE  Alive(credentials[c])
<1> DEFINE row == credentials[c]
           d == row.dashboard
           u == row.viewer
<1> USE DEF RenderInvariant
<1>1. /\ Sound(row) /\ row.stage = "issued" /\ ~row.ended
      /\ d \in Dashboard /\ u \in User /\ row.revision \in Revision
      /\ state[d] # "absent"
  BY DEF RenderTypeOK, CredentialsFollow, Sound, CredentialConstraints, CopiesFollow,
         Alive, AuthorizationIsCurrent, IsSuspended
<1>2. TypeOK /\ OwnerHoldsNoGrant
  BY DEF SharingInvariant
<1>3. AccountIsCurrent(row)
  <2>1. u \in is_active' /\ auth_version'[u] = row.auth_version
    BY DEF Alive, AuthorizationIsCurrent, IsSuspended, AccountIsCurrent
  <2>2. row.auth_version <= auth_version[u]
    BY <1>1 DEF Sound, CopiesFollow
  <2>3. auth_version[u] = row.auth_version /\ u \in is_active
    BY <1>1, <1>2, <2>1, <2>2, AccountsMove
  <2> QED
    BY <2>3 DEF AccountIsCurrent
<1>4. revision_of[row.revision] = d
  BY <1>1 DEF Sound, CredentialConstraints
<1>5. ASSUME row.grant = NoGrantId, row.epoch = last_ownership_transfer'[d]
      PROVE  row.epoch = last_ownership_transfer[d] /\ owner[d] = u
  <2>1. row.epoch = last_ownership_transfer[d]
    BY <1>1, <1>5, EpochsMove, SharingAssumption DEF Sound, CopiesFollow
  <2> QED
    BY <1>1, <1>5, <2>1 DEF Sound, CopiesFollow
<1>6. CASE row.audience = "preview"
  <2>1. /\ row.grant = NoGrantId /\ row.epoch = last_ownership_transfer'[d]
        /\ state'[d] \in Editable \cup {"archived"}
    BY <1>6 DEF Alive, AuthorizationIsCurrent, IsSuspended, BindsOwnership
  <2>2. state[d] \in Editable \cup {"archived"}
    BY <1>1, <1>2, <2>1, PublicationMoves DEF Editable, TypeOK, Types, States
  <2> QED
    BY <1>1, <1>3, <1>4, <1>5, <1>6, <2>1, <2>2
    DEF Alive, AuthorizationIsCurrent, IsSuspended, BindsOwnership
<1>7. CASE row.audience = "viewer"
  <2>1. /\ published_revision'[d] = row.revision
        /\ publication_version'[d] = row.version
        /\ IF owner'[d] = u THEN BindsOwnership(row)'
                            ELSE row.epoch = NoEpoch /\ BindsActiveGrant(row)'
    BY <1>7 DEF Alive, AuthorizationIsCurrent, IsSuspended
  <2>2. published_revision[d] = row.revision /\ publication_version[d] = row.version
    <3>1. row.version <= publication_version[d]
      BY <1>1 DEF Sound, CopiesFollow
    <3>2. publication_version[d] \in Nat /\ row.revision # NoRevision
      BY <1>1, <1>2, SharingAssumption DEF TypeOK, Types
    <3> QED
      BY <1>1, <1>2, <2>1, <3>1, <3>2, PublicationMoves
  <2>3. state[d] = "published"
    BY <1>1, <1>2, <2>2, SharingAssumption DEF TypeOK, DashboardConstraints
  <2>4. CASE row.grant = NoGrantId
    <3>1. row.epoch = last_ownership_transfer'[d]
      BY <2>1, <2>4 DEF BindsOwnership, BindsActiveGrant
    <3> QED
      BY <1>1, <1>3, <1>4, <1>5, <1>7, <2>2, <2>4, <3>1
      DEF Alive, AuthorizationIsCurrent, BindsOwnership
  <2>5. CASE row.grant # NoGrantId
    <3>1. row.grant \in Grant
      BY <1>1, <2>5 DEF Sound, CredentialType
    <3>2. /\ row.epoch = NoEpoch
          /\ grants[row.grant].dashboard = d /\ grants[row.grant].viewer = u
      BY <1>1, <2>5 DEF Sound, CredentialConstraints
    <3>3. grants[row.grant] # NoGrant
      BY <1>1, <3>2, SharingAssumption DEF NoGrant
    <3>4. ~grants'[row.grant].revoked
      BY <2>1, <2>5 DEF BindsOwnership, BindsActiveGrant
    <3>5. grants[row.grant].revoked = FALSE
      BY <1>2, <3>1, <3>3, <3>4, GrantRowsMove DEF TypeOK, Types, GrantRow
    <3>6. grants[row.grant] = [dashboard |-> d, viewer |-> u, revoked |-> FALSE]
      BY <1>2, <3>1, <3>2, <3>3, <3>5 DEF TypeOK, Types, GrantRow
    <3>7. owner[d] # u
      BY <1>1, <1>2, <3>1, <3>6 DEF OwnerHoldsNoGrant, ActiveGrants
    <3> QED
      BY <1>1, <1>3, <1>4, <1>7, <2>2, <2>3, <2>5, <3>2, <3>6, <3>7
      DEF Alive, AuthorizationIsCurrent, BindsActiveGrant
  <2> QED
    BY <2>4, <2>5
<1> QED
  BY <1>6, <1>7 DEF Alive, AuthorizationIsCurrent, IsSuspended

\* The same of the next state.
LEMMA CurrentIsEntitledNext == RenderInvariant' => CurrentMeansEntitled'
<1>1. RenderInvariant => CurrentMeansEntitled
  BY CurrentIsEntitled
<1> QED
  BY <1>1, PTL

\* Each row by itself follows the promise.
LEMMA RowsFollow ==
    ASSUME RenderInvariant, RenderInvariant', [RenderNext]_renderVars, NEW c \in Credential
    PROVE  Promise!Follows(c, EntitledNow')
<1> DEFINE row == credentials[c]
           Shows == ContentOf(IF row.stage = "issued" THEN row ELSE NoCredential)
<1>1. /\ row.stage = "issued" => Shows = ContentOf(row)
      /\ row.stage # "issued" => Shows = ContentOf(NoCredential)
      /\ row'.stage = "issued" => Shows' = ContentOf(row')
      /\ row'.stage # "issued" => Shows' = ContentOf(NoCredential)
  BY DEF ContentOf, NoCredential
<1>2. ASSUME row'.stage = "issued"
      PROVE  /\ ContentOf(row') \in Content
             /\ \/ Status(row)' = "usable" /\ ContentOf(row') \in EntitledNow'
                \/ /\ Status(row)' = "suspended"
                   /\ ContentOf(row') \in {k \in Content : k[4] = "preview"}
                \/ Status(row)' = "retired"
  <2>1. ContentOf(row') \in Content
    BY <1>2
    DEF ContentOf, Content, RenderInvariant, RenderTypeOK, CredentialConstraints, CredentialType
  <2>2. CASE AuthorizationIsCurrent(row)'
    <3>1. Entitled(row.viewer, row.dashboard, row.revision, row.audience)'
      BY <2>2, CurrentIsEntitledNext DEF CurrentMeansEntitled
    <3>2. ContentOf(row') \in EntitledNow'
      BY <2>1, <3>1 DEF EntitledNow, ContentOf, Entitled, ActiveGrants
    <3> QED
      BY <1>2, <2>1, <2>2, <3>2 DEF Status
  <2>3. CASE ~AuthorizationIsCurrent(row)' /\ IsSuspended(row)'
    BY <1>2, <2>1, <2>3 DEF Status, IsSuspended, ContentOf
  <2>4. CASE ~AuthorizationIsCurrent(row)' /\ ~IsSuspended(row)'
    BY <1>2, <2>1, <2>4 DEF Status
  <2> QED
    BY <2>2, <2>3, <2>4
<1>3. CASE row.stage # "issued" /\ row'.stage # "issued"
  BY <1>1, <1>3 DEF Promise!Follows, Status
<1>4. CASE row.stage # "issued" /\ row'.stage = "issued"
  BY <1>1, <1>2, <1>4 DEF Promise!Follows, Status
<1>5. CASE row.stage = "issued"
  <2>1. \/ row' = row /\ (Alive(row)' => Alive(row))
        \/ row' = [row EXCEPT !.ended = TRUE]
    <3>1. CASE UNCHANGED credentials
      BY <3>1, RetiredForGood, RenderSteps
    <3>2. ASSUME UNCHANGED sharingVars, NEW x \in Credential, Issue(x)
          PROVE  \/ row' = row /\ (Alive(row)' => Alive(row))
                 \/ row' = [row EXCEPT !.ended = TRUE]
      <4>1. PICK new : /\ Update(x, new)
                       /\ credentials[x].stage = "issued"
                              => new = [credentials[x] EXCEPT !.ended = TRUE]
        BY <3>2, IssueFacts
      <4>2. credentials' = [credentials EXCEPT ![x] = new]
        BY <4>1 DEF Update
      <4>3. CASE x = c
        BY <1>5, <4>1, <4>2, <4>3 DEF RenderInvariant, RenderTypeOK
      <4>4. CASE x # c
        <5>1. row' = row
          BY <4>2, <4>4 DEF RenderInvariant, RenderTypeOK
        <5>2. Alive(row)' => Alive(row)
          BY <3>2, <5>1
          DEF Alive, AuthorizationIsCurrent, IsSuspended, AccountIsCurrent, BindsOwnership,
              BindsActiveGrant, sharingVars, accountVars
        <5> QED
          BY <5>1, <5>2
      <4> QED
        BY <4>3, <4>4
    <3> QED
      BY <3>1, <3>2, RenderSteps
  <2>2. /\ row \in CredentialType
        /\ row'.stage = "issued" /\ ContentOf(row') = ContentOf(row)
    BY <1>5, <2>1 DEF ContentOf, RenderInvariant, RenderTypeOK, CredentialType
  <2>3. Alive(row)' => Alive(row)
    <3>1. CASE row' = [row EXCEPT !.ended = TRUE]
      <4>1. row'.ended
        BY <2>2, <3>1 DEF CredentialType
      <4> QED
        BY <4>1 DEF Alive, AuthorizationIsCurrent, IsSuspended
    <3> QED
      BY <2>1, <3>1
  <2>4. CASE Status(row) = "retired"
    <3>1. ~Alive(row)
      BY <1>5, <2>4 DEF Status, Alive
    <3>2. Status(row)' = "retired"
      BY <2>2, <2>3, <3>1 DEF Status, Alive
    <3> QED
      BY <1>1, <1>5, <2>2, <2>4, <3>2 DEF Promise!Follows
  <2>5. CASE Status(row) \in {"usable", "suspended"}
    BY <1>1, <1>2, <1>5, <2>2, <2>5 DEF Promise!Follows
  <2> QED
    BY <1>5, <2>4, <2>5 DEF Status
<1> QED
  BY <1>3, <1>4, <1>5

\* Issuing by unlocked queries and resolving by one joined query implements the
\* promise of threat-model.md, rule 7: whatever ends an entitlement retires the
\* credentials issued under it, except a preview across an archive and a restore.
THEOREM RenderingRefinesEntitlement == RenderSpec => EntitlementSpec
<1>1. RenderInit => Promise!Init
  <2>1. EntitledNow \in SUBSET Content
    BY DEF EntitledNow, Entitled, ActiveGrants
  <2> QED
    BY <2>1, NoCredentialFacts DEF RenderInit, Promise!Init, ContentOf, Status
<1>2. RenderInvariant /\ RenderInvariant' /\ [RenderNext]_renderVars
          => [Promise!Next]_Promise!vars
  <2>1. EntitledNow' \in SUBSET Content
    BY DEF EntitledNow, Entitled, ActiveGrants
  <2> QED
    BY RowsFollow, <2>1 DEF Promise!Next
<1> QED
  BY <1>1, <1>2, RenderAlways, PTL DEF RenderSpec, EntitlementSpec, Promise!Spec
=============================================================================
