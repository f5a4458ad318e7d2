------------------------------- MODULE Sharing -------------------------------
(***************************************************************************)
(* Dashboards and who may see them: lifecycle and publication              *)
(* (core/enhancements.py, Dashboard.save), viewer grants (core/access.py), *)
(* access requests and ownership transfer (core/enhancements.py, and       *)
(* portal/stewardship.py for the signed confirmation).                     *)
(*                                                                         *)
(* Every service locks the dashboard row, then the users it reads, and     *)
(* commits or raises: one action each, and a refused call is no step.      *)
(* Names, tags, freshness, messages, audit rows and who revoked or         *)
(* resolved are abstracted.  The accounts are those of Accounts, started   *)
(* from the state in which everybody has been provisioned.                 *)
(*                                                                         *)
(* An operator named <definition>_<Slip> is the definition with a plausible *)
(* mistake in it.  No specification uses it: it shows that a property would *)
(* notice the mistake.                                                      *)
(***************************************************************************)
EXTENDS Accounts, Integers

CONSTANTS Dashboard, Revision,
          Grant,       \* ids of ViewerGrant rows
          Epoch,       \* ids of DashboardOwnershipTransfer rows
          NoDashboard, NoRevision, NoEpoch, NoUser,   \* the null references
          MaxVersion,  \* bound on publication_version (the code has none)
          MaxClock     \* bound on the clock

ASSUME SharingAssumption == /\ NoDashboard \notin Dashboard
                            /\ NoRevision \notin Revision
                            /\ NoEpoch \notin Epoch
                            /\ NoUser \notin User
                            /\ MaxVersion \in Nat
                            /\ MaxClock \in Nat

VARIABLES
    state, owner, published_revision,         \* per dashboard
    first_published,                          \* first_published_at is set
    publication_version, last_published_at,   \* the latter 0 until published
    last_ownership_transfer,                  \* the current epoch
    revision_of,     \* per revision: its dashboard once complete
    grants,          \* per grant id: its row, or NoGrant
    transfers,       \* per epoch id: its row, or NoTransfer
    requests,        \* per dashboard and requester: status of the one row
    confirmations,   \* the transfer confirmations signed so far
    clock

publicationVars == <<published_revision, first_published, publication_version,
                     last_published_at>>
ownershipVars == <<owner, last_ownership_transfer, transfers>>
sharingVars == <<accountVars, state, publicationVars, ownershipVars, revision_of,
                 grants, requests, confirmations, clock>>

Editable == {"draft", "published", "unpublished"}
States == Editable \cup {"absent", "archived", "deleted"}
Statuses == {"none", "pending", "approved", "denied", "cancelled"}

NoGrant == [dashboard |-> NoDashboard, viewer |-> NoUser, revoked |-> FALSE]
NoTransfer == [dashboard |-> NoDashboard, from_owner |-> NoUser,
               to_owner |-> NoUser, previous |-> NoEpoch]

ActiveGrants(d, u) == {g \in Grant : grants[g] = [dashboard |-> d, viewer |-> u,
                                                  revoked |-> FALSE]}

Init == /\ users = User
        /\ is_active = User
        /\ \E u \in User : is_administrator = {u}
        /\ auth_version = [u \in User |-> 1]
        /\ state = [d \in Dashboard |-> "absent"]
        /\ owner = [d \in Dashboard |-> NoUser]
        /\ published_revision = [d \in Dashboard |-> NoRevision]
        /\ first_published = [d \in Dashboard |-> FALSE]
        /\ publication_version = [d \in Dashboard |-> 0]
        /\ last_published_at = [d \in Dashboard |-> 0]
        /\ last_ownership_transfer = [d \in Dashboard |-> NoEpoch]
        /\ revision_of = [r \in Revision |-> NoDashboard]
        /\ grants = [g \in Grant |-> NoGrant]
        /\ transfers = [e \in Epoch |-> NoTransfer]
        /\ requests = [d \in Dashboard |-> [u \in User |-> "none"]]
        /\ confirmations = {}
        /\ clock = 1

----------------------------------------------------------------------------
\* The dashboard's lifecycle and its publication.

\* _lock_current_owner, _lock_active_owner: an active user who owns it now.
CurrentOwner(d, actor) == actor \in is_active /\ owner[d] = actor

create_project(d, u) ==
    /\ state[d] = "absent"
    /\ u \in is_active
    /\ state' = [state EXCEPT ![d] = "draft"]
    /\ owner' = [owner EXCEPT ![d] = u]
    /\ UNCHANGED <<accountVars, publicationVars, last_ownership_transfer, transfers,
                   revision_of, grants, requests, confirmations, clock>>

\* create_complete_revision's last transaction and AGORA_REVISION_AUTH_GUARD.
commit_revision(d, actor, r) ==
    /\ CurrentOwner(d, actor)
    /\ state[d] \in Editable
    /\ revision_of[r] = NoDashboard
    /\ revision_of' = [revision_of EXCEPT ![r] = d]
    /\ UNCHANGED <<accountVars, state, publicationVars, ownershipVars, grants,
                   requests, confirmations, clock>>

\* published_at is read from the clock before the dashboard lock is awaited, so
\* a publish that waited behind another may carry an older time; it is refused.
NotBackdated_Unchecked(d, t) == t <= clock
NotBackdated(d, t) == t <= clock /\ t >= last_published_at[d]

\* The revision is complete and belongs to this dashboard.
Publishable(d, r) == revision_of[r] = d

publish_dashboard_revision(d, actor, r, published_at) ==
    /\ CurrentOwner(d, actor)
    /\ state[d] \in Editable
    /\ Publishable(d, r)
    /\ NotBackdated(d, published_at)
    /\ publication_version[d] < MaxVersion
    /\ state' = [state EXCEPT ![d] = "published"]
    /\ published_revision' = [published_revision EXCEPT ![d] = r]
    /\ first_published' = [first_published EXCEPT ![d] = TRUE]
    /\ publication_version' = [publication_version EXCEPT ![d] = @ + 1]
    /\ last_published_at' = [last_published_at EXCEPT ![d] = published_at]
    /\ UNCHANGED <<accountVars, ownershipVars, revision_of, grants, requests,
                   confirmations, clock>>

\* Leaving "published" clears the pin (agora_dashboard_publication_state).
LeavePublication(d, to) ==
    /\ state' = [state EXCEPT ![d] = to]
    /\ published_revision' = [published_revision EXCEPT ![d] = NoRevision]
    /\ UNCHANGED <<accountVars, first_published, publication_version,
                   last_published_at, ownershipVars, revision_of, grants, requests,
                   confirmations, clock>>

unpublish_dashboard(d, actor) == /\ CurrentOwner(d, actor)
                                 /\ state[d] = "published"
                                 /\ LeavePublication(d, "unpublished")

LifecycleTransition_RestoresToDraft(d, to) ==
    \/ state[d] \in Editable /\ to \in {"archived", "deleted"}
    \/ state[d] = "archived" /\ to \in {"deleted", "draft"}

\* Archive, restore and delete have no service: an operator saves the row, and
\* Dashboard.save and AGORA_DASHBOARD_GUARD decide.
LifecycleTransition(d, to) ==
    \/ state[d] \in Editable /\ to \in {"archived", "deleted"}
    \/ state[d] = "archived" /\ to = "deleted"
    \/ state[d] = "archived" /\ to = IF first_published[d] THEN "unpublished"
                                                           ELSE "draft"

save_lifecycle(d, to) == LifecycleTransition(d, to) /\ LeavePublication(d, to)

----------------------------------------------------------------------------
\* Viewer grants.

InsertGrant(g, d, u) ==
    /\ grants[g] = NoGrant
    /\ grants' = [grants EXCEPT ![g] = [dashboard |-> d, viewer |-> u,
                                        revoked |-> FALSE]]

grant_project_viewer(d, actor, u, g) ==
    /\ state[d] \in Editable
    /\ CurrentOwner(d, actor)
    /\ u \in is_active
    /\ u # actor
    /\ ActiveGrants(d, u) = {}
    /\ InsertGrant(g, d, u)
    /\ UNCHANGED <<accountVars, state, publicationVars, ownershipVars, revision_of,
                   requests, confirmations, clock>>

\* A revoked epoch is kept and never reopened.
Revoked(gs) == [g \in Grant |-> IF g \in gs THEN [grants[g] EXCEPT !.revoked = TRUE]
                                            ELSE grants[g]]

revoke_project_viewer(d, actor, g) ==
    /\ state[d] # "deleted"
    /\ CurrentOwner(d, actor)
    /\ grants[g].dashboard = d
    /\ ~grants[g].revoked
    /\ grants' = Revoked({g})
    /\ UNCHANGED <<accountVars, state, publicationVars, ownershipVars, revision_of,
                   requests, confirmations, clock>>

----------------------------------------------------------------------------
\* Access requests: one row per dashboard and requester, reopened in place.

SetRequest(d, u, status) == requests' = [requests EXCEPT ![d][u] = status]

Requestable(d, u) == /\ state[d] = "published"
                     /\ owner[d] \in is_active
                     /\ u \in is_active
                     /\ u # owner[d]
                     /\ ActiveGrants(d, u) = {}
                     /\ requests[d][u] # "pending"

request_dashboard_access(d, u) ==
    /\ Requestable(d, u)
    /\ SetRequest(d, u, "pending")
    /\ UNCHANGED <<accountVars, state, publicationVars, ownershipVars, revision_of,
                   grants, confirmations, clock>>

\* AccessRequest._validate_transition and AGORA_ACCESS_REQUEST_GUARD.
Approvable(d, u) == state[d] \in {"published", "unpublished"} /\ u \in is_active

\* The owner may have granted access directly meanwhile: that grant is kept.
OpenGrant_Always(d, u, g) == InsertGrant(g, d, u)
OpenGrant_CountsRevoked(d, u, g) ==
    IF \E h \in Grant : grants[h].dashboard = d /\ grants[h].viewer = u
    THEN UNCHANGED grants
    ELSE InsertGrant(g, d, u)
OpenGrant(d, u, g) ==
    IF ActiveGrants(d, u) = {} THEN InsertGrant(g, d, u) ELSE UNCHANGED grants

approve_access_request(d, actor, u, g) ==
    /\ CurrentOwner(d, actor)
    /\ requests[d][u] = "pending"
    /\ Approvable(d, u)
    /\ OpenGrant(d, u, g)
    /\ SetRequest(d, u, "approved")
    /\ UNCHANGED <<accountVars, state, publicationVars, ownershipVars, revision_of,
                   confirmations, clock>>

\* Denied by the owner, cancelled by the requester, in any dashboard state.
Dismissable(d, actor, u) == /\ requests[d][u] = "pending"
                            /\ actor \in is_active
                            /\ actor \in {owner[d], u}

dismiss_access_request(d, actor, u) ==
    /\ Dismissable(d, actor, u)
    /\ \/ actor = owner[d] /\ SetRequest(d, u, "denied")
       \/ actor = u /\ SetRequest(d, u, "cancelled")
    /\ UNCHANGED <<accountVars, state, publicationVars, ownershipVars, revision_of,
                   grants, confirmations, clock>>

----------------------------------------------------------------------------
\* Ownership transfer, in two requests.  The signed confirmation is a stateless
\* token: it outlives everything but its 900 seconds, and may be sent again.

Confirmation == [dashboard : Dashboard, actor : User, incoming : User,
                 epoch : Epoch \cup {NoEpoch}]

sign_transfer_confirmation(d, actor, u) ==
    /\ state[d] \in Editable
    /\ CurrentOwner(d, actor)
    /\ u \in is_active
    /\ u # actor
    /\ confirmations' = confirmations \cup
           {[dashboard |-> d, actor |-> actor, incoming |-> u,
             epoch |-> last_ownership_transfer[d]]}
    /\ UNCHANGED <<accountVars, state, publicationVars, ownershipVars, revision_of,
                   grants, requests, clock>>

\* The service compares expected_transfer_id after locking the dashboard.
ConfirmsCurrentEpoch_Unchecked(c) == TRUE
ConfirmsCurrentEpoch(c) == c.epoch = last_ownership_transfer[c.dashboard]

\* The incoming owner's active grant is revoked and their pending request is
\* approved, which AccessRequest.save refuses on a draft: the transfer fails.
SettleIncoming_KeepsGrant(d, u) ==
    /\ UNCHANGED grants
    /\ IF requests[d][u] = "pending" THEN SetRequest(d, u, "approved")
                                     ELSE UNCHANGED requests
SettleIncoming(d, u) ==
    /\ requests[d][u] = "pending" => Approvable(d, u)
    /\ grants' = Revoked(ActiveGrants(d, u))
    /\ IF requests[d][u] = "pending" THEN SetRequest(d, u, "approved")
                                     ELSE UNCHANGED requests

\* The marker continues the chain; the row moves to the owner and the marker.
InsertMarker(d, u, e, previous) ==
    /\ transfers[e] = NoTransfer
    /\ transfers' = [transfers EXCEPT ![e] = [dashboard |-> d, from_owner |-> owner[d],
                                              to_owner |-> u, previous |-> previous]]
    /\ owner' = [owner EXCEPT ![d] = u]

RecordTransfer_StartsAnew(d, u, e) ==
    /\ InsertMarker(d, u, e, NoEpoch)
    /\ last_ownership_transfer' = [last_ownership_transfer EXCEPT ![d] = e]
RecordTransfer(d, u, e) ==
    /\ InsertMarker(d, u, e, last_ownership_transfer[d])
    /\ last_ownership_transfer' = [last_ownership_transfer EXCEPT ![d] = e]

transfer_dashboard_ownership(c, e) ==
    /\ state[c.dashboard] \in Editable
    /\ ConfirmsCurrentEpoch(c)
    /\ CurrentOwner(c.dashboard, c.actor)
    /\ c.incoming \in is_active
    /\ c.incoming # c.actor
    /\ SettleIncoming(c.dashboard, c.incoming)
    /\ RecordTransfer(c.dashboard, c.incoming, e)
    /\ UNCHANGED <<accountVars, state, publicationVars, revision_of, confirmations,
                   clock>>

Tick == /\ clock < MaxClock
        /\ clock' = clock + 1
        /\ UNCHANGED <<accountVars, state, publicationVars, ownershipVars,
                       revision_of, grants, requests, confirmations>>

----------------------------------------------------------------------------
Lifecycle(d) ==
    \/ \E actor \in User :
          \/ create_project(d, actor)
          \/ unpublish_dashboard(d, actor)
          \/ \E r \in Revision :
                \/ commit_revision(d, actor, r)
                \/ \E t \in 1..MaxClock : publish_dashboard_revision(d, actor, r, t)
    \/ \E to \in States : save_lifecycle(d, to)

Access(d) ==
    \E actor, u \in User :
       \/ dismiss_access_request(d, actor, u)
       \/ u = actor /\ request_dashboard_access(d, u)
       \/ \E g \in Grant : \/ grant_project_viewer(d, actor, u, g)
                           \/ approve_access_request(d, actor, u, g)
                           \/ u = actor /\ revoke_project_viewer(d, actor, g)

Ownership(d) ==
    \/ \E actor, u \in User : sign_transfer_confirmation(d, actor, u)
    \/ \E c \in confirmations, e \in Epoch :
          c.dashboard = d /\ transfer_dashboard_ownership(c, e)

AccountStep == /\ AccountChange
               /\ UNCHANGED <<state, publicationVars, ownershipVars, revision_of,
                              grants, requests, confirmations, clock>>

Next == \/ \E d \in Dashboard : Lifecycle(d) \/ Access(d) \/ Ownership(d)
        \/ AccountStep
        \/ Tick

Spec == Init /\ [][Next]_sharingVars

----------------------------------------------------------------------------
GrantRow == [dashboard : Dashboard, viewer : User, revoked : BOOLEAN]
TransferRow == [dashboard : Dashboard, from_owner : User, to_owner : User,
                previous : Epoch \cup {NoEpoch}]

Types ==
    /\ AccountsTypeOK
    /\ users = User
    /\ state \in [Dashboard -> States]
    /\ owner \in [Dashboard -> User \cup {NoUser}]
    /\ published_revision \in [Dashboard -> Revision \cup {NoRevision}]
    /\ first_published \in [Dashboard -> BOOLEAN]
    /\ publication_version \in [Dashboard -> 0..MaxVersion]
    /\ last_published_at \in [Dashboard -> 0..MaxClock]
    /\ last_ownership_transfer \in [Dashboard -> Epoch \cup {NoEpoch}]
    /\ revision_of \in [Revision -> Dashboard \cup {NoDashboard}]
    /\ grants \in [Grant -> GrantRow \cup {NoGrant}]
    /\ transfers \in [Epoch -> TransferRow \cup {NoTransfer}]
    /\ requests \in [Dashboard -> [User -> Statuses]]
    /\ confirmations \subseteq Confirmation
    /\ clock \in Nat

\* What the table constraints say of a dashboard: it has an owner from its
\* creation on, pins one of its own revisions exactly while published, and has
\* a version exactly once it was first published.
DashboardConstraints(d) ==
    /\ owner[d] = NoUser <=> state[d] = "absent"
    /\ published_revision[d] # NoRevision <=> state[d] = "published"
    /\ state[d] = "published" => revision_of[published_revision[d]] = d
    /\ first_published[d] <=> publication_version[d] > 0
    /\ state[d] \in {"absent", "draft"} => ~first_published[d]
    /\ state[d] \in {"published", "unpublished"} => first_published[d]

\* Types and the constraints of TB_TA_AGORA_DASHBOARD: no service or operator's
\* save leaves a row that Dashboard.clean would reject.
TypeOK == Types /\ \A d \in Dashboard : DashboardConstraints(d)

\* At most one grant of a dashboard to a viewer is active.  The services keep
\* it by their own locking: the unique index agora_grant_active, their last
\* resort against a race, never has anything to reject.
OneActiveGrant ==
    \A d \in Dashboard, u \in User : \A g, h \in ActiveGrants(d, u) : g = h

\* An owner holds neither an active grant nor a pending request on their own
\* dashboard, however ownership came to them; otherwise the grant would outlive
\* the next transfer away and the request could be approved by its requester.
OwnerHoldsNoGrant ==
    \A d \in Dashboard, u \in User :
        owner[d] = u => ActiveGrants(d, u) = {} /\ requests[d][u] # "pending"

\* A pending request is on a dashboard that has been published, so approving it
\* within an ownership transfer never fails the transfer
\* (AccessRequest._validate_transition refuses approvals on a draft).
PendingNeverBlocksTransfer ==
    \A d \in Dashboard, u \in User :
        requests[d][u] = "pending" => state[d] \notin {"absent", "draft"}

Markers(d) == {e \in Epoch : transfers[e].dashboard = d}

\* The transfer markers of a dashboard form one chain that ends in the current
\* epoch and whose owners hand over to each other: the history never forks,
\* and the last incoming owner is the owner.
TransferChain ==
    \A d \in Dashboard :
        LET tip == last_ownership_transfer[d] IN
        /\ IF tip = NoEpoch THEN Markers(d) = {}
                            ELSE tip \in Markers(d) /\ transfers[tip].to_owner = owner[d]
        /\ \A e \in Markers(d) :
              LET previous == transfers[e].previous IN
              /\ previous = NoEpoch \/ /\ previous \in Markers(d)
                                       /\ transfers[previous].to_owner
                                              = transfers[e].from_owner
              /\ previous # tip
              /\ \A f \in Markers(d) \ {e} : transfers[f].previous # previous

\* Ownership moves only to somebody whom the present owner chose during the
\* present ownership epoch: a confirmation kept from before an A-to-B-to-A
\* round trip never becomes current again.
ConsentIsCurrent ==
    [][\A d \in Dashboard :
          state[d] # "absent" /\ owner'[d] # owner[d] =>
              [dashboard |-> d, actor |-> owner[d], incoming |-> owner'[d],
               epoch |-> last_ownership_transfer[d]] \in confirmations]_sharingVars

\* A publication version names one release for good: what is pinned changes to
\* another revision, or comes back after a withdrawal, only with the next
\* version and no earlier a time, and a deleted dashboard stays deleted.
ReleaseIsPinned ==
    [][\A d \in Dashboard :
          /\ state[d] = "deleted" => state'[d] = "deleted"
          /\ last_published_at'[d] >= last_published_at[d]
          /\ publication_version'[d] - publication_version[d] \in {0, 1}
          /\ /\ publication_version'[d] = publication_version[d]
             /\ published_revision'[d] # NoRevision
             => published_revision'[d] = published_revision[d]]_sharingVars

\* A request is approved only together with access: its requester holds the
\* one active grant, or has become the owner.
ApprovalGivesAccess ==
    [][\A d \in Dashboard, u \in User :
          requests[d][u] # "approved" /\ requests'[d][u] = "approved"
              => owner'[d] = u \/ ActiveGrants(d, u)' # {}]_sharingVars
=============================================================================
