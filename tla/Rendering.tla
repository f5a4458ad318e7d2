------------------------------ MODULE Rendering ------------------------------
(***************************************************************************)
(* Render authorizations: the short-lived bearer credentials that the      *)
(* portal issues and the isolated content origin resolves                  *)
(* (rendering/authorization.py), and the authorized open that a published  *)
(* view captures with it (core/analytics.py).                              *)
(*                                                                         *)
(* Issuing takes no lock on the dashboard, the viewer or the grant: each   *)
(* query reads what is committed when it runs, and Sharing's transactions  *)
(* commit in between.  Each query is therefore an action, and what it read *)
(* stays in the credential's record.  Resolving is one joined query, so it *)
(* is the state predicate AuthorizationIsCurrent.  Tokens, artifacts and   *)
(* the delivery of bytes are abstracted.                                   *)
(***************************************************************************)
EXTENDS Sharing

CONSTANTS Credential,   \* ids of RenderAuthorization rows (and their requests)
          NoGrantId     \* viewer_grant is null

ASSUME RenderingAssumption == NoGrantId \notin Grant

VARIABLES credentials,   \* per id: the request being served, then the row
          seen           \* per dashboard and user: seen_publication_version

renderVars == <<sharingVars, credentials, seen>>

NoCredential == [stage |-> "none", audience |-> "none", dashboard |-> NoDashboard,
                 viewer |-> NoUser, owner |-> NoUser, epoch |-> NoEpoch,
                 grant |-> NoGrantId, revision |-> NoRevision, version |-> 0,
                 auth_version |-> 0, ended |-> FALSE]

RenderInit == /\ Init
              /\ credentials = [c \in Credential |-> NoCredential]
              /\ seen = [d \in Dashboard |-> [u \in User |-> 0]]

Update(c, row) == /\ credentials' = [credentials EXCEPT ![c] = row]
                  /\ UNCHANGED sharingVars

\* The row of Dashboard as one query reads it, for a viewer and a revision.
ReadDashboard(d, u, r, audience, version) ==
    [stage |-> "dashboard", audience |-> audience, dashboard |-> d, viewer |-> u,
     owner |-> owner[d], epoch |-> last_ownership_transfer[d], grant |-> NoGrantId,
     revision |-> r, version |-> version, auth_version |-> 0, ended |-> FALSE]

----------------------------------------------------------------------------
\* issue_owner_preview

preview_reads_dashboard(c, d, u, r) ==
    /\ credentials[c].stage = "none"
    /\ state[d] \in Editable
    /\ Update(c, ReadDashboard(d, u, r, "preview", 0))
    /\ UNCHANGED seen

\* The viewer query, and the comparison with the owner read before it.
preview_reads_viewer(c) ==
    LET row == credentials[c] IN
    /\ row.stage = "dashboard"
    /\ row.audience = "preview"
    /\ Update(c, IF row.viewer \in is_active /\ row.owner = row.viewer
                 THEN [row EXCEPT !.stage = "authorized",
                                  !.auth_version = auth_version[row.viewer]]
                 ELSE NoCredential)
    /\ UNCHANGED seen

\* The revision query, and the insert: _create_authorization validates against
\* the copies, not against the tables, and no trigger looks again, so the row is
\* inserted whatever happened to the dashboard and the viewer since.
preview_commits(c) ==
    LET row == credentials[c] IN
    /\ row.stage = "authorized"
    /\ row.audience = "preview"
    /\ Update(c, IF revision_of[row.revision] = row.dashboard
                 THEN [row EXCEPT !.stage = "issued"]
                 ELSE NoCredential)
    /\ UNCHANGED seen

----------------------------------------------------------------------------
\* issue_published_view

view_reads_dashboard(c, d, u) ==
    /\ credentials[c].stage = "none"
    /\ state[d] = "published"
    /\ Update(c, ReadDashboard(d, u, published_revision[d], "viewer",
                               publication_version[d]))
    /\ UNCHANGED seen

view_reads_viewer(c) ==
    LET row == credentials[c] IN
    /\ row.stage = "dashboard"
    /\ row.audience = "viewer"
    /\ Update(c, IF row.viewer \in is_active
                 THEN [row EXCEPT !.stage = "viewer",
                                  !.auth_version = auth_version[row.viewer]]
                 ELSE NoCredential)
    /\ UNCHANGED seen

\* An owner binds the ownership epoch; anybody else binds their active grant.
\* Without one the request fails: denied, or, when a grant appears before
\* user_can_view_published asks again, refused by RenderAuthorization.clean.
view_reads_grant(c) ==
    LET row == credentials[c]
        active == ActiveGrants(row.dashboard, row.viewer)
    IN  /\ row.stage = "viewer"
        /\ IF row.owner = row.viewer
           THEN Update(c, [row EXCEPT !.stage = "authorized"])
           ELSE IF active = {}
           THEN Update(c, NoCredential)
           ELSE \E g \in active : Update(c, [row EXCEPT !.stage = "authorized",
                                                       !.grant = g,
                                                       !.epoch = NoEpoch])
        /\ UNCHANGED seen

BindsActiveGrant_IgnoresRevocation(row) ==
    /\ row.grant # NoGrantId
    /\ grants[row.grant].dashboard = row.dashboard
    /\ grants[row.grant].viewer = row.viewer

\* The grant a row binds is active and is for its viewer and dashboard.
BindsActiveGrant(row) ==
    /\ row.grant # NoGrantId
    /\ grants[row.grant] = [dashboard |-> row.dashboard, viewer |-> row.viewer,
                            revoked |-> FALSE]

\* The row binds the present ownership: no grant, the current epoch.
BindsOwnership(row) == /\ row.grant = NoGrantId
                       /\ row.epoch = last_ownership_transfer[row.dashboard]

AccountIsCurrent_IgnoresVersion(row) == row.viewer \in is_active

\* The viewer is active and nothing has advanced their version since.
AccountIsCurrent(row) == /\ row.viewer \in is_active
                         /\ auth_version[row.viewer] = row.auth_version

\* _authorization_can_source_open and the trigger AGORA_AUTH_OPEN_GUARD, both
\* over the tables as they are now.  They also ask for ~revoked_at, which
\* nobody can have set on a row that is not committed.
CanSourceOpen(row) ==
    LET d == row.dashboard IN
    /\ AccountIsCurrent(row)
    /\ state[d] = "published"
    /\ published_revision[d] = row.revision
    /\ publication_version[d] = row.version
    /\ IF owner[d] = row.viewer THEN BindsOwnership(row)
                                ELSE row.epoch = NoEpoch /\ BindsActiveGrant(row)

\* The insert and capture_authorized_open's insert; a refusal rolls back both.
view_captures_open(c) ==
    LET row == credentials[c] IN
    /\ row.stage = "authorized"
    /\ row.audience = "viewer"
    /\ Update(c, IF CanSourceOpen(row) THEN [row EXCEPT !.stage = "captured"]
                                       ELSE NoCredential)
    /\ UNCHANGED seen

Later_LastWriterWins(m, n) == n
Later(m, n) == IF m > n THEN m ELSE n

\* _advance_viewer_state locks the viewer's state row and keeps the later
\* version; then the transaction commits.
view_commits(c) ==
    LET row == credentials[c] IN
    /\ row.stage = "captured"
    /\ Update(c, [row EXCEPT !.stage = "issued"])
    /\ seen' = [seen EXCEPT ![row.dashboard][row.viewer] = Later(@, row.version)]

----------------------------------------------------------------------------
\* revoke_render_authorization, or expires_at passing: neither is undone.
end_authorization(c) ==
    /\ credentials[c].stage = "issued"
    /\ Update(c, [credentials[c] EXCEPT !.ended = TRUE])
    /\ UNCHANGED seen

\* _authorization_is_current, over one joined query.  A published view for the
\* owner does not ask for the state; the pinned revision stands for it.
AuthorizationIsCurrent(row) ==
    LET d == row.dashboard IN
    /\ row.stage = "issued"
    /\ ~row.ended
    /\ AccountIsCurrent(row)
    /\ revision_of[row.revision] = d
    /\ \/ /\ row.audience = "preview"
          /\ owner[d] = row.viewer
          /\ BindsOwnership(row)
          /\ state[d] \in Editable
       \/ /\ row.audience = "viewer"
          /\ published_revision[d] = row.revision
          /\ publication_version[d] = row.version
          /\ IF owner[d] = row.viewer
             THEN BindsOwnership(row)
             ELSE /\ row.epoch = NoEpoch
                  /\ BindsActiveGrant(row)
                  /\ state[d] = "published"

----------------------------------------------------------------------------
Issue(c) == \/ \E d \in Dashboard, u \in User :
                  \/ \E r \in Revision : preview_reads_dashboard(c, d, u, r)
                  \/ view_reads_dashboard(c, d, u)
            \/ preview_reads_viewer(c)
            \/ preview_commits(c)
            \/ view_reads_viewer(c)
            \/ view_reads_grant(c)
            \/ view_captures_open(c)
            \/ view_commits(c)
            \/ end_authorization(c)

RenderNext == \/ Next /\ UNCHANGED <<credentials, seen>>
              \/ \E c \in Credential : Issue(c)

RenderSpec == RenderInit /\ [][RenderNext]_renderVars

----------------------------------------------------------------------------
CredentialType == [stage : {"none", "dashboard", "viewer", "authorized",
                            "captured", "issued"},
                   audience : {"none", "preview", "viewer"},
                   dashboard : Dashboard \cup {NoDashboard},
                   viewer : User \cup {NoUser},
                   owner : User \cup {NoUser},
                   epoch : Epoch \cup {NoEpoch},
                   grant : Grant \cup {NoGrantId},
                   revision : Revision \cup {NoRevision},
                   version : 0..MaxVersion,
                   auth_version : 0..MaxAuthVersion,
                   ended : BOOLEAN]

\* What RenderAuthorization.clean demands of a row: a revision of the dashboard,
\* a release version exactly on a view, and a grant only on a view, for that
\* viewer and dashboard, and instead of an ownership epoch.
CredentialConstraints(row) ==
    row.stage # "none" =>
        /\ row.audience # "none"
        /\ row.dashboard \in Dashboard
        /\ row.viewer \in User
        /\ row.revision \in Revision
        /\ row.audience = "viewer" \/ row.stage = "issued" =>
              revision_of[row.revision] = row.dashboard
        /\ row.version > 0 <=> row.audience = "viewer"
        /\ row.grant # NoGrantId =>
              /\ row.audience = "viewer"
              /\ row.epoch = NoEpoch
              /\ grants[row.grant].dashboard = row.dashboard
              /\ grants[row.grant].viewer = row.viewer

\* Types, and that no interleaving inserts a row that clean would reject.
RenderTypeOK == /\ TypeOK
                /\ credentials \in [Credential -> CredentialType]
                /\ seen \in [Dashboard -> [User -> 0..MaxVersion]]
                /\ \A c \in Credential : CredentialConstraints(credentials[c])

\* The contract, in terms of what a viewer may see now and of nothing the
\* credential recorded: the owner previews a dashboard that is not put away;
\* the owner or the holder of an active grant views the pinned release.
Entitled(u, d, r, audience) ==
    /\ u \in is_active
    /\ \/ audience = "preview" /\ owner[d] = u /\ state[d] \in Editable
       \/ /\ audience = "viewer"
          /\ state[d] = "published"
          /\ published_revision[d] = r
          /\ owner[d] = u \/ ActiveGrants(d, u) # {}

\* Whatever commits between the unlocked reads, a credential that resolves is
\* held by somebody who is entitled to that content at that moment.
CurrentMeansEntitled ==
    \A c \in Credential :
        LET row == credentials[c] IN
        AuthorizationIsCurrent(row)
            => Entitled(row.viewer, row.dashboard, row.revision, row.audience)

\* A preview that only the archive keeps from resolving.
IsSuspended(row) == /\ row.stage = "issued"
                    /\ row.audience = "preview"
                    /\ ~row.ended
                    /\ AccountIsCurrent(row)
                    /\ owner[row.dashboard] = row.viewer
                    /\ BindsOwnership(row)
                    /\ state[row.dashboard] = "archived"

Content == User \X Dashboard \X Revision \X {"preview", "viewer"}
ContentOf(row) == <<row.viewer, row.dashboard, row.revision, row.audience>>
EntitledNow == {k \in Content : Entitled(k[1], k[2], k[3], k[4])}

Status(row) == IF row.stage # "issued" THEN "unissued"
               ELSE IF AuthorizationIsCurrent(row) THEN "usable"
               ELSE IF IsSuspended(row) THEN "suspended"
               ELSE "retired"

Promise == INSTANCE Entitlement WITH
               Suspending <- {k \in Content : k[4] = "preview"},
               NoContent <- ContentOf(NoCredential),
               entitled <- EntitledNow,
               shows <- [c \in Credential |->
                            ContentOf(IF credentials[c].stage = "issued"
                                      THEN credentials[c] ELSE NoCredential)],
               status <- [c \in Credential |-> Status(credentials[c])]

\* Disablement, revocation, withdrawal, republication, transfer and expiry are
\* final for an issued credential (threat-model.md, rule 7): a later enable,
\* new grant, republication or transfer back does not revive it, except a preview
\* across an archive and a restore.  Issuing query by query and resolving by one
\* joined query implements that promise, although neither looks at what the
\* holder was entitled to in between: versions and epochs only move on.
EntitlementSpec == Promise!Spec

\* A slower, older view never takes back what a newer one recorded.
SeenNeverGoesBack ==
    [][\A d \in Dashboard, u \in User : seen'[d][u] >= seen[d][u]]_renderVars
=============================================================================
