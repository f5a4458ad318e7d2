------------------------------ MODULE Discovery ------------------------------
(***************************************************************************)
(* What the portal shows to whom: the queries of core/discovery.py,        *)
(* core/projects.py, core/enhancement_queries.py and                       *)
(* core/stewardship_queries.py, as sets over the tables of Sharing.  Each  *)
(* of them spells out in its own joins who may see a dashboard; so do the  *)
(* services that check once more under locks.                              *)
(*                                                                         *)
(* Personal rows (favourites, viewer states, tags) give or take no access, *)
(* so they are arguments: any set of dashboards.  Names, prefixes and what *)
(* a page prints are abstracted; Pagination models how lists are cut.      *)
(*                                                                         *)
(* An operator named <definition>_<Slip> is the definition with a plausible *)
(* mistake in it.  No specification uses it: it shows that a property would *)
(* notice the mistake.                                                      *)
(***************************************************************************)
EXTENDS Sharing

Absent(d) == state[d] = "absent"
Retained(d) == ~Absent(d) /\ state[d] # "deleted"
Pinned(d) == state[d] = "published" /\ published_revision[d] # NoRevision

OwnedBy(d, u) == owner[d] = u /\ u \in is_active
HasActiveGrant_EverGranted(d, u) ==
    /\ u \in is_active
    /\ \E g \in Grant : grants[g].dashboard = d /\ grants[g].viewer = u
HasActiveGrant(d, u) == u \in is_active /\ ActiveGrants(d, u) # {}

----------------------------------------------------------------------------
(* Lists of dashboards. *)

owned_projects(u) == {d \in Dashboard : OwnedBy(d, u) /\ Retained(d)}

shared_projects_AnyState(u) == {d \in Dashboard : HasActiveGrant(d, u) /\ Retained(d)}
shared_projects(u) == {d \in Dashboard : HasActiveGrant(d, u) /\ Pinned(d)}

\* _scope_dashboards: "shared" goes from the grants to their dashboards.
GrantedTo(u) == {grants[g].dashboard : g \in {h \in Grant : /\ grants[h].viewer = u
                                                            /\ ~grants[h].revoked}}
_scope_dashboards(u, scope) ==
    CASE scope = "mine" -> {d \in Dashboard : OwnedBy(d, u) /\ Retained(d)}
      [] scope = "shared" -> {d \in Dashboard : /\ u \in is_active
                                                /\ d \in GrantedTo(u)
                                                /\ Pinned(d)}

search_dashboards(u, scope, matching) == _scope_dashboards(u, scope) \cap matching

_published_authorization(d, u) == OwnedBy(d, u) \/ HasActiveGrant(d, u)

authorized_published_dashboard(u) ==
    {d \in Dashboard : Pinned(d) /\ _published_authorization(d, u)}

favorite_dashboards(u, favorites) ==
    {d \in favorites : u \in is_active /\ Pinned(d) /\ _published_authorization(d, u)}

\* Twice in the code: in discovery and in enhancement_queries.
recently_viewed_dashboards(u, viewed) ==
    {d \in viewed : u \in is_active /\ Pinned(d) /\ _published_authorization(d, u)}

dashboards_by_tag_key(u, tagged) ==
    {d \in tagged : Pinned(d) /\ (OwnedBy(d, u) \/ HasActiveGrant(d, u))}

\* Those whose tags are shown.
dashboard_tags(u) ==
    {d \in Dashboard : /\ Retained(d)
                       /\ OwnedBy(d, u) \/ (HasActiveGrant(d, u) /\ Pinned(d))}

\* The one of enhancement_queries keeps an owner's favourites in every state.
recent_favorite_dashboards(u, favorites) ==
    {d \in favorites : /\ u \in is_active
                       /\ Retained(d)
                       /\ owner[d] = u \/ (HasActiveGrant(d, u) /\ Pinned(d))}

\* Those whose freshness claim has run out.
stale_owned_dashboards(u, stale) ==
    {d \in stale : OwnedBy(d, u) /\ state[d] = "published"}

----------------------------------------------------------------------------
(* One dashboard, and what is shown of it to its owner. *)

manageable_project(d, u) == OwnedBy(d, u) /\ Retained(d)

\* The stable link: as its owner, or from the shared list.
visible_project(d, u) == manageable_project(d, u) \/ d \in shared_projects(u)

project_revisions(d, u) ==
    {r \in Revision : revision_of[r] = d /\ manageable_project(d, u)}

project_active_grants(d, u) ==
    {g \in Grant : grants[g].dashboard = d /\ manageable_project(d, u) /\ ~grants[g].revoked}

project_grant_history(d, u) ==
    {g \in Grant : grants[g].dashboard = d /\ manageable_project(d, u) /\ grants[g].revoked}

project_grant_epoch(d, u) == {g \in Grant : grants[g].dashboard = d /\ manageable_project(d, u)}

\* "Count active users with an unrevoked grant": it counts the grants' rows.
project_effective_viewer_count(d, u) ==
    Cardinality({g \in project_active_grants(d, u) : grants[g].viewer \in is_active})

owner_pending_access_requests(d, u) ==
    {v \in User : requests[d][v] = "pending" /\ OwnedBy(d, u) /\ Retained(d)}

\* The other queue does not ask whether the dashboard is retained.
pending_access_requests(d, u) ==
    {v \in User : requests[d][v] = "pending" /\ OwnedBy(d, u)}

----------------------------------------------------------------------------
(* Services that write no state of Sharing: what they accept. *)

set_dashboard_favorite(d, u) == /\ Pinned(d)
                                /\ u \in is_active
                                /\ owner[d] = u \/ ActiveGrants(d, u) # {}

rename_project(d, u) == OwnedBy(d, u) /\ state[d] \notin {"absent", "archived", "deleted"}

replace_dashboard_tags(d, u) == CurrentOwner(d, u) /\ state[d] \notin {"archived", "deleted"}

confirm_dashboard_freshness(d, u) == CurrentOwner(d, u) /\ state[d] = "published"

----------------------------------------------------------------------------
\* Whoever finds a dashboard in one list can open it from every other: "mine" and
\* "shared" are disjoint and together hold what a search, a favourite, a recent
\* view or a tag shows, and nothing is shown that the stable link does not open.
\* The owner's numbers are about the same people: each counted viewer finds it
\* shared while it is published, and each queued request can be answered.
EveryRouteAgrees ==
    /\ \A u \in User :
          LET mine == search_dashboards(u, "mine", Dashboard)
              shared == search_dashboards(u, "shared", Dashboard)
              open == {d \in Dashboard : visible_project(d, u) /\ Pinned(d)}
          IN  /\ mine \cap shared = {}
              /\ mine = owned_projects(u) /\ shared = shared_projects(u)
              /\ open = authorized_published_dashboard(u)
              /\ open = {d \in mine : state[d] = "published"} \cup shared
              /\ \A rows \in SUBSET Dashboard :
                    /\ favorite_dashboards(u, rows) = open \cap rows
                    /\ recently_viewed_dashboards(u, rows) = open \cap rows
                    /\ dashboards_by_tag_key(u, rows) = open \cap rows
                    /\ stale_owned_dashboards(u, rows) = mine \cap open \cap rows
                    /\ recent_favorite_dashboards(u, rows) = (mine \cup shared) \cap rows
              /\ dashboard_tags(u) = mine \cup shared
              /\ open = {d \in Dashboard : set_dashboard_favorite(d, u)}
              /\ \A d \in Dashboard :
                    /\ rename_project(d, u) => d \in mine
                    /\ replace_dashboard_tags(d, u) <=> rename_project(d, u)
                    /\ confirm_dashboard_freshness(d, u) => d \in mine \cap open
    /\ \A d \in Dashboard, u \in User :
          /\ owner_pending_access_requests(d, u) =
                {v \in pending_access_requests(d, u) : manageable_project(d, u)}
          /\ u \notin pending_access_requests(d, u)
          /\ \A v \in pending_access_requests(d, u) : Dismissable(d, u, v)
    /\ \A d \in Dashboard, u \in User :
          LET viewers == {v \in User : d \in shared_projects(v)} IN
          manageable_project(d, u) =>
              /\ Pinned(d) => Cardinality(viewers) = project_effective_viewer_count(d, u)
              /\ project_grant_epoch(d, u) =
                    project_active_grants(d, u) \cup project_grant_history(d, u)
              /\ Pinned(d) => published_revision[d] \in project_revisions(d, u)

\* The stable link of a published dashboard never leads into a dead end: an active
\* person either opens it, or waits for an answer to a request, or may make one.
OpenOrRequest ==
    \A d \in Dashboard, u \in is_active :
        Pinned(d) /\ owner[d] \in is_active =>
            IF visible_project(d, u)
            THEN ~Requestable(d, u)
            ELSE requests[d][u] # "pending" => Requestable(d, u)
=============================================================================
