------------------------------ MODULE RowLocks ------------------------------
(***************************************************************************)
(* The order in which the services lock rows.  Every service is one        *)
(* transaction whose SELECT ... FOR UPDATE statements take row locks one   *)
(* after the other and keep them until it commits or rolls back; the guard *)
(* triggers of the tables it writes lock rows of their own.  A transaction *)
(* that needs a row somebody else holds waits for it, and the database     *)
(* rolls back one member of a circular wait (ORA-00060).                   *)
(*                                                                         *)
(* What a service does with its rows is left to the other modules; here it *)
(* only matters who owns a dashboard when the dashboard's row is locked.   *)
(* A statement that joins two tables locks the row of the first one named  *)
(* before the row it leads to.  Reservation, credential, throttle and      *)
(* analytics rows are left out: no transaction that waits for one of them  *)
(* holds a row of this module that somebody can wait for in turn, except   *)
(* the metadata commit, which asks for reservations last.                  *)
(*                                                                         *)
(* An operator named <definition>_<Slip> is the definition with a plausible *)
(* mistake in it.  No specification uses it: it shows that a property would *)
(* notice the mistake.                                                      *)
(***************************************************************************)
EXTENDS Naturals, Sequences, FiniteSets

CONSTANTS User,                \* ids, which the database can sort
          AdministratorsById,  \* the active administrators, as the query sorts them
          Dashboard,
          Transaction,         \* calls of the services
          Nobody,              \* holds no row
          NoDashboard, NoUser

ASSUME RowLocksAssumption == /\ User \subseteq Nat
                             /\ AdministratorsById \in Seq(User)
                             /\ \A i, j \in DOMAIN AdministratorsById :
                                   i < j => AdministratorsById[i] < AdministratorsById[j]
                             /\ Nobody \notin Transaction
                             /\ NoDashboard \notin Dashboard
                             /\ NoUser \notin User

VARIABLES owner,    \* per dashboard: owner_id
          holder,   \* per row: the transaction that has locked it, or Nobody
          call,     \* per transaction: the service it runs, with its arguments
          taken     \* per transaction: how many of its locks it has

lockVars == <<owner, holder, call, taken>>

DashboardRow(d) == [table |-> "dashboard", dashboard |-> d, user |-> NoUser]
UserRow(u) == [table |-> "user", dashboard |-> NoDashboard, user |-> u]
RequestRow(d, u) == [table |-> "request", dashboard |-> d, user |-> u]
GrantRow(d, u) == [table |-> "grant", dashboard |-> d, user |-> u]

Row == [table : {"dashboard"}, dashboard : Dashboard, user : {NoUser}]
           \cup [table : {"user"}, dashboard : {NoDashboard}, user : User]
           \cup [table : {"request", "grant"}, dashboard : Dashboard, user : User]

Call(service, d, actor, other) ==
    [service |-> service, dashboard |-> d, actor |-> actor, other |-> other]

NoCall == Call("none", NoDashboard, NoUser, NoUser)
Ended == Call("ended", NoDashboard, NoUser, NoUser)

DashboardServices == {"owner_change", "grant", "revoke", "request_access", "resolve",
                      "transfer", "favorite", "rename"}
AccountServices == {"disable", "enable_or_reset"}

Calls == [service : DashboardServices, dashboard : Dashboard, actor : User, other : User]
             \cup [service : AccountServices, dashboard : {NoDashboard},
                   actor : User, other : User]
             \cup [service : {"own_row"}, dashboard : {NoDashboard},
                   actor : User, other : {NoUser}]

----------------------------------------------------------------------------
(* The rows each service locks, in order. *)

\* _lock_current_owner, _lock_active_owner and _commit_revision_metadata:
\* publish, unpublish, freshness, tags, a complete revision.
OwnerLocks_ActorFirst(c) == <<UserRow(c.actor), DashboardRow(c.dashboard)>>
OwnerLocks(c) == <<DashboardRow(c.dashboard), UserRow(c.actor)>>

GrantLocks(c) == <<DashboardRow(c.dashboard), UserRow(c.actor), UserRow(c.other)>>

RevokeLocks(c) == <<DashboardRow(c.dashboard), UserRow(c.actor),
                    GrantRow(c.dashboard, c.other)>>

\* rename_project: its filter joins the owner's row, and so locks it.
RenameLocks(c) == <<DashboardRow(c.dashboard), UserRow(owner[c.dashboard])>>

RequestLocks(c) == <<DashboardRow(c.dashboard), UserRow(owner[c.dashboard]),
                     UserRow(c.actor), RequestRow(c.dashboard, c.actor)>>

ResolveLocks_WithoutOwner(c) ==
    <<DashboardRow(c.dashboard), RequestRow(c.dashboard, c.other), UserRow(c.other),
      UserRow(c.actor), GrantRow(c.dashboard, c.other)>>
ResolveLocks(c) ==
    <<DashboardRow(c.dashboard), UserRow(owner[c.dashboard]),
      RequestRow(c.dashboard, c.other), UserRow(c.other),
      UserRow(c.actor), GrantRow(c.dashboard, c.other)>>

Earlier_AsGiven(u, v) == u
Earlier(u, v) == IF u <= v THEN u ELSE v
Later(u, v) == IF Earlier(u, v) = u THEN v ELSE u

TransferLocks(c) ==
    <<DashboardRow(c.dashboard), UserRow(Earlier(c.actor, c.other)),
      UserRow(Later(c.actor, c.other)), GrantRow(c.dashboard, c.other),
      RequestRow(c.dashboard, c.other)>>

\* All active administrators, then the target.
DisableLocks(c) == Append([i \in 1..Len(AdministratorsById) |->
                               UserRow(AdministratorsById[i])], UserRow(c.other))

\* enable_user and reset_user_password.
EnableLocks(c) == <<UserRow(c.actor), UserRow(c.other)>>

\* A dashboard of one's own created, a favourite removed.
OwnRowLocks(c) == <<UserRow(c.actor)>>

Locks(c) == CASE c.service \in {"owner_change", "favorite"} -> OwnerLocks(c)
              [] c.service = "grant" -> GrantLocks(c)
              [] c.service = "revoke" -> RevokeLocks(c)
              [] c.service = "rename" -> RenameLocks(c)
              [] c.service = "request_access" -> RequestLocks(c)
              [] c.service = "resolve" -> ResolveLocks(c)
              [] c.service = "transfer" -> TransferLocks(c)
              [] c.service = "disable" -> DisableLocks(c)
              [] c.service = "enable_or_reset" -> EnableLocks(c)
              [] c.service = "own_row" -> OwnRowLocks(c)
              [] OTHER -> <<>>

\* The rows the guard triggers lock when the service writes: of the dashboard
\* and its owner for a grant, a request or a transfer marker, of the requester
\* for a request, of the new owner for a transfer, of the creator for a revision.
TriggerLocks(c) ==
    CASE c.service \in {"grant", "revoke"} ->
             {DashboardRow(c.dashboard), UserRow(owner[c.dashboard])}
      [] c.service = "owner_change" -> {DashboardRow(c.dashboard), UserRow(c.actor)}
      [] c.service = "request_access" ->
             {DashboardRow(c.dashboard), UserRow(owner[c.dashboard]), UserRow(c.actor)}
      [] c.service \in {"resolve", "transfer"} ->
             {DashboardRow(c.dashboard), UserRow(owner[c.dashboard]), UserRow(c.other)}
      [] OTHER -> {}

----------------------------------------------------------------------------
\* How many locks a service takes before it looks at who the owner is, and what
\* it wants to see then.
LocksBeforeCheck(c) == CASE c.service \in {"owner_change", "grant", "revoke"} -> 2
                         [] c.service \in {"request_access", "transfer"} -> 3
                         [] c.service = "resolve" -> 5
                         [] OTHER -> 0

Permitted(c) == CASE c.service \in {"owner_change", "grant", "revoke"} ->
                         owner[c.dashboard] = c.actor
                  [] c.service = "transfer" ->
                         owner[c.dashboard] = c.actor /\ c.other # c.actor
                  [] c.service = "request_access" -> owner[c.dashboard] # c.actor
                  [] c.service = "resolve" -> c.actor \in {owner[c.dashboard], c.other}
                  [] OTHER -> TRUE

Passes(t) == taken[t] >= LocksBeforeCheck(call[t]) => Permitted(call[t])

Active(t) == call[t].service \notin {"none", "ended"}
AsksForRow(t) == Active(t) /\ taken[t] < Len(Locks(call[t])) /\ Passes(t)
NextRow(t) == Locks(call[t])[taken[t] + 1]
Writes(t) == Active(t) /\ taken[t] = Len(Locks(call[t])) /\ Passes(t)

WaitsFor(t, v) == AsksForRow(t) /\ v # t /\ holder[NextRow(t)] = v

\* Transactions that all wait for one another.
CircularWait(S) == /\ S # {}
                   /\ \A t \in S : \E v \in S : WaitsFor(t, v)
                   /\ \A v \in S : \E t \in S : WaitsFor(t, v)

Release(t) == /\ holder' = [r \in Row |-> IF holder[r] = t THEN Nobody ELSE holder[r]]
              /\ call' = [call EXCEPT ![t] = Ended]
              /\ taken' = [taken EXCEPT ![t] = 0]

----------------------------------------------------------------------------
LockInit == /\ owner \in [Dashboard -> User]
            /\ holder = [r \in Row |-> Nobody]
            /\ call = [t \in Transaction |-> NoCall]
            /\ taken = [t \in Transaction |-> 0]

begin(t, c) == /\ call[t] = NoCall
               /\ call' = [call EXCEPT ![t] = c]
               /\ UNCHANGED <<owner, holder, taken>>

lock_row(t) == /\ AsksForRow(t)
               /\ holder[NextRow(t)] \in {Nobody, t}
               /\ holder' = [holder EXCEPT ![NextRow(t)] = t]
               /\ taken' = [taken EXCEPT ![t] = @ + 1]
               /\ UNCHANGED <<owner, call>>

\* A check between two statements fails: the transaction rolls back.
deny(t) == /\ Active(t)
           /\ Release(t)
           /\ UNCHANGED owner

commit(t) == /\ Writes(t)
             /\ \A r \in TriggerLocks(call[t]) : holder[r] \in {Nobody, t}
             /\ Release(t)
             /\ owner' = IF call[t].service = "transfer"
                         THEN [owner EXCEPT ![call[t].dashboard] = call[t].other]
                         ELSE owner

\* The statement of one member of a circular wait fails.
abort_deadlock(t) == /\ \E S \in SUBSET Transaction : t \in S /\ CircularWait(S)
                     /\ Release(t)
                     /\ UNCHANGED owner

LockNext == \E t \in Transaction : \/ \E c \in Calls : begin(t, c)
                                   \/ lock_row(t)
                                   \/ deny(t)
                                   \/ commit(t)
                                   \/ abort_deadlock(t)

LockSpec == LockInit /\ [][LockNext]_lockVars

----------------------------------------------------------------------------
\* Types; and a lock is held by a transaction that runs.
LocksTypeOK == /\ owner \in [Dashboard -> User]
               /\ holder \in [Row -> Transaction \cup {Nobody}]
               /\ call \in [Transaction -> Calls \cup {NoCall, Ended}]
               /\ taken \in [Transaction -> Nat]

\* "Revision and transfer writes must share the Dashboard-before-User lock
\* order" (test_enhancement_schema.py), and so must everything else: whatever
\* the services interleave, they wait for one another in a circle only over User
\* rows, never over a dashboard, a request or a grant.
CircularWaitsAreAmongUsers ==
    \A S \in SUBSET Transaction :
        CircularWait(S) => \A t \in S : NextRow(t).table = "user"

\* Two calls about one dashboard never wait for each other in a circle.
DashboardsSerialise ==
    \A S \in SUBSET Transaction :
        CircularWait(S) =>
            \A t, v \in S : /\ t # v
                            /\ call[t].service \in DashboardServices
                            => call[t].dashboard # call[v].dashboard

\* Transfers sort the two users, disables all administrators, so that neither
\* kind waits for its like in a circle: a circular wait takes a service that
\* locks users in the order of their roles, or one of each kind.
SortedCallsNeverCircle ==
    \A S \in SUBSET Transaction :
        CircularWait(S) => \A service \in {"transfer", "disable"} :
                               \E t \in S : call[t].service # service

\* A guard trigger only locks rows that its service has locked already: it
\* never makes the service wait in the middle of its writes, and adds no order
\* of its own.
TriggersNeverWait ==
    \A t \in Transaction :
        Writes(t) => \A r \in TriggerLocks(call[t]) : holder[r] = t
=============================================================================
