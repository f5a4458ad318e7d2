--------------------------- MODULE RowLocksProofs ---------------------------
(***************************************************************************)
(* Proofs about RowLocks, for any number of users, dashboards and          *)
(* transactions, and so for circular waits of any length.                  *)
(*                                                                         *)
(* The invariant LocksInv says that the rows somebody holds are exactly    *)
(* the first taken[t] rows of the plan of a transaction t that runs.  It   *)
(* survives a change of owner, which rewrites the plans about a dashboard, *)
(* because the transaction that changes it holds the dashboard's row, and  *)
(* that row is the first one of all those plans.                           *)
(***************************************************************************)
EXTENDS RowLocks, WellFoundedInduction, TLAPS

Plan(t) == Locks(call[t])

TakesWithinPlan == \A t \in Transaction :
                      IF Active(t) THEN taken[t] <= Len(Plan(t))
                                   ELSE taken[t] = 0

HoldsWhatItTook == \A t \in Transaction :
                      Active(t) => \A i \in 1..taken[t] : holder[Plan(t)[i]] = t

HeldRowsWereTaken ==
    \A r \in Row :
        holder[r] # Nobody =>
            /\ Active(holder[r])
            /\ \E i \in 1..taken[holder[r]] : Plan(holder[r])[i] = r

LocksInv == /\ LocksTypeOK
            /\ TakesWithinPlan
            /\ HoldsWhatItTook
            /\ HeldRowsWereTaken

----------------------------------------------------------------------------
RowsAbout(d) == {r \in Row : /\ r.table # "dashboard"
                             /\ r.table # "user" => r.dashboard = d}

\* The plan of a call about a dashboard starts with the dashboard's row and goes
\* on with users and with rows of that dashboard.
LEMMA DashboardPlan ==
    ASSUME NEW c \in Calls, owner \in [Dashboard -> User],
           c.service \in DashboardServices
    PROVE  /\ c.dashboard \in Dashboard
           /\ Len(Locks(c)) \in Nat \ {0}
           /\ Locks(c)[1] = DashboardRow(c.dashboard)
           /\ \A i \in 2..Len(Locks(c)) : Locks(c)[i] \in RowsAbout(c.dashboard)
<1> DEFINE d == c.dashboard
<1>1. /\ d \in Dashboard /\ c.actor \in User /\ c.other \in User /\ owner[d] \in User
  BY DEF Calls, DashboardServices, AccountServices
<1>2. /\ Earlier(c.actor, c.other) \in User
      /\ Later(c.actor, c.other) \in User
  BY <1>1 DEF Earlier, Later
<1>3. \A u \in User : /\ UserRow(u) \in RowsAbout(d)
                      /\ RequestRow(d, u) \in RowsAbout(d)
                      /\ GrantRow(d, u) \in RowsAbout(d)
  BY <1>1 DEF Row, UserRow, RequestRow, GrantRow, RowsAbout
<1>4. CASE c.service \in {"owner_change", "favorite"}
  <2>1. Locks(c) = <<DashboardRow(d), UserRow(c.actor)>>
    BY <1>4 DEF Locks, OwnerLocks
  <2> QED BY <1>1, <1>3, <2>1
<1>5. CASE c.service = "grant"
  <2>1. Locks(c) = <<DashboardRow(d), UserRow(c.actor), UserRow(c.other)>>
    BY <1>5 DEF Locks, GrantLocks
  <2> QED BY <1>1, <1>3, <2>1
<1>6. CASE c.service = "revoke"
  <2>1. Locks(c) = <<DashboardRow(d), UserRow(c.actor), GrantRow(d, c.other)>>
    BY <1>6 DEF Locks, RevokeLocks
  <2> QED BY <1>1, <1>3, <2>1
<1>7. CASE c.service = "rename"
  <2>1. Locks(c) = <<DashboardRow(d), UserRow(owner[d])>>
    BY <1>7 DEF Locks, RenameLocks
  <2> QED BY <1>1, <1>3, <2>1
<1>8. CASE c.service = "request_access"
  <2>1. Locks(c) = <<DashboardRow(d), UserRow(owner[d]), UserRow(c.actor),
                     RequestRow(d, c.actor)>>
    BY <1>8 DEF Locks, RequestLocks
  <2> QED BY <1>1, <1>3, <2>1
<1>9. CASE c.service = "resolve"
  <2>1. Locks(c) = <<DashboardRow(d), UserRow(owner[d]), RequestRow(d, c.other),
                     UserRow(c.other), UserRow(c.actor), GrantRow(d, c.other)>>
    BY <1>9 DEF Locks, ResolveLocks
  <2> QED BY <1>1, <1>3, <2>1
<1>10. CASE c.service = "transfer"
  <2>1. Locks(c) = <<DashboardRow(d), UserRow(Earlier(c.actor, c.other)),
                     UserRow(Later(c.actor, c.other)), GrantRow(d, c.other),
                     RequestRow(d, c.other)>>
    BY <1>10 DEF Locks, TransferLocks
  <2> QED BY <1>1, <1>2, <1>3, <2>1
<1> QED BY <1>4, <1>5, <1>6, <1>7, <1>8, <1>9, <1>10 DEF DashboardServices

\* Every other call locks users only.
LEMMA UserPlan ==
    ASSUME NEW c \in Calls, c.service \notin DashboardServices
    PROVE  /\ Len(Locks(c)) \in Nat
           /\ \A i \in 1..Len(Locks(c)) : \E u \in User : Locks(c)[i] = UserRow(u)
<1>1. c.actor \in User
  BY DEF Calls
<1>2. CASE c.service = "disable"
  <2>1. c.other \in User
    BY <1>2 DEF Calls, DashboardServices, AccountServices
  <2> DEFINE admins == [i \in 1..Len(AdministratorsById) |-> UserRow(AdministratorsById[i])]
  <2>2. Locks(c) = Append(admins, UserRow(c.other))
    BY <1>2 DEF Locks, DisableLocks
  <2>3. admins \in Seq({UserRow(u) : u \in User}) /\ Len(admins) = Len(AdministratorsById)
    BY RowLocksAssumption DEF RowLocksAssumption
  <2> HIDE DEF admins
  <2>4. Append(admins, UserRow(c.other)) \in Seq({UserRow(u) : u \in User})
    BY <2>1, <2>3
  <2> QED BY <2>2, <2>4
<1>3. CASE c.service = "enable_or_reset"
  <2>1. c.other \in User
    BY <1>3 DEF Calls, DashboardServices, AccountServices
  <2>2. Locks(c) = <<UserRow(c.actor), UserRow(c.other)>>
    BY <1>3 DEF Locks, EnableLocks
  <2> QED BY <1>1, <2>1, <2>2
<1>4. CASE c.service = "own_row"
  <2>1. Locks(c) = <<UserRow(c.actor)>>
    BY <1>4 DEF Locks, OwnRowLocks
  <2> QED BY <1>1, <2>1
<1> QED BY <1>2, <1>3, <1>4 DEF Calls, AccountServices

\* Every call locks a sequence of rows.
LEMMA PlanOfRows ==
    ASSUME NEW c \in Calls, owner \in [Dashboard -> User]
    PROVE  /\ Len(Locks(c)) \in Nat
           /\ \A i \in 1..Len(Locks(c)) : Locks(c)[i] \in Row
<1>1. CASE c.service \in DashboardServices
  <2>1. DashboardRow(c.dashboard) \in Row
    BY <1>1, DashboardPlan DEF Row, DashboardRow
  <2>2. \A i \in 2..Len(Locks(c)) : Locks(c)[i] \in Row
    BY <1>1, DashboardPlan DEF RowsAbout
  <2>3. Len(Locks(c)) \in Nat /\ Locks(c)[1] \in Row
    BY <1>1, <2>1, DashboardPlan
  <2> QED BY <2>2, <2>3
<1>2. CASE c.service \notin DashboardServices
  <2>1. \A u \in User : UserRow(u) \in Row
    BY DEF Row, UserRow
  <2> QED BY <1>2, <2>1, UserPlan
<1> QED BY <1>1, <1>2

\* A plan changes only with the owner of its own dashboard.
LEMMA PlanDependsOnOwner ==
    ASSUME NEW c \in Calls,
           c.service \in DashboardServices => owner'[c.dashboard] = owner[c.dashboard]
    PROVE  Locks(c)' = Locks(c)
<1>1. CASE c.service \in DashboardServices
  BY <1>1 DEF Locks, OwnerLocks, GrantLocks, RevokeLocks, RenameLocks, RequestLocks,
              ResolveLocks, TransferLocks, DisableLocks, EnableLocks, OwnRowLocks,
              Earlier, Later, DashboardRow, UserRow, RequestRow, GrantRow
<1>2. CASE c.service \notin DashboardServices
  BY <1>2 DEF Calls, AccountServices, DashboardServices, Locks, DisableLocks,
              EnableLocks, OwnRowLocks, UserRow
<1> QED BY <1>1, <1>2

\* Its length never changes.
LEMMA PlanLength ==
    ASSUME NEW c \in Calls
    PROVE  Len(Locks(c)') = Len(Locks(c))
<1>1. CASE c.service = "rename"
  <2>1. Len(Locks(c)) = 2
    BY <1>1 DEF Locks, RenameLocks
  <2>2. Len(Locks(c)') = 2
    BY <1>1 DEF Locks, RenameLocks
  <2> QED BY <2>1, <2>2
<1>2. CASE c.service = "request_access"
  <2>1. Len(Locks(c)) = 4
    BY <1>2 DEF Locks, RequestLocks
  <2>2. Len(Locks(c)') = 4
    BY <1>2 DEF Locks, RequestLocks
  <2> QED BY <2>1, <2>2
<1>3. CASE c.service = "resolve"
  <2>1. Len(Locks(c)) = 6
    BY <1>3 DEF Locks, ResolveLocks
  <2>2. Len(Locks(c)') = 6
    BY <1>3 DEF Locks, ResolveLocks
  <2> QED BY <2>1, <2>2
<1>4. CASE c.service \notin {"rename", "request_access", "resolve"}
  BY <1>4 DEF Locks, OwnerLocks, GrantLocks, RevokeLocks, TransferLocks, DisableLocks,
              EnableLocks, OwnRowLocks, Earlier, Later, DashboardRow, UserRow,
              RequestRow, GrantRow
<1> QED BY <1>1, <1>2, <1>3, <1>4

\* A transaction that runs about a dashboard and holds anything holds its row.
LEMMA HoldsItsDashboard ==
    ASSUME LocksInv, NEW t \in Transaction, Active(t), taken[t] # 0,
           call[t].service \in DashboardServices
    PROVE  /\ call[t].dashboard \in Dashboard
           /\ holder[DashboardRow(call[t].dashboard)] = t
<1>1. call[t] \in Calls /\ owner \in [Dashboard -> User] /\ taken[t] \in Nat
  BY DEF LocksInv, LocksTypeOK, Active, NoCall, Ended, Call
<1>2. 1 \in 1..taken[t]
  BY <1>1
<1> QED BY <1>1, <1>2, DashboardPlan DEF LocksInv, HoldsWhatItTook, Plan

----------------------------------------------------------------------------
\* Nobody holds or waits for a row.
LEMMA LocksInitHolds == LockInit => LocksInv
  BY DEF LockInit, LocksInv, LocksTypeOK, TakesWithinPlan, HoldsWhatItTook,
         HeldRowsWereTaken, Active, NoCall, Call

\* A step that leaves everything as it was.
LEMMA UnchangedPlansKeep ==
    ASSUME LocksInv, UNCHANGED lockVars,
           \A t \in Transaction : Active(t)' <=> Active(t),
           \A t \in Transaction : Active(t) => Plan(t)' = Plan(t)
    PROVE  LocksInv'
<1>1. LocksTypeOK' /\ TakesWithinPlan' /\ HoldsWhatItTook'
  BY DEF lockVars, LocksInv, LocksTypeOK, TakesWithinPlan, HoldsWhatItTook
<1>2. HeldRowsWereTaken'
  <2> SUFFICES ASSUME NEW r \in Row, holder[r] # Nobody
               PROVE  /\ Active(holder[r])'
                      /\ \E i \in 1..taken[holder[r]] : Plan(holder[r])'[i] = r
    BY DEF HeldRowsWereTaken, Row, lockVars
  <2>1. PICK v \in Transaction : holder[r] = v /\ Active(v)
                                  /\ \E i \in 1..taken[v] : Plan(v)[i] = r
    BY DEF LocksInv, LocksTypeOK, HeldRowsWereTaken
  <2>2. holder'[r] = v
    BY <2>1 DEF lockVars
  <2>3. Active(holder[r])' /\ Plan(holder[r])' = Plan(v)'
    BY <2>1, <2>2 DEF Active, Plan
  <2> QED BY <2>1, <2>3
<1> QED BY <1>1, <1>2 DEF LocksInv

\* The end of a transaction, whether it commits or rolls back: the owner may have
\* changed only of a dashboard whose row it held.
LEMMA ReleaseKeeps ==
    ASSUME LocksInv, NEW t \in Transaction, Active(t), Release(t),
           owner' \in [Dashboard -> User],
           \A d \in Dashboard : owner'[d] = owner[d] \/ holder[DashboardRow(d)] = t
    PROVE  LocksInv'
<1>1. LocksTypeOK'
  BY DEF LocksInv, LocksTypeOK, Release
<1>2. ~Active(t)' /\ taken'[t] = 0
  BY DEF LocksInv, LocksTypeOK, Release, Active, Ended, Call
<1>3. ASSUME NEW v \in Transaction, v # t
      PROVE  /\ Active(v)' <=> Active(v)
             /\ call'[v] = call[v] /\ taken'[v] = taken[v]
             /\ Active(v) => call[v] \in Calls
  BY <1>3 DEF LocksInv, LocksTypeOK, Release, Active, NoCall, Ended, Call
<1>4. ASSUME NEW v \in Transaction, v # t, Active(v), taken[v] # 0
      PROVE  Plan(v)' = Plan(v)
  <2>1. call[v].service \in DashboardServices
           => owner'[call[v].dashboard] = owner[call[v].dashboard]
    BY <1>4, HoldsItsDashboard
  <2>2. \A c \in Calls :
           (c.service \in DashboardServices => owner'[c.dashboard] = owner[c.dashboard])
              => Locks(c)' = Locks(c)
    BY PlanDependsOnOwner
  <2> QED BY <1>3, <1>4, <2>1, <2>2 DEF Plan
<1>5. TakesWithinPlan'
  <2>1. ASSUME NEW v \in Transaction, v # t, Active(v)
        PROVE  taken'[v] <= Len(Plan(v)')
    <3>1. Len(Plan(v)') = Len(Plan(v))
      <4>1. \A c \in Calls : Len(Locks(c)') = Len(Locks(c))
        BY PlanLength
      <4> QED BY <1>3, <2>1, <4>1 DEF Plan
    <3> QED BY <1>3, <2>1, <3>1 DEF LocksInv, TakesWithinPlan
  <2>2. ASSUME NEW v \in Transaction, v # t, ~Active(v) PROVE taken'[v] = 0
    BY <1>3, <2>2 DEF LocksInv, TakesWithinPlan
  <2> QED BY <1>2, <1>3, <2>1, <2>2 DEF TakesWithinPlan
<1>6. HoldsWhatItTook'
  <2> SUFFICES ASSUME NEW v \in Transaction, Active(v)', NEW i \in 1..taken'[v]
               PROVE  holder'[Plan(v)'[i]] = v
    BY DEF HoldsWhatItTook
  <2>1. v # t /\ Active(v) /\ i \in 1..taken[v] /\ call[v] \in Calls
    BY <1>2, <1>3
  <2>2. taken[v] \in Nat /\ taken[v] # 0 /\ taken[v] <= Len(Plan(v))
    BY <2>1 DEF LocksInv, LocksTypeOK, TakesWithinPlan
  <2>3. Plan(v)[i] \in Row
    BY <2>1, <2>2, PlanOfRows DEF LocksInv, LocksTypeOK, Plan
  <2>4. holder[Plan(v)[i]] = v
    BY <2>1 DEF LocksInv, HoldsWhatItTook
  <2>5. Plan(v)' = Plan(v)
    BY <1>4, <2>1, <2>2
  <2> QED BY <2>1, <2>3, <2>4, <2>5 DEF Release
<1>7. HeldRowsWereTaken'
  <2> SUFFICES ASSUME NEW r \in Row, holder'[r] # Nobody
               PROVE  /\ Active(holder[r])'
                      /\ \E i \in 1..taken'[holder'[r]] : Plan(holder[r])'[i] = r
    BY DEF HeldRowsWereTaken, Row
  <2>1. PICK v \in Transaction : holder[r] = v /\ holder'[r] = v /\ v # t /\ v # Nobody
    BY DEF Release, LocksInv, LocksTypeOK
  <2>2. Active(v) /\ \E i \in 1..taken[v] : Plan(v)[i] = r
    BY <2>1 DEF LocksInv, HeldRowsWereTaken
  <2>3. taken[v] # 0
    BY <2>1, <2>2 DEF LocksInv, LocksTypeOK
  <2>4. Plan(v)' = Plan(v)
    BY <1>4, <2>1, <2>2, <2>3
  <2>5. Active(v)' /\ taken'[v] = taken[v]
    BY <1>3, <2>1, <2>2
  <2>6. Active(holder[r])' /\ Plan(holder[r])' = Plan(v)'
    BY <2>1, <2>5 DEF Active, Plan
  <2> QED BY <2>1, <2>2, <2>4, <2>5, <2>6
<1> QED BY <1>1, <1>5, <1>6, <1>7 DEF LocksInv
\* A step of a transaction, and the end of a time without one.
LEMMA LocksStepKeeps == LocksInv /\ [LockNext]_lockVars => LocksInv'
<1> SUFFICES ASSUME LocksInv, [LockNext]_lockVars PROVE LocksInv'
  OBVIOUS
<1> USE DEF LocksInv
<1>1. CASE UNCHANGED lockVars
  <2>1. \A t \in Transaction : Active(t)' <=> Active(t)
    BY <1>1 DEF lockVars, Active
  <2>2. \A t \in Transaction : Active(t) => Plan(t)' = Plan(t)
    <3>1. \A c \in Calls : Locks(c)' = Locks(c)
      BY <1>1, PlanDependsOnOwner DEF lockVars
    <3> QED BY <1>1, <3>1 DEF lockVars, Plan, LocksTypeOK, Active, NoCall, Ended, Call
  <2> QED BY <1>1, <2>1, <2>2, UnchangedPlansKeep DEF lockVars
<1>2. ASSUME NEW t \in Transaction, NEW c \in Calls, begin(t, c)
      PROVE  LocksInv'
  <2>1. ~Active(t) /\ taken[t] = 0 /\ Active(t)'
    BY <1>2 DEF begin, Active, NoCall, Call, TakesWithinPlan, Calls, LocksTypeOK,
                DashboardServices, AccountServices
  <2>2. LocksTypeOK'
    BY <1>2 DEF begin, LocksTypeOK
  <2>3. \A v \in Transaction \ {t} : (Active(v)' <=> Active(v)) /\ call'[v] = call[v]
    BY <1>2 DEF begin, Active, LocksTypeOK
  <2>4. \A v \in Transaction \ {t} : Active(v) => Plan(v)' = Plan(v)
    <3>1. \A k \in Calls : Locks(k)' = Locks(k)
      BY <1>2, PlanDependsOnOwner DEF begin
    <3> QED BY <2>3, <3>1 DEF Plan, LocksTypeOK, Active, NoCall, Ended, Call
  <2>5. Len(Plan(t)') \in Nat
    <3>1. \A k \in Calls : Len(Locks(k)') = Len(Locks(k)) /\ Len(Locks(k)) \in Nat
      BY PlanLength, PlanOfRows DEF LocksTypeOK
    <3>2. call'[t] = c
      BY <1>2 DEF begin, LocksTypeOK
    <3> QED BY <3>1, <3>2 DEF Plan
  <2>6. TakesWithinPlan'
    BY <1>2, <2>1, <2>3, <2>4, <2>5 DEF begin, TakesWithinPlan
  <2>7. HoldsWhatItTook'
    BY <1>2, <2>1, <2>3, <2>4 DEF begin, HoldsWhatItTook
  <2>8. HeldRowsWereTaken'
    <3> SUFFICES ASSUME NEW r \in Row, holder[r] # Nobody
                 PROVE  /\ Active(holder[r])'
                        /\ \E i \in 1..taken[holder[r]] : Plan(holder[r])'[i] = r
      BY <1>2 DEF HeldRowsWereTaken, Row, begin
    <3>1. PICK v \in Transaction : holder[r] = v /\ Active(v)
                                    /\ \E i \in 1..taken[v] : Plan(v)[i] = r
      BY DEF LocksTypeOK, HeldRowsWereTaken
    <3>2. v # t /\ Active(v)' /\ Plan(v)' = Plan(v)
      BY <2>1, <2>3, <2>4, <3>1
    <3>3. holder'[r] = v
      BY <1>2, <3>1 DEF begin
    <3>4. Active(holder[r])' /\ Plan(holder[r])' = Plan(v)'
      BY <3>2, <3>3 DEF Active, Plan
    <3> QED BY <3>1, <3>2, <3>4
  <2> QED BY <2>2, <2>6, <2>7, <2>8
<1>3. ASSUME NEW t \in Transaction, lock_row(t)
      PROVE  LocksInv'
  <2> DEFINE row == Plan(t)[taken[t] + 1]
  <2>1. /\ Active(t) /\ call[t] \in Calls /\ taken[t] \in Nat
        /\ Len(Plan(t)) \in Nat /\ taken[t] + 1 <= Len(Plan(t))
    <3>1. Active(t) /\ call[t] \in Calls /\ taken[t] \in Nat /\ taken[t] < Len(Plan(t))
      BY <1>3 DEF lock_row, AsksForRow, Plan, LocksTypeOK, Active, NoCall, Ended, Call
    <3>2. Len(Plan(t)) \in Nat
      BY <3>1, PlanOfRows DEF Plan, LocksTypeOK
    <3> QED BY <3>1, <3>2
  <2>2. row \in Row
    BY <2>1, PlanOfRows DEF Plan, LocksTypeOK
  <2>3. /\ holder[row] \in {Nobody, t} /\ holder' = [holder EXCEPT ![row] = t]
        /\ taken' = [taken EXCEPT ![t] = @ + 1] /\ owner' = owner /\ call' = call
    BY <1>3 DEF lock_row, NextRow, Plan
  <2>4. \A v \in Transaction : Active(v)' <=> Active(v)
    BY <2>3 DEF Active
  <2>5. \A v \in Transaction : Active(v) => Plan(v)' = Plan(v)
    <3>1. \A k \in Calls : Locks(k)' = Locks(k)
      BY <2>3, PlanDependsOnOwner
    <3> QED BY <2>3, <3>1 DEF Plan, LocksTypeOK, Active, NoCall, Ended, Call
  <2> HIDE DEF row
  <2>6. LocksTypeOK'
    BY <2>1, <2>2, <2>3 DEF LocksTypeOK
  <2>7. TakesWithinPlan'
    <3>1. \A v \in Transaction : taken'[v] = IF v = t THEN taken[t] + 1 ELSE taken[v]
      BY <2>3 DEF LocksTypeOK
    <3> QED BY <2>1, <2>4, <2>5, <3>1 DEF TakesWithinPlan
  <2>8. HoldsWhatItTook'
    <3> SUFFICES ASSUME NEW v \in Transaction, Active(v), NEW i \in 1..taken'[v]
                 PROVE  holder'[Plan(v)[i]] = v
      BY <2>4, <2>5 DEF HoldsWhatItTook
    <3>1. CASE v = t /\ i = taken[t] + 1
      BY <2>2, <2>3, <3>1 DEF row, LocksTypeOK
    <3>2. CASE i \in 1..taken[v]
      <4>1. taken[v] \in Nat /\ taken[v] <= Len(Plan(v)) /\ call[v] \in Calls
        BY DEF TakesWithinPlan, LocksTypeOK, Active, NoCall, Ended, Call
      <4>2. Plan(v)[i] \in Row
        BY <3>2, <4>1, PlanOfRows DEF Plan, LocksTypeOK
      <4>3. holder[Plan(v)[i]] = v
        BY <3>2 DEF HoldsWhatItTook
      <4>4. v # Nobody
        BY RowLocksAssumption DEF RowLocksAssumption
      <4> QED BY <2>2, <2>3, <4>2, <4>3, <4>4 DEF LocksTypeOK
    <3>3. taken'[v] = IF v = t THEN taken[t] + 1 ELSE taken[v]
      BY <2>3 DEF LocksTypeOK
    <3>4. taken[v] \in Nat
      BY DEF LocksTypeOK
    <3> QED BY <3>1, <3>2, <3>3, <3>4
  <2>9. HeldRowsWereTaken'
    <3> SUFFICES ASSUME NEW r \in Row, holder'[r] # Nobody
                 PROVE  \E v \in Transaction :
                           /\ holder'[r] = v /\ Active(v)
                           /\ \E i \in 1..taken'[v] : Plan(v)[i] = r
      <4>1. ASSUME NEW r \in Row, NEW v \in Transaction, holder'[r] = v, Active(v),
                   \E i \in 1..taken'[v] : Plan(v)[i] = r
            PROVE  /\ Active(holder[r])'
                   /\ \E i \in 1..taken'[holder'[r]] : Plan(holder[r])'[i] = r
        <5>1. Active(holder[r])' /\ Plan(holder[r])' = Plan(v)'
          BY <2>4, <4>1 DEF Active, Plan
        <5> QED BY <2>5, <4>1, <5>1
      <4> QED BY <4>1 DEF HeldRowsWereTaken, Row
    <3>1. CASE r = row
      <4>1. holder'[r] = t /\ taken'[t] = taken[t] + 1
        BY <2>2, <2>3, <3>1 DEF LocksTypeOK
      <4>2. taken[t] + 1 \in 1..taken'[t] /\ Plan(t)[taken[t] + 1] = r
        BY <2>1, <3>1, <4>1 DEF row
      <4> QED BY <2>1, <4>1, <4>2
    <3>2. CASE r # row
      <4>1. PICK v \in Transaction : holder[r] = v /\ holder'[r] = v
        BY <2>2, <2>3, <3>2 DEF LocksTypeOK
      <4>2. Active(v) /\ \E i \in 1..taken[v] : Plan(v)[i] = r
        BY <2>2, <2>3, <3>2, <4>1 DEF HeldRowsWereTaken, LocksTypeOK
      <4>3. taken[v] \in Nat /\ taken'[v] \in Nat /\ taken'[v] >= taken[v]
        BY <2>3 DEF LocksTypeOK
      <4> QED BY <4>1, <4>2, <4>3
    <3> QED BY <3>1, <3>2
  <2> QED BY <2>6, <2>7, <2>8, <2>9
<1>4. ASSUME NEW t \in Transaction, deny(t)
      PROVE  LocksInv'
  BY <1>4, ReleaseKeeps DEF deny, LocksTypeOK
<1>5. ASSUME NEW t \in Transaction, commit(t)
      PROVE  LocksInv'
  <2>1. Active(t) /\ Release(t)
    BY <1>5 DEF commit, Writes
  <2>2. CASE call[t].service = "transfer"
    <3>1. /\ call[t] \in Calls /\ call[t].service \in DashboardServices
          /\ call[t].other \in User
      BY <2>1, <2>2 DEF LocksTypeOK, Active, NoCall, Ended, Call, Calls,
                        DashboardServices, AccountServices
    <3>2. taken[t] # 0
      BY <1>5, <3>1, DashboardPlan DEF commit, Writes, LocksTypeOK
    <3>3. holder[DashboardRow(call[t].dashboard)] = t
      BY <2>1, <3>1, <3>2, HoldsItsDashboard
    <3>4. owner' = [owner EXCEPT ![call[t].dashboard] = call[t].other]
      BY <1>5, <2>2 DEF commit
    <3>5. /\ owner' \in [Dashboard -> User]
          /\ \A d \in Dashboard : owner'[d] = owner[d] \/ holder[DashboardRow(d)] = t
      BY <3>1, <3>3, <3>4 DEF LocksTypeOK
    <3> QED BY <2>1, <3>5, ReleaseKeeps
  <2>3. CASE call[t].service # "transfer"
    <3>1. owner' = owner
      BY <1>5, <2>3 DEF commit
    <3> QED BY <2>1, <3>1, ReleaseKeeps DEF LocksTypeOK
  <2> QED BY <2>2, <2>3
<1>6. ASSUME NEW t \in Transaction, abort_deadlock(t)
      PROVE  LocksInv'
  <2>1. Active(t)
    BY <1>6 DEF abort_deadlock, CircularWait, WaitsFor, AsksForRow
  <2> QED BY <1>6, <2>1, ReleaseKeeps DEF abort_deadlock, LocksTypeOK
<1> QED BY <1>1, <1>2, <1>3, <1>4, <1>5, <1>6 DEF LockNext

\* It holds for ever.
LEMMA LocksInvariant == LockSpec => []LocksInv
<1>1. LockInit => LocksInv
  BY LocksInitHolds
<1>2. LocksInv /\ [LockNext]_lockVars => LocksInv'
  BY LocksStepKeeps
<1> QED BY <1>1, <1>2, PTL DEF LockSpec
----------------------------------------------------------------------------
\* Somebody who waits for t waits for one of the rows t has taken.
LEMMA WaitedForHolds ==
    ASSUME LocksInv, NEW t \in Transaction, NEW v \in Transaction, WaitsFor(t, v)
    PROVE  /\ Active(t) /\ call[t] \in Calls /\ taken[t] \in Nat
           /\ taken[t] + 1 \in 1..Len(Plan(t)) /\ Len(Plan(t)) \in Nat
           /\ NextRow(t) = Plan(t)[taken[t] + 1]
           /\ Active(v) /\ call[v] \in Calls /\ taken[v] \in Nat
           /\ taken[v] <= Len(Plan(v)) /\ Len(Plan(v)) \in Nat
           /\ taken[v] # 0
           /\ \E i \in 1..taken[v] : Plan(v)[i] = NextRow(t)
<1>1. Active(t) /\ taken[t] < Len(Plan(t)) /\ holder[NextRow(t)] = v
  BY DEF WaitsFor, AsksForRow, Plan
<1>2. /\ call[t] \in Calls /\ taken[t] \in Nat /\ Len(Plan(t)) \in Nat
  BY <1>1, PlanOfRows DEF LocksInv, LocksTypeOK, Active, NoCall, Ended, Call, Plan
<1>3. NextRow(t) = Plan(t)[taken[t] + 1] /\ NextRow(t) \in Row
  <2>1. \A i \in 1..Len(Plan(t)) : Plan(t)[i] \in Row
    BY <1>2, PlanOfRows DEF LocksInv, LocksTypeOK, Plan
  <2>2. NextRow(t) = Plan(t)[taken[t] + 1]
    BY DEF NextRow, Plan
  <2>3. taken[t] + 1 \in 1..Len(Plan(t))
    BY <1>1, <1>2
  <2> QED BY <2>1, <2>2, <2>3
<1>4. v # Nobody
  BY RowLocksAssumption DEF RowLocksAssumption
<1>5. Active(v) /\ \E i \in 1..taken[v] : Plan(v)[i] = NextRow(t)
  BY <1>1, <1>3, <1>4 DEF LocksInv, HeldRowsWereTaken
<1>6. call[v] \in Calls /\ taken[v] \in Nat /\ taken[v] <= Len(Plan(v))
  BY <1>5 DEF LocksInv, LocksTypeOK, TakesWithinPlan, Active, NoCall, Ended, Call
<1>7. Len(Plan(v)) \in Nat
  BY <1>6, PlanOfRows DEF LocksInv, LocksTypeOK, Plan
<1>8. taken[v] # 0
  BY <1>5, <1>6
<1> QED BY <1>1, <1>2, <1>3, <1>5, <1>6, <1>7, <1>8

\* So everybody in a circular wait about a dashboard would have to hold its row.
LEMMA InCircleHoldsDashboard ==
    ASSUME LocksInv, NEW S \in SUBSET Transaction, CircularWait(S), NEW t \in S
    PROVE  /\ \E v \in S : WaitsFor(t, v)
           /\ taken[t] # 0 /\ call[t] \in Calls /\ Active(t)
           /\ call[t].service \in DashboardServices
                => /\ call[t].dashboard \in Dashboard
                   /\ holder[DashboardRow(call[t].dashboard)] = t
<1>1. PICK w \in S : WaitsFor(w, t)
  BY DEF CircularWait
<1>2. taken[t] # 0 /\ call[t] \in Calls /\ Active(t)
  BY <1>1, WaitedForHolds
<1>3. \E v \in S : WaitsFor(t, v)
  BY DEF CircularWait
<1> QED BY <1>2, <1>3, HoldsItsDashboard

\* Owners are users, locks are held by calls that run, and every call is one of a
\* service with arguments it can have.
THEOREM LocksTypeCorrect == LockSpec => []LocksTypeOK
BY LocksInvariant, PTL DEF LocksInv

\* Whoever waits in a circle waits for a user row.
LEMMA CirclesAreAmongUsers == LocksInv => CircularWaitsAreAmongUsers
<1> SUFFICES ASSUME LocksInv, NEW S \in SUBSET Transaction, CircularWait(S), NEW t \in S
             PROVE  NextRow(t).table = "user"
  BY DEF CircularWaitsAreAmongUsers
<1>1. PICK v \in S : WaitsFor(t, v)
  BY InCircleHoldsDashboard
<1>2. /\ call[t] \in Calls /\ taken[t] \in Nat /\ taken[t] # 0
      /\ taken[t] + 1 \in 1..Len(Plan(t)) /\ Len(Plan(t)) \in Nat
      /\ NextRow(t) = Plan(t)[taken[t] + 1]
  BY <1>1, WaitedForHolds, InCircleHoldsDashboard
<1>3. CASE call[t].service \notin DashboardServices
  <2>1. \E u \in User : NextRow(t) = UserRow(u)
    BY <1>2, <1>3, UserPlan DEF Plan
  <2> QED BY <2>1 DEF UserRow
<1>4. CASE call[t].service \in DashboardServices
  <2> SUFFICES ASSUME NextRow(t).table # "user" PROVE FALSE
    OBVIOUS
  <2>1. NextRow(t) \in RowsAbout(call[t].dashboard)
    <3>1. taken[t] + 1 \in 2..Len(Plan(t))
      BY <1>2
    <3> QED BY <1>2, <1>4, <3>1, DashboardPlan DEF Plan, LocksInv, LocksTypeOK
  <2>2. /\ NextRow(t).table \notin {"user", "dashboard"}
        /\ NextRow(t).dashboard = call[t].dashboard
    BY <2>1 DEF RowsAbout
  <2>3. PICK i \in 1..taken[v] : Plan(v)[i] = NextRow(t)
    BY <1>1, WaitedForHolds
  <2>4. /\ call[v] \in Calls /\ taken[v] \in Nat /\ Len(Plan(v)) \in Nat
        /\ taken[v] <= Len(Plan(v))
    BY <1>1, WaitedForHolds
  <2>5. call[v].service \in DashboardServices
    <3>1. i \in 1..Len(Plan(v))
      BY <2>3, <2>4
    <3>2. call[v].service \notin DashboardServices => \E u \in User : Plan(v)[i] = UserRow(u)
      BY <2>4, <3>1, UserPlan DEF Plan
    <3> QED BY <2>2, <2>3, <3>2 DEF UserRow
  <2>6. call[v].dashboard = call[t].dashboard
    <3>1. i # 1
      <4>1. Plan(v)[1] = DashboardRow(call[v].dashboard)
        BY <2>4, <2>5, DashboardPlan DEF Plan, LocksInv, LocksTypeOK
      <4> QED BY <2>2, <2>3, <4>1 DEF DashboardRow
    <3>2. i \in 2..Len(Plan(v))
      BY <2>3, <2>4, <3>1
    <3>3. Plan(v)[i] \in RowsAbout(call[v].dashboard)
      BY <2>4, <2>5, <3>2, DashboardPlan DEF Plan, LocksInv, LocksTypeOK
    <3> QED BY <2>2, <2>3, <3>3 DEF RowsAbout
  <2>7. /\ holder[DashboardRow(call[t].dashboard)] = t
        /\ holder[DashboardRow(call[v].dashboard)] = v
    BY <1>4, <2>5, InCircleHoldsDashboard
  <2>8. v # t
    BY <1>1 DEF WaitsFor
  <2> QED BY <2>6, <2>7, <2>8
<1> QED BY <1>3, <1>4

\* Whatever the services interleave, a circular wait of any length is over User
\* rows: every plan about a dashboard starts with the dashboard's row.
THEOREM CircularWaitsAmongUsers == LockSpec => []CircularWaitsAreAmongUsers
BY LocksInvariant, CirclesAreAmongUsers, PTL

\* No circle has two calls about one dashboard.
LEMMA NoCircleAboutADashboard == LocksInv => DashboardsSerialise
<1> SUFFICES ASSUME LocksInv, NEW S \in SUBSET Transaction, CircularWait(S),
                    NEW t \in S, NEW v \in S, t # v,
                    call[t].service \in DashboardServices,
                    call[t].dashboard = call[v].dashboard
             PROVE  FALSE
  BY DEF DashboardsSerialise
<1>1. call[t].dashboard \in Dashboard /\ holder[DashboardRow(call[t].dashboard)] = t
  BY InCircleHoldsDashboard
<1>2. call[v] \in Calls /\ call[v].dashboard \in Dashboard
  BY <1>1, InCircleHoldsDashboard
<1>3. call[v].service \in DashboardServices
  BY <1>2, RowLocksAssumption DEF Calls, RowLocksAssumption
<1>4. holder[DashboardRow(call[v].dashboard)] = v
  BY <1>3, InCircleHoldsDashboard
<1> QED BY <1>1, <1>4

\* No circular wait contains two calls about one dashboard.
THEOREM CallsAboutADashboardSerialise == LockSpec => []DashboardsSerialise
BY LocksInvariant, NoCircleAboutADashboard, PTL

\* A set of naturals has a least element.
LEMMA LeastNatural ==
    ASSUME NEW T \in SUBSET Nat, T # {}
    PROVE  \E x \in T : \A y \in T : x <= y
<1> DEFINE R == {ss \in Nat \X Nat : ss[1] < ss[2]}
<1>1. IsWellFoundedOn(R, Nat)
  BY NatLessThanWellFounded DEF OpToRel
<1>2. PICK x \in T : \A y \in T : <<y, x>> \notin R
  <2> HIDE DEF R
  <2> QED BY <1>1, WFMin
<1>3. \A y \in T : x <= y
  <2> SUFFICES ASSUME NEW y \in T, ~(x <= y) PROVE FALSE
    OBVIOUS
  <2>1. y < x /\ x \in Nat /\ y \in Nat
    OBVIOUS
  <2>2. <<y, x>> \in R
    BY <2>1
  <2> QED BY <1>2, <2>2
<1> QED BY <1>3

\* A transfer in a circle has locked the first of its two users, and waits for
\* the second one.
LEMMA TransferInCircle ==
    ASSUME LocksInv, NEW S \in SUBSET Transaction, CircularWait(S), NEW t \in S,
           call[t].service = "transfer",
           NEW w \in S, WaitsFor(w, t)
    PROVE  /\ NextRow(t).user \in Nat /\ NextRow(w).user \in Nat
           /\ NextRow(w).user < NextRow(t).user
<1> DEFINE c == call[t]
           first == Earlier(c.actor, c.other)
           second == Later(c.actor, c.other)
<1>1. PICK v \in S : WaitsFor(t, v)
  BY DEF CircularWait
<1>2. /\ Active(t) /\ c \in Calls /\ taken[t] \in Nat
      /\ taken[t] + 1 \in 1..Len(Plan(t))
      /\ NextRow(t) = Plan(t)[taken[t] + 1]
  BY <1>1, WaitedForHolds
<1>3. PICK i \in 1..taken[t] : Plan(t)[i] = NextRow(w)
  BY WaitedForHolds
<1>4. Plan(t) = <<DashboardRow(c.dashboard), UserRow(first), UserRow(second),
                  GrantRow(c.dashboard, c.other), RequestRow(c.dashboard, c.other)>>
  BY DEF Plan, Locks, TransferLocks
<1>5. NextRow(t).table = "user" /\ NextRow(w).table = "user"
  BY CirclesAreAmongUsers DEF CircularWaitsAreAmongUsers
<1>6. /\ c.actor \in User /\ c.other \in User /\ User \subseteq Nat
  BY <1>2, RowLocksAssumption DEF Calls, DashboardServices, AccountServices,
                                  RowLocksAssumption
<1>7. first \in Nat /\ second \in Nat /\ first <= second
  <2>1. \A x, y \in Nat : /\ Earlier(x, y) \in Nat /\ Later(x, y) \in Nat
                          /\ Earlier(x, y) <= Later(x, y)
    <3> SUFFICES ASSUME NEW x \in Nat, NEW y \in Nat
                 PROVE  /\ Earlier(x, y) \in Nat /\ Later(x, y) \in Nat
                        /\ Earlier(x, y) <= Later(x, y)
      OBVIOUS
    <3>1. CASE x <= y
      BY <3>1 DEF Earlier, Later
    <3>2. CASE y < x
      <4>1. Earlier(x, y) = y /\ y # x
        BY <3>2 DEF Earlier
      <4>2. Later(x, y) = x
        BY <4>1 DEF Later
      <4> QED BY <3>2, <4>1, <4>2
    <3> QED BY <3>1, <3>2
  <2>2. c.actor \in Nat /\ c.other \in Nat
    BY <1>6
  <2> HIDE DEF c
  <2> QED BY <2>1, <2>2
<1> HIDE DEF first, second, c
<1>8. taken[t] + 1 \in {2, 3} /\ i # 1
  <2>1. taken[t] + 1 \in 1..5 /\ i \in 1..4
    BY <1>2, <1>3, <1>4
  <2>2. /\ Plan(t)[1].table = "dashboard" /\ Plan(t)[4].table = "grant"
        /\ Plan(t)[5].table = "request"
    BY <1>4 DEF DashboardRow, GrantRow, RequestRow
  <2>3. taken[t] + 1 \notin {1, 4, 5} /\ i # 1
    BY <1>2, <1>3, <1>5, <2>2
  <2> QED BY <2>1, <2>3
<1>9. taken[t] = 2 /\ i = 2
  BY <1>2, <1>3, <1>8
<1>10. NextRow(w) = UserRow(first) /\ NextRow(t) = UserRow(second)
  BY <1>2, <1>3, <1>4, <1>9
<1>11. first # second
  <2>1. holder[UserRow(first)] = t
    BY <1>2, <1>3, <1>4, <1>9 DEF LocksInv, HoldsWhatItTook
  <2>2. holder[UserRow(second)] = v /\ v # t
    BY <1>1, <1>10 DEF WaitsFor
  <2> QED BY <2>1, <2>2
<1>12. first < second
  BY <1>7, <1>11
<1> QED BY <1>7, <1>10, <1>12 DEF UserRow

\* Whoever disables an account and holds anything holds the row of the first
\* administrator, and waits only when there is one.
LEMMA DisableInCircle ==
    ASSUME LocksInv, NEW S \in SUBSET Transaction, CircularWait(S), NEW t \in S,
           call[t].service = "disable"
    PROVE  holder[UserRow(AdministratorsById[1])] = t
<1> DEFINE n == Len(AdministratorsById)
           admins == [i \in 1..n |-> UserRow(AdministratorsById[i])]
<1>1. PICK v \in S : WaitsFor(t, v)
  BY DEF CircularWait
<1>2. /\ Active(t) /\ taken[t] \in Nat /\ taken[t] # 0
      /\ taken[t] + 1 \in 1..Len(Plan(t))
  BY <1>1, WaitedForHolds, InCircleHoldsDashboard
<1>3. Plan(t) = Append(admins, UserRow(call[t].other))
  BY DEF Plan, Locks, DisableLocks
<1>4. n \in Nat /\ admins \in Seq({UserRow(u) : u \in User}) /\ Len(admins) = n
  BY RowLocksAssumption DEF RowLocksAssumption
<1>5. Len(Plan(t)) = n + 1
  <2> HIDE DEF admins
  <2> QED BY <1>3, <1>4
<1>6. n >= 1
  BY <1>2, <1>4, <1>5
<1>7. Plan(t)[1] = UserRow(AdministratorsById[1])
  <2>1. admins[1] = UserRow(AdministratorsById[1])
    BY <1>4, <1>6
  <2> HIDE DEF admins
  <2>2. Append(admins, UserRow(call[t].other))[1] = admins[1]
    BY <1>4, <1>6
  <2> QED BY <1>3, <2>1, <2>2
<1>8. holder[Plan(t)[1]] = t
  <2>1. 1 \in 1..taken[t]
    BY <1>2
  <2> QED BY <1>2, <2>1 DEF LocksInv, HoldsWhatItTook
<1> QED BY <1>7, <1>8

\* No circle is of transfers alone, or of disables alone.
LEMMA NoCircleOfOneSortedKind == LocksInv => SortedCallsNeverCircle
<1> SUFFICES ASSUME LocksInv, NEW S \in SUBSET Transaction, CircularWait(S),
                    NEW service \in {"transfer", "disable"},
                    \A t \in S : call[t].service = service
             PROVE  FALSE
  BY DEF SortedCallsNeverCircle
<1>0. S # {}
  BY DEF CircularWait
<1>1. CASE service = "transfer"
  <2> DEFINE awaited == {NextRow(t).user : t \in S}
  <2>1. \A t \in S : \E w \in S : /\ NextRow(t).user \in Nat /\ NextRow(w).user \in Nat
                                  /\ NextRow(w).user < NextRow(t).user
    <3> SUFFICES ASSUME NEW t \in S
                 PROVE  \E w \in S : /\ NextRow(t).user \in Nat /\ NextRow(w).user \in Nat
                                     /\ NextRow(w).user < NextRow(t).user
      OBVIOUS
    <3>1. PICK w \in S : WaitsFor(w, t)
      BY DEF CircularWait
    <3> QED BY <1>1, <3>1, TransferInCircle
  <2>2. awaited \in SUBSET Nat /\ awaited # {}
    BY <1>0, <2>1
  <2>3. PICK x \in awaited : \A y \in awaited : x <= y
    <3> HIDE DEF awaited
    <3> QED BY <2>2, LeastNatural
  <2> QED BY <2>1, <2>3
<1>2. CASE service = "disable"
  <2>1. PICK t \in S : TRUE
    BY <1>0
  <2>2. PICK v \in S : WaitsFor(t, v)
    BY <2>1 DEF CircularWait
  <2>3. v # t
    BY <2>2 DEF WaitsFor
  <2>4. /\ holder[UserRow(AdministratorsById[1])] = t
        /\ holder[UserRow(AdministratorsById[1])] = v
    BY <1>2, <2>1, DisableInCircle
  <2> QED BY <2>3, <2>4
<1> QED BY <1>1, <1>2

\* Transfers, which sort their two users, never wait for one another in a circle
\* of any length, nor do disables, which sort the administrators
\* (enhancements.py transfer_dashboard_ownership, authentication.py disable_user).
THEOREM SortedCallsNeverWaitInACircle == LockSpec => []SortedCallsNeverCircle
BY LocksInvariant, NoCircleOfOneSortedKind, PTL

\* A trigger finds its rows locked by its own transaction.
LEMMA ServicesLockTheirTriggersRows == LocksInv => TriggersNeverWait
<1> SUFFICES ASSUME LocksInv, NEW t \in Transaction, Writes(t),
                    NEW r \in TriggerLocks(call[t])
             PROVE  holder[r] = t
  BY DEF TriggersNeverWait
<1> DEFINE c == call[t]
<1>1. /\ Active(t) /\ taken[t] = Len(Plan(t)) /\ Passes(t)
      /\ \A i \in 1..Len(Plan(t)) : holder[Plan(t)[i]] = t
  BY DEF Writes, Plan, LocksInv, HoldsWhatItTook
<1>2. c.service \in {"grant", "revoke", "owner_change", "request_access", "resolve",
                     "transfer"}
  BY DEF TriggerLocks
<1>3. taken[t] >= LocksBeforeCheck(c) => Permitted(c)
  BY <1>1 DEF Passes
<1>4. CASE c.service = "grant"
  <2>1. Plan(t) = <<DashboardRow(c.dashboard), UserRow(c.actor), UserRow(c.other)>>
    BY <1>4 DEF Plan, Locks, GrantLocks
  <2>2. owner[c.dashboard] = c.actor
    BY <1>1, <1>3, <1>4, <2>1 DEF LocksBeforeCheck, Permitted
  <2>3. r \in {DashboardRow(c.dashboard), UserRow(c.actor)}
    BY <1>4, <2>2 DEF TriggerLocks
  <2> QED BY <1>1, <2>1, <2>3
<1>5. CASE c.service = "revoke"
  <2>1. Plan(t) = <<DashboardRow(c.dashboard), UserRow(c.actor),
                    GrantRow(c.dashboard, c.other)>>
    BY <1>5 DEF Plan, Locks, RevokeLocks
  <2>2. owner[c.dashboard] = c.actor
    BY <1>1, <1>3, <1>5, <2>1 DEF LocksBeforeCheck, Permitted
  <2>3. r \in {DashboardRow(c.dashboard), UserRow(c.actor)}
    BY <1>5, <2>2 DEF TriggerLocks
  <2> QED BY <1>1, <2>1, <2>3
<1>6. CASE c.service = "owner_change"
  <2>1. Plan(t) = <<DashboardRow(c.dashboard), UserRow(c.actor)>>
    BY <1>6 DEF Plan, Locks, OwnerLocks
  <2>2. r \in {DashboardRow(c.dashboard), UserRow(c.actor)}
    BY <1>6 DEF TriggerLocks
  <2> QED BY <1>1, <2>1, <2>2
<1>7. CASE c.service = "request_access"
  <2>1. Plan(t) = <<DashboardRow(c.dashboard), UserRow(owner[c.dashboard]),
                    UserRow(c.actor), RequestRow(c.dashboard, c.actor)>>
    BY <1>7 DEF Plan, Locks, RequestLocks
  <2>2. r \in {DashboardRow(c.dashboard), UserRow(owner[c.dashboard]), UserRow(c.actor)}
    BY <1>7 DEF TriggerLocks
  <2> QED BY <1>1, <2>1, <2>2
<1>8. CASE c.service = "resolve"
  <2>1. Plan(t) = <<DashboardRow(c.dashboard), UserRow(owner[c.dashboard]),
                    RequestRow(c.dashboard, c.other), UserRow(c.other),
                    UserRow(c.actor), GrantRow(c.dashboard, c.other)>>
    BY <1>8 DEF Plan, Locks, ResolveLocks
  <2>2. r \in {DashboardRow(c.dashboard), UserRow(owner[c.dashboard]), UserRow(c.other)}
    BY <1>8 DEF TriggerLocks
  <2> QED BY <1>1, <2>1, <2>2
<1>9. CASE c.service = "transfer"
  <2>1. Plan(t) = <<DashboardRow(c.dashboard), UserRow(Earlier(c.actor, c.other)),
                    UserRow(Later(c.actor, c.other)), GrantRow(c.dashboard, c.other),
                    RequestRow(c.dashboard, c.other)>>
    BY <1>9 DEF Plan, Locks, TransferLocks
  <2>2. owner[c.dashboard] = c.actor
    BY <1>1, <1>3, <1>9, <2>1 DEF LocksBeforeCheck, Permitted
  <2>3. r \in {DashboardRow(c.dashboard), UserRow(c.actor), UserRow(c.other)}
    BY <1>9, <2>2 DEF TriggerLocks
  <2>4. {c.actor, c.other} = {Earlier(c.actor, c.other), Later(c.actor, c.other)}
    BY DEF Earlier, Later
  <2>5. r \in {DashboardRow(c.dashboard), UserRow(Earlier(c.actor, c.other)),
               UserRow(Later(c.actor, c.other))}
    BY <2>3, <2>4
  <2> QED BY <1>1, <2>1, <2>5
<1> QED BY <1>2, <1>4, <1>5, <1>6, <1>7, <1>8, <1>9

\* When a service writes, it already has every row that the guard triggers of the
\* written tables lock.
THEOREM TriggersLockNothingNew == LockSpec => []TriggersNeverWait
BY LocksInvariant, ServicesLockTheirTriggersRows, PTL
=============================================================================
