------------------------------ MODULE Analytics ------------------------------
(***************************************************************************)
(* From captured opens to rollups: the raw rows that published views leave *)
(* (capture_authorized_open, whose guards are in Rendering), and the job   *)
(* process_authorized_open_analytics, which counts them in bounded batches *)
(* and deletes them after their retention (core/analytics.py).             *)
(*                                                                         *)
(* A row takes its id from a sequence when it is inserted and its time     *)
(* from an earlier statement; it is visible when its view commits, in any  *)
(* order.  Each batch is one durable transaction that first locks the      *)
(* checkpoint row, so batches are atomic even when two jobs overlap; a job *)
(* may die between any two of them.  Audit rows, the read queries and the  *)
(* job's report are left out.                                              *)
(*                                                                         *)
(* An operator named <definition>_<Slip> is the definition with a plausible *)
(* mistake in it.  No specification uses it: it shows that a property would *)
(* notice the mistake.                                                      *)
(***************************************************************************)
EXTENDS Naturals, FiniteSets

CONSTANTS Dashboard, Viewer, Job,
          MaxId,        \* bound on the ids of opens
          LastOpen,     \* bound on the time at which an open is captured
          MaxTime,      \* bound on the clock
          DayLength,    \* time units in a calendar day
          Retention,    \* AUTHORIZED_OPEN_RETENTION_DAYS
          Skew,         \* how far the database's clock is behind the job's
          BatchSize, MaxBatches,   \* the command's options
          NoDashboard, NoViewer

ASSUME AnalyticsAssumption ==
    /\ {MaxId, LastOpen, Retention, Skew} \subseteq Nat
    /\ {MaxTime, DayLength, BatchSize, MaxBatches} \subseteq Nat \ {0}
    /\ NoDashboard \notin Dashboard
    /\ NoViewer \notin Viewer

VARIABLES open,         \* per id: its row and what became of it
          next_id,      \* the sequence
          checkpoint,   \* last_completed_open_id, 0 before the row exists
          daily,        \* DashboardOpenDaily: counts per dashboard and day
          summary,      \* DashboardViewerOpenSummary per dashboard and viewer
          snapshot,     \* DashboardOpenSnapshot per dashboard
          job,          \* the runs of the command
          now           \* the application's clock

vars == <<open, next_id, checkpoint, daily, summary, snapshot, job, now>>
rollupVars == <<daily, summary, snapshot>>

Id == 1..MaxId
Time == 0..MaxTime
Day == {t \div DayLength : t \in Time}

\* "deleted" rows are gone from the table; their record only keeps history.
Unused == [stage |-> "unused", dashboard |-> NoDashboard, viewer |-> NoViewer,
           opened_at |-> 0]
NoSummary == [count |-> 0, first |-> 0, last |-> 0]
NoSnapshot == [count |-> 0, last |-> 0, through |-> 0]
IdleJob == [pc |-> "idle", captured_at |-> 0, batches |-> 0]

Init == /\ open = [i \in Id |-> Unused]
        /\ next_id = 1
        /\ checkpoint = 0
        /\ daily = [d \in Dashboard |-> [y \in Day |-> 0]]
        /\ summary = [d \in Dashboard |-> [u \in Viewer |-> NoSummary]]
        /\ snapshot = [d \in Dashboard |-> NoSnapshot]
        /\ job = [j \in Job |-> IdleJob]
        /\ now = 1

----------------------------------------------------------------------------
\* Published views.  opened_at is the authorization's created_at.

insert_open(d, u, t) ==
    /\ next_id \in Id
    /\ now <= LastOpen
    /\ now - t \in {0, 1}
    /\ open' = [open EXCEPT ![next_id] = [stage |-> "inserted", dashboard |-> d,
                                          viewer |-> u, opened_at |-> t]]
    /\ next_id' = next_id + 1
    /\ UNCHANGED <<checkpoint, rollupVars, job, now>>

\* The view's transaction ends; a rolled-back id is not used again.
end_open(i, stage) ==
    /\ open[i].stage = "inserted"
    /\ open' = [open EXCEPT ![i].stage = stage]
    /\ UNCHANGED <<next_id, checkpoint, rollupVars, job, now>>

----------------------------------------------------------------------------
\* ORDER BY opened_at, id LIMIT BatchSize
Precedes(i, j) == \/ open[i].opened_at < open[j].opened_at
                  \/ open[i].opened_at = open[j].opened_at /\ i < j
FirstRows(rows) ==
    {i \in rows : Cardinality({j \in rows : Precedes(j, i)}) < BatchSize}

Uncounted_AboveCheckpoint(through) ==
    {i \in Id : /\ open[i].stage = "pending"
                /\ open[i].opened_at <= through
                /\ i > checkpoint}
Uncounted_AlsoCounted(through) ==
    {i \in Id : /\ open[i].stage \in {"pending", "aggregated"}
                /\ open[i].opened_at <= through}
Uncounted(through) ==
    {i \in Id : open[i].stage = "pending" /\ open[i].opened_at <= through}

\* The rows of a batch that concern one dashboard, one day, one viewer.
Of(rows, d) == {i \in rows : open[i].dashboard = d}
OfDay(rows, d, y) == {i \in Of(rows, d) : open[i].opened_at \div DayLength = y}
OfViewer(rows, d, u) == {i \in Of(rows, d) : open[i].viewer = u}

Times(rows) == {open[i].opened_at : i \in rows}
Earliest(times) == CHOOSE t \in times : \A s \in times : t <= s
Latest(times) == CHOOSE t \in times : \A s \in times : s <= t

Summed_Replaces(s, rows) ==
    IF rows = {} THEN s ELSE [count |-> s.count + Cardinality(rows),
                              first |-> Earliest(Times(rows)),
                              last |-> Latest(Times(rows))]
\* A summary row after the events of a batch; the first batch creates it.
Summed(s, rows) ==
    IF rows = {} THEN s
    ELSE [count |-> s.count + Cardinality(rows),
          first |-> Earliest(Times(rows) \cup (IF s.count = 0 THEN {} ELSE {s.first})),
          last |-> Latest(Times(rows) \cup {s.last})]

Snapped(s, rows) ==
    IF rows = {} THEN s
    ELSE [count |-> s.count + Cardinality(rows),
          last |-> Latest(Times(rows) \cup {s.last}),
          through |-> Latest(rows \cup {s.through})]

Advanced(rows) == Latest(rows \cup {checkpoint})

\* aggregate_authorized_opens
Count(rows) ==
    /\ daily' = [d \in Dashboard |->
                    [y \in Day |-> daily[d][y] + Cardinality(OfDay(rows, d, y))]]
    /\ summary' = [d \in Dashboard |->
                      [u \in Viewer |-> Summed(summary[d][u], OfViewer(rows, d, u))]]
    /\ snapshot' = [d \in Dashboard |-> Snapped(snapshot[d], Of(rows, d))]
    /\ open' = [i \in Id |-> IF i \in rows THEN [open[i] EXCEPT !.stage = "aggregated"]
                                           ELSE open[i]]
    /\ checkpoint' = IF rows = {} THEN checkpoint ELSE Advanced(rows)

\* A full batch asks for another one, up to the run's ceiling.
NextStage(run, rows, pc) ==
    IF Cardinality(rows) = BatchSize /\ run.batches + 1 < MaxBatches
    THEN [run EXCEPT !.batches = @ + 1]
    ELSE IF pc = "idle" THEN IdleJob
                        ELSE [run EXCEPT !.pc = pc, !.batches = 0]
ContinueWith(j, rows, pc) == job' = [job EXCEPT ![j] = NextStage(job[j], rows, pc)]

job_starts(j) ==
    /\ job[j].pc = "idle"
    /\ job' = [job EXCEPT ![j] = [pc |-> "aggregate", captured_at |-> now,
                                  batches |-> 0]]
    /\ UNCHANGED <<open, next_id, checkpoint, rollupVars, now>>

aggregate_authorized_opens(j) ==
    /\ job[j].pc = "aggregate"
    /\ LET rows == FirstRows(Uncounted(job[j].captured_at)) IN
       Count(rows) /\ ContinueWith(j, rows, "purge")
    /\ UNCHANGED <<next_id, now>>

\* Before the retention cutoff, whether counted or not.
Expired(cutoff) ==
    {i \in Id : /\ open[i].stage \in {"pending", "aggregated"}
                /\ open[i].opened_at + Retention < cutoff}

Removable(rows) == {i \in rows : open[i].stage = "aggregated" /\ i <= checkpoint}

\* The delete trigger AGORA_AUTH_OPEN_GUARD, by the database's clock.
RetentionOver(i) == open[i].opened_at + Retention + Skew <= now

purge_authorized_opens(j) ==
    LET rows == Removable(FirstRows(Expired(job[j].captured_at))) IN
    /\ job[j].pc = "purge"
    /\ \A i \in rows : RetentionOver(i)
    /\ open' = [i \in Id |-> IF i \in rows THEN [open[i] EXCEPT !.stage = "deleted"]
                                           ELSE open[i]]
    /\ ContinueWith(j, rows, "idle")
    /\ UNCHANGED <<next_id, checkpoint, rollupVars, now>>

\* One refused row rolls the whole batch back and ends the run.
purge_refused(j) ==
    /\ job[j].pc = "purge"
    /\ \E i \in Removable(FirstRows(Expired(job[j].captured_at))) : ~RetentionOver(i)
    /\ job' = [job EXCEPT ![j] = IdleJob]
    /\ UNCHANGED <<open, next_id, checkpoint, rollupVars, now>>

job_dies(j) == /\ job[j].pc # "idle"
               /\ job' = [job EXCEPT ![j] = IdleJob]
               /\ UNCHANGED <<open, next_id, checkpoint, rollupVars, now>>

Tick == /\ now < MaxTime
        /\ now' = now + 1
        /\ UNCHANGED <<open, next_id, checkpoint, rollupVars, job>>

View == \/ \E d \in Dashboard, u \in Viewer, t \in Time : insert_open(d, u, t)
        \/ \E i \in Id, stage \in {"pending", "rolled_back"} : end_open(i, stage)

RunJob(j) == \/ job_starts(j)
             \/ aggregate_authorized_opens(j)
             \/ purge_authorized_opens(j)
             \/ purge_refused(j)
             \/ job_dies(j)

Next == View \/ (\E j \in Job : RunJob(j)) \/ Tick

Spec == Init /\ [][Next]_vars

\* docs/deployment.md schedules the job at least once per minute.  Runs may die,
\* but not all of them before they reach a batch; time passes.  Nothing is
\* assumed of the views.
FairSpec == /\ Spec
            /\ WF_vars(Tick)
            /\ WF_vars(\E j \in Job : job_starts(j))
            /\ SF_vars(\E j \in Job : aggregate_authorized_opens(j))
            /\ SF_vars(\E j \in Job : purge_authorized_opens(j))

----------------------------------------------------------------------------
Stages == {"unused", "inserted", "pending", "rolled_back", "aggregated", "deleted"}
Counted == {i \in Id : open[i].stage \in {"aggregated", "deleted"}}

Types ==
    /\ open \in [Id -> [stage : Stages, dashboard : Dashboard \cup {NoDashboard},
                        viewer : Viewer \cup {NoViewer}, opened_at : Time]]
    /\ next_id \in 1..(MaxId + 1)
    /\ checkpoint \in 0..MaxId
    /\ daily \in [Dashboard -> [Day -> Nat]]
    /\ summary \in [Dashboard -> [Viewer -> [count : Nat, first : Time, last : Time]]]
    /\ snapshot \in [Dashboard -> [count : Nat, last : Time, through : 0..MaxId]]
    /\ job \in [Job -> [pc : {"idle", "aggregate", "purge"}, captured_at : Time,
                        batches : 0..(MaxBatches - 1)]]
    /\ now \in Time

\* Types; the sequence is ahead of every id in use, and the checkpoint is not
\* behind any counted row (AnalyticsPipelineCheckpoint.save never lets it go
\* back), or the row could never be deleted.
TypeOK == /\ Types
          /\ \A i \in Id : open[i].stage = "unused" <=> i >= next_id
          /\ \A i \in Counted : i <= checkpoint

\* Every count is exact: an open that was counted is counted once in its day,
\* its viewer's summary and its dashboard's snapshot, whether or not its row is
\* still there, and one that was not is in none ("retries are idempotent",
\* docs/deployment.md).
CountedOnce ==
    \A d \in Dashboard :
       /\ snapshot[d].count = Cardinality(Of(Counted, d))
       /\ \A y \in Day : daily[d][y] = Cardinality(OfDay(Counted, d, y))
       /\ \A u \in Viewer :
             summary[d][u].count = Cardinality(OfViewer(Counted, d, u))

\* first_opened_at and last_opened_at are those of the viewer's counted opens
\* although batches arrive out of time order, and captured_through_open_id is
\* the largest id counted for the dashboard.
ViewerWindow ==
    \A d \in Dashboard :
       /\ Of(Counted, d) # {} =>
             /\ snapshot[d].through = Latest(Of(Counted, d))
             /\ snapshot[d].last = Latest(Times(Of(Counted, d)))
       /\ \A u \in Viewer :
             LET times == Times(OfViewer(Counted, d, u)) IN
             times # {} => /\ summary[d][u].first = Earliest(times)
                           /\ summary[d][u].last = Latest(times)

\* Every committed open is counted and deleted in the end, also one whose view
\* committed after later ids had been counted.
EventuallyPurged ==
    \A i \in Id : (open[i].stage = "pending") ~> (open[i].stage = "deleted")
=============================================================================
