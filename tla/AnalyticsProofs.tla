--------------------------- MODULE AnalyticsProofs ---------------------------
(***************************************************************************)
(* The counts of the analytics job are exact for any number of opens, any  *)
(* batch size and any clock.  CountedOnce is inductive beside TypeOK: a    *)
(* batch adds rows that were pending, hence disjoint from those counted    *)
(* before, and every rollup grows by the cardinality of its share.         *)
(***************************************************************************)
EXTENDS Analytics, FiniteSetTheorems, WellFoundedInduction, TLAPS

\* The bounds are natural numbers.
LEMMA Bounds == /\ MaxId \in Nat /\ LastOpen \in Nat /\ MaxTime \in Nat \ {0}
                /\ Retention \in Nat /\ Skew \in Nat
                /\ DayLength \in Nat \ {0}
                /\ BatchSize \in Nat \ {0}
                /\ MaxBatches \in Nat \ {0}
BY AnalyticsAssumption

\* Inclusion is well-founded on a bounded set of numbers.
LEMMA InclusionWellFounded ==
    ASSUME NEW n \in Nat, NEW S \in SUBSET (0..n)
    PROVE  IsWellFoundedOn(StrictSubsetOrdering(S), SUBSET S)
<1>1. IsFiniteSet(0..n)
  BY FS_Interval
<1>2. IsFiniteSet(S)
  BY <1>1, FS_Subset
<1> QED BY <1>2, FS_StrictSubsetOrderingWellFounded, FS_FiniteSubsetsOfFinite

\* A finite non-empty set of numbers has a greatest element: the smallest of
\* its sets {y \in S : y >= x} has only one.
LEMMA LatestFacts ==
    ASSUME NEW n \in Nat, NEW S \in SUBSET (0..n), S # {}
    PROVE  Latest(S) \in S /\ \A s \in S : s <= Latest(S)
<1> DEFINE Above(x) == {y \in S : x <= y}
           U == {Above(x) : x \in S}
<1>1. IsWellFoundedOn(StrictSubsetOrdering(S), SUBSET S)
  BY InclusionWellFounded
<1>3. U \subseteq SUBSET S /\ U # {}
  OBVIOUS
<1>4. PICK m \in U : \A y \in U : <<y, m>> \notin StrictSubsetOrdering(S)
  <2> HIDE DEF U
  <2> QED BY <1>1, <1>3, WFMin
<1>5. PICK x \in S : m = Above(x)
  OBVIOUS
<1>6. \A s \in S : s <= x
  <2> SUFFICES ASSUME NEW s \in S, ~(s <= x) PROVE FALSE
    OBVIOUS
  <2>0. S \subseteq Int
    OBVIOUS
  <2>a. (\A y \in S : s <= y => x <= y) /\ x <= x /\ ~(s <= x)
    BY <2>0
  <2>1. Above(s) \subseteq Above(x) /\ x \in Above(x) /\ x \notin Above(s)
    BY <2>a
  <2>2. <<Above(s), Above(x)>> \in StrictSubsetOrdering(S)
    BY <2>1 DEF StrictSubsetOrdering
  <2> QED BY <1>4, <1>5, <2>2
<1> QED BY <1>6 DEF Latest

\* And a least one.
LEMMA EarliestFacts ==
    ASSUME NEW n \in Nat, NEW S \in SUBSET (0..n), S # {}
    PROVE  Earliest(S) \in S /\ \A s \in S : Earliest(S) <= s
<1> DEFINE Below(x) == {y \in S : y <= x}
           U == {Below(x) : x \in S}
<1>1. IsWellFoundedOn(StrictSubsetOrdering(S), SUBSET S)
  BY InclusionWellFounded
<1>3. U \subseteq SUBSET S /\ U # {}
  OBVIOUS
<1>4. PICK m \in U : \A y \in U : <<y, m>> \notin StrictSubsetOrdering(S)
  <2> HIDE DEF U
  <2> QED BY <1>1, <1>3, WFMin
<1>5. PICK x \in S : m = Below(x)
  OBVIOUS
<1>6. \A s \in S : x <= s
  <2> SUFFICES ASSUME NEW s \in S, ~(x <= s) PROVE FALSE
    OBVIOUS
  <2>0. S \subseteq Int
    OBVIOUS
  <2>a. (\A y \in S : y <= s => y <= x) /\ x <= x /\ ~(x <= s)
    BY <2>0
  <2>1. Below(s) \subseteq Below(x) /\ x \in Below(x) /\ x \notin Below(s)
    BY <2>a
  <2>2. <<Below(s), Below(x)>> \in StrictSubsetOrdering(S)
    BY <2>1 DEF StrictSubsetOrdering
  <2> QED BY <1>4, <1>5, <2>2
<1> QED BY <1>6 DEF Earliest

\* Sets of ids are finite, and disjoint ones add up.
LEMMA IdSets ==
    /\ \A A \in SUBSET Id : IsFiniteSet(A) /\ Cardinality(A) \in Nat
    /\ \A A, B \in SUBSET Id :
          A \cap B = {} => Cardinality(A \cup B) = Cardinality(A) + Cardinality(B)
<1>1. IsFiniteSet(Id)
  <2>1. MaxId \in Int
    BY Bounds
  <2> QED BY <2>1, FS_Interval DEF Id
<1>2. \A A \in SUBSET Id : IsFiniteSet(A) /\ Cardinality(A) \in Nat
  BY <1>1, FS_Subset, FS_CardinalityType
<1>3. ASSUME NEW A \in SUBSET Id, NEW B \in SUBSET Id, A \cap B = {}
      PROVE  Cardinality(A \cup B) = Cardinality(A) + Cardinality(B)
  <2>1. Cardinality(A \cup B) = Cardinality(A) + Cardinality(B) - Cardinality({})
    BY <1>2, <1>3, FS_Union
  <2> QED BY <1>2, <2>1, FS_EmptySet
<1> QED BY <1>2, <1>3

----------------------------------------------------------------------------
\* A batch counts committed rows that no batch counted before.
LEMMA BatchFacts ==
    ASSUME TypeOK, NEW t
    PROVE  LET rows == FirstRows(Uncounted(t)) IN
           /\ rows \in SUBSET Id
           /\ rows \cap Counted = {}
           /\ \A i \in rows : open[i].stage = "pending" /\ i < next_id
<1> DEFINE rows == FirstRows(Uncounted(t))
<1>1. rows \subseteq Uncounted(t)
  BY DEF FirstRows
<1>2. \A i \in rows : i \in Id /\ open[i].stage = "pending"
  BY <1>1 DEF Uncounted
<1>3. \A i \in rows : i \notin Counted
  BY <1>2 DEF Counted
<1>4. \A i \in rows : i < next_id
  <2>1. \A i \in rows : ~(i >= next_id) /\ i \in Int
    BY <1>2 DEF TypeOK, Id
  <2>2. next_id \in Int
    BY Bounds DEF TypeOK, Types
  <2> QED BY <2>1, <2>2
<1> HIDE DEF rows
<1>5. rows \in SUBSET Id /\ rows \cap Counted = {}
  BY <1>2, <1>3
<1> QED BY <1>2, <1>4, <1>5 DEF rows

\* What a batch makes of the rows: they move to "aggregated", and are counted
\* from now on beside those counted before.
LEMMA CountFacts ==
    ASSUME TypeOK, NEW rows \in SUBSET Id, Count(rows)
    PROVE  /\ open' \in [Id -> [stage : Stages, dashboard : Dashboard \cup {NoDashboard},
                                viewer : Viewer \cup {NoViewer}, opened_at : Time]]
           /\ Counted' = Counted \cup rows
           /\ \A i \in Id : /\ open'[i].dashboard = open[i].dashboard
                            /\ open'[i].viewer = open[i].viewer
                            /\ open'[i].opened_at = open[i].opened_at
                            /\ i \notin rows => open'[i].stage = open[i].stage
                            /\ i \in rows => open'[i].stage = "aggregated"
<1>1. open' = [i \in Id |-> IF i \in rows THEN [open[i] EXCEPT !.stage = "aggregated"]
                                          ELSE open[i]]
  BY DEF Count
<1>2. \A i \in Id : open[i] \in [stage : Stages, dashboard : Dashboard \cup {NoDashboard},
                                 viewer : Viewer \cup {NoViewer}, opened_at : Time]
  BY DEF TypeOK, Types
<1>3. \A i \in Id : /\ open'[i] \in [stage : Stages, dashboard : Dashboard \cup {NoDashboard},
                                     viewer : Viewer \cup {NoViewer}, opened_at : Time]
                    /\ open'[i].dashboard = open[i].dashboard
                    /\ open'[i].viewer = open[i].viewer
                    /\ open'[i].opened_at = open[i].opened_at
                    /\ i \notin rows => open'[i].stage = open[i].stage
                    /\ i \in rows => open'[i].stage = "aggregated"
  BY <1>1, <1>2 DEF Stages
<1>4. Counted' = Counted \cup rows
  BY <1>3 DEF Counted
<1>5. open' \in [Id -> [stage : Stages, dashboard : Dashboard \cup {NoDashboard},
                        viewer : Viewer \cup {NoViewer}, opened_at : Time]]
  BY <1>1, <1>3
<1> QED BY <1>3, <1>4, <1>5

\* Times are numbers up to MaxTime.
LEMMA TimesType ==
    ASSUME TypeOK, NEW rows \in SUBSET Id
    PROVE  Times(rows) \in SUBSET (0..MaxTime)
BY DEF Times, TypeOK, Types, Time

\* The checkpoint moves to or past every row of the batch, never back.
LEMMA AdvancedFacts ==
    ASSUME TypeOK, NEW rows \in SUBSET Id, rows # {}
    PROVE  /\ Advanced(rows) \in 0..MaxId
           /\ checkpoint <= Advanced(rows)
           /\ \A i \in rows : i <= Advanced(rows)
<1>1. rows \cup {checkpoint} \in SUBSET (0..MaxId)
  BY Bounds DEF TypeOK, Types, Id
<1>2. rows \cup {checkpoint} # {}
  OBVIOUS
<1>3. /\ Latest(rows \cup {checkpoint}) \in rows \cup {checkpoint}
      /\ \A s \in rows \cup {checkpoint} : s <= Latest(rows \cup {checkpoint})
  BY <1>1, <1>2, Bounds, LatestFacts
<1> QED BY <1>1, <1>3 DEF Advanced

\* A summary row keeps its type.
LEMMA SummedType ==
    ASSUME TypeOK, NEW rows \in SUBSET Id,
           NEW s \in [count : Nat, first : Time, last : Time]
    PROVE  /\ Summed(s, rows) \in [count : Nat, first : Time, last : Time]
           /\ Summed(s, rows).count = s.count + Cardinality(rows)
<1>1. Cardinality(rows) \in Nat
  BY IdSets
<1>2. CASE rows = {}
  BY <1>2, FS_EmptySet DEF Summed
<1>3. CASE rows # {}
  <2> DEFINE E == Times(rows) \cup (IF s.count = 0 THEN {} ELSE {s.first})
             L == Times(rows) \cup {s.last}
  <2>1. E \in SUBSET (0..MaxTime) /\ L \in SUBSET (0..MaxTime)
    BY TimesType DEF Time
  <2>2. E # {} /\ L # {}
    BY <1>3 DEF Times
  <2> HIDE DEF E, L
  <2>3. Earliest(E) \in Time /\ Latest(L) \in Time
    BY <2>1, <2>2, Bounds, EarliestFacts, LatestFacts DEF Time
  <2>4. Summed(s, rows) = [count |-> s.count + Cardinality(rows),
                           first |-> Earliest(E), last |-> Latest(L)]
    BY <1>3 DEF Summed, E, L
  <2> QED BY <1>1, <2>3, <2>4
<1> QED BY <1>2, <1>3

\* So does a snapshot row.
LEMMA SnappedType ==
    ASSUME TypeOK, NEW rows \in SUBSET Id,
           NEW s \in [count : Nat, last : Time, through : 0..MaxId]
    PROVE  /\ Snapped(s, rows) \in [count : Nat, last : Time, through : 0..MaxId]
           /\ Snapped(s, rows).count = s.count + Cardinality(rows)
<1>1. Cardinality(rows) \in Nat
  BY IdSets
<1>2. CASE rows = {}
  BY <1>2, FS_EmptySet DEF Snapped
<1>3. CASE rows # {}
  <2> DEFINE T == rows \cup {s.through}
             L == Times(rows) \cup {s.last}
  <2>a. s.through \in 0..MaxId
    OBVIOUS
  <2>b. Id \subseteq 0..MaxId
    BY Bounds DEF Id
  <2>0. T \in SUBSET (0..MaxId)
    BY <2>a, <2>b
  <2>1. T \in SUBSET (0..MaxId) /\ L \in SUBSET (0..MaxTime)
    BY <2>0, TimesType DEF Time
  <2>2. T # {} /\ L # {}
    OBVIOUS
  <2> HIDE DEF T, L
  <2>3. Latest(T) \in 0..MaxId /\ Latest(L) \in Time
    BY <2>1, <2>2, Bounds, LatestFacts DEF Time
  <2>4. Snapped(s, rows) = [count |-> s.count + Cardinality(rows),
                            last |-> Latest(L), through |-> Latest(T)]
    BY <1>3 DEF Snapped, T, L
  <2> QED BY <1>1, <2>3, <2>4
<1> QED BY <1>2, <1>3

\* The run's record keeps its type.
LEMMA ContinueType ==
    ASSUME Types, NEW j \in Job, NEW rows, NEW pc \in {"purge", "idle"},
           ContinueWith(j, rows, pc)
    PROVE  job' \in [Job -> [pc : {"idle", "aggregate", "purge"}, captured_at : Time,
                             batches : 0..(MaxBatches - 1)]]
<1> DEFINE R == [pc : {"idle", "aggregate", "purge"}, captured_at : Time,
                 batches : 0..(MaxBatches - 1)]
<1>1. job \in [Job -> R] /\ job[j] \in R
  BY DEF Types
<1>2. IdleJob \in R
  BY Bounds DEF IdleJob, Time
<1>3. job[j].batches + 1 < MaxBatches => [job[j] EXCEPT !.batches = @ + 1] \in R
  BY <1>1, Bounds
<1>4. [job[j] EXCEPT !.pc = pc, !.batches = 0] \in R
  <2>1. 0 \in 0..(MaxBatches - 1)
    BY Bounds
  <2> QED BY <1>1, <2>1
<1> HIDE DEF R
<1>5. NextStage(job[j], rows, pc) \in R
  BY <1>1, <1>2, <1>3, <1>4 DEF NextStage
<1>6. job' \in [Job -> R]
  BY <1>1, <1>5 DEF ContinueWith
<1> QED BY <1>6 DEF R

----------------------------------------------------------------------------
\* Views: the sequence hands out the next id, a row is seen when it commits.
LEMMA InsertType ==
    ASSUME TypeOK, NEW d \in Dashboard, NEW u \in Viewer, NEW t \in Time,
           insert_open(d, u, t)
    PROVE  TypeOK' /\ Counted' = Counted
<1> DEFINE row == [stage |-> "inserted", dashboard |-> d, viewer |-> u, opened_at |-> t]
<1>1. /\ next_id \in Id /\ next_id' = next_id + 1
      /\ open' = [open EXCEPT ![next_id] = row]
      /\ UNCHANGED <<checkpoint, daily, summary, snapshot, job, now>>
  BY DEF insert_open, rollupVars
<1>2. row \in [stage : Stages, dashboard : Dashboard \cup {NoDashboard},
               viewer : Viewer \cup {NoViewer}, opened_at : Time]
  BY DEF Stages
<1> HIDE DEF row
<1>3. open' \in [Id -> [stage : Stages, dashboard : Dashboard \cup {NoDashboard},
                        viewer : Viewer \cup {NoViewer}, opened_at : Time]]
  BY <1>1, <1>2 DEF TypeOK, Types
<1>4. next_id' \in 1..(MaxId + 1)
  BY <1>1, Bounds DEF Id
<1>5. /\ open'[next_id].stage = "inserted" /\ open[next_id].stage = "unused"
      /\ \A i \in Id : i # next_id => open'[i] = open[i]
  <2>1. next_id >= next_id
    BY <1>1, Bounds DEF Id
  <2> QED BY <1>1, <2>1 DEF TypeOK, Types, row
<1>6. Counted' = Counted
  BY <1>5 DEF Counted
<1>7. \A i \in Id : open'[i].stage = "unused" <=> i >= next_id'
  <2> TAKE i \in Id
  <2>1. i \in Int /\ next_id \in Int
    BY <1>1, Bounds DEF Id
  <2>2. open[i].stage = "unused" <=> i >= next_id
    BY DEF TypeOK
  <2> QED BY <1>1, <1>5, <2>1, <2>2
<1> QED BY <1>1, <1>3, <1>4, <1>6, <1>7 DEF TypeOK, Types

\* The end of a view's transaction moves its row to its last uncounted stage.
LEMMA EndType ==
    ASSUME TypeOK, NEW i \in Id, NEW stage \in {"pending", "rolled_back"},
           end_open(i, stage)
    PROVE  TypeOK' /\ Counted' = Counted
<1>1. /\ open[i].stage = "inserted"
      /\ open' = [open EXCEPT ![i].stage = stage]
      /\ UNCHANGED <<next_id, checkpoint, daily, summary, snapshot, job, now>>
  BY DEF end_open, rollupVars
<1>2. open' \in [Id -> [stage : Stages, dashboard : Dashboard \cup {NoDashboard},
                        viewer : Viewer \cup {NoViewer}, opened_at : Time]]
  <2>1. open[i] \in [stage : Stages, dashboard : Dashboard \cup {NoDashboard},
                     viewer : Viewer \cup {NoViewer}, opened_at : Time]
    BY DEF TypeOK, Types
  <2>2. stage \in Stages
    BY DEF Stages
  <2>3. [open[i] EXCEPT !.stage = stage]
            \in [stage : Stages, dashboard : Dashboard \cup {NoDashboard},
                 viewer : Viewer \cup {NoViewer}, opened_at : Time]
    BY <2>1, <2>2
  <2> QED BY <1>1, <2>3 DEF TypeOK, Types
<1>3. open'[i].stage = stage /\ \A k \in Id : k # i => open'[k] = open[k]
  BY <1>1 DEF TypeOK, Types
<1>4. Counted' = Counted
  BY <1>1, <1>3 DEF Counted
<1>5. \A k \in Id : open'[k].stage = "unused" <=> k >= next_id'
  <2> TAKE k \in Id
  <2>1. open[k].stage = "unused" <=> k >= next_id
    BY DEF TypeOK
  <2> QED BY <1>1, <1>3, <2>1
<1> QED BY <1>1, <1>2, <1>4, <1>5 DEF TypeOK, Types

\* A batch of the aggregation.
LEMMA AggregateType ==
    ASSUME TypeOK, NEW j \in Job, aggregate_authorized_opens(j)
    PROVE  TypeOK'
<1> DEFINE rows == FirstRows(Uncounted(job[j].captured_at))
<1>1. /\ Count(rows) /\ ContinueWith(j, rows, "purge")
      /\ UNCHANGED <<next_id, now>>
  BY DEF aggregate_authorized_opens
<1>2. /\ rows \in SUBSET Id
      /\ \A i \in rows : open[i].stage = "pending" /\ i < next_id
  BY BatchFacts
<1> HIDE DEF rows
<1>3. /\ open' \in [Id -> [stage : Stages, dashboard : Dashboard \cup {NoDashboard},
                           viewer : Viewer \cup {NoViewer}, opened_at : Time]]
      /\ Counted' = Counted \cup rows
      /\ \A i \in Id : /\ i \notin rows => open'[i].stage = open[i].stage
                       /\ i \in rows => open'[i].stage = "aggregated"
  BY <1>1, <1>2, CountFacts
<1>4. /\ checkpoint \in 0..MaxId /\ checkpoint' \in 0..MaxId
      /\ checkpoint <= checkpoint' /\ \A i \in rows : i <= checkpoint'
  <2>1. checkpoint \in 0..MaxId
    BY DEF TypeOK, Types
  <2>2. CASE rows = {}
    BY <1>1, <2>1, <2>2, Bounds DEF Count
  <2>3. CASE rows # {}
    BY <1>1, <1>2, <2>1, <2>3, AdvancedFacts DEF Count
  <2> QED BY <2>2, <2>3
<1>5. daily' \in [Dashboard -> [Day -> Nat]]
  <2>1. \A d \in Dashboard, y \in Day : Cardinality(OfDay(rows, d, y)) \in Nat
    BY <1>2, IdSets DEF OfDay, Of
  <2>2. \A d \in Dashboard, y \in Day : daily[d][y] \in Nat
    BY DEF TypeOK, Types
  <2>3. daily' = [d \in Dashboard |->
                     [y \in Day |-> daily[d][y] + Cardinality(OfDay(rows, d, y))]]
    BY <1>1 DEF Count
  <2> QED BY <2>1, <2>2, <2>3
<1>6. summary' \in [Dashboard -> [Viewer -> [count : Nat, first : Time, last : Time]]]
  <2>1. \A d \in Dashboard, u \in Viewer :
           Summed(summary[d][u], OfViewer(rows, d, u))
               \in [count : Nat, first : Time, last : Time]
    <3> TAKE d \in Dashboard, u \in Viewer
    <3>1. summary[d][u] \in [count : Nat, first : Time, last : Time]
      BY DEF TypeOK, Types
    <3>2. OfViewer(rows, d, u) \in SUBSET Id
      BY <1>2 DEF OfViewer, Of
    <3> QED BY <3>1, <3>2, SummedType
  <2>2. summary' = [d \in Dashboard |->
                       [u \in Viewer |-> Summed(summary[d][u], OfViewer(rows, d, u))]]
    BY <1>1 DEF Count
  <2> QED BY <2>1, <2>2
<1>7. snapshot' \in [Dashboard -> [count : Nat, last : Time, through : 0..MaxId]]
  <2>1. \A d \in Dashboard : Snapped(snapshot[d], Of(rows, d))
                                 \in [count : Nat, last : Time, through : 0..MaxId]
    <3> TAKE d \in Dashboard
    <3>1. snapshot[d] \in [count : Nat, last : Time, through : 0..MaxId]
      BY DEF TypeOK, Types
    <3>2. Of(rows, d) \in SUBSET Id
      BY <1>2 DEF Of
    <3> QED BY <3>1, <3>2, SnappedType
  <2>2. snapshot' = [d \in Dashboard |-> Snapped(snapshot[d], Of(rows, d))]
    BY <1>1 DEF Count
  <2> QED BY <2>1, <2>2
<1>8. job' \in [Job -> [pc : {"idle", "aggregate", "purge"}, captured_at : Time,
                        batches : 0..(MaxBatches - 1)]]
  BY <1>1, ContinueType DEF TypeOK
<1>9. \A i \in Id : open'[i].stage = "unused" <=> i >= next_id'
  <2> TAKE i \in Id
  <2>1. open[i].stage = "unused" <=> i >= next_id
    BY DEF TypeOK
  <2>2. i \in rows => open[i].stage = "pending"
    BY <1>2
  <2> QED BY <1>1, <1>3, <2>1, <2>2
<1>10. \A i \in Counted' : i <= checkpoint'
  <2> TAKE i \in Counted'
  <2>1. CASE i \in rows
    BY <1>4, <2>1
  <2>2. CASE i \in Counted
    <3>1. i \in Int /\ i <= checkpoint
      BY <2>2, Bounds DEF TypeOK, Counted, Id
    <3>2. checkpoint \in Int /\ checkpoint' \in Int
      BY <1>4, Bounds
    <3> QED BY <1>4, <3>1, <3>2
  <2> QED BY <1>3, <2>1, <2>2
<1> QED BY <1>1, <1>3, <1>4, <1>5, <1>6, <1>7, <1>8, <1>9, <1>10 DEF TypeOK, Types

\* A batch of the purge: it deletes counted rows and counts nothing.
LEMMA PurgeType ==
    ASSUME TypeOK, NEW j \in Job, purge_authorized_opens(j)
    PROVE  /\ TypeOK'
           /\ Counted' = Counted
           /\ \A i \in Id : /\ open'[i].dashboard = open[i].dashboard
                            /\ open'[i].viewer = open[i].viewer
                            /\ open'[i].opened_at = open[i].opened_at
<1> DEFINE rows == Removable(FirstRows(Expired(job[j].captured_at)))
<1>1. /\ open' = [i \in Id |-> IF i \in rows THEN [open[i] EXCEPT !.stage = "deleted"]
                                             ELSE open[i]]
      /\ ContinueWith(j, rows, "idle")
      /\ UNCHANGED <<next_id, checkpoint, daily, summary, snapshot, now>>
  BY DEF purge_authorized_opens, rollupVars
<1>2. \A i \in rows : open[i].stage = "aggregated"
  BY DEF Removable
<1> HIDE DEF rows
<1>3. \A i \in Id : open[i] \in [stage : Stages, dashboard : Dashboard \cup {NoDashboard},
                                 viewer : Viewer \cup {NoViewer}, opened_at : Time]
  BY DEF TypeOK, Types
<1>4. \A i \in Id : /\ open'[i] \in [stage : Stages, dashboard : Dashboard \cup {NoDashboard},
                                     viewer : Viewer \cup {NoViewer}, opened_at : Time]
                    /\ open'[i].dashboard = open[i].dashboard
                    /\ open'[i].viewer = open[i].viewer
                    /\ open'[i].opened_at = open[i].opened_at
                    /\ open'[i].stage = IF i \in rows THEN "deleted" ELSE open[i].stage
  BY <1>1, <1>3 DEF Stages
<1>5. Counted' = Counted
  BY <1>2, <1>4 DEF Counted
<1>6. open' \in [Id -> [stage : Stages, dashboard : Dashboard \cup {NoDashboard},
                        viewer : Viewer \cup {NoViewer}, opened_at : Time]]
  BY <1>1, <1>4
<1>7. job' \in [Job -> [pc : {"idle", "aggregate", "purge"}, captured_at : Time,
                        batches : 0..(MaxBatches - 1)]]
  BY <1>1, ContinueType DEF TypeOK
<1>8. \A i \in Id : open'[i].stage = "unused" <=> i >= next_id'
  <2> TAKE i \in Id
  <2>1. open[i].stage = "unused" <=> i >= next_id
    BY DEF TypeOK
  <2>2. i \in rows => open[i].stage = "aggregated"
    BY <1>2
  <2> QED BY <1>1, <1>4, <2>1, <2>2
<1> QED BY <1>1, <1>4, <1>5, <1>6, <1>7, <1>8 DEF TypeOK, Types

\* The rest of a run, and time, leave rows and counts alone.
LEMMA QuietType ==
    ASSUME TypeOK,
           \/ \E j \in Job : job_starts(j) \/ purge_refused(j) \/ job_dies(j)
           \/ Tick
    PROVE  TypeOK' /\ UNCHANGED <<open, daily, summary, snapshot>>
<1> DEFINE R == [pc : {"idle", "aggregate", "purge"}, captured_at : Time,
                 batches : 0..(MaxBatches - 1)]
<1>1. /\ job \in [Job -> R] /\ now \in Time
  BY DEF TypeOK, Types
<1>2. IdleJob \in R /\ [pc |-> "aggregate", captured_at |-> now, batches |-> 0] \in R
  BY <1>1, Bounds DEF IdleJob, Time
<1>3. /\ UNCHANGED <<open, next_id, checkpoint, daily, summary, snapshot>>
      /\ \/ \E j \in Job : /\ \/ job' = [job EXCEPT ![j] = IdleJob]
                              \/ job' = [job EXCEPT ![j] = [pc |-> "aggregate",
                                                            captured_at |-> now,
                                                            batches |-> 0]]
                           /\ now' = now
         \/ job' = job /\ now < MaxTime /\ now' = now + 1
  BY DEF job_starts, purge_refused, job_dies, Tick, rollupVars
<1>4. now' \in Time
  BY <1>1, <1>3, Bounds DEF Time
<1> HIDE DEF R
<1>5. job' \in [Job -> R]
  BY <1>1, <1>2, <1>3
<1>6. Counted' = Counted
  BY <1>3 DEF Counted
<1> QED BY <1>3, <1>4, <1>5, <1>6 DEF TypeOK, Types, R

----------------------------------------------------------------------------
\* Nothing is counted at first.
LEMMA InitCounts == Init => TypeOK /\ CountedOnce
<1> SUFFICES ASSUME Init PROVE TypeOK /\ CountedOnce
  OBVIOUS
<1>1. Counted = {}
  BY DEF Init, Counted, Unused
<1>2. Types
  <2>1. 0 \in Time /\ 1 \in Time /\ 0 \in 0..MaxId /\ 1 \in 1..(MaxId + 1)
    BY Bounds DEF Time
  <2>2. 0 \in 0..(MaxBatches - 1)
    BY Bounds
  <2>3. open \in [Id -> [stage : Stages, dashboard : Dashboard \cup {NoDashboard},
                         viewer : Viewer \cup {NoViewer}, opened_at : Time]]
    BY <2>1 DEF Init, Unused, Stages
  <2>4. daily \in [Dashboard -> [Day -> Nat]]
    BY DEF Init
  <2>5. summary \in [Dashboard -> [Viewer -> [count : Nat, first : Time, last : Time]]]
    BY <2>1 DEF Init, NoSummary
  <2>6. snapshot \in [Dashboard -> [count : Nat, last : Time, through : 0..MaxId]]
    BY <2>1 DEF Init, NoSnapshot
  <2>7. job \in [Job -> [pc : {"idle", "aggregate", "purge"}, captured_at : Time,
                         batches : 0..(MaxBatches - 1)]]
    BY <2>1, <2>2 DEF Init, IdleJob
  <2> QED BY <2>1, <2>3, <2>4, <2>5, <2>6, <2>7 DEF Init, Types
<1>3. \A i \in Id : open[i].stage = "unused" /\ i >= next_id
  BY Bounds DEF Init, Unused, Id
<1>4. TypeOK
  BY <1>1, <1>2, <1>3 DEF TypeOK
<1>5. /\ \A d \in Dashboard : Of({}, d) = {}
      /\ \A d \in Dashboard, y \in Day : OfDay({}, d, y) = {}
      /\ \A d \in Dashboard, u \in Viewer : OfViewer({}, d, u) = {}
  BY DEF Of, OfDay, OfViewer
<1>6. CountedOnce
  BY <1>1, <1>5, FS_EmptySet DEF CountedOnce, Init, NoSummary, NoSnapshot
<1> QED BY <1>4, <1>6

\* Every step keeps the types.
LEMMA NextType == TypeOK /\ [Next]_vars => TypeOK'
<1> SUFFICES ASSUME TypeOK, [Next]_vars PROVE TypeOK'
  OBVIOUS
<1>1. CASE View
  BY <1>1, InsertType, EndType DEF View
<1>2. ASSUME NEW j \in Job, RunJob(j) PROVE TypeOK'
  BY <1>2, AggregateType, PurgeType, QuietType DEF RunJob
<1>3. CASE Tick
  BY <1>3, QuietType
<1>4. CASE UNCHANGED vars
  BY <1>4 DEF vars, rollupVars, TypeOK, Types, Counted
<1> QED BY <1>1, <1>2, <1>3, <1>4 DEF Next

\* Opens, rollups and the checkpoint keep their types, and the checkpoint is
\* never behind a counted row (analytics.py, _locked_checkpoint and its users).
THEOREM AnalyticsTypeCorrect == Spec => []TypeOK
<1>1. Init => TypeOK
  BY InitCounts
<1> QED BY <1>1, NextType, PTL DEF Spec

\* A step that counts nothing and keeps the data of the counted rows keeps the
\* counts exact.
LEMMA CountsKept ==
    ASSUME CountedOnce, Counted' = Counted,
           UNCHANGED <<daily, summary, snapshot>>,
           \A i \in Counted : /\ open'[i].dashboard = open[i].dashboard
                              /\ open'[i].viewer = open[i].viewer
                              /\ open'[i].opened_at = open[i].opened_at
    PROVE  CountedOnce'
<1>1. \A d \in Dashboard : Of(Counted, d)' = Of(Counted, d)
  BY DEF Of
<1>2. \A d \in Dashboard, y \in Day : OfDay(Counted, d, y)' = OfDay(Counted, d, y)
  BY DEF OfDay, Of
<1>3. \A d \in Dashboard, u \in Viewer : OfViewer(Counted, d, u)' = OfViewer(Counted, d, u)
  BY DEF OfViewer, Of
<1> QED BY <1>1, <1>2, <1>3 DEF CountedOnce

\* A batch adds its rows to those counted, each to its day, viewer and dashboard.
LEMMA BatchCounts ==
    ASSUME TypeOK, CountedOnce, NEW j \in Job, aggregate_authorized_opens(j)
    PROVE  CountedOnce'
<1> DEFINE rows == FirstRows(Uncounted(job[j].captured_at))
<1>1. Count(rows)
  BY DEF aggregate_authorized_opens
<1>2. rows \in SUBSET Id /\ rows \cap Counted = {}
  BY BatchFacts
<1> HIDE DEF rows
<1>3. /\ Counted' = Counted \cup rows
      /\ \A i \in Id : /\ open'[i].dashboard = open[i].dashboard
                       /\ open'[i].viewer = open[i].viewer
                       /\ open'[i].opened_at = open[i].opened_at
  BY <1>1, <1>2, CountFacts
<1>4. Counted \in SUBSET Id /\ Counted' \in SUBSET Id
  BY DEF Counted
<1>5. ASSUME NEW d \in Dashboard
      PROVE  snapshot'[d].count = Cardinality(Of(Counted, d)')
  <2>1. Of(Counted, d)' = Of(Counted, d) \cup Of(rows, d)
    BY <1>3, <1>4 DEF Of
  <2>2. /\ Of(Counted, d) \in SUBSET Id /\ Of(rows, d) \in SUBSET Id
        /\ Of(Counted, d) \cap Of(rows, d) = {}
    BY <1>2, <1>4 DEF Of
  <2>3. Cardinality(Of(Counted, d)')
            = Cardinality(Of(Counted, d)) + Cardinality(Of(rows, d))
    BY <2>1, <2>2, IdSets
  <2>4. snapshot'[d] = Snapped(snapshot[d], Of(rows, d))
    BY <1>1 DEF Count
  <2>5. snapshot[d] \in [count : Nat, last : Time, through : 0..MaxId]
    BY DEF TypeOK, Types
  <2>6. snapshot'[d].count = snapshot[d].count + Cardinality(Of(rows, d))
    BY <2>2, <2>4, <2>5, SnappedType
  <2> QED BY <2>3, <2>6 DEF CountedOnce
<1>6. ASSUME NEW d \in Dashboard, NEW y \in Day
      PROVE  daily'[d][y] = Cardinality(OfDay(Counted, d, y)')
  <2>1. OfDay(Counted, d, y)' = OfDay(Counted, d, y) \cup OfDay(rows, d, y)
    BY <1>3, <1>4 DEF OfDay, Of
  <2>2. /\ OfDay(Counted, d, y) \in SUBSET Id /\ OfDay(rows, d, y) \in SUBSET Id
        /\ OfDay(Counted, d, y) \cap OfDay(rows, d, y) = {}
    BY <1>2, <1>4 DEF OfDay, Of
  <2>3. Cardinality(OfDay(Counted, d, y)')
            = Cardinality(OfDay(Counted, d, y)) + Cardinality(OfDay(rows, d, y))
    BY <2>1, <2>2, IdSets
  <2>4. daily'[d][y] = daily[d][y] + Cardinality(OfDay(rows, d, y))
    BY <1>1 DEF Count
  <2> QED BY <2>3, <2>4 DEF CountedOnce
<1>7. ASSUME NEW d \in Dashboard, NEW u \in Viewer
      PROVE  summary'[d][u].count = Cardinality(OfViewer(Counted, d, u)')
  <2>1. OfViewer(Counted, d, u)' = OfViewer(Counted, d, u) \cup OfViewer(rows, d, u)
    BY <1>3, <1>4 DEF OfViewer, Of
  <2>2. /\ OfViewer(Counted, d, u) \in SUBSET Id /\ OfViewer(rows, d, u) \in SUBSET Id
        /\ OfViewer(Counted, d, u) \cap OfViewer(rows, d, u) = {}
    BY <1>2, <1>4 DEF OfViewer, Of
  <2>3. Cardinality(OfViewer(Counted, d, u)')
            = Cardinality(OfViewer(Counted, d, u)) + Cardinality(OfViewer(rows, d, u))
    BY <2>1, <2>2, IdSets
  <2>4. summary'[d][u] = Summed(summary[d][u], OfViewer(rows, d, u))
    BY <1>1 DEF Count
  <2>5. summary[d][u] \in [count : Nat, first : Time, last : Time]
    BY DEF TypeOK, Types
  <2>6. summary'[d][u].count = summary[d][u].count + Cardinality(OfViewer(rows, d, u))
    BY <2>2, <2>4, <2>5, SummedType
  <2> QED BY <2>3, <2>6 DEF CountedOnce
<1> QED BY <1>5, <1>6, <1>7 DEF CountedOnce

\* A step that counts nothing and keeps the data of the counted rows.
CountsNothing ==
    /\ Counted' = Counted
    /\ UNCHANGED <<daily, summary, snapshot>>
    /\ \A i \in Counted : /\ open'[i].dashboard = open[i].dashboard
                          /\ open'[i].viewer = open[i].viewer
                          /\ open'[i].opened_at = open[i].opened_at

\* Everything but a batch of the aggregation is such a step.
LEMMA OtherSteps ==
    ASSUME TypeOK, [Next]_vars,
           \A j \in Job : ~aggregate_authorized_opens(j)
    PROVE  CountsNothing
<1>1. ASSUME NEW d \in Dashboard, NEW u \in Viewer, NEW t \in Time,
             insert_open(d, u, t)
      PROVE  CountsNothing
  <2>1. Counted' = Counted
    BY <1>1, InsertType
  <2>2. \A i \in Counted : open'[i] = open[i]
    <3>1. next_id \in Id /\ open[next_id].stage = "unused"
      <4>1. next_id \in Id /\ next_id >= next_id
        BY <1>1, Bounds DEF insert_open, Id
      <4> QED BY <4>1 DEF TypeOK
    <3>2. next_id \notin Counted
      BY <3>1 DEF Counted
    <3> QED BY <1>1, <3>2 DEF insert_open, TypeOK, Types, Counted
  <2>3. UNCHANGED <<daily, summary, snapshot>>
    BY <1>1 DEF insert_open, rollupVars
  <2> QED BY <2>1, <2>2, <2>3 DEF CountsNothing
<1>2. ASSUME NEW i \in Id, NEW stage \in {"pending", "rolled_back"}, end_open(i, stage)
      PROVE  CountsNothing
  <2>1. Counted' = Counted
    BY <1>2, EndType
  <2>2. \A k \in Counted : open'[k] = open[k]
    BY <1>2 DEF end_open, TypeOK, Types, Counted
  <2>3. UNCHANGED <<daily, summary, snapshot>>
    BY <1>2 DEF end_open, rollupVars
  <2> QED BY <2>1, <2>2, <2>3 DEF CountsNothing
<1>3. ASSUME NEW j \in Job, purge_authorized_opens(j) PROVE CountsNothing
  <2>1. /\ Counted' = Counted
        /\ \A i \in Counted : /\ open'[i].dashboard = open[i].dashboard
                              /\ open'[i].viewer = open[i].viewer
                              /\ open'[i].opened_at = open[i].opened_at
    BY <1>3, PurgeType DEF Counted
  <2>2. UNCHANGED <<daily, summary, snapshot>>
    BY <1>3 DEF purge_authorized_opens, rollupVars
  <2> QED BY <2>1, <2>2 DEF CountsNothing
<1>4. ASSUME UNCHANGED <<open, daily, summary, snapshot>> PROVE CountsNothing
  BY <1>4 DEF Counted, CountsNothing
<1>5. CASE View
  BY <1>1, <1>2, <1>5 DEF View
<1>6. ASSUME NEW j \in Job, RunJob(j) PROVE CountsNothing
  BY <1>3, <1>4, <1>6, QuietType DEF RunJob
<1>7. CASE Tick
  BY <1>4, <1>7, QuietType
<1>8. CASE UNCHANGED vars
  BY <1>4, <1>8 DEF vars, rollupVars
<1> QED BY <1>5, <1>6, <1>7, <1>8 DEF Next

\* Daily, viewer and dashboard counts are exact whatever the batch size, the
\* order of the commits and the number of jobs that died or ran again.
THEOREM OpensAreCountedOnce == Spec => []CountedOnce
<1>1. TypeOK /\ CountedOnce /\ [Next]_vars => CountedOnce'
  BY BatchCounts, OtherSteps, CountsKept DEF CountsNothing
<1> QED BY <1>1, InitCounts, AnalyticsTypeCorrect, PTL DEF Spec
----------------------------------------------------------------------------
(* ViewerWindow: first and last times.  A rollup row that has counted       *)
(* nothing yet is as the first batch expects it (FreshRollups).             *)

FreshRollups ==
    \A d \in Dashboard :
       /\ Of(Counted, d) = {} => snapshot[d] = NoSnapshot
       /\ \A u \in Viewer : OfViewer(Counted, d, u) = {} => summary[d][u] = NoSummary

WindowInvariant == TypeOK /\ CountedOnce /\ FreshRollups /\ ViewerWindow

\* The greatest element of a union is found from that of one part.
LEMMA LatestGrows ==
    ASSUME NEW n \in Nat, NEW S \in SUBSET (0..n), NEW T \in SUBSET (0..n), T # {},
           NEW z \in 0..n,
           S = {} => z = 0,
           S # {} => z = Latest(S)
    PROVE  Latest(T \cup {z}) = Latest(S \cup T)
<1> DEFINE m == Latest(T \cup {z})
           k == Latest(S \cup T)
<1>1. T \cup {z} \in SUBSET (0..n) /\ S \cup T \in SUBSET (0..n)
  OBVIOUS
<1>2. m \in T \cup {z} /\ \A x \in T \cup {z} : x <= m
  BY <1>1, LatestFacts
<1>3. k \in S \cup T /\ \A x \in S \cup T : x <= k
  BY <1>1, LatestFacts
<1> HIDE DEF m, k
<1>4. \A x \in S : z \in S /\ x <= z
  BY LatestFacts
<1>5. m \in S \cup T
  <2>1. CASE S = {}
    <3>1. PICK t \in T : TRUE
      OBVIOUS
    <3>2. t <= m /\ 0 <= t /\ t \in Int /\ m \in Int
      BY <1>1, <1>2, <3>1
    <3> QED BY <1>2, <2>1, <3>1, <3>2
  <2> QED BY <1>2, <1>4, <2>1
<1>6. \A x \in S \cup T : x <= m
  <2> TAKE x \in S \cup T
  <2>1. CASE x \in S
    <3>1. x <= z /\ z <= m /\ x \in Int /\ z \in Int /\ m \in Int
      BY <1>1, <1>2, <1>4, <2>1
    <3> QED BY <3>1
  <2> QED BY <1>2, <2>1
<1>7. m <= k /\ k <= m /\ m \in Int /\ k \in Int
  BY <1>1, <1>3, <1>5, <1>6
<1> QED BY <1>7 DEF m, k

\* And so is the least.
LEMMA EarliestGrows ==
    ASSUME NEW n \in Nat, NEW S \in SUBSET (0..n), NEW T \in SUBSET (0..n), S # {}
    PROVE  Earliest(T \cup {Earliest(S)}) = Earliest(S \cup T)
<1> DEFINE z == Earliest(S)
           m == Earliest(T \cup {z})
           k == Earliest(S \cup T)
<1>1. z \in S /\ \A x \in S : z <= x
  BY EarliestFacts
<1>2. T \cup {z} \in SUBSET (0..n) /\ S \cup T \in SUBSET (0..n)
  BY <1>1
<1>3. m \in T \cup {z} /\ \A x \in T \cup {z} : m <= x
  <2> HIDE DEF z
  <2> QED BY <1>2, EarliestFacts
<1>4. k \in S \cup T /\ \A x \in S \cup T : k <= x
  BY <1>2, EarliestFacts
<1> HIDE DEF z, m, k
<1>5. \A x \in S \cup T : m <= x
  <2> TAKE x \in S \cup T
  <2>1. CASE x \in S
    <3>1. z <= x /\ m <= z /\ x \in Int /\ z \in Int /\ m \in Int
      BY <1>1, <1>2, <1>3, <2>1
    <3> QED BY <3>1
  <2> QED BY <1>3, <2>1
<1>6. m <= k /\ k <= m /\ m \in Int /\ k \in Int
  BY <1>1, <1>2, <1>3, <1>4, <1>5
<1> QED BY <1>6 DEF m, k, z

\* A step that counts nothing keeps the windows.
LEMMA WindowsKept ==
    ASSUME FreshRollups, ViewerWindow, Counted' = Counted,
           UNCHANGED <<summary, snapshot>>,
           \A i \in Counted : /\ open'[i].dashboard = open[i].dashboard
                              /\ open'[i].viewer = open[i].viewer
                              /\ open'[i].opened_at = open[i].opened_at
    PROVE  FreshRollups' /\ ViewerWindow'
<1>1. \A d \in Dashboard : /\ Of(Counted, d)' = Of(Counted, d)
                           /\ Times(Of(Counted, d))' = Times(Of(Counted, d))
  BY DEF Of, Times
<1>2. \A d \in Dashboard, u \in Viewer :
         /\ OfViewer(Counted, d, u)' = OfViewer(Counted, d, u)
         /\ Times(OfViewer(Counted, d, u))' = Times(OfViewer(Counted, d, u))
  BY DEF OfViewer, Of, Times
<1>3. FreshRollups'
  BY <1>1, <1>2 DEF FreshRollups, NoSnapshot, NoSummary
<1>4. ViewerWindow'
  BY <1>1, <1>2 DEF ViewerWindow
<1> QED BY <1>3, <1>4

\* The same for the two ranges the rows have, with what the code keeps (z) for a
\* window that is still empty.
LEMMA LatestTimeGrows ==
    ASSUME NEW S \in SUBSET (0..MaxTime), NEW T \in SUBSET (0..MaxTime),
           NEW z \in 0..MaxTime, T # {}, MaxTime \in Nat,
           S = {} => z = 0,
           S # {} => z = Latest(S)
    PROVE  Latest(T \cup {z}) = Latest(S \cup T)
BY LatestGrows

LEMMA LatestIdGrows ==
    ASSUME NEW S \in SUBSET (0..MaxId), NEW T \in SUBSET (0..MaxId),
           NEW z \in 0..MaxId, T # {}, MaxId \in Nat,
           S = {} => z = 0,
           S # {} => z = Latest(S)
    PROVE  Latest(T \cup {z}) = Latest(S \cup T)
BY LatestGrows

LEMMA EarliestTimeGrows ==
    ASSUME NEW S \in SUBSET (0..MaxTime), NEW T \in SUBSET (0..MaxTime),
           S # {}, MaxTime \in Nat
    PROVE  Earliest(T \cup {Earliest(S)}) = Earliest(S \cup T)
BY EarliestGrows

\* What a batch makes of a viewer's window, from the rows counted before (old)
\* and its own (new).
LEMMA SummedWindow ==
    ASSUME TypeOK, NEW old \in SUBSET Id, NEW new \in SUBSET Id,
           NEW s \in [count : Nat, first : Time, last : Time],
           s.count = 0 <=> old = {},
           old = {} => s = NoSummary,
           old # {} => s.first = Earliest(Times(old)) /\ s.last = Latest(Times(old))
    PROVE  /\ old \cup new = {} => Summed(s, new) = NoSummary
           /\ old \cup new # {} =>
                 /\ Summed(s, new).first = Earliest(Times(old \cup new))
                 /\ Summed(s, new).last = Latest(Times(old \cup new))
<1>1. /\ Times(old \cup new) = Times(old) \cup Times(new)
      /\ Times(old) = {} <=> old = {}
      /\ Times(new) = {} <=> new = {}
  BY DEF Times
<1>2. /\ Times(old) \in SUBSET (0..MaxTime) /\ Times(new) \in SUBSET (0..MaxTime)
      /\ s.last \in 0..MaxTime /\ MaxTime \in Nat
  BY TimesType, Bounds DEF Time
<1>3. CASE new = {}
  <2>1. Summed(s, new) = s /\ old \cup new = old
    BY <1>3 DEF Summed
  <2> QED BY <2>1
<1>4. CASE new # {}
  <2> DEFINE E == Times(new) \cup (IF s.count = 0 THEN {} ELSE {s.first})
  <2>1. Summed(s, new) = [count |-> s.count + Cardinality(new),
                          first |-> Earliest(E),
                          last |-> Latest(Times(new) \cup {s.last})]
    BY <1>4 DEF Summed
  <2>2. /\ Times(old) = {} => s.last = 0
        /\ Times(old) # {} => s.last = Latest(Times(old))
    BY <1>1 DEF NoSummary
  <2>3. Latest(Times(new) \cup {s.last}) = Latest(Times(old) \cup Times(new))
    <3> DEFINE S == Times(old)
               T == Times(new)
               z == s.last
    <3>1. /\ MaxTime \in Nat
          /\ S \in SUBSET (0..MaxTime) /\ T \in SUBSET (0..MaxTime) /\ T # {}
          /\ z \in 0..MaxTime
          /\ S = {} => z = 0
          /\ S # {} => z = Latest(S)
      BY <1>1, <1>2, <1>4, <2>2
    <3> HIDE DEF S, T, z
    <3>2. Latest(T \cup {z}) = Latest(S \cup T)
      BY <3>1, LatestTimeGrows
    <3> QED BY <3>2 DEF S, T, z
  <2>4. Earliest(E) = Earliest(Times(old) \cup Times(new))
    <3>1. CASE old = {}
      <4>1. E = Times(old) \cup Times(new)
        BY <1>1, <3>1
      <4> QED BY <4>1
    <3>2. CASE old # {}
      <4>1. E = Times(new) \cup {Earliest(Times(old))}
        BY <3>2
      <4>2. Times(old) # {}
        BY <1>1, <3>2
      <4> DEFINE S == Times(old)
                 T == Times(new)
      <4>3. /\ MaxTime \in Nat /\ S # {}
            /\ S \in SUBSET (0..MaxTime) /\ T \in SUBSET (0..MaxTime)
        BY <1>2, <4>2
      <4> HIDE DEF S, T
      <4>4. Earliest(T \cup {Earliest(S)}) = Earliest(S \cup T)
        BY <4>3, EarliestTimeGrows
      <4> QED BY <4>1, <4>4 DEF S, T
    <3> QED BY <3>1, <3>2
  <2> HIDE DEF E
  <2> QED BY <1>1, <1>4, <2>1, <2>3, <2>4
<1> QED BY <1>3, <1>4

\* And of a dashboard's snapshot.
LEMMA SnappedWindow ==
    ASSUME TypeOK, NEW old \in SUBSET Id, NEW new \in SUBSET Id,
           NEW s \in [count : Nat, last : Time, through : 0..MaxId],
           old = {} => s = NoSnapshot,
           old # {} => s.through = Latest(old) /\ s.last = Latest(Times(old))
    PROVE  /\ old \cup new = {} => Snapped(s, new) = NoSnapshot
           /\ old \cup new # {} =>
                 /\ Snapped(s, new).through = Latest(old \cup new)
                 /\ Snapped(s, new).last = Latest(Times(old \cup new))
<1>1. /\ Times(old \cup new) = Times(old) \cup Times(new)
      /\ Times(old) = {} <=> old = {}
      /\ Times(new) = {} <=> new = {}
  BY DEF Times
<1>2. /\ Times(old) \in SUBSET (0..MaxTime) /\ Times(new) \in SUBSET (0..MaxTime)
      /\ s.last \in 0..MaxTime /\ MaxTime \in Nat
  BY TimesType, Bounds DEF Time
<1>3. /\ old \in SUBSET (0..MaxId) /\ new \in SUBSET (0..MaxId)
      /\ s.through \in 0..MaxId /\ MaxId \in Nat
  <2>1. Id \subseteq 0..MaxId
    BY Bounds DEF Id
  <2> QED BY <2>1, Bounds
<1>4. CASE new = {}
  <2>1. Snapped(s, new) = s /\ old \cup new = old
    BY <1>4 DEF Snapped
  <2> QED BY <2>1
<1>5. CASE new # {}
  <2>1. Snapped(s, new) = [count |-> s.count + Cardinality(new),
                           last |-> Latest(Times(new) \cup {s.last}),
                           through |-> Latest(new \cup {s.through})]
    BY <1>5 DEF Snapped
  <2>2. /\ Times(old) = {} => s.last = 0
        /\ Times(old) # {} => s.last = Latest(Times(old))
        /\ old = {} => s.through = 0
        /\ old # {} => s.through = Latest(old)
    BY <1>1 DEF NoSnapshot
  <2>3. Latest(Times(new) \cup {s.last}) = Latest(Times(old) \cup Times(new))
    <3> DEFINE S == Times(old)
               T == Times(new)
               z == s.last
    <3>1. /\ MaxTime \in Nat
          /\ S \in SUBSET (0..MaxTime) /\ T \in SUBSET (0..MaxTime) /\ T # {}
          /\ z \in 0..MaxTime
          /\ S = {} => z = 0
          /\ S # {} => z = Latest(S)
      BY <1>1, <1>2, <1>5, <2>2
    <3> HIDE DEF S, T, z
    <3>2. Latest(T \cup {z}) = Latest(S \cup T)
      BY <3>1, LatestTimeGrows
    <3> QED BY <3>2 DEF S, T, z
  <2>4. Latest(new \cup {s.through}) = Latest(old \cup new)
    <3> DEFINE z == s.through
    <3>1. /\ MaxId \in Nat /\ z \in 0..MaxId
          /\ old \in SUBSET (0..MaxId) /\ new \in SUBSET (0..MaxId) /\ new # {}
          /\ old = {} => z = 0
          /\ old # {} => z = Latest(old)
      BY <1>3, <1>5, <2>2
    <3> HIDE DEF z
    <3>2. Latest(new \cup {z}) = Latest(old \cup new)
      BY <3>1, LatestIdGrows
    <3> QED BY <3>2 DEF z
  <2> QED BY <1>1, <1>5, <2>1, <2>3, <2>4
<1> QED BY <1>4, <1>5

\* A batch moves the ends of the windows to include its rows.
LEMMA BatchWindows ==
    ASSUME WindowInvariant, NEW j \in Job, aggregate_authorized_opens(j)
    PROVE  FreshRollups' /\ ViewerWindow'
<1> DEFINE rows == FirstRows(Uncounted(job[j].captured_at))
<1>1. TypeOK /\ CountedOnce /\ FreshRollups /\ ViewerWindow /\ Count(rows)
  BY DEF aggregate_authorized_opens, WindowInvariant
<1>2. rows \in SUBSET Id /\ rows \cap Counted = {}
  BY <1>1, BatchFacts
<1> HIDE DEF rows
<1>3. /\ Counted' = Counted \cup rows
      /\ \A i \in Id : /\ open'[i].dashboard = open[i].dashboard
                       /\ open'[i].viewer = open[i].viewer
                       /\ open'[i].opened_at = open[i].opened_at
  BY <1>1, <1>2, CountFacts
<1>4. Counted \in SUBSET Id /\ Counted' \in SUBSET Id
  BY DEF Counted
<1>5. ASSUME NEW d \in Dashboard
      PROVE  /\ Of(Counted, d)' = {} => snapshot'[d] = NoSnapshot
             /\ Of(Counted, d)' # {} =>
                   /\ snapshot'[d].through = Latest(Of(Counted, d)')
                   /\ snapshot'[d].last = Latest(Times(Of(Counted, d))')
  <2>1. /\ Of(Counted, d)' = Of(Counted, d) \cup Of(rows, d)
        /\ Of(Counted, d) \in SUBSET Id /\ Of(rows, d) \in SUBSET Id
    BY <1>2, <1>3, <1>4 DEF Of
  <2>2. Times(Of(Counted, d))' = Times(Of(Counted, d) \cup Of(rows, d))
    <3>1. Times(Of(Counted, d))' = {open'[i].opened_at : i \in Of(Counted, d)'}
      BY DEF Times
    <3> QED BY <1>3, <2>1, <3>1 DEF Times
  <2>3. snapshot[d] \in [count : Nat, last : Time, through : 0..MaxId]
    BY <1>1 DEF TypeOK, Types
  <2>4. /\ Of(Counted, d) = {} => snapshot[d] = NoSnapshot
        /\ Of(Counted, d) # {} => /\ snapshot[d].through = Latest(Of(Counted, d))
                                  /\ snapshot[d].last = Latest(Times(Of(Counted, d)))
    BY <1>1 DEF FreshRollups, ViewerWindow
  <2>5. snapshot'[d] = Snapped(snapshot[d], Of(rows, d))
    BY <1>1 DEF Count
  <2> HIDE DEF Of
  <2> QED BY <1>1, <2>1, <2>2, <2>3, <2>4, <2>5, SnappedWindow
<1>6. ASSUME NEW d \in Dashboard, NEW u \in Viewer
      PROVE  /\ OfViewer(Counted, d, u)' = {} => summary'[d][u] = NoSummary
             /\ OfViewer(Counted, d, u)' # {} =>
                   /\ summary'[d][u].first = Earliest(Times(OfViewer(Counted, d, u))')
                   /\ summary'[d][u].last = Latest(Times(OfViewer(Counted, d, u))')
  <2>1. /\ OfViewer(Counted, d, u)' = OfViewer(Counted, d, u) \cup OfViewer(rows, d, u)
        /\ OfViewer(Counted, d, u) \in SUBSET Id /\ OfViewer(rows, d, u) \in SUBSET Id
    BY <1>2, <1>3, <1>4 DEF OfViewer, Of
  <2>2. Times(OfViewer(Counted, d, u))'
            = Times(OfViewer(Counted, d, u) \cup OfViewer(rows, d, u))
    <3>1. Times(OfViewer(Counted, d, u))'
              = {open'[i].opened_at : i \in OfViewer(Counted, d, u)'}
      BY DEF Times
    <3> QED BY <1>3, <2>1, <3>1 DEF Times
  <2>3. summary[d][u] \in [count : Nat, first : Time, last : Time]
    BY <1>1 DEF TypeOK, Types
  <2>4. /\ OfViewer(Counted, d, u) = {} => summary[d][u] = NoSummary
        /\ OfViewer(Counted, d, u) # {} =>
              /\ summary[d][u].first = Earliest(Times(OfViewer(Counted, d, u)))
              /\ summary[d][u].last = Latest(Times(OfViewer(Counted, d, u)))
    <3>1. OfViewer(Counted, d, u) # {} => Times(OfViewer(Counted, d, u)) # {}
      BY DEF Times
    <3> QED BY <1>1, <3>1 DEF FreshRollups, ViewerWindow
  <2>5. summary[d][u].count = 0 <=> OfViewer(Counted, d, u) = {}
    <3>1. summary[d][u].count = Cardinality(OfViewer(Counted, d, u))
      BY <1>1 DEF CountedOnce
    <3> QED BY <2>1, <3>1, IdSets, FS_EmptySet
  <2>6. summary'[d][u] = Summed(summary[d][u], OfViewer(rows, d, u))
    BY <1>1 DEF Count
  <2> DEFINE old == OfViewer(Counted, d, u)
             new == OfViewer(rows, d, u)
             s == summary[d][u]
  <2>7. /\ old \cup new = {} => Summed(s, new) = NoSummary
        /\ old \cup new # {} =>
              /\ Summed(s, new).first = Earliest(Times(old \cup new))
              /\ Summed(s, new).last = Latest(Times(old \cup new))
    <3>1. /\ old \in SUBSET Id /\ new \in SUBSET Id
          /\ s \in [count : Nat, first : Time, last : Time]
          /\ s.count = 0 <=> old = {}
          /\ old = {} => s = NoSummary
          /\ old # {} => s.first = Earliest(Times(old)) /\ s.last = Latest(Times(old))
      BY <2>1, <2>3, <2>4, <2>5
    <3> HIDE DEF old, new, s
    <3> QED BY <1>1, <3>1, SummedWindow
  <2> QED BY <2>1, <2>2, <2>6, <2>7
<1>7. FreshRollups'
  BY <1>5, <1>6 DEF FreshRollups, NoSnapshot, NoSummary
<1>8. ASSUME NEW d \in Dashboard, NEW u \in Viewer,
             Times(OfViewer(Counted, d, u))' # {}
      PROVE  OfViewer(Counted, d, u)' # {}
  BY <1>8 DEF Times
<1>9. ViewerWindow'
  BY <1>5, <1>6, <1>8 DEF ViewerWindow
<1> QED BY <1>7, <1>9

\* Nothing is counted at first, and no rollup row exists.
LEMMA InitWindows == Init => WindowInvariant
<1> SUFFICES ASSUME Init PROVE WindowInvariant
  OBVIOUS
<1>1. Counted = {}
  BY DEF Init, Counted, Unused
<1>2. /\ \A d \in Dashboard : Of({}, d) = {}
      /\ \A d \in Dashboard, u \in Viewer : OfViewer({}, d, u) = {}
      /\ Times({}) = {}
  BY DEF Of, OfViewer, Times
<1> QED BY <1>1, <1>2, InitCounts
        DEF Init, WindowInvariant, FreshRollups, ViewerWindow, NoSummary, NoSnapshot

\* The first and last times of every viewer, and the last time and id of every
\* dashboard, are those of the counted opens, in whatever order ids and times
\* reached the batches (analytics.py, aggregate_authorized_opens).
THEOREM WindowsAreExact == Spec => []ViewerWindow
<1>1. WindowInvariant /\ [Next]_vars => WindowInvariant'
  <2> SUFFICES ASSUME WindowInvariant, [Next]_vars PROVE WindowInvariant'
    OBVIOUS
  <2>1. TypeOK' /\ CountedOnce'
    BY NextType, BatchCounts, OtherSteps, CountsKept DEF WindowInvariant, CountsNothing
  <2>2. FreshRollups' /\ ViewerWindow'
    BY BatchWindows, OtherSteps, WindowsKept DEF WindowInvariant, CountsNothing
  <2> QED BY <2>1, <2>2 DEF WindowInvariant
<1>2. WindowInvariant => ViewerWindow
  BY DEF WindowInvariant
<1> QED BY <1>1, <1>2, InitWindows, PTL DEF Spec
=============================================================================
