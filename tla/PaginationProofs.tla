--------------------------- MODULE PaginationProofs ---------------------------
(***************************************************************************)
(* Pagination, for every page size, every direction of the columns and     *)
(* every table: while the table rests the pages are the list's slices, and *)
(* whatever happens to it a walk misses no row that rests and shows none   *)
(* twice, and nobody is trapped between empty pages.                       *)
(***************************************************************************)
EXTENDS Pagination, FiniteSetTheorems, TLAPS

----------------------------------------------------------------------------
\* The order of the rows.

\* Rows are pairs of numbers.
LEMMA RowFacts ==
    ASSUME NEW r \in Row
    PROVE  r[1] \in Nat /\ r[2] \in Nat /\ r = <<r[1], r[2]>>
BY PaginationAssumption DEF Row

\* _ordering, column by column.
LEMMA BeforeByColumns ==
    ASSUME NEW r, NEW s, NEW reverse \in BOOLEAN
    PROVE  Before(r, s, reverse) <=>
              \/ IF (1 \in DescendingColumns) # reverse THEN r[1] > s[1] ELSE r[1] < s[1]
              \/ /\ r[1] = s[1]
                 /\ IF (2 \in DescendingColumns) # reverse THEN r[2] > s[2] ELSE r[2] < s[2]
<1>1. 1..(1 - 1) = {} /\ 1..(2 - 1) = {1}
  OBVIOUS
<1> QED
  BY <1>1 DEF Before

\* _boundary_filter selects the rows that the order puts beyond the boundary.
LEMMA BoundaryFilterByColumns ==
    ASSUME NEW r, NEW s, NEW previous \in BOOLEAN
    PROVE  BoundaryFilter(r, s, previous) <=>
              \/ IF (1 \in DescendingColumns) = previous THEN r[1] > s[1] ELSE r[1] < s[1]
              \/ /\ r[1] = s[1]
                 /\ IF (2 \in DescendingColumns) = previous THEN r[2] > s[2] ELSE r[2] < s[2]
<1>1. 1..(1 - 1) = {} /\ 1..(2 - 1) = {1}
  OBVIOUS
<1> QED
  BY <1>1 DEF BoundaryFilter

\* Both directions order all rows strictly and totally, and are each other's mirror.
LEMMA OrderFacts ==
    ASSUME NEW r \in Row, NEW s \in Row, NEW reverse \in BOOLEAN
    PROVE  /\ ~Before(r, r, reverse)
           /\ r # s => Before(r, s, reverse) \/ Before(s, r, reverse)
           /\ ~(Before(r, s, reverse) /\ Before(s, r, reverse))
           /\ BoundaryFilter(r, s, reverse) <=> Before(s, r, reverse)
<1> DEFINE first == 1 \in DescendingColumns
           second == 2 \in DescendingColumns
<1>1. /\ r[1] \in Nat /\ r[2] \in Nat /\ s[1] \in Nat /\ s[2] \in Nat
      /\ r # s => r[1] # s[1] \/ r[2] # s[2]
  BY RowFacts
<1>2. \A x, y : \A b \in BOOLEAN :
         Before(x, y, b) <=>
              \/ IF first # b THEN x[1] > y[1] ELSE x[1] < y[1]
              \/ x[1] = y[1] /\ IF second # b THEN x[2] > y[2] ELSE x[2] < y[2]
  BY BeforeByColumns
<1>3. BoundaryFilter(r, s, reverse) <=>
              \/ IF first = reverse THEN r[1] > s[1] ELSE r[1] < s[1]
              \/ r[1] = s[1] /\ IF second = reverse THEN r[2] > s[2] ELSE r[2] < s[2]
  BY BoundaryFilterByColumns
<1>4. first \in BOOLEAN /\ second \in BOOLEAN
  OBVIOUS
<1> HIDE DEF first, second
<1>5. ~Before(r, r, reverse)
  BY <1>1, <1>2
<1>6. r # s => Before(r, s, reverse) \/ Before(s, r, reverse)
  BY <1>1, <1>2
<1>7. ~(Before(r, s, reverse) /\ Before(s, r, reverse))
  BY <1>1, <1>2
<1>8. BoundaryFilter(r, s, reverse) <=> Before(s, r, reverse)
  <2>1. CASE reverse = TRUE
    BY <1>1, <1>2, <1>3, <1>4, <2>1
  <2>2. CASE reverse = FALSE
    BY <1>1, <1>2, <1>3, <1>4, <2>2
  <2> QED
    BY <2>1, <2>2
<1> QED
  BY <1>5, <1>6, <1>7, <1>8

LEMMA OrderMirrors ==
    ASSUME NEW r \in Row, NEW s \in Row
    PROVE  Before(r, s, TRUE) <=> Before(s, r, FALSE)
<1> DEFINE first == 1 \in DescendingColumns
           second == 2 \in DescendingColumns
<1>1. /\ r[1] \in Nat /\ r[2] \in Nat /\ s[1] \in Nat /\ s[2] \in Nat
      /\ first \in BOOLEAN /\ second \in BOOLEAN
  BY RowFacts
<1>2. Before(r, s, TRUE) <=>
              \/ IF first # TRUE THEN r[1] > s[1] ELSE r[1] < s[1]
              \/ r[1] = s[1] /\ IF second # TRUE THEN r[2] > s[2] ELSE r[2] < s[2]
  BY BeforeByColumns
<1>3. Before(s, r, FALSE) <=>
              \/ IF first # FALSE THEN s[1] > r[1] ELSE s[1] < r[1]
              \/ s[1] = r[1] /\ IF second # FALSE THEN s[2] > r[2] ELSE s[2] < r[2]
  BY BeforeByColumns
<1> HIDE DEF first, second
<1> QED
  BY <1>1, <1>2, <1>3

LEMMA OrderIsTransitive ==
    ASSUME NEW r \in Row, NEW s \in Row, NEW t \in Row, NEW reverse \in BOOLEAN,
           Before(r, s, reverse), Before(s, t, reverse)
    PROVE  Before(r, t, reverse)
<1> DEFINE first == (1 \in DescendingColumns) # reverse
           second == (2 \in DescendingColumns) # reverse
<1>1. /\ r[1] \in Nat /\ r[2] \in Nat /\ s[1] \in Nat /\ s[2] \in Nat
      /\ t[1] \in Nat /\ t[2] \in Nat
  BY RowFacts
<1>2. \A x, y :
         Before(x, y, reverse) <=>
              \/ IF first THEN x[1] > y[1] ELSE x[1] < y[1]
              \/ x[1] = y[1] /\ IF second THEN x[2] > y[2] ELSE x[2] < y[2]
  BY BeforeByColumns
<1> HIDE DEF first, second
<1> QED
  BY <1>1, <1>2

----------------------------------------------------------------------------
\* Ranks.

\* Every set of natural numbers that has an element has a least one.
LEMMA LeastNatural ==
    ASSUME NEW T \in SUBSET Nat, T # {}
    PROVE  \E x \in T : \A y \in T : x <= y
<1> DEFINE R == {ss \in Nat \X Nat : ss[1] < ss[2]}
<1>1. IsWellFoundedOn(R, Nat)
  BY NatLessThanWellFounded DEF OpToRel
<1>2. PICK x \in T : \A y \in T : <<y, x>> \notin R
  <2> HIDE DEF R
  <2> QED BY <1>1, WFMin
<1>3. \A y \in T : x <= y
  <2> SUFFICES ASSUME NEW y \in T, ~(x <= y) PROVE FALSE
    OBVIOUS
  <2>1. y < x /\ x \in Nat /\ y \in Nat
    OBVIOUS
  <2>2. <<y, x>> \in R
    BY <2>1
  <2> QED BY <1>2, <2>2
<1> QED BY <1>3

\* What ranks are made of.
LEMMA RankFacts ==
    ASSUME NEW S \in SUBSET Row, IsFiniteSet(S), NEW reverse \in BOOLEAN, NEW r \in Row
    PROVE  /\ Rank(r, S, reverse) \in Nat
           /\ \A s \in S : Before(s, r, reverse) => Rank(s, S, reverse) < Rank(r, S, reverse)
           /\ \A s \in Row : r \in S /\ ~Before(s, r, reverse)
                  => Rank(r, S, reverse) <= Rank(s, S, reverse)
<1> DEFINE Prior(s) == {t \in S : Before(t, s, reverse)}
<1>1. \A s : IsFiniteSet(Prior(s)) /\ Cardinality(Prior(s)) \in Nat
  BY FS_Subset, FS_CardinalityType
<1>2. \A s : Rank(s, S, reverse) = Cardinality(Prior(s))
  BY DEF Rank
<1>3. ASSUME NEW s \in S, NEW t \in Row, Before(s, t, reverse)
      PROVE  Rank(s, S, reverse) < Rank(t, S, reverse)
  <2>1. Prior(s) \subseteq Prior(t)
    BY <1>3, OrderIsTransitive
  <2>2. s \in Prior(t) /\ s \notin Prior(s)
    BY <1>3, OrderFacts
  <2>3. Cardinality(Prior(s)) <= Cardinality(Prior(t))
        /\ Cardinality(Prior(s)) # Cardinality(Prior(t))
    <3> HIDE DEF Prior
    <3> QED
      BY <1>1, <2>1, <2>2, FS_Subset
  <2> HIDE DEF Prior
  <2> QED
    BY <1>1, <1>2, <2>3
<1>4. ASSUME NEW s \in Row, r \in S, ~Before(s, r, reverse)
      PROVE  Rank(r, S, reverse) <= Rank(s, S, reverse)
  <2>1. CASE r = s
    <3> HIDE DEF Prior
    <3> QED
      BY <1>1, <1>2, <2>1
  <2>2. CASE r # s
    <3>1. Before(r, s, reverse)
      BY <1>4, <2>2, OrderFacts
    <3>2. Rank(r, S, reverse) < Rank(s, S, reverse)
      BY <1>3, <1>4, <3>1
    <3> HIDE DEF Prior
    <3> QED
      BY <1>1, <1>2, <3>2
  <2> QED
    BY <2>1, <2>2
<1>5. Rank(r, S, reverse) \in Nat
  BY <1>1, <1>2
<1> QED
  BY <1>3, <1>4, <1>5

\* A finite set of rows has a first one in each direction.
LEMMA FirstExists ==
    ASSUME NEW S \in SUBSET Row, IsFiniteSet(S), NEW reverse \in BOOLEAN,
           NEW T \in SUBSET S, T # {}
    PROVE  \E m \in T : \A t \in T \ {m} : Before(m, t, reverse)
<1> DEFINE Ranks == {Rank(t, S, reverse) : t \in T}
<1>1. \A t \in S : Rank(t, S, reverse) \in Nat
  BY RankFacts
<1>2. Ranks \in SUBSET Nat /\ Ranks # {}
  BY <1>1
<1>3. PICK n \in Ranks : \A k \in Ranks : n <= k
  <2> HIDE DEF Ranks
  <2> QED
    BY <1>2, LeastNatural
<1>4. PICK m \in T : Rank(m, S, reverse) = n
  OBVIOUS
<1>5. ASSUME NEW t \in T \ {m}
      PROVE  Before(m, t, reverse)
  <2>1. ~(Rank(t, S, reverse) < Rank(m, S, reverse))
    BY <1>1, <1>3, <1>4
  <2>2. ~Before(t, m, reverse)
    BY <2>1, RankFacts
  <2> QED
    BY <2>2, OrderFacts
<1> QED
  BY <1>5

\* The first n rows are n rows, unless there are no more.
LEMMA FirstRowsAreCounted ==
    ASSUME NEW S \in SUBSET Row, IsFiniteSet(S), NEW reverse \in BOOLEAN, NEW n \in Nat
    PROVE  LET F == FirstRows(S, n, reverse) IN
           /\ F \subseteq S /\ IsFiniteSet(F) /\ Cardinality(F) \in 0..n
           /\ \A r \in F, s \in S : Before(s, r, reverse) => s \in F
           /\ \A r \in F, s \in S \ F : Before(r, s, reverse)
           /\ F = S \/ /\ Cardinality(F) = n
                       /\ \E m \in S \ F : Rank(m, S, reverse) = n
<1> DEFINE F == FirstRows(S, n, reverse)
           Ranked(r) == Rank(r, S, reverse)
<1>1. \A r \in S : Ranked(r) \in Nat
  BY RankFacts
<1>2. \A r : r \in F <=> r \in S /\ Ranked(r) < n
  BY DEF FirstRows
<1>3. \A r, s \in S : Before(r, s, reverse) => Ranked(r) < Ranked(s)
  BY RankFacts
<1> HIDE DEF F
<1>4. F \subseteq S /\ IsFiniteSet(F)
  BY <1>2, FS_Subset
<1>5. Cardinality(F) \in 0..n
  <2> DEFINE g == [r \in F |-> Ranked(r)]
  <2>1. IsFiniteSet(0..(n - 1)) /\ Cardinality(0..(n - 1)) = n
    BY FS_Interval
  <2>2. g \in [F -> 0..(n - 1)]
    <3> HIDE DEF Ranked
    <3> QED
      BY <1>1, <1>2
  <2>3. ASSUME NEW r \in F, NEW s \in F, g[r] = g[s]
        PROVE  r = s
    <3>1. Ranked(r) = Ranked(s) /\ Ranked(r) \in Nat /\ r \in S /\ s \in S
      BY <1>1, <1>2, <2>3
    <3>2. ~Before(r, s, reverse) /\ ~Before(s, r, reverse)
      BY <1>3, <3>1
    <3> QED
      BY <3>1, <3>2, OrderFacts
  <2>4. g \in Injection(F, 0..(n - 1))
    <3> HIDE DEF g
    <3> QED
      BY <2>2, <2>3 DEF Injection, IsInjective
  <2>5. Cardinality(F) <= n
    BY <2>1, <2>4, FS_Injection
  <2> QED
    BY <1>4, <2>5, FS_CardinalityType
<1>6. \A r \in F, s \in S : Before(s, r, reverse) => s \in F
  <2> HIDE DEF Ranked
  <2> QED
    BY <1>1, <1>2, <1>3
<1>7. \A r \in F, s \in S \ F : Before(r, s, reverse)
  BY <1>4, <1>6, OrderFacts
<1>8. ASSUME F # S
      PROVE  /\ Cardinality(F) = n
             /\ \E m \in S \ F : Rank(m, S, reverse) = n
  <2>1. PICK m \in S \ F : \A t \in (S \ F) \ {m} : Before(m, t, reverse)
    BY <1>4, <1>8, FirstExists
  <2>2. F = {s \in S : Before(s, m, reverse)}
    BY <1>4, <1>7, <2>1, OrderFacts
  <2>3. Cardinality(F) = Ranked(m)
    BY <2>2 DEF Rank
  <2>4. ~(Ranked(m) < n) /\ Ranked(m) \in Nat
    BY <1>1, <1>2, <2>1
  <2>5. Ranked(m) = n
    <3> HIDE DEF Ranked
    <3> QED
      BY <1>5, <2>3, <2>4
  <2> QED
    BY <2>1, <2>3, <2>5
<1> QED
  BY <1>4, <1>5, <1>6, <1>7, <1>8 DEF F

\* Cutting n rows from the first n + 1 gives the first n: the row fetched in
\* advance is never shown.
LEMMA SentinelIsCut ==
    ASSUME NEW S \in SUBSET Row, IsFiniteSet(S), NEW reverse \in BOOLEAN, NEW n \in Nat
    PROVE  LET fetched == FirstRows(S, n + 1, reverse)
               F == FirstRows(S, n, reverse)
           IN  /\ FirstRows(fetched, n, reverse) = F
               /\ Cardinality(fetched) > n <=> F # S
<1> DEFINE fetched == FirstRows(S, n + 1, reverse)
           F == FirstRows(S, n, reverse)
<1>1. /\ fetched \subseteq S /\ IsFiniteSet(fetched) /\ Cardinality(fetched) \in 0..(n + 1)
      /\ \A r \in fetched : \A s \in S : Before(s, r, reverse) => s \in fetched
      /\ fetched = S \/ Cardinality(fetched) = n + 1
  BY FirstRowsAreCounted
<1>2. /\ F \subseteq S /\ IsFiniteSet(F) /\ Cardinality(F) \in 0..n
      /\ F = S \/ /\ Cardinality(F) = n
                  /\ \E m \in S \ F : Rank(m, S, reverse) = n
  BY FirstRowsAreCounted
<1>3. \A r \in S : Rank(r, S, reverse) \in Nat
  BY RankFacts
<1>4. \A r :
            /\ r \in fetched <=> r \in S /\ Rank(r, S, reverse) < n + 1
            /\ r \in F <=> r \in S /\ Rank(r, S, reverse) < n
  BY DEF FirstRows
<1> HIDE DEF fetched, F
<1>5. \A r \in fetched : Rank(r, fetched, reverse) = Rank(r, S, reverse)
  <2> TAKE r \in fetched
  <2>1. {s \in fetched : Before(s, r, reverse)} = {s \in S : Before(s, r, reverse)}
    BY <1>1
  <2> QED
    BY <2>1 DEF Rank
<1>6. F \subseteq fetched
  BY <1>3, <1>4
<1>7. FirstRows(fetched, n, reverse) = F
  BY <1>1, <1>4, <1>5, <1>6 DEF FirstRows
<1>8. Cardinality(fetched) > n <=> F # S
  <2>1. CASE F = S
    <3>1. fetched = F
      BY <1>1, <1>6, <2>1
    <3> QED
      BY <1>2, <2>1, <3>1
  <2>2. CASE F # S
    <3>1. PICK m \in S \ F : Rank(m, S, reverse) = n
      BY <1>2, <2>2
    <3>2. m \in fetched
      BY <1>4, <3>1
    <3>3. Cardinality(F) # Cardinality(fetched) /\ Cardinality(F) <= Cardinality(fetched)
      BY <1>1, <1>6, <3>1, <3>2, FS_Subset
    <3>4. Cardinality(F) = n
      BY <1>2, <2>2
    <3> QED
      BY <1>1, <2>2, <3>3, <3>4
  <2> QED
    BY <2>1, <2>2
<1> QED
  BY <1>7, <1>8 DEF fetched, F

----------------------------------------------------------------------------
\* One page.

\* The items of a page that is not empty have a first and a last one.
LEMMA EndsOfItems ==
    ASSUME NEW items \in SUBSET Row, IsFiniteSet(items), items # {}
    PROVE  /\ FirstItem(items) \in items
           /\ \A s \in items \ {FirstItem(items)} : Before(FirstItem(items), s, FALSE)
           /\ LastItem(items) \in items
           /\ \A s \in items \ {LastItem(items)} : Before(s, LastItem(items), FALSE)
<1>1. \E r \in items : \A s \in items \ {r} : Before(r, s, FALSE)
  BY FirstExists
<1>2. \E r \in items : \A s \in items \ {r} : Before(s, r, FALSE)
  <2>1. PICK r \in items : \A s \in items \ {r} : Before(r, s, TRUE)
    BY FirstExists
  <2>2. \A s \in items : Before(r, s, TRUE) <=> Before(s, r, FALSE)
    BY <2>1, OrderMirrors
  <2> QED
    BY <2>1, <2>2
<1> QED
  BY <1>1, <1>2 DEF FirstItem, LastItem

\* What a link selects, and what its page is made of: Onward is the link in the
\* direction that was followed, Back the one against it.
Backwards(link) == link.to = "previous"
Selected(link) == IF link.to = "first" THEN table
                  ELSE {r \in table : Before(link.boundary, r, Backwards(link))}
Onward(p, previous) == IF previous THEN p.previous ELSE p.next
Back(p, previous) == IF previous THEN p.next ELSE p.previous
Direction(previous) == IF previous THEN "previous" ELSE "next"
End(items, previous) == IF previous THEN FirstItem(items) ELSE LastItem(items)

Followable(link) == \/ link = FirstPage
                    \/ link.to \in {"next", "previous"} /\ link.boundary \in Row

LEMMA PageFacts ==
    ASSUME table \in Tables, NEW link, Followable(link)
    PROVE  LET p == paginate_keyset(link)
               previous == Backwards(link)
           IN  /\ Selected(link) \subseteq table /\ IsFiniteSet(Selected(link))
               /\ p.items = FirstRows(Selected(link), PageSize, previous)
               /\ Onward(p, previous) =
                     IF p.items = Selected(link) THEN NoLink
                     ELSE Cursor(Direction(previous), End(p.items, previous))
               /\ Back(p, previous) =
                     IF link.to = "first" THEN NoLink
                     ELSE IF p.items = {} THEN FirstPage
                     ELSE Cursor(Direction(~previous), End(p.items, ~previous))
               /\ p.items = {} => Selected(link) = {}
<1> DEFINE previous == Backwards(link)
           S == Selected(link)
           fetched == FirstRows(S, PageSize + 1, previous)
           items == FirstRows(S, PageSize, previous)
           p == paginate_keyset(link)
<1>1. table \subseteq Row /\ IsFiniteSet(table) /\ previous \in BOOLEAN
      /\ PageSize \in Nat \ {0}
  BY PaginationAssumption DEF Tables, Backwards
<1>2. S \subseteq table /\ S \subseteq Row /\ IsFiniteSet(S)
  BY <1>1, FS_Subset DEF Selected
<1>3. S = IF link.to # "first"
          THEN {r \in table : BoundaryFilter(r, link.boundary, previous)} ELSE table
  <2>1. CASE link.to = "first"
    BY <2>1 DEF Selected
  <2>2. CASE link.to # "first"
    <3>1. link.boundary \in Row
      BY <2>2 DEF Followable, FirstPage
    <3>2. \A r \in table : BoundaryFilter(r, link.boundary, previous)
                             <=> Before(link.boundary, r, previous)
      <4> HIDE DEF previous
      <4> QED
        BY <1>1, <3>1, OrderFacts
    <3> QED
      BY <2>2, <3>2 DEF Selected
  <2> QED
    BY <2>1, <2>2
<1>4. /\ FirstRows(fetched, PageSize, previous) = items
      /\ Cardinality(fetched) > PageSize <=> items # S
  BY <1>1, <1>2, SentinelIsCut
<1>5. items = {} => S = {}
  <2>1. items = S \/ Cardinality(items) = PageSize
    BY <1>1, <1>2, FirstRowsAreCounted
  <2> QED
    BY <1>1, <2>1, FS_EmptySet
<1> HIDE DEF S, items, fetched
<1>6. p = LET first == IF items = {} THEN link.boundary ELSE FirstItem(items)
              last == IF items = {} THEN link.boundary ELSE LastItem(items)
          IN  [items |-> items,
               previous |-> Link(IF previous THEN items # S ELSE link.to # "first",
                                 "previous", first, items),
               next |-> Link(previous \/ items # S, "next", last, items)]
  BY <1>3, <1>4 DEF paginate_keyset, Shown, Backwards, fetched
<1>7. p.items = items
  BY <1>6
<1>8. Onward(p, previous) = IF items = S THEN NoLink
                            ELSE Cursor(Direction(previous), End(items, previous))
  BY <1>5, <1>6 DEF Onward, Direction, End, Link
<1>9. Back(p, previous) = IF link.to = "first" THEN NoLink
                          ELSE IF items = {} THEN FirstPage
                          ELSE Cursor(Direction(~previous), End(items, ~previous))
  BY <1>6 DEF Back, Direction, End, Link, Backwards, Followable, FirstPage
<1> HIDE DEF p
<1> QED
  BY <1>2, <1>5, <1>7, <1>8, <1>9 DEF S, items, p

\* Of what a link selects, a page shows all but what lies beyond its own link onward.
LEMMA PageIsComplete ==
    ASSUME table \in Tables, NEW link, Followable(link)
    PROVE  LET p == paginate_keyset(link)
               previous == Backwards(link)
               onward == Onward(p, previous)
           IN  /\ p.items \subseteq Selected(link) /\ p.items \subseteq table
               /\ p.items \subseteq Row /\ IsFiniteSet(p.items)
               /\ onward.to \in {"none", Direction(previous)}
               /\ onward.to # "none" =>
                     /\ onward.boundary \in p.items
                     /\ \A r \in p.items : ~Before(onward.boundary, r, previous)
                     /\ \A r \in Selected(link) :
                           r \in p.items \/ Before(onward.boundary, r, previous)
               /\ onward.to = "none" => p.items = Selected(link)
<1> DEFINE previous == Backwards(link)
           S == Selected(link)
           p == paginate_keyset(link)
           items == p.items
           onward == Onward(p, previous)
           boundary == End(items, previous)
<1>1. table \subseteq Row /\ IsFiniteSet(table) /\ previous \in BOOLEAN
      /\ PageSize \in Nat \ {0}
  BY PaginationAssumption DEF Tables, Backwards
<1>2. /\ S \subseteq table /\ IsFiniteSet(S)
      /\ items = FirstRows(S, PageSize, previous)
      /\ onward = IF items = S THEN NoLink ELSE Cursor(Direction(previous), boundary)
      /\ items = {} => S = {}
  BY PageFacts
<1>3. /\ items \subseteq S /\ IsFiniteSet(items)
      /\ \A r \in items, s \in S \ items : Before(r, s, previous)
  BY <1>1, <1>2, FirstRowsAreCounted
<1> HIDE DEF S, p, items, onward
<1>4. ASSUME items # {}
      PROVE  /\ boundary \in items
             /\ \A r \in items : ~Before(boundary, r, previous)
  <2>1. /\ FirstItem(items) \in items /\ LastItem(items) \in items
        /\ \A s \in items \ {FirstItem(items)} : Before(FirstItem(items), s, FALSE)
        /\ \A s \in items \ {LastItem(items)} : Before(s, LastItem(items), FALSE)
    BY <1>1, <1>2, <1>3, <1>4, EndsOfItems
  <2>2. items \subseteq Row
    BY <1>1, <1>2, <1>3
  <2>3. boundary \in items /\ \A s \in items \ {boundary} : Before(s, boundary, previous)
    <3>1. CASE previous = TRUE
      <4>1. boundary = FirstItem(items)
        BY <3>1 DEF End
      <4> QED
        BY <2>1, <2>2, <3>1, <4>1, OrderMirrors
    <3>2. CASE previous = FALSE
      <4>1. boundary = LastItem(items)
        BY <3>2 DEF End
      <4> QED
        BY <2>1, <3>2, <4>1
    <3> QED
      BY <1>1, <3>1, <3>2
  <2> HIDE DEF boundary, previous
  <2> QED
    BY <1>1, <2>2, <2>3, OrderFacts
<1>5. Direction(previous) # "none"
  BY DEF Direction
<1> HIDE DEF boundary
<1>6. /\ onward.to \in {"none", Direction(previous)}
      /\ onward.to # "none" => onward.boundary = boundary /\ items # S
      /\ onward.to = "none" => items = S
  BY <1>2, <1>5 DEF NoLink, Cursor
<1>7. onward.to # "none" => items # {}
  BY <1>2, <1>3, <1>6
<1> QED
  BY <1>1, <1>2, <1>3, <1>4, <1>6, <1>7 DEF S, p, items, onward

\* The links of a page: an empty one leads nowhere but to the first.
LinksAreSound(p) ==
    /\ p.previous.to \in {"none", "first", "previous"}
    /\ p.next.to \in {"none", "first", "next"}
    /\ p.previous.to = "previous" => p.previous.boundary \in Row /\ p.items # {}
    /\ p.next.to = "next" => p.next.boundary \in Row /\ p.items # {}

LEMMA PageLinks ==
    ASSUME table \in Tables, NEW link, Followable(link)
    PROVE  LET p == paginate_keyset(link) IN
           /\ LinksAreSound(p)
           /\ p.items = {} =>
                 \/ link = FirstPage /\ table = {}
                 \/ "first" \in {p.previous.to, p.next.to}
<1> DEFINE p == paginate_keyset(link)
           previous == Backwards(link)
           onward == Onward(p, previous)
           back == Back(p, previous)
           boundary == End(p.items, ~previous)
<1>1. /\ p.items \subseteq Row /\ IsFiniteSet(p.items)
      /\ onward.to \in {"none", Direction(previous)}
      /\ onward.to # "none" => onward.boundary \in p.items
      /\ onward.to = "none" => p.items = Selected(link)
  BY PageIsComplete
<1>2. /\ back = IF link.to = "first" THEN NoLink
                ELSE IF p.items = {} THEN FirstPage
                ELSE Cursor(Direction(~previous), boundary)
      /\ p.items = {} => Selected(link) = {}
  BY PageFacts
<1>3. p.items # {} => boundary \in p.items
  BY <1>1, EndsOfItems DEF End
<1>4. previous \in BOOLEAN
  BY DEF Backwards
<1> HIDE DEF p, boundary
<1>5. /\ back.to \in {"none", "first", Direction(~previous)}
      /\ back.to = Direction(~previous) => back.boundary \in Row /\ p.items # {}
      /\ link.to # "first" /\ p.items = {} => back.to = "first"
  BY <1>1, <1>2, <1>3, <1>4 DEF NoLink, FirstPage, Cursor, Direction
<1>6. onward.to = Direction(previous) => onward.boundary \in Row /\ p.items # {}
  BY <1>1, <1>4 DEF Direction
<1> HIDE DEF onward, back, previous
<1>7. LinksAreSound(p)
  <2>1. CASE previous
    BY <1>1, <1>5, <1>6, <2>1
    DEF LinksAreSound, Direction, onward, back, Onward, Back
  <2>2. CASE ~previous
    BY <1>1, <1>5, <1>6, <2>2
    DEF LinksAreSound, Direction, onward, back, Onward, Back
  <2> QED
    BY <2>1, <2>2
<1>8. ASSUME p.items = {}
      PROVE  \/ link = FirstPage /\ table = {}
             \/ "first" \in {p.previous.to, p.next.to}
  <2>1. CASE link.to = "first"
    BY <1>2, <1>8, <2>1 DEF Followable, Selected
  <2>2. CASE link.to # "first"
    BY <1>5, <1>8, <2>2 DEF back, Back
  <2> QED
    BY <2>1, <2>2
<1> QED
  BY <1>7, <1>8 DEF p

----------------------------------------------------------------------------
\* Walks.

\* What holds of a walk w that has come to page p of a table.  The rows that rest
\* are still there, none shown lies beyond the link onward (so none is shown
\* again), and every resting row of the walk's range up to that link was shown.
Walked(w, p, rows) ==
    LET previous == w.direction = "previous"
        onward == Onward(p, previous)
    IN  /\ DOMAIN w = {"direction", "from", "steady", "shown", "count"}
        /\ w.direction \in {"next", "previous"}
        /\ w.from \in Row \cup {NoRow}
        /\ w.steady \subseteq rows
        /\ w.shown \subseteq Row /\ IsFiniteSet(w.shown)
        /\ w.count = Cardinality(w.shown)
        /\ onward.to = w.direction =>
              \A r \in w.shown : ~Before(onward.boundary, r, previous)
        /\ \A r \in w.steady :
              /\ w.from # NoRow => Before(w.from, r, previous)
              /\ onward.to = w.direction => ~Before(onward.boundary, r, previous)
              => r \in w.shown

PagesInvariant == /\ table \in Tables
                  /\ LinksAreSound(page)
                  /\ Walked(walk, page, table)

\* A walk is complete.
LEMMA WalkedIsComplete ==
    ASSUME PagesInvariant
    PROVE  WalkIsComplete
<1> DEFINE previous == walk.direction = "previous"
<1>1. /\ walk.direction \in {"next", "previous"}
      /\ walk.from \in Row \cup {NoRow}
      /\ walk.steady \subseteq Row
      /\ Cardinality(walk.shown) = walk.count
      /\ Reached = Onward(page, previous)
      /\ \A r \in walk.steady :
            /\ walk.from # NoRow => Before(walk.from, r, previous)
            /\ Reached.to = walk.direction => ~Before(Reached.boundary, r, previous)
            => r \in walk.shown
  BY DEF PagesInvariant, Walked, Tables, Reached, Onward
<1>2. Reached.to = walk.direction => Reached.boundary \in Row
  BY <1>1 DEF PagesInvariant, LinksAreSound, Reached
<1>3. \A r, s \in Row : Beyond(s, r) <=> Before(r, s, previous)
  BY <1>1, OrderMirrors DEF Beyond
<1>4. ASSUME NEW r \in walk.steady, walk.from # NoRow => Beyond(r, walk.from),
             Reached.to = walk.direction => ~Beyond(r, Reached.boundary)
      PROVE  r \in walk.shown
  BY <1>1, <1>2, <1>3, <1>4
<1> QED
  BY <1>1, <1>4 DEF WalkIsComplete

\* A page that is asked for without a cursor, or against the walk, starts one.
LEMMA WalkStarts ==
    ASSUME table \in Tables, NEW link, Followable(link)
    PROVE  LET p == paginate_keyset(link) IN Walked(Walk(link, p.items), p, table)
<1> DEFINE p == paginate_keyset(link)
           w == Walk(link, p.items)
           previous == w.direction = "previous"
           onward == Onward(p, previous)
<1>1. /\ w.direction = Direction(previous) /\ w.from = link.boundary /\ w.steady = table
      /\ w.shown = p.items /\ w.count = Cardinality(p.items)
      /\ DOMAIN w = {"direction", "from", "steady", "shown", "count"}
  BY DEF Walk, Direction
<1>2. previous = Backwards(link)
  BY DEF Walk, Backwards
<1>3. /\ p.items \subseteq Row /\ IsFiniteSet(p.items)
      /\ onward.to \in {"none", Direction(previous)}
      /\ onward.to # "none" =>
            /\ \A r \in p.items : ~Before(onward.boundary, r, previous)
            /\ \A r \in Selected(link) :
                  r \in p.items \/ Before(onward.boundary, r, previous)
      /\ onward.to = "none" => p.items = Selected(link)
  BY <1>2, PageIsComplete
<1>4. w.from \in Row \cup {NoRow} /\ Direction(previous) \in {"next", "previous"}
  BY <1>1 DEF Followable, FirstPage, Direction
<1>5. \A r \in table : (link.boundary # NoRow => Before(link.boundary, r, previous))
                           => r \in Selected(link)
  <2>1. CASE link = FirstPage
    BY <2>1 DEF Selected, FirstPage
  <2>2. CASE link.boundary \in Row
    <3>1. link.boundary # NoRow
      BY <2>2, RowFacts DEF NoRow
    <3> QED
      BY <1>2, <3>1 DEF Selected
  <2> QED
    BY <2>1, <2>2 DEF Followable
<1> HIDE DEF p, w, previous, onward
<1>6. onward.to = w.direction => \A r \in w.shown : ~Before(onward.boundary, r, previous)
  BY <1>1, <1>3, <1>4
<1>7. \A r \in w.steady :
         /\ w.from # NoRow => Before(w.from, r, previous)
         /\ onward.to = w.direction => ~Before(onward.boundary, r, previous)
         => r \in w.shown
  BY <1>1, <1>3, <1>4, <1>5
<1>8. Walked(w, p, table)
  BY <1>1, <1>3, <1>4, <1>6, <1>7 DEF Walked, previous, onward
<1> QED
  BY <1>8 DEF w, p

\* The link onward continues it: its page shows what lies beyond the boundary.
LEMMA WalkContinues ==
    ASSUME table \in Tables, NEW w, NEW p, Walked(w, p, table),
           NEW link, link = Onward(p, w.direction = "previous"), link.to = w.direction,
           link.boundary \in Row
    PROVE  LET q == paginate_keyset(link) IN
           Walked([w EXCEPT !.shown = @ \cup q.items,
                            !.count = @ + Cardinality(q.items)], q, table)
<1> DEFINE q == paginate_keyset(link)
           v == [w EXCEPT !.shown = @ \cup q.items, !.count = @ + Cardinality(q.items)]
           previous == w.direction = "previous"
           onward == Onward(q, previous)
<1>1. /\ DOMAIN w = {"direction", "from", "steady", "shown", "count"}
      /\ w.direction \in {"next", "previous"}
      /\ w.from \in Row \cup {NoRow}
      /\ w.steady \subseteq table
      /\ w.shown \subseteq Row /\ IsFiniteSet(w.shown)
      /\ w.count = Cardinality(w.shown)
      /\ \A r \in w.shown : ~Before(link.boundary, r, previous)
      /\ \A r \in w.steady :
            /\ w.from # NoRow => Before(w.from, r, previous)
            /\ ~Before(link.boundary, r, previous)
            => r \in w.shown
  BY DEF Walked
<1>2. /\ DOMAIN v = {"direction", "from", "steady", "shown", "count"}
      /\ v.direction = w.direction /\ v.from = w.from /\ v.steady = w.steady
      /\ v.shown = w.shown \cup q.items
      /\ v.count = w.count + Cardinality(q.items)
  <2> HIDE DEF q
  <2> QED
    BY <1>1
<1>3. Followable(link) /\ previous = Backwards(link) /\ link.to # "first"
      /\ Direction(previous) = w.direction /\ previous \in BOOLEAN
  BY <1>1 DEF Followable, Backwards, Direction
<1>4. /\ q.items \subseteq Selected(link)
      /\ q.items \subseteq Row /\ IsFiniteSet(q.items)
      /\ onward.to \in {"none", w.direction}
      /\ onward.to # "none" =>
            /\ onward.boundary \in q.items
            /\ \A r \in q.items : ~Before(onward.boundary, r, previous)
            /\ \A r \in Selected(link) :
                  r \in q.items \/ Before(onward.boundary, r, previous)
      /\ onward.to = "none" => q.items = Selected(link)
  BY <1>3, PageIsComplete
<1>5. Selected(link) = {r \in table : Before(link.boundary, r, previous)}
  BY <1>3 DEF Selected
<1> HIDE DEF q, v, previous, onward
<1>6. w.shown \cap q.items = {}
  BY <1>1, <1>4, <1>5
<1>7. v.count = Cardinality(v.shown) /\ v.shown \subseteq Row /\ IsFiniteSet(v.shown)
  <2>1. /\ IsFiniteSet(w.shown \cup q.items)
        /\ Cardinality(w.shown \cup q.items) =
              Cardinality(w.shown) + Cardinality(q.items) - Cardinality(w.shown \cap q.items)
    BY <1>1, <1>4, FS_Union
  <2>2. Cardinality(w.shown) \in Nat /\ Cardinality(q.items) \in Nat
    BY <1>1, <1>4, FS_CardinalityType
  <2>3. Cardinality(w.shown \cap q.items) = 0
    BY <1>6, FS_EmptySet
  <2> QED
    BY <1>1, <1>2, <1>4, <2>1, <2>2, <2>3
<1>8. ASSUME onward.to = w.direction
      PROVE  \A r \in v.shown : ~Before(onward.boundary, r, previous)
  <2>1. /\ w.direction # "none" /\ onward.boundary \in Row
        /\ Before(link.boundary, onward.boundary, previous)
    BY <1>1, <1>4, <1>5, <1>8
  <2>2. ASSUME NEW r \in w.shown, Before(onward.boundary, r, previous)
        PROVE  FALSE
    <3>1. r \in Row
      BY <1>1
    <3>2. Before(link.boundary, r, previous)
      BY <1>3, <2>1, <2>2, <3>1, OrderIsTransitive
    <3> QED
      BY <1>1, <3>2
  <2> QED
    BY <1>2, <1>4, <1>8, <2>1, <2>2
<1>9. \A r \in v.steady :
         /\ v.from # NoRow => Before(v.from, r, previous)
         /\ onward.to = v.direction => ~Before(onward.boundary, r, previous)
         => r \in v.shown
  BY <1>1, <1>2, <1>4, <1>5
<1>10. Walked(v, q, table)
  BY <1>1, <1>2, <1>7, <1>8, <1>9 DEF Walked, previous, onward
<1> QED
  BY <1>10 DEF v, q

\* Rows that come, go or move are no longer asked of it.
LEMMA WalkSurvives ==
    ASSUME NEW w, NEW p, NEW before, NEW rows, Walked(w, p, before)
    PROVE  Walked([w EXCEPT !.steady = @ \cap rows], p, rows)
<1> DEFINE v == [w EXCEPT !.steady = @ \cap rows]
<1>1. DOMAIN w = {"direction", "from", "steady", "shown", "count"}
  BY DEF Walked
<1>2. /\ DOMAIN v = {"direction", "from", "steady", "shown", "count"}
      /\ v.direction = w.direction /\ v.from = w.from /\ v.steady = w.steady \cap rows
      /\ v.shown = w.shown /\ v.count = w.count
  BY <1>1
<1> HIDE DEF v
<1>3. Walked(v, p, rows)
  BY <1>2 DEF Walked
<1> QED
  BY <1>3 DEF v

----------------------------------------------------------------------------
\* The invariant is inductive.

\* A table stays a table.
LEMMA TablesMove ==
    ASSUME table \in Tables
    PROVE  /\ \A r \in Row : (\A s \in table : s[2] # r[2]) => table \cup {r} \in Tables
           /\ \A r \in table : table \ {r} \in Tables
           /\ \A r \in table, value \in Value :
                 (table \ {r}) \cup {<<value, r[2]>>} \in Tables
<1>1. /\ table \subseteq Row /\ IsFiniteSet(table)
      /\ \A r, s \in table : r[2] = s[2] => r = s
  BY DEF Tables
<1>2. \A r : IsFiniteSet(table \cup {r}) /\ IsFiniteSet(table \ {r})
  BY <1>1, FS_AddElement, FS_RemoveElement
<1>3. \A r, s : IsFiniteSet((table \ {r}) \cup {s})
  BY <1>2, FS_AddElement
<1>4. ASSUME NEW r \in Row, \A s \in table : s[2] # r[2]
      PROVE  table \cup {r} \in Tables
  BY <1>1, <1>2, <1>4 DEF Tables
<1>5. ASSUME NEW r \in table
      PROVE  table \ {r} \in Tables
  BY <1>1, <1>2 DEF Tables
<1>6. ASSUME NEW r \in table, NEW value \in Value
      PROVE  (table \ {r}) \cup {<<value, r[2]>>} \in Tables
  <2>1. <<value, r[2]>> \in Row /\ <<value, r[2]>>[2] = r[2]
    BY <1>1 DEF Row
  <2>2. \A s \in table \ {r} : s[2] # r[2]
    BY <1>1
  <2> HIDE DEF Row
  <2>3. \A s, t \in (table \ {r}) \cup {<<value, r[2]>>} : s[2] = t[2] => s = t
    BY <1>1, <2>1, <2>2
  <2> QED
    BY <1>1, <1>3, <2>1, <2>3 DEF Tables
<1> QED
  BY <1>4, <1>5, <1>6

\* A link that is followed leads to a page; so does the first one.
LEMMA FollowedLink ==
    ASSUME PagesInvariant, NEW link \in {page.previous, page.next},
           link.to \in {"previous", "next"}
    PROVE  /\ Followable(link) /\ link.boundary \in Row /\ page.items # {}
           /\ link.to = walk.direction => link = Onward(page, walk.direction = "previous")
BY DEF PagesInvariant, LinksAreSound, Followable, Onward

LEMMA PagesInductive ==
    ASSUME PagesInvariant, [Next]_vars
    PROVE  PagesInvariant'
<1>1. CASE open_first_page
  <2>1. Followable(FirstPage) /\ table \in Tables
    BY DEF Followable, PagesInvariant
  <2>2. LinksAreSound(page')
    BY <1>1, <2>1, PageLinks DEF open_first_page
  <2>3. Walked(walk', page', table)
    BY <1>1, <2>1, WalkStarts DEF open_first_page, Walk
  <2> QED
    BY <1>1, <2>1, <2>2, <2>3 DEF open_first_page, PagesInvariant, LinksAreSound, Walked, Onward
<1>2. ASSUME NEW link \in {page.previous, page.next}, follow_link(link)
      PROVE  PagesInvariant'
  <2>1. /\ Followable(link) /\ link.boundary \in Row
        /\ link.to = walk.direction => link = Onward(page, walk.direction = "previous")
        /\ table \in Tables /\ table' = table /\ page' = paginate_keyset(link)
    BY <1>2, FollowedLink DEF follow_link, PagesInvariant
  <2>2. LinksAreSound(page')
    BY <2>1, PageLinks
  <2>3. Walked(walk', page', table)
    <3>1. CASE link.to = walk.direction
      <4>1. walk' = [walk EXCEPT !.shown = @ \cup paginate_keyset(link).items,
                                 !.count = @ + Cardinality(paginate_keyset(link).items)]
        BY <1>2, <2>1, <3>1 DEF follow_link
      <4>2. Walked(walk, page, table)
        BY DEF PagesInvariant
      <4> QED
        BY <2>1, <3>1, <4>1, <4>2, WalkContinues
    <3>2. CASE link.to # walk.direction
      <4>1. walk' = Walk(link, paginate_keyset(link).items)
        BY <1>2, <2>1, <3>2 DEF follow_link, Walk
      <4> QED
        BY <2>1, <4>1, WalkStarts
    <3> QED
      BY <3>1, <3>2
  <2> QED
    BY <2>1, <2>2, <2>3 DEF PagesInvariant, LinksAreSound, Walked, Onward
<1>3. ASSUME NEW rows \in Tables, change_table(rows)
      PROVE  PagesInvariant'
  <2>1. /\ table' = rows /\ page' = page
        /\ walk' = [walk EXCEPT !.steady = @ \cap rows]
    BY <1>3 DEF change_table
  <2>2. Walked(walk', page, rows)
    BY <2>1, WalkSurvives DEF PagesInvariant
  <2> QED
    BY <2>1, <2>2 DEF PagesInvariant, LinksAreSound, Walked, Onward
<1>4. ASSUME \/ \E r \in Row : /\ \A s \in table : s[2] # r[2]
                               /\ insert_row(r)
             \/ \E r \in table : \/ delete_row(r)
                                 \/ \E value \in Value : move_row(r, value)
      PROVE  \E rows \in Tables : change_table(rows)
  <2>1. table \in Tables
    BY DEF PagesInvariant
  <2> QED
    BY <1>4, <2>1, TablesMove DEF insert_row, delete_row, move_row
<1>5. CASE UNCHANGED vars
  BY <1>5 DEF vars, PagesInvariant, LinksAreSound, Walked, Onward
<1> QED
  BY <1>1, <1>2, <1>3, <1>4, <1>5 DEF Next

LEMMA PagesInitially == Init => PagesInvariant
<1> SUFFICES ASSUME Init
             PROVE  PagesInvariant
  OBVIOUS
<1>1. table \in Tables /\ Followable(FirstPage)
  BY DEF Init, Followable
<1> QED
  BY <1>1, PageLinks, WalkStarts DEF Init, PagesInvariant

LEMMA PagesAlways == Spec => []PagesInvariant
BY PagesInitially, PagesInductive, PTL DEF Spec

\* Whatever is inserted, deleted or moved meanwhile, a walk misses no row that
\* rests and shows none twice.
THEOREM WalksAreComplete == Spec => []WalkIsComplete
BY WalkedIsComplete, PagesAlways, PTL

\* An empty page leads back to the first, and is reached only from a page that
\* showed rows.
THEOREM NobodyIsTrapped == Spec => NeverTrapped
<1>1. ASSUME PagesInvariant, [Next]_vars
      PROVE  [page'.items = {} /\ page' # page =>
                /\ page.items # {} \/ table = {}
                /\ table # {} => "first" \in {page'.previous.to, page'.next.to}]_vars
  <2> SUFFICES ASSUME page'.items = {}, page' # page
               PROVE  /\ page.items # {} \/ table = {}
                      /\ table # {} => "first" \in {page'.previous.to, page'.next.to}
    OBVIOUS
  <2>1. CASE open_first_page
    <3>1. Followable(FirstPage) /\ table \in Tables /\ page' = paginate_keyset(FirstPage)
      BY <1>1, <2>1 DEF Followable, PagesInvariant, open_first_page
    <3>2. paginate_keyset(FirstPage).items = {} => Selected(FirstPage) = {}
      BY <3>1, PageFacts
    <3> QED
      BY <3>1, <3>2 DEF Selected, FirstPage
  <2>2. ASSUME NEW link \in {page.previous, page.next}, follow_link(link)
        PROVE  /\ page.items # {} \/ table = {}
               /\ table # {} => "first" \in {page'.previous.to, page'.next.to}
    <3>1. Followable(link) /\ page.items # {} /\ table \in Tables
          /\ page' = paginate_keyset(link) /\ link # FirstPage
      BY <1>1, <2>2, FollowedLink DEF follow_link, PagesInvariant, FirstPage
    <3> QED
      BY <3>1, PageLinks
  <2>3. ASSUME NEW rows, change_table(rows)
        PROVE  FALSE
    BY <2>3 DEF change_table
  <2> QED
    BY <1>1, <2>1, <2>2, <2>3 DEF Next, insert_row, delete_row, move_row, vars
<1> QED
  BY <1>1, PagesAlways, PTL DEF Spec, NeverTrapped

----------------------------------------------------------------------------
\* Slices.

\* The rows from rank n on, ranked among themselves.
LEMMA RanksAhead ==
    ASSUME table \in Tables, NEW reverse \in BOOLEAN, NEW n \in Nat,
           n = 0 \/ {r \in table : Rank(r, table, reverse) >= n} # {}
    PROVE  LET S == {r \in table : Rank(r, table, reverse) >= n} IN
           /\ FirstRows(S, PageSize, reverse) =
                 {r \in table : /\ Rank(r, table, reverse) >= n
                                /\ Rank(r, table, reverse) < n + PageSize}
           /\ FirstRows(S, PageSize, reverse) # S =>
                 \E m \in table : Rank(m, table, reverse) = n + PageSize
<1> DEFINE S == {r \in table : Rank(r, table, reverse) >= n}
           F == FirstRows(table, n, reverse)
           Ranked(r) == Rank(r, table, reverse)
           Beyond0(r) == {s \in S : Before(s, r, reverse)}
<1>1. table \subseteq Row /\ IsFiniteSet(table) /\ PageSize \in Nat \ {0}
  BY PaginationAssumption DEF Tables
<1>2. \A r \in table : Ranked(r) \in Nat
  BY <1>1, RankFacts
<1>3. S \subseteq table /\ IsFiniteSet(S) /\ (n = 0 \/ S # {})
  BY <1>1, FS_Subset
<1>10. S = {r \in table : Ranked(r) >= n}
  OBVIOUS
<1>4. \A r : r \in F <=> r \in table /\ Ranked(r) < n
  BY DEF FirstRows
<1>5. table \ F = S /\ F \subseteq table /\ F \cap S = {}
  <2> HIDE DEF Ranked, F, S
  <2> QED
    BY <1>2, <1>4, <1>10
<1> HIDE DEF S
<1>6. /\ IsFiniteSet(F) /\ Cardinality(F) \in 0..n
      /\ \A r \in F, s \in table \ F : Before(r, s, reverse)
      /\ F = table \/ Cardinality(F) = n
  BY <1>1, FirstRowsAreCounted
<1>7. Cardinality(F) = n
  <2> HIDE DEF F
  <2> QED
    BY <1>3, <1>5, <1>6
<1>8. ASSUME NEW r \in S
      PROVE  Ranked(r) = n + Rank(r, S, reverse)
  <2>1. {s \in table : Before(s, r, reverse)} = F \cup Beyond0(r)
    <3> HIDE DEF F
    <3> QED
      BY <1>3, <1>5, <1>6, <1>8
  <2>2. IsFiniteSet(Beyond0(r)) /\ F \cap Beyond0(r) = {}
    <3> HIDE DEF F
    <3>1. Beyond0(r) \subseteq S
      OBVIOUS
    <3> QED
      BY <1>3, <1>5, <3>1, FS_Subset
  <2>3. /\ Cardinality(F \cup Beyond0(r)) =
              Cardinality(F) + Cardinality(Beyond0(r)) - Cardinality(F \cap Beyond0(r))
        /\ Cardinality(F \cap Beyond0(r)) = 0
        /\ Cardinality(Beyond0(r)) \in Nat
    <3> HIDE DEF F, Beyond0
    <3> QED
      BY <1>6, <2>2, FS_Union, FS_EmptySet, FS_CardinalityType
  <2>4. Rank(r, S, reverse) = Cardinality(Beyond0(r))
        /\ Ranked(r) = Cardinality(F \cup Beyond0(r))
    BY <2>1 DEF Rank
  <2>5. Ranked(r) = n + Cardinality(Beyond0(r))
    <3> HIDE DEF F, Beyond0, Ranked
    <3> QED
      BY <1>7, <2>3, <2>4
  <2> QED
    BY <2>4, <2>5
<1>9. \A r \in S : Rank(r, S, reverse) \in Nat
  BY <1>1, <1>3, RankFacts
<1> HIDE DEF Ranked, F
<1>11. FirstRows(S, PageSize, reverse) =
          {r \in table : Ranked(r) >= n /\ Ranked(r) < n + PageSize}
  <2>1. \A r \in S : Rank(r, S, reverse) < PageSize <=> Ranked(r) < n + PageSize
    BY <1>1, <1>8, <1>9
  <2> QED
    BY <1>10, <2>1 DEF FirstRows
<1>12. ASSUME FirstRows(S, PageSize, reverse) # S
       PROVE  \E m \in table : Ranked(m) = n + PageSize
  <2>1. S \in SUBSET Row /\ PageSize \in Nat
    BY <1>1, <1>3
  <2>2. \E m \in S \ FirstRows(S, PageSize, reverse) : Rank(m, S, reverse) = PageSize
    BY <1>3, <1>12, <2>1, FirstRowsAreCounted
  <2>3. PICK m \in S : Rank(m, S, reverse) = PageSize
    BY <2>2
  <2> QED
    BY <1>3, <1>8, <2>3
<1> QED
  BY <1>11, <1>12 DEF Ranked, S

\* The first n rows, ranked from their end.
LEMMA RanksBehind ==
    ASSUME table \in Tables, NEW reverse \in BOOLEAN, NEW other \in BOOLEAN,
           \A r, s \in Row : Before(r, s, other) <=> Before(s, r, reverse),
           NEW n \in Nat, FirstRows(table, n, reverse) # table
    PROVE  LET S == FirstRows(table, n, reverse) IN
           /\ FirstRows(S, PageSize, other) =
                 {r \in table : /\ Rank(r, table, reverse) + PageSize >= n
                                /\ Rank(r, table, reverse) < n}
           /\ FirstRows(S, PageSize, other) = S <=> n <= PageSize
<1> DEFINE S == FirstRows(table, n, reverse)
           Ranked(r) == Rank(r, table, reverse)
           Prior(r) == {s \in S : Before(s, r, reverse)}
           Later(r) == {s \in S : Before(s, r, other)}
<1>1. table \subseteq Row /\ IsFiniteSet(table) /\ PageSize \in Nat \ {0}
  BY PaginationAssumption DEF Tables
<1>2. \A r \in table : Ranked(r) \in Nat
  BY <1>1, RankFacts
<1>3. /\ S \subseteq table /\ IsFiniteSet(S) /\ Cardinality(S) = n
      /\ \A r \in S, s \in table : Before(s, r, reverse) => s \in S
  BY <1>1, FirstRowsAreCounted
<1>4. \A r : r \in S <=> r \in table /\ Ranked(r) < n
  BY DEF FirstRows
<1> HIDE DEF S
<1>5. ASSUME NEW r \in S
      PROVE  Ranked(r) + Rank(r, S, other) + 1 = n
  <2>1. {s \in table : Before(s, r, reverse)} = Prior(r)
    BY <1>3
  <2>2. Ranked(r) = Cardinality(Prior(r)) /\ Rank(r, S, other) = Cardinality(Later(r))
    BY <2>1 DEF Rank
  <2>3. r \in Row
    BY <1>1, <1>3
  <2>4. Prior(r) \cup Later(r) = S \ {r} /\ Prior(r) \cap Later(r) = {}
    <3>1. \A s \in S : /\ Before(s, r, other) <=> Before(r, s, reverse)
                       /\ ~(Before(s, r, reverse) /\ Before(r, s, reverse))
                       /\ s # r => Before(s, r, reverse) \/ Before(r, s, reverse)
                       /\ ~Before(r, r, reverse)
      BY <1>1, <1>3, <2>3, OrderFacts
    <3> QED
      BY <3>1
  <2>5. IsFiniteSet(Prior(r)) /\ IsFiniteSet(Later(r))
    BY <1>3, FS_Subset
  <2>6. Cardinality(S \ {r}) = n - 1
    BY <1>3, FS_RemoveElement
  <2> HIDE DEF Prior, Later
  <2>7. /\ Cardinality(Prior(r) \cup Later(r)) =
              Cardinality(Prior(r)) + Cardinality(Later(r))
                  - Cardinality(Prior(r) \cap Later(r))
        /\ Cardinality(Prior(r) \cap Later(r)) = 0
        /\ Cardinality(Prior(r)) \in Nat /\ Cardinality(Later(r)) \in Nat
    BY <2>4, <2>5, FS_Union, FS_EmptySet, FS_CardinalityType
  <2>8. n - 1 = Cardinality(Prior(r)) + Cardinality(Later(r))
    <3>1. Cardinality(Prior(r) \cup Later(r)) = n - 1
      BY <2>4, <2>6
    <3> QED
      BY <2>7, <3>1
  <2>9. /\ Ranked(r) = Cardinality(Prior(r)) /\ Cardinality(Prior(r)) \in Nat
        /\ Rank(r, S, other) = Cardinality(Later(r)) /\ Cardinality(Later(r)) \in Nat
    BY <2>2, <2>7
  <2> HIDE DEF Ranked
  <2> QED
    BY <2>8, <2>9
<1>6. \A r \in S : Rank(r, S, other) \in Nat
  BY <1>1, <1>3, RankFacts
<1> HIDE DEF Ranked
<1>7. FirstRows(S, PageSize, other) =
         {r \in table : Ranked(r) + PageSize >= n /\ Ranked(r) < n}
  <2>1. \A r \in S : Rank(r, S, other) < PageSize <=> Ranked(r) + PageSize >= n
    BY <1>1, <1>2, <1>3, <1>5, <1>6
  <2> QED
    BY <1>3, <1>4, <2>1 DEF FirstRows
<1>8. FirstRows(S, PageSize, other) = S <=> n <= PageSize
  <2> DEFINE G == FirstRows(S, PageSize, other)
  <2>1. /\ G \subseteq S /\ Cardinality(G) \in 0..PageSize
        /\ G = S \/ Cardinality(G) = PageSize
    BY <1>1, <1>3, FirstRowsAreCounted
  <2>2. G # S => Cardinality(G) # Cardinality(S) /\ Cardinality(G) <= Cardinality(S)
    <3> HIDE DEF G
    <3> QED
      BY <1>3, <2>1, FS_Subset
  <2> HIDE DEF G
  <2>3. G = S <=> n <= PageSize
    BY <1>1, <1>3, <2>1, <2>2
  <2> QED
    BY <2>3 DEF G
<1> QED
  BY <1>7, <1>8 DEF Ranked, S

\* A slice is a range of ranks.
LEMMA Quotients ==
    ASSUME NEW x \in Nat, NEW n \in Nat \ {0}, NEW k \in Nat
    PROVE  x \div n = k <=> k * n <= x /\ x < k * n + n
OBVIOUS

LEMMA Multiples ==
    ASSUME NEW k \in Nat, NEW n \in Nat \ {0}
    PROVE  /\ k * n \in Nat /\ k <= k * n
           /\ (k + 1) * n = k * n + n
           /\ k > 0 => (k - 1) * n \in Nat /\ (k - 1) * n + n = k * n
           /\ k * n <= n <=> k <= 1
<1>1. k * n \in Nat /\ k <= k * n /\ (k + 1) * n = k * n + n
  OBVIOUS
<1>2. k > 0 => (k - 1) * n \in Nat /\ (k - 1) * n + n = k * n
  OBVIOUS
<1>3. k <= 1 => k * n <= n
  <2>1. CASE k = 0
    BY <2>1
  <2>2. CASE k = 1
    BY <2>2
  <2> QED
    BY <2>1, <2>2
<1>4. k > 1 => k * n > n
  <2> SUFFICES ASSUME k > 1
               PROVE  k * n > n
    OBVIOUS
  <2>1. (k - 1) * n + n = k * n /\ k - 1 \in Nat \ {0}
    OBVIOUS
  <2>2. (k - 1) * n >= 1
    BY <2>1
  <2> QED
    BY <2>1, <2>2
<1> QED
  BY <1>1, <1>2, <1>3, <1>4

LEMMA SliceRange ==
    ASSUME table \in Tables, NEW k \in Nat
    PROVE  Slice(k) = {r \in table : /\ Rank(r, table, FALSE) >= k * PageSize
                                     /\ Rank(r, table, FALSE) < k * PageSize + PageSize}
<1> DEFINE Ranked(r) == Rank(r, table, FALSE)
<1>1. table \subseteq Row /\ IsFiniteSet(table) /\ PageSize \in Nat \ {0}
  BY PaginationAssumption DEF Tables
<1>2. \A r \in table : Ranked(r) \in Nat
  BY <1>1, RankFacts
<1>3. Slice(k) = {r \in table : Ranked(r) \div PageSize = k}
  BY DEF Slice
<1> HIDE DEF Ranked
<1>4. \A r \in table : Ranked(r) \div PageSize = k
                           <=> /\ Ranked(r) >= k * PageSize
                               /\ Ranked(r) < k * PageSize + PageSize
  <2> TAKE r \in table
  <2>1. Ranked(r) \div PageSize = k
            <=> k * PageSize <= Ranked(r) /\ Ranked(r) < k * PageSize + PageSize
    BY <1>1, <1>2, Quotients
  <2>2. k * PageSize \in Nat
    BY <1>1, Multiples
  <2> QED
    BY <1>1, <1>2, <2>1, <2>2
<1>5. Slice(k) = {r \in table : /\ Ranked(r) >= k * PageSize
                                /\ Ranked(r) < k * PageSize + PageSize}
  BY <1>3, <1>4
<1> QED
  BY <1>5 DEF Ranked

\* What lies beyond the ends of a range of ranks.
LEMMA BeyondRange ==
    ASSUME table \in Tables, NEW reverse \in BOOLEAN, NEW low \in Nat, NEW high \in Nat,
           NEW b \in table, Rank(b, table, reverse) >= low, Rank(b, table, reverse) < high
    PROVE  LET R == {r \in table : /\ Rank(r, table, reverse) >= low
                                   /\ Rank(r, table, reverse) < high}
           IN  /\ (\A s \in R \ {b} : Before(s, b, reverse)) =>
                     {r \in table : Before(b, r, reverse)}
                         = {r \in table : Rank(r, table, reverse) >= high}
               /\ (\A s \in R \ {b} : Before(b, s, reverse)) =>
                     {r \in table : Before(r, b, reverse)} = FirstRows(table, low, reverse)
<1> DEFINE Ranked(r) == Rank(r, table, reverse)
           R == {r \in table : Ranked(r) >= low /\ Ranked(r) < high}
<1>1. table \subseteq Row /\ IsFiniteSet(table)
  BY DEF Tables
<1>2. /\ \A r \in table : Ranked(r) \in Nat
      /\ \A r, s \in table : Before(s, r, reverse) => Ranked(s) < Ranked(r)
      /\ \A r, s \in table : ~Before(s, r, reverse) => Ranked(r) <= Ranked(s)
  BY <1>1, RankFacts
<1>3. /\ ~Before(b, b, reverse)
      /\ \A r \in table : ~(Before(r, b, reverse) /\ Before(b, r, reverse))
  BY <1>1, OrderFacts
<1>4. Ranked(b) >= low /\ Ranked(b) < high
  OBVIOUS
<1>5. FirstRows(table, low, reverse) = {r \in table : Ranked(r) < low}
  BY DEF FirstRows
<1> HIDE DEF Ranked
<1>6. ASSUME \A s \in R \ {b} : Before(s, b, reverse)
      PROVE  {r \in table : Before(b, r, reverse)} = {r \in table : Ranked(r) >= high}
  <2>1. \A r \in table : Before(b, r, reverse) => Ranked(r) >= high
    BY <1>2, <1>3, <1>4, <1>6
  <2>2. \A r \in table : Ranked(r) >= high => Before(b, r, reverse)
    BY <1>2, <1>4
  <2> QED
    BY <2>1, <2>2
<1>7. ASSUME \A s \in R \ {b} : Before(b, s, reverse)
      PROVE  {r \in table : Before(r, b, reverse)} = {r \in table : Ranked(r) < low}
  <2>1. \A r \in table : Before(r, b, reverse) => Ranked(r) < low
    BY <1>2, <1>3, <1>4, <1>7
  <2>2. \A r \in table : Ranked(r) < low => Before(r, b, reverse)
    BY <1>2, <1>4
  <2> QED
    BY <2>1, <2>2
<1> QED
  BY <1>5, <1>6, <1>7 DEF R, Ranked

\* Page p shows slice k, and its links lead on from its ends.
OnSlice(p, k) ==
    /\ p.items = Slice(k)
    /\ Slice(k) # {} \/ table = {}
    /\ p.previous = IF k > 0 THEN Cursor("previous", FirstItem(Slice(k))) ELSE NoLink
    /\ p.next = IF Slice(k + 1) # {} THEN Cursor("next", LastItem(Slice(k))) ELSE NoLink

\* The rows from a multiple of the page size on: the next page is the next slice,
\* and more follow exactly when the slice after it is not empty.
LEMMA SliceAhead ==
    ASSUME table \in Tables, NEW k \in Nat,
           k = 0 \/ {r \in table : Rank(r, table, FALSE) >= k * PageSize} # {}
    PROVE  LET S == {r \in table : Rank(r, table, FALSE) >= k * PageSize} IN
           /\ FirstRows(S, PageSize, FALSE) = Slice(k)
           /\ Slice(k) = S <=> Slice(k + 1) = {}
<1> DEFINE Ranked(r) == Rank(r, table, FALSE)
           n == k * PageSize
           S == {r \in table : Ranked(r) >= n}
           Ranged == {r \in table : Ranked(r) >= n /\ Ranked(r) < n + PageSize}
           Later == {r \in table : /\ Ranked(r) >= n + PageSize
                                   /\ Ranked(r) < n + PageSize + PageSize}
<1>1. table \subseteq Row /\ IsFiniteSet(table) /\ PageSize \in Nat \ {0}
  BY PaginationAssumption DEF Tables
<1>2. n \in Nat /\ k + 1 \in Nat /\ (k + 1) * PageSize = n + PageSize /\ (k = 0 => n = 0)
  BY <1>1, Multiples
<1>3. \A r \in table : Ranked(r) \in Nat
  BY <1>1, RankFacts
<1>4. /\ FirstRows(S, PageSize, FALSE) = Ranged
      /\ FirstRows(S, PageSize, FALSE) # S => \E m \in table : Ranked(m) = n + PageSize
  <2>1. n = 0 \/ S # {}
    BY <1>2
  <2> HIDE DEF n
  <2> QED
    BY <1>2, <2>1, RanksAhead
<1>5. Slice(k) = Ranged /\ Slice(k + 1) = Later
  <2>1. Slice(k) = Ranged
    BY SliceRange
  <2>2. Slice(k + 1) = {r \in table : /\ Ranked(r) >= (k + 1) * PageSize
                                      /\ Ranked(r) < (k + 1) * PageSize + PageSize}
    BY <1>2, SliceRange
  <2> HIDE DEF Ranked, n
  <2> QED
    BY <1>2, <2>1, <2>2
<1>6. Ranged = S <=> Later = {}
  <2> HIDE DEF n
  <2>1. Ranged # S => \E m \in table : Ranked(m) = n + PageSize
    BY <1>4
  <2> HIDE DEF Ranked
  <2>2. ASSUME Ranged # S
        PROVE  Later # {}
    BY <1>1, <1>2, <2>1, <2>2
  <2>3. ASSUME NEW m \in Later
        PROVE  m \in S /\ m \notin Ranged
    BY <1>1, <1>2, <1>3
  <2> QED
    BY <2>2, <2>3
<1> HIDE DEF Ranged, Later
<1> QED
  BY <1>4, <1>5, <1>6

\* A slice with rows has a first and a last one.
LEMMA EndsOfSlice ==
    ASSUME table \in Tables, NEW k \in Nat, Slice(k) # {}
    PROVE  LET S == Slice(k) IN
           /\ S \subseteq table /\ FirstItem(S) \in S /\ LastItem(S) \in S
           /\ \A s \in S \ {FirstItem(S)} : Before(FirstItem(S), s, FALSE)
           /\ \A s \in S \ {LastItem(S)} : Before(s, LastItem(S), FALSE)
<1>1. Slice(k) \subseteq table
  BY DEF Slice
<1>2. Slice(k) \subseteq Row /\ IsFiniteSet(Slice(k))
  BY <1>1, FS_Subset DEF Tables
<1> QED
  BY <1>1, <1>2, EndsOfItems

LEMMA FirstSlice ==
    ASSUME table \in Tables
    PROVE  OnSlice(paginate_keyset(FirstPage), 0)
<1> DEFINE p == paginate_keyset(FirstPage)
<1>1. Followable(FirstPage) /\ Backwards(FirstPage) = FALSE /\ FirstPage.to = "first"
  BY DEF Followable, Backwards, FirstPage
<1>2. /\ p.items = FirstRows(table, PageSize, FALSE)
      /\ p.next = IF p.items = table THEN NoLink ELSE Cursor("next", LastItem(p.items))
      /\ p.previous = NoLink
      /\ p.items = {} => table = {}
  BY <1>1, PageFacts DEF Selected, Onward, Back, Direction, End
<1>3. {r \in table : Rank(r, table, FALSE) >= 0 * PageSize} = table
  <2>1. table \subseteq Row /\ IsFiniteSet(table) /\ PageSize \in Nat \ {0}
    BY PaginationAssumption DEF Tables
  <2>2. \A r \in table : Rank(r, table, FALSE) \in Nat
    BY <2>1, RankFacts
  <2>3. 0 * PageSize = 0
    BY <2>1
  <2> DEFINE Ranked(r) == Rank(r, table, FALSE)
  <2>4. \A r \in table : Ranked(r) \in Nat
    BY <2>2
  <2> HIDE DEF Ranked
  <2>5. \A r \in table : Ranked(r) >= 0 * PageSize
    BY <2>3, <2>4
  <2>6. {r \in table : Ranked(r) >= 0 * PageSize} = table
    BY <2>5
  <2> QED
    BY <2>6 DEF Ranked
<1>4. FirstRows(table, PageSize, FALSE) = Slice(0) /\ (Slice(0) = table <=> Slice(0 + 1) = {})
  <2> DEFINE S == {r \in table : Rank(r, table, FALSE) >= 0 * PageSize}
  <2>1. 0 \in Nat
    OBVIOUS
  <2>2. FirstRows(S, PageSize, FALSE) = Slice(0) /\ (Slice(0) = S <=> Slice(0 + 1) = {})
    BY <2>1, SliceAhead
  <2> HIDE DEF S
  <2>3. S = table
    BY <1>3 DEF S
  <2> QED
    BY <2>2, <2>3
<1> HIDE DEF p
<1>5. OnSlice(p, 0)
  <2>1. ~(0 > 0)
    OBVIOUS
  <2>2. p.next = IF Slice(0 + 1) # {} THEN Cursor("next", LastItem(Slice(0))) ELSE NoLink
    BY <1>2, <1>4
  <2> QED
    BY <1>2, <1>4, <2>1, <2>2 DEF OnSlice
<1> QED
  BY <1>5 DEF p

LEMMA NextSlice ==
    ASSUME table \in Tables, NEW k \in Nat, Slice(k) # {}, Slice(k + 1) # {}
    PROVE  OnSlice(paginate_keyset(Cursor("next", LastItem(Slice(k)))), k + 1)
<1> DEFINE b == LastItem(Slice(k))
           link == Cursor("next", b)
           p == paginate_keyset(link)
           n == (k + 1) * PageSize
           S == {r \in table : Rank(r, table, FALSE) >= n}
<1>1. table \subseteq Row /\ PageSize \in Nat \ {0}
  BY PaginationAssumption DEF Tables
<1>2. /\ n \in Nat /\ n = k * PageSize + PageSize /\ k * PageSize \in Nat
      /\ k + 1 \in Nat
  BY <1>1, Multiples
<1>3. Slice(k) = {r \in table : /\ Rank(r, table, FALSE) >= k * PageSize
                                /\ Rank(r, table, FALSE) < n}
  BY <1>2, SliceRange
<1>4. b \in Slice(k) /\ b \in table /\ \A s \in Slice(k) \ {b} : Before(s, b, FALSE)
  BY EndsOfSlice
<1> HIDE DEF b
<1>5. Followable(link) /\ Backwards(link) = FALSE /\ link.to = "next" /\ link.boundary = b
  BY <1>1, <1>4 DEF Followable, Backwards, Cursor
<1>6. {r \in table : Before(b, r, FALSE)} = S
  <2> DEFINE low == k * PageSize
             R(reverse) == {r \in table : /\ Rank(r, table, reverse) >= low
                                          /\ Rank(r, table, reverse) < n}
  <2>1. b \in R(FALSE) /\ \A s \in R(FALSE) \ {b} : Before(s, b, FALSE)
    BY <1>3, <1>4
  <2>2. low \in Nat /\ n \in Nat /\ b \in table
    BY <1>2, <1>4
  <2> HIDE DEF n, low
  <2>3. ASSUME NEW reverse \in BOOLEAN, b \in R(reverse),
               \A s \in R(reverse) \ {b} : Before(s, b, reverse)
        PROVE  {r \in table : Before(b, r, reverse)}
                   = {r \in table : Rank(r, table, reverse) >= n}
    BY <2>2, <2>3, BeyondRange
  <2> HIDE DEF R
  <2> QED
    BY <2>1, <2>3
<1>7. Selected(link) = S
  BY <1>5, <1>6 DEF Selected
<1>8. S # {}
  <2>1. PICK r \in Slice(k + 1) : TRUE
    OBVIOUS
  <2>2. r \in table /\ Rank(r, table, FALSE) >= n
    BY <1>2, <2>1, SliceRange
  <2> QED
    BY <2>2
<1>9. FirstRows(S, PageSize, FALSE) = Slice(k + 1) /\ (Slice(k + 1) = S <=> Slice(k + 1 + 1) = {})
  BY <1>2, <1>8, SliceAhead
<1> HIDE DEF S, n
<1>10. /\ p.items = Slice(k + 1)
       /\ p.next = IF p.items = S THEN NoLink ELSE Cursor("next", LastItem(p.items))
       /\ p.previous = Cursor("previous", FirstItem(p.items))
  <2> HIDE DEF link
  <2> QED
    BY <1>5, <1>7, <1>9, PageFacts DEF Onward, Back, Direction, End
<1>11. k + 1 > 0
  OBVIOUS
<1> HIDE DEF p
<1>12. OnSlice(p, k + 1)
  BY <1>9, <1>10, <1>11 DEF OnSlice
<1> QED
  BY <1>12 DEF p, link, b

LEMMA PreviousSlice ==
    ASSUME table \in Tables, NEW k \in Nat \ {0}, Slice(k) # {}
    PROVE  OnSlice(paginate_keyset(Cursor("previous", FirstItem(Slice(k)))), k - 1)
<1> DEFINE b == FirstItem(Slice(k))
           link == Cursor("previous", b)
           p == paginate_keyset(link)
           n == k * PageSize
           S == FirstRows(table, n, FALSE)
           Ranked(r) == Rank(r, table, FALSE)
<1>1. table \subseteq Row /\ IsFiniteSet(table) /\ PageSize \in Nat \ {0}
  BY PaginationAssumption DEF Tables
<1>2. /\ n \in Nat /\ k - 1 \in Nat /\ (k - 1) * PageSize \in Nat
      /\ (k - 1) * PageSize + PageSize = n
      /\ n <= PageSize <=> k <= 1
  BY <1>1, Multiples
<1>3. \A r \in table : Ranked(r) \in Nat
  BY <1>1, RankFacts
<1>4. Slice(k) = {r \in table : Ranked(r) >= n /\ Ranked(r) < n + PageSize}
  BY SliceRange
<1>5. b \in Slice(k) /\ b \in table /\ \A s \in Slice(k) \ {b} : Before(b, s, FALSE)
  BY EndsOfSlice
<1> HIDE DEF b
<1>6. Followable(link) /\ Backwards(link) = TRUE /\ link.to = "previous" /\ link.boundary = b
  BY <1>1, <1>5 DEF Followable, Backwards, Cursor
<1>7. S # table
  <2>1. b \in S => Ranked(b) < n
    BY DEF FirstRows
  <2>2. Ranked(b) >= n /\ Ranked(b) \in Nat
    BY <1>3, <1>4, <1>5
  <2> HIDE DEF S, Ranked
  <2> QED
    BY <1>2, <1>5, <2>1, <2>2
<1>8. {r \in table : Before(r, b, FALSE)} = S
  <2>1. Rank(b, table, FALSE) >= n /\ Rank(b, table, FALSE) < n + PageSize
    BY <1>4, <1>5
  <2>2. n + PageSize \in Nat
    BY <1>1, <1>2
  <2> HIDE DEF n
  <2> QED
    BY <1>2, <1>4, <1>5, <2>1, <2>2, BeyondRange
<1>9. Selected(link) = S
  <2>1. \A r \in table : Before(b, r, TRUE) <=> Before(r, b, FALSE)
    BY <1>1, <1>5, OrderMirrors
  <2> HIDE DEF S
  <2> QED
    BY <1>6, <1>8, <2>1 DEF Selected
<1>10. /\ FirstRows(S, PageSize, TRUE) = {r \in table : Ranked(r) + PageSize >= n /\ Ranked(r) < n}
       /\ FirstRows(S, PageSize, TRUE) = S <=> n <= PageSize
  <2>1. \A r, s \in Row : Before(r, s, TRUE) <=> Before(s, r, FALSE)
    BY OrderMirrors
  <2> HIDE DEF n
  <2> QED
    BY <1>2, <1>7, <2>1, RanksBehind
<1>11. Slice(k - 1) = FirstRows(S, PageSize, TRUE)
  <2>1. Slice(k - 1) = {r \in table : /\ Ranked(r) >= (k - 1) * PageSize
                                      /\ Ranked(r) < (k - 1) * PageSize + PageSize}
    BY <1>2, SliceRange
  <2> HIDE DEF Ranked, S
  <2>2. \A r \in table : Ranked(r) >= (k - 1) * PageSize <=> Ranked(r) + PageSize >= n
    BY <1>1, <1>2, <1>3
  <2> QED
    BY <1>2, <1>10, <2>1, <2>2
<1>12. S # {}
  <2>1. Cardinality(S) = n
    BY <1>1, <1>2, <1>7, FirstRowsAreCounted
  <2>2. n # 0
    BY <1>1, <1>2
  <2> HIDE DEF S, n
  <2> QED
    BY <2>1, <2>2, FS_EmptySet
<1> HIDE DEF S, n, Ranked
<1>13. /\ p.items = Slice(k - 1) /\ p.items # {}
       /\ p.previous = IF p.items = S THEN NoLink ELSE Cursor("previous", FirstItem(p.items))
       /\ p.next = Cursor("next", LastItem(p.items))
  <2> HIDE DEF link
  <2> QED
    BY <1>6, <1>9, <1>11, <1>12, PageFacts DEF Onward, Back, Direction, End
<1>14. k - 1 + 1 = k /\ (k - 1 > 0 <=> Slice(k - 1) # S)
  <2>1. Slice(k - 1) = S <=> k <= 1
    BY <1>2, <1>10, <1>11
  <2>2. k <= 1 <=> ~(k - 1 > 0)
    OBVIOUS
  <2>3. k - 1 + 1 = k
    OBVIOUS
  <2> QED
    BY <2>1, <2>2, <2>3
<1> HIDE DEF p
<1>15. OnSlice(p, k - 1)
  BY <1>13, <1>14 DEF OnSlice
<1> QED
  BY <1>15 DEF p, link, b

\* Slices with rows are no more than the rows.
LEMMA SlicesAreFew ==
    ASSUME table \in Tables, NEW k \in Nat, Slice(k) # {}
    PROVE  k \in 0..Cardinality(table)
<1> DEFINE Ranked(r) == Rank(r, table, FALSE)
           Prior(r) == {s \in table : Before(s, r, FALSE)}
<1>1. table \subseteq Row /\ IsFiniteSet(table) /\ PageSize \in Nat \ {0}
  BY PaginationAssumption DEF Tables
<1>2. PICK r \in Slice(k) : TRUE
  OBVIOUS
<1>3. r \in table /\ Ranked(r) >= k * PageSize
  BY <1>2, SliceRange
<1>4. Ranked(r) = Cardinality(Prior(r)) /\ Prior(r) \subseteq table
  BY DEF Rank
<1> HIDE DEF Prior, Ranked
<1>5. Cardinality(Prior(r)) <= Cardinality(table) /\ Cardinality(Prior(r)) \in Nat
      /\ Cardinality(table) \in Nat
  BY <1>1, <1>4, FS_Subset, FS_CardinalityType
<1>6. k <= k * PageSize /\ k * PageSize \in Nat
  BY <1>1, Multiples
<1> QED
  BY <1>3, <1>4, <1>5, <1>6

SlicesInvariant == stable => \E k \in 0..Cardinality(table) : OnSlice(page, k)

LEMMA SlicesInductive ==
    ASSUME PagesInvariant, SlicesInvariant, [Next]_vars
    PROVE  SlicesInvariant'
<1>1. table \in Tables /\ 0 \in 0..Cardinality(table)
  <2>1. table \in Tables
    BY DEF PagesInvariant
  <2>2. Cardinality(table) \in Nat
    BY <2>1, FS_CardinalityType DEF Tables
  <2> QED
    BY <2>1, <2>2
<1>2. ASSUME NEW p, NEW k \in 0..Cardinality(table), OnSlice(p, k), page' = p,
             table' = table
      PROVE  SlicesInvariant'
  BY <1>2 DEF SlicesInvariant, OnSlice, Slice
<1>3. CASE open_first_page
  <2>1. OnSlice(paginate_keyset(FirstPage), 0)
    BY <1>1, FirstSlice
  <2> QED
    BY <1>1, <1>2, <1>3, <2>1 DEF open_first_page
<1>4. ASSUME NEW link \in {page.previous, page.next}, follow_link(link)
      PROVE  SlicesInvariant'
  <2> SUFFICES ASSUME stable
               PROVE  SlicesInvariant'
    BY <1>4 DEF follow_link, SlicesInvariant
  <2>1. link.to \in {"previous", "next"} /\ page' = paginate_keyset(link) /\ table' = table
    BY <1>4 DEF follow_link
  <2>2. page.items # {}
    BY <2>1, FollowedLink
  <2>3. PICK k \in 0..Cardinality(table) : OnSlice(page, k)
    BY DEF SlicesInvariant
  <2>4. k \in Nat /\ Slice(k) # {} /\ NoLink.to \notin {"previous", "next"}
    BY <2>2, <2>3 DEF OnSlice, NoLink
  <2>5. CASE link = page.previous
    <3>1. k > 0 /\ link = Cursor("previous", FirstItem(Slice(k)))
      BY <2>1, <2>3, <2>4, <2>5 DEF OnSlice
    <3>2. OnSlice(paginate_keyset(link), k - 1)
      <4>1. k \in Nat \ {0}
        BY <2>4, <3>1
      <4> QED
        BY <1>1, <2>4, <3>1, <4>1, PreviousSlice
    <3>3. k - 1 \in 0..Cardinality(table)
      <4>1. Cardinality(table) \in Nat
        BY <1>1, FS_CardinalityType DEF Tables
      <4> QED
        BY <2>4, <3>1, <4>1
    <3> QED
      BY <1>2, <2>1, <3>2, <3>3
  <2>6. CASE link = page.next
    <3>1. Slice(k + 1) # {} /\ link = Cursor("next", LastItem(Slice(k)))
      BY <2>1, <2>3, <2>4, <2>6 DEF OnSlice
    <3>2. OnSlice(paginate_keyset(link), k + 1)
      BY <1>1, <2>4, <3>1, NextSlice
    <3>3. k + 1 \in 0..Cardinality(table)
      BY <1>1, <2>4, <3>1, SlicesAreFew
    <3> QED
      BY <1>2, <2>1, <3>2, <3>3
  <2> QED
    BY <2>5, <2>6
<1>5. ASSUME NEW rows, change_table(rows)
      PROVE  SlicesInvariant'
  BY <1>5 DEF change_table, SlicesInvariant
<1>6. CASE UNCHANGED vars
  BY <1>6 DEF vars, SlicesInvariant, OnSlice, Slice
<1> QED
  BY <1>3, <1>4, <1>5, <1>6 DEF Next, insert_row, delete_row, move_row

\* While the table rests, every page is a slice of the list, and its links are
\* there exactly where slices follow or come before.
THEOREM PagesAreTheSlices == Spec => []PagesAreSlices
<1>1. Init => SlicesInvariant
  <2> SUFFICES ASSUME Init
               PROVE  OnSlice(page, 0) /\ 0 \in 0..Cardinality(table)
    BY DEF SlicesInvariant
  <2>1. table \in Tables /\ page = paginate_keyset(FirstPage)
    BY DEF Init
  <2>2. Cardinality(table) \in Nat
    BY <2>1, FS_CardinalityType DEF Tables
  <2> QED
    BY <2>1, <2>2, FirstSlice
<1>2. ASSUME PagesInvariant, SlicesInvariant, stable
      PROVE  \E k \in 0..Cardinality(table) :
                 /\ page.items = Slice(k)
                 /\ page.previous.to = "previous" <=> k > 0
                 /\ page.next.to = "next" <=> Slice(k + 1) # {}
  <2>1. PICK k \in 0..Cardinality(table) : OnSlice(page, k)
    BY <1>2 DEF SlicesInvariant
  <2>2. page.previous.to = "previous" <=> k > 0
    BY <2>1 DEF OnSlice, Cursor, NoLink
  <2>3. page.next.to = "next" <=> Slice(k + 1) # {}
    BY <2>1 DEF OnSlice, Cursor, NoLink
  <2> QED
    BY <2>1, <2>2, <2>3 DEF OnSlice
<1>3. PagesInvariant /\ SlicesInvariant => PagesAreSlices
  BY <1>2 DEF PagesAreSlices
<1> QED
  BY <1>1, <1>3, PagesAlways, SlicesInductive, PTL DEF Spec
===============================================================================
