------------------------------ MODULE Pagination ------------------------------
(***************************************************************************)
(* Keyset pages (core/pagination.py): a reader follows the links of one    *)
(* page to the next while the rows of the list come, go and move.          *)
(*                                                                         *)
(* A row is its values in the two ordering columns, of which the second    *)
(* is unique; a row whose first value is updated is another row.  A cursor *)
(* carries a direction and the boundary row.  Its encoding and signature,  *)
(* which bind it to the list, the filter and the user, give back what was  *)
(* put in and are left out, as are the bound on its age and the rest of    *)
(* the address.                                                            *)
(*                                                                         *)
(* An operator named <definition>_<Slip> is the definition with a plausible *)
(* mistake in it.  No specification uses it: it shows that a property would *)
(* notice the mistake.                                                      *)
(***************************************************************************)
EXTENDS Naturals, FiniteSets

CONSTANTS Value, Id,           \* the values of the two columns
          DescendingColumns,   \* those of columns 1 and 2 that descend
          PageSize

ASSUME PaginationAssumption == /\ Value \cup Id \subseteq Nat
                               /\ DescendingColumns \subseteq {1, 2}
                               /\ PageSize \in Nat \ {0}

VARIABLES table,    \* the rows that the query selects now
          page,     \* what the reader has before them
          stable,   \* history: the table is as it was at the first page
          walk      \* history: the pages followed in one direction

vars == <<table, page, stable, walk>>

Row == Value \X Id
NoRow == <<>>
Tables == {rows \in SUBSET Row : /\ IsFiniteSet(rows)
                                 /\ \A r, s \in rows : r[2] = s[2] => r = s}

\* Where a link of a page leads; "first" is the list without a cursor.
NoLink == [to |-> "none", boundary |-> NoRow]
FirstPage == [to |-> "first", boundary |-> NoRow]
Cursor(direction, row) == [to |-> direction, boundary |-> row]

----------------------------------------------------------------------------
\* _boundary_filter: columns are compared one after the other.
BoundaryFilter_Inclusive(r, boundary, previous) ==
    \E c \in {1, 2} :
       /\ \A e \in 1..(c - 1) : r[e] = boundary[e]
       /\ IF (c \in DescendingColumns) = previous THEN r[c] >= boundary[c]
                                                  ELSE r[c] <= boundary[c]
BoundaryFilter_FirstColumnOnly(r, boundary, previous) ==
    IF (1 \in DescendingColumns) = previous THEN r[1] > boundary[1]
                                            ELSE r[1] < boundary[1]
BoundaryFilter(r, boundary, previous) ==
    \E c \in {1, 2} :
       /\ \A e \in 1..(c - 1) : r[e] = boundary[e]
       /\ IF (c \in DescendingColumns) = previous THEN r[c] > boundary[c]
                                                  ELSE r[c] < boundary[c]

\* _ordering
Before(r, s, reverse) ==
    \E c \in {1, 2} :
       /\ \A e \in 1..(c - 1) : r[e] = s[e]
       /\ IF (c \in DescendingColumns) # reverse THEN r[c] > s[c]
                                                 ELSE r[c] < s[c]

\* How many of the rows come before this one; the first n of them.
Rank(r, rows, reverse) == Cardinality({s \in rows : Before(s, r, reverse)})
FirstRows(rows, n, reverse) == {r \in rows : Rank(r, rows, reverse) < n}

\* The items of a page in the order of the list.
FirstItem(items) == CHOOSE r \in items : \A s \in items \ {r} : Before(r, s, FALSE)
LastItem(items) == CHOOSE r \in items : \A s \in items \ {r} : Before(s, r, FALSE)

\* CursorPage.with_urls: the links of an empty page lead to the first one.
Link_KeepsBoundary(has, direction, row, items) ==
    IF has THEN Cursor(direction, row) ELSE NoLink
Link(has, direction, row, items) ==
    IF ~has THEN NoLink
    ELSE IF items = {} THEN FirstPage
    ELSE Cursor(direction, row)

\* One row more than the page shows is fetched, to know whether any follows.
Shown(fetched, previous) == FirstRows(fetched, PageSize, previous)

paginate_keyset(link) ==
    LET decoded == link.to # "first"
        previous == link.to = "previous"
        selected == IF decoded
                    THEN {r \in table : BoundaryFilter(r, link.boundary, previous)}
                    ELSE table
        fetched == FirstRows(selected, PageSize + 1, previous)
        has_sentinel == Cardinality(fetched) > PageSize
        items == Shown(fetched, previous)
        has_previous == IF previous THEN has_sentinel ELSE decoded
        has_next == previous \/ has_sentinel
        first == IF items = {} THEN link.boundary ELSE FirstItem(items)
        last == IF items = {} THEN link.boundary ELSE LastItem(items)
    IN  [items |-> items,
         previous |-> Link(has_previous, "previous", first, items),
         next |-> Link(has_next, "next", last, items)]

----------------------------------------------------------------------------
\* A walk starts beyond a boundary and follows the links of one direction.
\* steady: rows that were there all along; count: how many items it showed.
Walk(link, items) == [direction |-> IF link.to = "previous" THEN "previous" ELSE "next",
                      from |-> link.boundary, steady |-> table, shown |-> items,
                      count |-> Cardinality(items)]

Init == /\ table \in Tables
        /\ page = paginate_keyset(FirstPage)
        /\ stable = TRUE
        /\ walk = Walk(FirstPage, page.items)

\* A request for the list without a cursor, by a link or by its address.
open_first_page == /\ page' = paginate_keyset(FirstPage)
                   /\ stable' = TRUE
                   /\ walk' = Walk(FirstPage, page'.items)
                   /\ UNCHANGED table

follow_link(link) ==
    /\ link.to \in {"previous", "next"}
    /\ page' = paginate_keyset(link)
    /\ walk' = IF link.to = walk.direction
               THEN [walk EXCEPT !.shown = @ \cup page'.items,
                                 !.count = @ + Cardinality(page'.items)]
               ELSE Walk(link, page'.items)
    /\ UNCHANGED <<table, stable>>

\* Rows are inserted, deleted, revoked, or move with their first column.
change_table(rows) == /\ rows # table
                      /\ table' = rows
                      /\ stable' = FALSE
                      /\ walk' = [walk EXCEPT !.steady = @ \cap rows]
                      /\ UNCHANGED page

insert_row(r) == change_table(table \cup {r})
delete_row(r) == change_table(table \ {r})
move_row(r, value) == change_table((table \ {r}) \cup {<<value, r[2]>>})

Next == \/ open_first_page
        \/ follow_link(page.previous)
        \/ follow_link(page.next)
        \/ \E r \in Row : /\ \A s \in table : s[2] # r[2]
                          /\ insert_row(r)
        \/ \E r \in table : \/ delete_row(r)
                            \/ \E value \in Value : move_row(r, value)

Spec == Init /\ [][Next]_vars

----------------------------------------------------------------------------
\* While the table does not change, every page is the list's k-th slice, however
\* the reader got there, and has a link exactly where another slice follows or
\* comes before ("Fetch one deterministic keyset page", paginate_keyset).
Slice(k) == {r \in table : Rank(r, table, FALSE) \div PageSize = k}
PagesAreSlices ==
    stable => \E k \in 0..Cardinality(table) :
                 /\ page.items = Slice(k)
                 /\ page.previous.to = "previous" <=> k > 0
                 /\ page.next.to = "next" <=> Slice(k + 1) # {}

\* The rows beyond r in the direction of the walk.
Beyond(s, r) == IF walk.direction = "next" THEN Before(r, s, FALSE)
                                           ELSE Before(s, r, FALSE)
Reached == IF walk.direction = "next" THEN page.next ELSE page.previous

\* Whatever is inserted, deleted or moved meanwhile, a walk shows every row that
\* stayed where it was, up to the boundary it has reached, and none twice; when
\* no link leads on, it has shown them all.
WalkIsComplete ==
    /\ Cardinality(walk.shown) = walk.count
    /\ \A r \in walk.steady :
          /\ walk.from # NoRow => Beyond(r, walk.from)
          /\ Reached.to = walk.direction => ~Beyond(r, Reached.boundary)
          => r \in walk.shown

\* Nobody is trapped between two empty pages (CursorPage.with_urls): an empty
\* page is the first one or has a link, and whatever its links lead to is not
\* empty unless the whole list is.
NeverTrapped ==
    [][page'.items = {} /\ page' # page =>
          /\ page.items # {} \/ table = {}
          /\ table # {} => "first" \in {page'.previous.to, page'.next.to}]_vars
===============================================================================
