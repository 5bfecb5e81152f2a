------------------------------- MODULE PagedList -------------------------------
(***************************************************************************)
(* GetService and PagedList.toPagedListAsync: a caller walks through the   *)
(* pages of a list while hasNext says that there is one more.  A page is   *)
(* two queries: the count, which hasNext is computed from, and the rows,   *)
(* which the query builder in the PagedList fetches when the caller asks   *)
(* for them.  Others add and deactivate rows in between.  The sort columns *)
(* order the rows in one way.                                              *)
(***************************************************************************)
EXTENDS Integers, SequencesExt

CONSTANTS
  ListRow,     \* the rows that may match the query
  PageSizes    \* values of pagination.pageSize; 0 stands for no pagination

ASSUME PagedListAssumption == IsFiniteSet(ListRow) /\ PageSizes \subseteq Nat

VARIABLES
  rows,        \* the matching rows in their order
  pageSize,
  pageNumber,
  totalPages,  \* of the last PagedList
  lphase,      \* "count", "rows" or "end"
  seen,        \* the rows the caller was given
  atFirst,     \* the rows at the beginning of the walk
  gone,        \* a row was deactivated during the walk
  added,       \* a row was added during the walk
  late         \* ... between the count and the rows of a page

lvars == <<rows, pageSize, pageNumber, totalPages, lphase, seen, atFirst, gone, added, late>>
others == <<gone, added, late>>

Smallest(a, b) == IF a < b THEN a ELSE b

\* Slip: Math.floor.
TotalPagesFloor(n) ==
  IF pageSize = 0 THEN 1 ELSE n \div pageSize

\* Math.ceil(count / pageSize)
TotalPages(n) ==
  IF pageSize = 0 THEN 1 ELSE (n + pageSize - 1) \div pageSize

\* skip((pageNumber - 1) * pageSize).take(pageSize)
Page ==
  IF pageSize = 0
    THEN rows
    ELSE SubSeq(rows, (pageNumber - 1) * pageSize + 1,
                      Smallest(pageNumber * pageSize, Len(rows)))

-----------------------------------------------------------------------------
\* handleAsync: queryBuilder.getCount(), or getMany() without pagination, and
\* new PagedList(...).
GetCount ==
  /\ lphase = "count"
  /\ totalPages' = TotalPages(Len(rows))
  /\ lphase' = "rows"
  /\ UNCHANGED <<rows, pageSize, pageNumber, seen, atFirst, others>>

\* The caller fetches the rows of the page, and goes on if hasNext.
GetRows ==
  /\ lphase = "rows"
  /\ seen' = seen \o Page
  /\ IF pageNumber < totalPages
       THEN pageNumber' = pageNumber + 1 /\ lphase' = "count"
       ELSE UNCHANGED pageNumber /\ lphase' = "end"
  /\ UNCHANGED <<rows, pageSize, totalPages, atFirst, others>>

\* A row is inserted somewhere in the order.
RowAdded ==
  /\ lphase # "end"
  /\ \E r \in ListRow \ ToSet(rows), k \in 1..(Len(rows) + 1) :
       rows' = InsertAt(rows, k, r)
  /\ added' = TRUE /\ late' = (late \/ lphase = "rows")
  /\ UNCHANGED <<pageSize, pageNumber, totalPages, lphase, seen, atFirst, gone>>

\* A row is deactivated.
RowGone ==
  /\ lphase # "end"
  /\ \E k \in 1..Len(rows) : rows' = RemoveAt(rows, k)
  /\ gone' = TRUE
  /\ UNCHANGED <<pageSize, pageNumber, totalPages, lphase, seen, atFirst, added, late>>

-----------------------------------------------------------------------------
LInit ==
  /\ \E S \in SUBSET ListRow : rows = SetToSeq(S)
  /\ pageSize \in PageSizes
  /\ pageNumber = 1 /\ totalPages = 0 /\ lphase = "count"
  /\ seen = <<>> /\ atFirst = ToSet(rows)
  /\ gone = FALSE /\ added = FALSE /\ late = FALSE

LNext == GetCount \/ GetRows \/ RowAdded \/ RowGone

LSpec == LInit /\ [][LNext]_lvars

-----------------------------------------------------------------------------
\* A walk by hasNext comes past every row that was there from its beginning,
\* also the rows of an incomplete last page and also when rows are added in
\* front of it, unless one is deactivated or one is added after the count of a
\* page; and no row comes twice unless one is added.
WalkIsComplete ==
  /\ lphase = "end" /\ ~gone /\ ~late => atFirst \subseteq ToSet(seen)
  /\ ~added => IsInjective(seen)
=============================================================================
