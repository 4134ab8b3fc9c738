------------------------------- MODULE Paging -------------------------------
(***************************************************************************)
(* The lists that the web pages show a page at a time, while rows come,     *)
(* move and go: sessions, routes and the delivery queue of                  *)
(* internal/sessions, the work list of internal/web, the facts of           *)
(* internal/memory. A page is a query beyond a cursor, in the order of the   *)
(* list or against it, for one row more than fit; its links carry the keys  *)
(* of its first and last rows.                                              *)
(*                                                                         *)
(* A time is a number; TimesPerDay of them make a day. Bounds: RowIds,       *)
(* PageSizes, MaxTime, MaxChanges; a walk that goes round stops soon after   *)
(* it has shown as many rows as there are ids.                              *)
(***************************************************************************)
EXTENDS Naturals, Sequences, FiniteSets, SequencesExt, Sorted

CONSTANTS Lists, RowIds, PageSizes, MaxTime, TimesPerDay, MaxChanges

ASSUME PagingAssumption ==
  /\ Lists \subseteq {"sessions", "routes", "deliveries", "work", "facts"}
  /\ RowIds \subseteq Nat \ {0} /\ IsFiniteSet(RowIds) /\ PageSizes \subseteq Nat \ {0}
  /\ MaxTime \in Nat \ {0} /\ TimesPerDay \in Nat \ {0} /\ MaxChanges \in Nat

VARIABLES
  list,     \* the list that is paged
  filter,   \* the filter of the request
  size,     \* its limit
  rows,     \* per id: there, its flag, its rank and times
  current,  \* the page that was loaded last: its rows, its links, the keys in them
  walk,     \* the rows shown by following next links from the first page
  same,     \* the rows that are as they were when the first page was opened
  changes   \* the changes since then

pagingVars == <<list, filter, size, rows, current, walk, same, changes>>

NoKey == [id |-> 0]
NoPage == [items |-> <<>>, prev |-> FALSE, next |-> FALSE, first |-> NoKey, last |-> NoKey, asked |-> FALSE]
NoRow == [there |-> FALSE, flag |-> FALSE, rank |-> 0, created |-> 1, updated |-> 1]
Row(flag, rank, created, updated) ==
  [there |-> TRUE, flag |-> flag, rank |-> rank, created |-> created, updated |-> updated]

\* The rank of a session is its role's, that of a delivery its status's. The
\* flag of a session says that it is bound, of a route that it is active, of a
\* delivery that it is not delivered yet, of a run that it is not dismissed
\* and has the status asked for, of a fact that it is not forgotten.
Ranks == [sessions |-> 0..1, routes |-> {0}, deliveries |-> 0..2, work |-> {0}, facts |-> {0}]
Filters == [sessions |-> {"any", "bound", "unbound"}, routes |-> {"all", "active"},
            deliveries |-> {"all", "terminal"}, work |-> {"all"}, facts |-> {"all"}]

StoredRows ==
  {NoRow} \cup
    {row \in [there : {TRUE}, flag : {TRUE}, rank : Ranks[list], created : 1..MaxTime, updated : 1..MaxTime] :
       IF list \in {"sessions", "facts"} THEN row.created = 1 ELSE row.updated = row.created}

PagingInit ==
  /\ list \in Lists /\ filter \in Filters[list] /\ size \in PageSizes
  /\ rows \in [RowIds -> StoredRows]
  /\ current = NoPage /\ walk = <<>> /\ same = {} /\ changes = 0

-----------------------------------------------------------------------------
(* The rows a list is about and their order, which is that of the keys its *)
(* cursor holds.                                                           *)

SessionListed(row) ==
  \/ filter = "any"
  \/ filter = "bound" /\ row.flag
  \/ filter = "unbound" /\ ~row.flag

\* The newest activity first; a front session before a worker's.
SessionBefore(a, b) ==
  \/ a.updated > b.updated
  \/ a.updated = b.updated /\ a.rank < b.rank
  \/ a.updated = b.updated /\ a.rank = b.rank /\ a.created > b.created
  \/ a.updated = b.updated /\ a.rank = b.rank /\ a.created = b.created /\ a.id > b.id

RouteListed(row) == filter = "all" \/ row.flag

\* The newest first.
RouteBefore(a, b) == a.created > b.created \/ (a.created = b.created /\ a.id > b.id)

\* What is retried first, then what waits, then what is dead; the oldest first.
DeliveryListed(row) == row.flag /\ (filter = "terminal" => row.rank = 2)
DeliveryBefore(a, b) ==
  \/ a.rank < b.rank
  \/ a.rank = b.rank /\ a.created < b.created
  \/ a.rank = b.rank /\ a.created = b.created /\ a.id < b.id

\* The other two compare the text of the column, in which a space stands
\* between day and time.
WorkListed(row) == row.flag
FactListed(row) == row.flag
Day(t) == (t - 1) \div TimesPerDay
ColumnText(t) == <<Day(t), 0, t>>
TextBelow(s, t) == \E k \in 1..3 : s[k] < t[k] /\ \A j \in 1..(k - 1) : s[j] = t[j]
NewerText(a, b) == TextBelow(b.text, a.text) \/ (a.text = b.text /\ a.id > b.id)

\* A scan of such a column into a string has the letter T there: the driver
\* gives a time, which is put into a string as RFC 3339 writes it.
ScannedText(t) == <<Day(t), 1, t>>
WorkCursor(i) == [id |-> i, text |-> ScannedText(rows[i].created)]
FactCursor(i) == [id |-> i, text |-> ScannedText(rows[i].updated)]

KeyOf(i) ==
  CASE list = "work" -> [id |-> i, text |-> ColumnText(rows[i].created)]
    [] list = "facts" -> [id |-> i, text |-> ColumnText(rows[i].updated)]
    [] OTHER -> [id |-> i, rank |-> rows[i].rank, created |-> rows[i].created, updated |-> rows[i].updated]

\* Mutant: a link holds the time of its row and not the row's id.
CursorWithoutId(i) == [KeyOf(i) EXCEPT !.id = 0]

CursorOf(i) ==
  CASE list = "work" -> WorkCursor(i) [] list = "facts" -> FactCursor(i) [] OTHER -> KeyOf(i)

Before(a, b) ==
  CASE list = "sessions" -> SessionBefore(a, b)
    [] list = "routes" -> RouteBefore(a, b)
    [] list = "deliveries" -> DeliveryBefore(a, b)
    [] OTHER -> NewerText(a, b)

ListedRow(row) ==
  CASE list = "sessions" -> SessionListed(row)
    [] list = "routes" -> RouteListed(row)
    [] list = "deliveries" -> DeliveryListed(row)
    [] list = "work" -> WorkListed(row)
    [] OTHER -> FactListed(row)

ListedIds == {i \in RowIds : rows[i].there /\ ListedRow(rows[i])}
InOrder(ids) == SortedBy(ids, {d \in ids \X ids : Before(KeyOf(d[1]), KeyOf(d[2]))})

-----------------------------------------------------------------------------
(* The pages.                                                              *)

FirstOf(found) == SubSeq(found, 1, IF Len(found) < size THEN Len(found) ELSE size)
LastOf(found) == Reverse(FirstOf(Reverse(found)))

\* A page and its links, of which one without a cursor is none.
PageWith(items, prev, next) ==
  IF items = <<>>
  THEN [NoPage EXCEPT !.asked = TRUE]
  ELSE [items |-> items, asked |-> TRUE, prev |-> prev, next |-> next,
        first |-> IF prev THEN CursorOf(Head(items)) ELSE NoKey,
        last |-> IF next THEN CursorOf(Last(items)) ELSE NoKey]

\* A query takes one row more than the page shows, to know of a further one;
\* against the order it takes them from the nearest on, and turns them round.
\* There is always a page back where the request came from.
PageAfter(found, followed) == PageWith(FirstOf(found), followed, Len(found) > size)
PageBefore(found) == PageWith(LastOf(found), Len(found) > size, TRUE)

FirstPage == PageAfter(InOrder(ListedIds), FALSE)
NextPage == PageAfter(InOrder({i \in ListedIds : Before(current.last, KeyOf(i))}), TRUE)
PrevPage == PageBefore(InOrder({i \in ListedIds : Before(KeyOf(i), current.first)}))

\* A request without a cursor.
OpenList ==
  /\ ~current.asked
  /\ current' = FirstPage /\ walk' = FirstPage.items /\ same' = ListedIds
  /\ UNCHANGED <<list, filter, size, rows, changes>>

\* The links of a page hold the keys of its first and last rows as they were.
FollowNext ==
  /\ current.next /\ Len(walk) <= Cardinality(RowIds)
  /\ current' = NextPage
  /\ walk' = IF walk = <<>> THEN <<>> ELSE walk \o NextPage.items
  /\ UNCHANGED <<list, filter, size, rows, same, changes>>

FollowPrev ==
  /\ current.prev
  /\ current' = PrevPage /\ walk' = <<>> /\ same' = {}
  /\ UNCHANGED <<list, filter, size, rows, changes>>

-----------------------------------------------------------------------------
(* What happens to the rows between two requests.                          *)

Change(i, row) ==
  /\ current.asked /\ changes < MaxChanges
  /\ changes' = changes + 1
  /\ rows' = [rows EXCEPT ![i] = row] /\ same' = same \ {i}
  /\ UNCHANGED <<list, filter, size, current, walk>>

Now == {MaxTime, MaxTime + 1}

\* Ids are drawn at random.
RowAdded(i) == ~rows[i].there /\ \E k \in Ranks[list], t \in Now : Change(i, Row(TRUE, k, t, t))

\* A message or a run of the session; an edit of the fact; an attempt at the
\* delivery, or its revival.
RowMoved(i) ==
  /\ rows[i].there
  /\ \/ list \in {"sessions", "facts"} /\ \E t \in Now : Change(i, [rows[i] EXCEPT !.updated = t])
     \/ list = "deliveries" /\ \E k \in Ranks[list] : Change(i, [rows[i] EXCEPT !.rank = k])

\* A session is bound or loses its last binding, a route is replaced, a message
\* is delivered, a run is dismissed or changes its status, a fact is forgotten.
RowFlagged(i) ==
  /\ rows[i].there /\ (rows[i].flag \/ list \in {"sessions", "work"})
  /\ Change(i, [rows[i] EXCEPT !.flag = ~@])

PagingNext ==
  \/ OpenList \/ FollowNext \/ FollowPrev
  \/ \E i \in RowIds : RowAdded(i) \/ RowMoved(i) \/ RowFlagged(i)

PagingSpec == PagingInit /\ [][PagingNext]_pagingVars

-----------------------------------------------------------------------------

\* A page has at most as many rows as were asked for, and keys for its links.
PagingTypeOK ==
  /\ list \in Lists /\ filter \in Filters[list] /\ size \in PageSizes /\ changes \in 0..MaxChanges
  /\ rows \in [RowIds -> [there : BOOLEAN, flag : BOOLEAN, rank : 0..2,
                         created : 1..(MaxTime + 1), updated : 1..(MaxTime + 1)]]
  /\ Len(current.items) <= size /\ ToSet(current.items) \cup ToSet(walk) \cup same \subseteq RowIds
  /\ current.next = (current.last # NoKey) /\ current.prev = (current.first # NoKey)

\* The lists whose cursors are numbers.
Exact == list \in {"sessions", "routes", "deliveries"}

\* While no row changes, a page is a piece of the list, whichever links led to
\* it, and has a link exactly where rows are before or after it.
PagesAreExact ==
  Exact /\ current.asked /\ changes = 0 =>
    LET all == InOrder(ListedIds)
    IN  IF all = <<>>
        THEN current.items = <<>>
        ELSE \E k, l \in 1..Len(all) :
               /\ k <= l /\ current.items = SubSeq(all, k, l)
               /\ current.prev = (k > 1) /\ current.next = (l < Len(all))

\* Whatever else comes, moves or goes meanwhile, a reader who goes on to the
\* last page has seen every row that stayed as it was.
NothingSkipped == Exact /\ walk # <<>> /\ ~current.next => same \subseteq ToSet(walk)

\* Nor does that reader see a session or a route twice: their keys do not move
\* down the list.
NoRowTwice == list \in {"sessions", "routes"} => Len(walk) = Cardinality(ToSet(walk))

\* While no row changes, the next page of the work list shows other runs than
\* the pages before it.
NextPageGoesOn == changes = 0 => Len(walk) = Cardinality(ToSet(walk))
=============================================================================
