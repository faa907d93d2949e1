------------------------------- MODULE DataTable -------------------------------
(***************************************************************************)
(* The rows of the data table (components/ui/data-table.tsx), as the       *)
(* Docker section feeds it: searched, sorted, cut into pages, and counted  *)
(* in the footer.  The table library keeps the page and goes back to the   *)
(* first one in a microtask after the rows have changed, which every       *)
(* snapshot does: it brings a new array.  The section takes the table off  *)
(* the page while the daemon cannot be asked, and with it all it keeps.    *)
(***************************************************************************)
EXTENDS Integers, Sequences, SequencesExt, Ordering

CONSTANTS
    Listing,        \* sequence: the containers, in the order the daemon lists them
    Names,          \* container -> the place of its name in the alphabet
    Ranks,          \* the values of another column
    Matching,       \* what is searched for -> the containers whose name holds it
    NoQuery,        \* the search field is empty
    PageSizes, InitialSize

Containers == Range(Listing)
Queries == DOMAIN Matching
SortColumns == {"name", "rank"}
Unsorted == [column |-> "none", desc |-> FALSE]

\* stated as an assumption where the constants get their values
DataTableAssumption ==
    /\ Listing \in Seq(Containers) /\ IsInjective(Listing)
    /\ Names \in [Containers -> Nat] /\ IsInjective(Names) /\ Ranks \subseteq Int
    /\ \A q \in Queries : Matching[q] \subseteq Containers
    /\ NoQuery \notin Queries
    /\ PageSizes \subseteq Nat \ {0} /\ InitialSize \in PageSizes

VARIABLES
    containers,     \* those of the last snapshot -> what the other column says
    dockerError,    \* the last snapshot says that the daemon cannot be asked
    sorting, query, pageIndex, pageSize,
    resetDue        \* the library will go back to the first page

vars == <<containers, dockerError, sorting, query, pageIndex, pageSize, resetDue>>

FreshTable(s, q, i, n) ==
    s = Unsorted /\ q = NoQuery /\ i = 0 /\ n = InitialSize

\* before the first snapshot: `containers = []'
Init ==
    /\ containers = <<>> /\ dockerError = FALSE
    /\ FreshTable(sorting, query, pageIndex, pageSize)
    /\ resetDue = FALSE

-----------------------------------------------------------------------------
(* The row models: filtered by the search column, sorted, paginated.       *)

Filtered == {c \in DOMAIN containers : query = NoQuery \/ c \in Matching[query]}

Key(c) == IF sorting.column = "name" THEN Names[c] ELSE containers[c]

Place(c) == CHOOSE i \in DOMAIN Listing : Listing[i] = c

\* rows with the same key stay in the order of the daemon, whatever the direction
Before(c, d) ==
    \/ /\ sorting # Unsorted
       /\ IF sorting.desc THEN Key(c) > Key(d) ELSE Key(c) < Key(d)
    \/ /\ sorting = Unsorted \/ Key(c) = Key(d)
       /\ Place(c) < Place(d)

Sorted == InOrder(Filtered, {p \in Filtered \X Filtered : Before(p[1], p[2])})

Total == Cardinality(Filtered)
PageCount == (Total + pageSize - 1) \div pageSize

Least(a, b) == IF a < b THEN a ELSE b
Page(i) == SubSeq(Sorted, i * pageSize + 1, Least((i + 1) * pageSize, Total))

CanPreviousPage == pageIndex > 0
CanNextPage == PageCount > 0 /\ pageIndex < PageCount - 1

-----------------------------------------------------------------------------
(* What is drawn.                                                          *)

\* the message for an empty table ("No Docker containers found on this server.")
\* stands in its place where there are no rows, for whatever reason
Body == Page(pageIndex)

\* mutant: the last page is counted as a full one
Footer_FullPages ==
    [from |-> IF Total = 0 THEN 0 ELSE pageIndex * pageSize + 1,
     to |-> IF Total = 0 THEN 0 ELSE (pageIndex + 1) * pageSize,
     total |-> Total,
     page |-> pageIndex + 1, pages |-> IF PageCount > 1 THEN PageCount ELSE 1]

\* "from-to of total", "Page page of pages"
Footer ==
    [from |-> IF Total = 0 THEN 0 ELSE pageIndex * pageSize + 1,
     to |-> Least((pageIndex + 1) * pageSize, Total),
     total |-> Total,
     page |-> pageIndex + 1, pages |-> IF PageCount > 1 THEN PageCount ELSE 1]

Icon(column) ==
    CASE sorting.column # column -> "both"
      [] sorting.desc -> "down"
      [] OTHER -> "up"

-----------------------------------------------------------------------------
(* Snapshots.                                                              *)

\* a table that was off the page is put on it as a new one
SnapshotRendered(data) ==
    /\ ~resetDue
    /\ containers' = data /\ dockerError' = FALSE
    /\ IF dockerError
       THEN FreshTable(sorting', query', pageIndex', pageSize') /\ resetDue' = FALSE
       ELSE resetDue' = TRUE /\ UNCHANGED <<sorting, query, pageIndex, pageSize>>

\* the snapshot has no containers then (collector/docker.go)
DockerErrorRendered ==
    /\ ~resetDue
    /\ containers' = <<>> /\ dockerError' = TRUE
    /\ FreshTable(sorting', query', pageIndex', pageSize')
    /\ UNCHANGED resetDue

\* autoResetPageIndex
ResetPage ==
    /\ resetDue
    /\ pageIndex' = 0 /\ resetDue' = FALSE
    /\ UNCHANGED <<containers, dockerError, sorting, query, pageSize>>

-----------------------------------------------------------------------------
(* The user.  An event is handled, and the page drawn, before the next.    *)

OnPage == ~dockerError /\ ~resetDue

Search(q) ==
    /\ OnPage /\ q # query
    /\ query' = q /\ resetDue' = TRUE
    /\ UNCHANGED <<containers, dockerError, sorting, pageIndex, pageSize>>

\* a header's button: up, down, up, ...
ToggleSorting(column) ==
    /\ OnPage
    /\ sorting' = [column |-> column, desc |-> Icon(column) = "up"]
    /\ resetDue' = TRUE
    /\ UNCHANGED <<containers, dockerError, query, pageIndex, pageSize>>

Turn(i) ==
    /\ pageIndex' = i
    /\ UNCHANGED <<containers, dockerError, sorting, query, pageSize, resetDue>>

FirstPage == OnPage /\ CanPreviousPage /\ Turn(0)
PreviousPage == OnPage /\ CanPreviousPage /\ Turn(pageIndex - 1)
NextPage == OnPage /\ CanNextPage /\ Turn(pageIndex + 1)
LastPage == OnPage /\ CanNextPage /\ Turn(PageCount - 1)

\* the rows-per-page menu, which the Docker section does without: the row at the top
\* stays on the page
SetPageSize(n) ==
    /\ OnPage /\ n # pageSize
    /\ pageSize' = n
    /\ pageIndex' = (pageIndex * pageSize) \div n
    /\ UNCHANGED <<containers, dockerError, sorting, query, resetDue>>

Next ==
    \/ \E S \in SUBSET Containers : \E data \in [S -> Ranks] : SnapshotRendered(data)
    \/ DockerErrorRendered \/ ResetPage
    \/ \E q \in Queries \cup {NoQuery} : Search(q)
    \/ \E column \in SortColumns : ToggleSorting(column)
    \/ FirstPage \/ PreviousPage \/ NextPage \/ LastPage
    \/ \E n \in PageSizes : SetPageSize(n)

Spec == Init /\ [][Next]_vars

-----------------------------------------------------------------------------
(* Properties.                                                             *)

\* The footer counts the rows above it: a page that is not empty shows the rows
\* from..to of those found, and a page without rows means that none is found.
FooterCountsTheBody ==
    IF Body = <<>> THEN Total = 0 /\ Footer.from = 0 /\ Footer.to = 0
    ELSE /\ Footer.from \in 1..Footer.to /\ Footer.to <= Footer.total
         /\ Body = SubSeq(Sorted, Footer.from, Footer.to)

\* A button is enabled exactly where there are rows in its direction, and the
\* page is one of those that the footer counts.
ButtonsLead ==
    /\ CanPreviousPage <=> Footer.from > 1
    /\ CanNextPage <=> Footer.to < Footer.total
    /\ Footer.page \in 1..Footer.pages

\* Every container that is searched for is on exactly one page, none other is on
\* any, and from page to page they follow the arrow of the header.
EveryRowOnce ==
    LET found == {c \in DOMAIN containers : query = NoQuery \/ c \in Matching[query]}
        places == UNION {{i} \X DOMAIN Page(i) : i \in 0..PageCount - 1}
        Row(p) == Page(p[1])[p[2]]
    IN  /\ {Row(p) : p \in places} = found
        /\ \A p, r \in places : p # r => Row(p) # Row(r)
        /\ \A p, r \in places : p[1] < r[1] \/ (p[1] = r[1] /\ p[2] < r[2]) =>
              CASE Icon(sorting.column) = "up" /\ sorting # Unsorted -> Key(Row(p)) <= Key(Row(r))
                [] Icon(sorting.column) = "down" -> Key(Row(p)) >= Key(Row(r))
                [] OTHER -> Place(Row(p)) < Place(Row(r))

\* Whatever is searched for, sorted, turned to and shrunk by a snapshot: once the
\* page has been reset, the footer and its buttons tell where the rows are.
TableTellsTheRows ==
    OnPage => FooterCountsTheBody /\ ButtonsLead /\ EveryRowOnce
=============================================================================
