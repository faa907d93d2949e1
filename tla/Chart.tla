--------------------------------- MODULE Chart ---------------------------------
(***************************************************************************)
(* The queries of HistoricalChart (components/HistoricalChart.tsx).  The   *)
(* chart asks the database for the window that is selected, at once and    *)
(* every three seconds.  A query that is on its way is neither cancelled   *)
(* nor told apart from a later one: whichever answer comes last is shown.  *)
(***************************************************************************)
EXTENDS Naturals

CONSTANTS
    Windows,        \* 15, 60, 360 and 1440 minutes
    FirstWindow,    \* 60
    Nothing,        \* no window
    Ages,           \* bound: how old the newest record gets, in minutes
    Queries,        \* bound: the queries on their way at a time
    MaxSelects      \* bound: the selections of a behaviour

\* stated as an assumption where the constants get their values
ChartAssumption ==
    /\ Windows \subseteq Nat \ {0} /\ FirstWindow \in Windows /\ Nothing \notin Windows
    /\ Ages \subseteq Nat /\ 0 \in Ages /\ MaxSelects \in Nat

VARIABLES
    windowMin,
    interval,       \* the window of the fetchData that the interval calls
    query,          \* the window each query asks for, or Nothing
    rawPoints,      \* the window whose points are shown, and whether there are any
    newest,         \* the age of the newest record in the database
    selects

vars == <<windowMin, interval, query, rawPoints, newest, selects>>

TypeOK ==
    /\ windowMin \in Windows /\ interval \in Windows
    /\ query \in [Queries -> Windows \cup {Nothing}]
    /\ rawPoints \in [window : Windows \cup {Nothing}, any : BOOLEAN]
    /\ newest \in Ages
    /\ selects \in 0..MaxSelects

\* fetchData() for the window w
FetchData(w) ==
    \E q \in Queries : query[q] = Nothing /\ query' = [query EXCEPT ![q] = w]

\* mounted: the first query is under way
Init ==
    /\ windowMin = FirstWindow /\ interval = FirstWindow
    /\ \E q \in Queries :
          query = [p \in Queries |-> IF p = q THEN FirstWindow ELSE Nothing]
    /\ rawPoints = [window |-> Nothing, any |-> FALSE]
    /\ newest \in Ages
    /\ selects = 0

\* mutant: fetchData without windowMin among its dependencies
Select_OldClosure(w) ==
    /\ selects < MaxSelects /\ w # windowMin
    /\ windowMin' = w /\ selects' = selects + 1
    /\ FetchData(w)
    /\ UNCHANGED <<interval, rawPoints, newest>>

\* another window: the effect clears the interval, fetches and sets a new one
Select(w) ==
    /\ selects < MaxSelects /\ w # windowMin
    /\ windowMin' = w /\ selects' = selects + 1
    /\ interval' = w
    /\ FetchData(w)
    /\ UNCHANGED <<rawPoints, newest>>

\* the interval fires
Refresh ==
    /\ FetchData(interval)
    /\ UNCHANGED <<windowMin, interval, rawPoints, newest, selects>>

\* a query is answered: setRawPoints
Answer(q) ==
    /\ query[q] # Nothing
    /\ rawPoints' = [window |-> query[q], any |-> newest < query[q]]
    /\ query' = [query EXCEPT ![q] = Nothing]
    /\ UNCHANGED <<windowMin, interval, newest, selects>>

\* or it fails, and the points stay
Fail(q) ==
    /\ query[q] # Nothing
    /\ query' = [query EXCEPT ![q] = Nothing]
    /\ UNCHANGED <<windowMin, interval, rawPoints, newest, selects>>

\* the stream brings a record, or time passes without one
Record ==
    /\ newest' = 0
    /\ UNCHANGED <<windowMin, interval, query, rawPoints, selects>>

Age ==
    /\ \E a \in Ages : a > newest /\ newest' = a
    /\ UNCHANGED <<windowMin, interval, query, rawPoints, selects>>

\* What is drawn: the points, their times written with seconds for a short window; or
\* without points ten made-up ones at zero, with seconds.
ChartData ==
    IF rawPoints.any
    THEN [points |-> rawPoints.window, seconds |-> windowMin <= 60]
    ELSE [points |-> Nothing, seconds |-> TRUE]

Next ==
    \/ Record \/ Age
    \/ \E w \in Windows : Select(w)
    \/ Refresh
    \/ \E q \in Queries : Answer(q) \/ Fail(q)

(***************************************************************************)
(* Fairness: the interval fires, every query ends, and those that succeed  *)
(* do not stop coming.                                                     *)
(***************************************************************************)
Fairness ==
    /\ WF_vars(Refresh)
    /\ \A q \in Queries : /\ WF_vars(Answer(q) \/ Fail(q))
                         /\ SF_vars(Answer(q))

Spec == Init /\ [][Next]_vars /\ Fairness

\* When the user is done selecting, the chart comes to draw the points of the window
\* that is selected, with the times written for it, or nothing when that window is
\* empty, and stays with it, in whichever order the queries were answered.
Settles ==
    <>[](/\ rawPoints.window = windowMin
         /\ ChartData.points # Nothing =>
               ChartData = [points |-> windowMin, seconds |-> windowMin <= FirstWindow])
=============================================================================
