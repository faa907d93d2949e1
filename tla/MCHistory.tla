------------------------------ MODULE MCHistory ------------------------------
(***************************************************************************)
(* What the dashboard keeps and draws of the past, on one bench for TLC:   *)
(* the connection with the history it fills (Dashboard over WSClient), the *)
(* loop that averages a window of it (Aggregate), the queries of the chart *)
(* (Chart).  A call of the loop is one query and shares no variable with   *)
(* the others; `part' says which of them moves in a behaviour.             *)
(***************************************************************************)
EXTENDS Dashboard, Aggregate

VARIABLES
    part,
    windowMin, interval, query, rawPoints, newest, selects      \* Chart

ChartPart == INSTANCE Chart
    WITH Windows <- {15, 60, 1440}, FirstWindow <- 60, Nothing <- 0,
         Ages <- {0, 20, 100}, Queries <- {1, 2}, MaxSelects <- 3

ASSUME PartAssumptions == ChartPart!ChartAssumption

-----------------------------------------------------------------------------
chartVars == <<windowMin, interval, query, rawPoints, newest, selects>>

\* the parts that stand still do so in one of their initial states
HistoryInit ==
    /\ part \in {"dashboard", "aggregate", "chart"}
    /\ part # "dashboard" => metrics = {}
    /\ part # "aggregate" => raw = [i \in 1..MaxRecords |-> 0]
    /\ DashboardInit /\ AggregateInit /\ ChartPart!Init
    /\ part # "chart" => newest = 0 /\ query[1] = 60

HistoryNext ==
    /\ UNCHANGED part
    /\ \/ part = "dashboard" /\ DashboardNext /\ UNCHANGED <<aggregateVars, chartVars>>
       \/ part = "aggregate" /\ AggregateNext /\ UNCHANGED <<allVars, chartVars>>
       \/ part = "chart" /\ ChartPart!Next /\ UNCHANGED <<allVars, aggregateVars>>

HistorySpec ==
    /\ HistoryInit /\ [][HistoryNext]_<<part, allVars, aggregateVars, chartVars>>
    /\ (part = "dashboard" => DashboardFairness)
    /\ (part = "chart" => ChartPart!Fairness)

-----------------------------------------------------------------------------
(* The properties of liveness of the parts that move.                      *)

\* WSClient: in production a lost stream is opened again, each time.
StreamComesBack == part = "dashboard" => StreamResumes

\* Chart: the chart comes to show the window that is selected and stays with it.
ChartSettles == part = "chart" => ChartPart!Settles
=============================================================================
