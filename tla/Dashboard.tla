------------------------------- MODULE Dashboard -------------------------------
(***************************************************************************)
(* The dashboard's connection together with the history it keeps: each     *)
(* snapshot that comes in is recorded in IndexedDB (lib/db.ts), and a      *)
(* timer that the connection started removes what is too old.  Records are *)
(* told apart by their age only.                                           *)
(***************************************************************************)
EXTENDS WSClient

CONSTANTS
    Retention,      \* 24 hours in the code
    PruneEvery      \* 15 minutes in the code

ASSUME DashboardAssumption == Retention \in Nat /\ PruneEvery \in Nat \ {0}

VARIABLES
    metrics,        \* the ages of the records of the table
    pruneDue,       \* the time until the pruning interval fires
    pruned          \* what it did when it last fired did not fail (history)

historyVars == <<metrics, pruneDue, pruned>>
allVars == <<vars, historyVars>>

\* ages beyond this are not told apart
MaxAge == Retention + PruneEvery + 1

HistoryTypeOK ==
    /\ metrics \subseteq 0..MaxAge
    /\ pruneDue \in 0..PruneEvery
    /\ pruned \in BOOLEAN

\* the table may hold anything that an earlier session left
DashboardInit ==
    /\ Init
    /\ metrics \in {{}, {MaxAge}}
    /\ pruneDue = PruneEvery
    /\ pruned = FALSE

-----------------------------------------------------------------------------
\* mutant: connect() clears the interval and sets it again each time
PruneClock_Restarts == pruneDue' = IF ws' # ws THEN PruneEvery ELSE pruneDue

\* an interval that is set starts to run
PruneClock ==
    pruneDue' = IF pruneInterval # "armed" /\ pruneInterval' = "armed"
                THEN PruneEvery ELSE pruneDue

\* what the connection does leaves the table alone
Connection ==
    /\ Next
    /\ PruneClock
    /\ UNCHANGED <<metrics, pruned>>

\* onmessage on an open socket: notifySnapshot, then recordSnapshot; a frame that
\* cannot be parsed or stored leaves no record
OnMessage(s) ==
    /\ readyState[s] = "open"
    /\ metrics' = metrics \cup {0}
    /\ UNCHANGED <<vars, pruneDue, pruned>>

\* where('timestamp').below(cutoff).delete()
PruneOldRecords == metrics' = {a \in metrics : a <= Retention}

\* the interval fires; a deletion that fails is forgotten, and the records stay
PruneTimer ==
    /\ pruneInterval = "armed" /\ pruneDue = 0
    /\ \/ PruneOldRecords /\ pruned' = TRUE
       \/ pruned' = FALSE /\ UNCHANGED metrics
    /\ pruneDue' = PruneEvery
    /\ UNCHANGED vars

\* time passes; a timer that is due is not overtaken
Tick ==
    /\ pruneInterval = "armed" => pruneDue > 0
    /\ pruneDue' = IF pruneInterval = "armed" THEN pruneDue - 1 ELSE pruneDue
    /\ metrics' = {IF a < MaxAge THEN a + 1 ELSE a : a \in metrics}
    /\ UNCHANGED <<vars, pruned>>

DashboardNext ==
    \/ Connection
    \/ \E s \in Sockets : OnMessage(s)
    \/ PruneTimer \/ Tick

(***************************************************************************)
(* Fairness: App is mounted, timers fire, a close ends; a server that is   *)
(* asked again and again accepts at last.                                  *)
(***************************************************************************)
DashboardFairness ==
    /\ WF_allVars(Mount /\ Connection)
    /\ WF_allVars(ReconnectTimer /\ Connection)
    /\ \A s \in Sockets :
          /\ SF_allVars(OnOpen(s) /\ Connection)
          /\ WF_allVars(/\ readyState[s] \in {"closing", "failing"}
                        /\ OnClose(s) \/ OnError(s)
                        /\ Connection)

DashboardSpec == DashboardInit /\ [][DashboardNext]_allVars /\ DashboardFairness

-----------------------------------------------------------------------------
(* Properties.                                                             *)

\* In production, from a deletion that succeeds to the next one that fails, no record is
\* older than the retention time and one interval, however often the connection is lost
\* in between and however many deletions failed before.
HistoryBounded ==
    /\ HistoryTypeOK
    /\ pruned /\ mounted /\ mounts = 1 => \A a \in metrics : a <= Retention + PruneEvery
=============================================================================
