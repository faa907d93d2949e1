---------------------------------- MODULE View ----------------------------------
(***************************************************************************)
(* What the dashboard shows of the stream: App (App.tsx), which asks for   *)
(* the current snapshot over REST and subscribes to the stream at the same *)
(* time, and OverviewCards, which keeps rolling trends and deltas of what  *)
(* was rendered.  Snapshots are numbered in the order in which the server  *)
(* collected them.  A point of a trend is the number of its snapshot; a    *)
(* delta is the two snapshots it compares.  The trend "cpu" stands for the *)
(* three that every snapshot has a point for; the other two have one only  *)
(* of a snapshot with a disk or with an available GPU.                     *)
(***************************************************************************)
EXTENDS Naturals, Sequences

CONSTANTS
    HistorySize,    \* 16 in the code
    MadeUp,         \* points that a trend starts with, 8 in the code
    Optional,       \* the trends that not every snapshot has a point for: disk, gpu
    Metrics,        \* of the cards with a delta: cpu (like memory), net
    ZeroShows,      \* the metrics that get a delta when they are zero: cpu
    MaxSnapshots,   \* bound: the snapshots of a behaviour
    MaxConnects     \* bound: the connections of a behaviour

ASSUME ViewAssumption ==
    /\ {HistorySize, MadeUp, MaxSnapshots, MaxConnects} \subseteq Nat
    /\ HistorySize > 1 /\ MadeUp <= HistorySize /\ ZeroShows \subseteq Metrics
    /\ "cpu" \notin Optional

VARIABLES
    \* the server
    collected,      \* the number of the last snapshot
    positive,       \* the snapshots in which a metric is above zero
    has,            \* the snapshots that have a point for an optional trend
    cached,         \* latestSnapshot, 0 before the first poll
    queue,          \* what the hub has yet to send
    \* between server and browser
    stream,         \* "down", "greeted" or "up"
    wire,           \* what is on its way
    rest,           \* the answer to the fetch, or "asked", "done"
    \* the browser
    snapshot,       \* App's state, 0 for null
    renderDue,      \* a state has changed since the last render
    fresh,          \* App has set a snapshot since the last render
    effectDue,      \* the effect of the last render has not run yet
    shown,          \* the snapshot of the last render
    trend, prevRef, deltas,
    \* history
    drawn,          \* per trend, the snapshots with a point for it that were rendered
    connects, backs

server == <<collected, positive, has, cached, queue>>
network == <<stream, wire, rest>>
cards == <<trend, prevRef, deltas>>
counts == <<connects, backs>>
page == <<snapshot, renderDue, fresh, effectDue, shown, drawn>>
vars == <<server, network, page, cards, counts>>

Numbers == 0..MaxSnapshots
Trends == {"cpu"} \cup Optional
Undefined == [of |-> 0, against |-> 0]

TypeOK ==
    /\ {collected, cached, snapshot, shown} \subseteq Numbers
    /\ positive \in [Metrics -> SUBSET Numbers] /\ has \in [Optional -> SUBSET Numbers]
    /\ queue \in Seq(Numbers) /\ wire \in Seq(Numbers)
    /\ stream \in {"down", "greeted", "up"}
    /\ rest.at \in {"asked", "answered", "done"} /\ rest.number \in Numbers
    /\ {renderDue, fresh, effectDue} \subseteq BOOLEAN
    /\ \A t \in Trends : trend[t] \in Seq(Numbers) /\ Len(trend[t]) <= HistorySize
    /\ prevRef \in [Metrics -> Numbers]
    /\ deltas \in [Metrics -> [of : Numbers, against : Numbers]]

\* mounted, the fetch on its way
Init ==
    /\ collected = 0 /\ cached = 0 /\ queue = <<>>
    /\ positive = [m \in Metrics |-> {}] /\ has = [t \in Optional |-> {}]
    /\ stream = "down" /\ wire = <<>>
    /\ rest = [at |-> "asked", number |-> 0]
    /\ snapshot = 0 /\ shown = 0
    /\ renderDue = FALSE /\ fresh = FALSE /\ effectDue = FALSE
    /\ trend = [t \in Trends |-> [i \in 1..MadeUp |-> 0]]
    /\ prevRef = [m \in Metrics |-> 0]
    /\ deltas = [m \in Metrics |-> Undefined]
    /\ drawn = [t \in Trends |-> <<>>] /\ connects = 0 /\ backs = 0

-----------------------------------------------------------------------------
(* The server, as Server.tla and Collector.tla have it in detail.          *)

\* a collection: its metrics are zero, missing or positive, a disk or GPU is there or not
Collects ==
    /\ collected < MaxSnapshots
    /\ collected' = collected + 1
    /\ \E M \in SUBSET Metrics :
          positive' = [m \in Metrics |-> positive[m] \cup (IF m \in M THEN {collected'} ELSE {})]
    /\ \E T \in SUBSET Optional :
          has' = [t \in Optional |-> has[t] \cup (IF t \in T THEN {collected'} ELSE {})]

\* pollAndBroadcast: cached, then given to the hub (nobody may be connected)
Poll ==
    /\ Collects
    /\ cached' = collected'
    /\ queue' = Append(queue, collected')
    /\ UNCHANGED <<network, page, cards, counts>>

\* the hub sends; it may miss a dashboard that is about to register
Send ==
    /\ queue # <<>>
    /\ queue' = Tail(queue)
    /\ \/ stream # "down" /\ wire' = Append(wire, Head(queue))
       \/ UNCHANGED wire
    /\ UNCHANGED <<collected, positive, has, cached, stream, rest, page, cards, counts>>

\* handleCurrentMetrics: what is cached, or a collection of its own
ServeCurrent ==
    /\ rest.at = "asked"
    /\ IF cached > 0
       THEN /\ rest' = [at |-> "answered", number |-> cached]
            /\ UNCHANGED <<collected, positive, has>>
       ELSE /\ Collects
            /\ rest' = [at |-> "answered", number |-> collected']
    /\ UNCHANGED <<cached, queue, stream, wire, page, cards, counts>>

\* a connection: greeted with what is cached
Connected ==
    /\ stream = "down" /\ connects < MaxConnects
    /\ stream' = "greeted"
    /\ wire' = IF cached > 0 THEN <<cached>> ELSE <<>>
    /\ connects' = connects + 1
    /\ UNCHANGED <<server, rest, page, cards, backs>>

\* the connection is lost with what was on its way
Lost ==
    /\ stream # "down"
    /\ stream' = "down" /\ wire' = <<>>
    /\ UNCHANGED <<server, rest, page, cards, counts>>

-----------------------------------------------------------------------------
(* App.                                                                    *)

\* setSnapshot: an object of its own, even if it has the same number; a render
\* that is due takes the last one
SetSnapshot(n) ==
    /\ snapshot' = n
    /\ renderDue' = TRUE /\ fresh' = TRUE
    /\ backs' = IF n < snapshot THEN backs + 1 ELSE backs

\* the listener App has subscribed
Listen ==
    /\ wire # <<>>
    /\ SetSnapshot(Head(wire))
    /\ wire' = Tail(wire) /\ stream' = "up"
    /\ UNCHANGED <<server, rest, effectDue, shown, drawn, cards, connects>>

\* mutant: the current snapshot is fetched again and again
RestAnswer_Repeats ==
    /\ rest.at = "answered"
    /\ SetSnapshot(rest.number)
    /\ rest' = [at |-> "asked", number |-> 0]
    /\ UNCHANGED <<server, stream, wire, effectDue, shown, drawn, cards, connects>>

\* fetch(...).then(setSnapshot)
RestAnswer ==
    /\ rest.at = "answered"
    /\ SetSnapshot(rest.number)
    /\ rest' = [at |-> "done", number |-> 0]
    /\ UNCHANGED <<server, stream, wire, effectDue, shown, drawn, cards, connects>>

\* fetch(...).catch(() => {})
RestFails ==
    /\ rest.at # "done"
    /\ rest' = [at |-> "done", number |-> 0]
    /\ UNCHANGED <<server, stream, wire, page, cards, counts>>

\* another state of the page: the connection's, the trends and deltas themselves
OtherState ==
    /\ ~renderDue /\ shown > 0
    /\ renderDue' = TRUE
    /\ UNCHANGED <<server, network, snapshot, fresh, effectDue, shown, drawn, cards, counts>>

\* snapshot n has a point for the trend
HasPoint(t, n) == t \in Optional => n \in has[t]

\* mutant: the effect has no list of dependencies
Render_EveryTime ==
    /\ renderDue /\ ~effectDue
    /\ shown' = snapshot
    /\ renderDue' = FALSE /\ fresh' = FALSE /\ effectDue' = TRUE
    /\ drawn' = [t \in Trends |-> IF fresh /\ HasPoint(t, snapshot)
                                  THEN Append(drawn[t], snapshot) ELSE drawn[t]]
    /\ UNCHANGED <<server, network, snapshot, cards, counts>>

\* No render starts before the effect of the one before has run.  Only a render of a
\* snapshot that was set since has an effect: the dependencies are the snapshot and parts of it.
Render ==
    /\ renderDue /\ ~effectDue
    /\ shown' = snapshot
    /\ renderDue' = FALSE /\ fresh' = FALSE /\ effectDue' = fresh
    /\ drawn' = [t \in Trends |-> IF fresh /\ HasPoint(t, snapshot)
                                  THEN Append(drawn[t], snapshot) ELSE drawn[t]]
    /\ UNCHANGED <<server, network, snapshot, cards, counts>>

-----------------------------------------------------------------------------
(* OverviewCards.                                                          *)

\* s.slice(-n)
LastN(s, n) == SubSeq(s, IF Len(s) > n THEN Len(s) - n + 1 ELSE 1, Len(s))

\* [...prev.slice(-(HISTORY_SIZE - 1)), x]
Roll(s, x) == Append(LastN(s, HistorySize - 1), x)

\* mutant: the reference follows metrics that are zero, too
DeltaAndRef_Zero ==
    /\ deltas' = [m \in Metrics |->
                     IF prevRef[m] > 0 /\ (m \in ZeroShows \/ shown \in positive[m])
                     THEN [of |-> shown, against |-> prevRef[m]] ELSE Undefined]
    /\ prevRef' = [m \in Metrics |-> shown]

\* the change since the last positive value, which is then replaced
DeltaAndRef ==
    /\ deltas' = [m \in Metrics |->
                     IF prevRef[m] > 0 /\ (m \in ZeroShows \/ shown \in positive[m])
                     THEN [of |-> shown, against |-> prevRef[m]] ELSE Undefined]
    /\ prevRef' = [m \in Metrics |-> IF shown \in positive[m] THEN shown ELSE prevRef[m]]

\* the effect on snapshot, with the values of its render; what it sets is rendered
Effect ==
    /\ effectDue /\ effectDue' = FALSE
    /\ trend' = [t \in Trends |-> IF HasPoint(t, shown) THEN Roll(trend[t], shown) ELSE trend[t]]
    /\ DeltaAndRef
    /\ renderDue' = TRUE
    /\ UNCHANGED <<server, network, snapshot, fresh, shown, drawn, counts>>

Next ==
    \/ Poll \/ Send \/ ServeCurrent \/ Connected \/ Lost
    \/ Listen \/ RestAnswer \/ RestFails \/ OtherState \/ Render \/ Effect

Spec == Init /\ [][Next]_vars

-----------------------------------------------------------------------------
(* Properties.                                                             *)

\* A snapshot may be followed by an older one: by the answer to the fetch, which
\* the stream can overtake, and by a broadcast that was in the hub when a newer
\* snapshot greeted the connection.  It happens once for each, never again, and not
\* for a fetch that is still to be answered.
FewStepsBack == backs <= connects + (IF rest.at = "done" THEN 1 ELSE 0)

\* the renders with a point for the trend whose effect has run
Told(t) ==
    IF effectDue /\ HasPoint(t, shown) THEN SubSeq(drawn[t], 1, Len(drawn[t]) - 1) ELSE drawn[t]

\* The points of a trend are those of the last snapshots that were rendered with one, in
\* their order and each of them once, however often the page is rendered, with made-up
\* points before them only while there are too few.
TrendIsTheLastRenders ==
    \A t \in Trends : trend[t] = LastN([i \in 1..MadeUp |-> 0] \o Told(t), HistorySize)

\* A delta is between the snapshot rendered last and the latest one before it
\* in which the metric was positive; without one there is none.
DeltasAreOfRenders ==
    \A m \in Metrics :
       LET renders == Told("cpu")
           n == Len(renders)
           before == {i \in 1..n - 1 : renders[i] \in positive[m]}
       IN  /\ deltas[m] # Undefined <=>
                 before # {} /\ (m \in ZeroShows \/ renders[n] \in positive[m])
           /\ deltas[m] # Undefined =>
                 /\ deltas[m].of = renders[n]
                 /\ \E i \in before : /\ deltas[m].against = renders[i]
                                       /\ \A j \in before : j <= i

\* What the cards tell of the past is what was rendered.
RendersAreTold == TypeOK /\ TrendIsTheLastRenders /\ DeltasAreOfRenders
=============================================================================
