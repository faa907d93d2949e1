----------------------------- MODULE HistoryProofs -----------------------------
(***************************************************************************)
(* What holds of the dashboard's past for every size of it: of the         *)
(* connection that brings the snapshots (WSClient), of the history that is *)
(* kept of them (Dashboard over WSClient) and of the loop that averages a  *)
(* window of it for the chart (Aggregate).                                 *)
(***************************************************************************)
EXTENDS Dashboard, Aggregate, TLAPS

-----------------------------------------------------------------------------
(* The connection.  OneStream is inductive with the types: a socket is     *)
(* replaced only when it is neither open nor connecting, and no event      *)
(* makes an abandoned one open.  StatusIsTrue is not: during the first     *)
(* mount it needs that every socket but the current one is closed for      *)
(* good, so that no late event of theirs speaks for it.                    *)

CInv == TypeOK /\ OneStream

\* connect() keeps the types of what it may change, and at most one live socket.
LEMMA ConnectKeeps ==
    ASSUME CInv, Connect
    PROVE  /\ readyState' \in [Sockets -> {"connecting", "open", "closing", "failing", "closed"}]
           /\ ws' \in Sockets \cup {NoSocket}
           /\ pruneInterval' \in Handles
           /\ OneStream'
<1> USE DEF CInv, TypeOK, OneStream, Handles
<1>1. CASE NeedsSocket
  <2>1. PICK s \in Sockets \ {ws} :
            /\ readyState' = [readyState EXCEPT ![s] = "connecting"]
            /\ ws' = s
    BY <1>1 DEF Connect
  <2>2. \A t \in Sockets : readyState[t] \notin Live
    <3>1. CASE ws = NoSocket
      BY <3>1, WSClientAssumption
    <3>2. CASE ws # NoSocket
      BY <1>1, <3>2 DEF NeedsSocket
    <3> QED BY <3>1, <3>2
  <2>3. OneStream'
    BY <2>1, <2>2
  <2>4. pruneInterval' \in Handles
    BY <1>1 DEF Connect, StartPruning
  <2> QED BY <2>1, <2>3, <2>4
<1>2. CASE ~NeedsSocket
  BY <1>2 DEF Connect
<1> QED BY <1>1, <1>2

\* close() makes no socket live.
LEMMA CloseKeeps ==
    ASSUME NEW rs \in [Sockets -> {"connecting", "open", "closing", "failing", "closed"}],
           NEW s \in Sockets \cup {NoSocket}
    PROVE  /\ Closed(rs, s) \in [Sockets -> {"connecting", "open", "closing", "failing", "closed"}]
           /\ \A t \in Sockets : Closed(rs, s)[t] \in Live => rs[t] \in Live
  BY DEF Closed, Live

\* The initial states.
LEMMA ConnectionInit == Init => CInv
<1> SUFFICES ASSUME Init PROVE CInv
  OBVIOUS
<1>1. TypeOK
  <2>1. 0 \in 0..MaxMounts
    BY WSClientAssumption
  <2> QED BY <2>1 DEF Init, TypeOK, Handles
<1>2. OneStream
  BY DEF Init, OneStream, Live
<1> QED BY <1>1, <1>2 DEF CInv

\* Every step.
LEMMA ConnectionStep == CInv /\ [Next]_vars => CInv'
<1> SUFFICES ASSUME CInv, [Next]_vars PROVE CInv'
  OBVIOUS
<1> USE DEF CInv
<1>1. CASE Mount
  BY <1>1, ConnectKeeps, WSClientAssumption DEF Mount, TypeOK
<1>2. CASE Unmount
  <2>1. /\ readyState' \in [Sockets -> {"connecting", "open", "closing", "failing", "closed"}]
        /\ \A t \in Sockets : readyState'[t] \in Live => readyState[t] \in Live
    BY <1>2, CloseKeeps DEF Unmount, TypeOK
  <2> QED BY <1>2, <2>1 DEF Unmount, TypeOK, OneStream, Handles
<1>3. CASE ReconnectTimer
  BY <1>3, ConnectKeeps DEF ReconnectTimer, TypeOK, Handles
<1>4. ASSUME NEW s \in Sockets, OnOpen(s) PROVE CInv'
  BY <1>4 DEF OnOpen, Notify, TypeOK, OneStream, Handles, Live
<1>5. ASSUME NEW s \in Sockets, OnClose(s) PROVE CInv'
  BY <1>5 DEF OnClose, Notify, ScheduleReconnect, TypeOK, OneStream, Handles, Live
<1>6. ASSUME NEW s \in Sockets, OnError(s) PROVE CInv'
  <2> DEFINE rs == [readyState EXCEPT ![s] = "closed"]
  <2>1. /\ rs \in [Sockets -> {"connecting", "open", "closing", "failing", "closed"}]
        /\ \A t \in Sockets : rs[t] \in Live => readyState[t] \in Live
    BY DEF TypeOK, Live
  <2>2. readyState' = Closed(rs, ws)
    BY <1>6 DEF OnError
  <2> HIDE DEF rs
  <2>3. /\ readyState' \in [Sockets -> {"connecting", "open", "closing", "failing", "closed"}]
        /\ \A t \in Sockets : readyState'[t] \in Live => readyState[t] \in Live
    BY <2>1, <2>2, CloseKeeps DEF TypeOK
  <2>4. OneStream'
    BY <1>6, <2>3 DEF OnError, OneStream
  <2>5. TypeOK'
    BY <1>6, <2>3 DEF OnError, Notify, ScheduleReconnect, TypeOK, Handles
  <2> QED BY <2>4, <2>5
<1>7. CASE UNCHANGED vars
  BY <1>7 DEF vars, TypeOK, OneStream, Handles
<1> QED BY <1>1, <1>2, <1>3, <1>4, <1>5, <1>6, <1>7 DEF Next

\* The dashboard never has two live connections (websocket.ts, connect): for any
\* number of mounts and every order of timers and socket events.
THEOREM OneStreamAlways == Spec => []OneStream
<1>1. CInv => OneStream
  BY DEF CInv
<1> QED BY <1>1, ConnectionInit, ConnectionStep, PTL DEF Spec

-----------------------------------------------------------------------------
(* The status, during the first mount.                                     *)

\* before it nothing has happened yet
Untouched ==
    /\ ws = NoSocket /\ ~mounted /\ ~isConnected /\ reconnectTimeout = "null"
    /\ \A s \in Sockets : readyState[s] = "closed"

\* what is shown is what the client has noted, and that is true of its socket; no other
\* socket is left that could have an event
Upright ==
    /\ connected = isConnected
    /\ isConnected <=> ws # NoSocket /\ readyState[ws] = "open"
    /\ \A s \in Sockets \ {ws} : readyState[s] = "closed"
    /\ ws # NoSocket => readyState[ws] \in {"connecting", "open", "closed"}

SInv ==
    /\ CInv
    /\ mounts = 0 => Untouched
    /\ mounted /\ mounts = 1 => Upright

\* connect() during the first mount leaves the socket that it replaces closed.
LEMMA ConnectUpright ==
    ASSUME CInv, Connect,
           isConnected <=> ws # NoSocket /\ readyState[ws] = "open",
           \A s \in Sockets \ {ws} : readyState[s] = "closed",
           ws # NoSocket => readyState[ws] \in {"connecting", "open", "closed"},
           isConnected' = isConnected, connected' = isConnected
    PROVE  Upright'
<1>1. CASE NeedsSocket
  <2>1. PICK s \in Sockets \ {ws} :
            /\ readyState' = [readyState EXCEPT ![s] = "connecting"]
            /\ ws' = s
    BY <1>1 DEF Connect
  <2>2. readyState'[s] = "connecting" /\ s # NoSocket
    BY <2>1, WSClientAssumption DEF CInv, TypeOK
  <2>3. ~isConnected
    BY <1>1 DEF NeedsSocket, Live
  <2>4. \A t \in Sockets : readyState[t] = "closed"
    BY <1>1, WSClientAssumption DEF NeedsSocket, Live
  <2>5. \A t \in Sockets \ {ws'} : readyState'[t] = "closed"
    BY <2>1, <2>4 DEF CInv, TypeOK
  <2> QED BY <2>1, <2>2, <2>3, <2>5 DEF Upright
<1>2. CASE ~NeedsSocket
  BY <1>2 DEF Connect, Upright
<1> QED BY <1>1, <1>2

\* The initial states.
LEMMA InitUpright == Init => SInv
  BY ConnectionInit DEF Init, SInv, Untouched

\* Every step.
LEMMA StepUpright == SInv /\ [Next]_vars => SInv'
<1> SUFFICES ASSUME SInv, [Next]_vars PROVE (mounts = 0 => Untouched)' /\ (mounted /\ mounts = 1 => Upright)'
  BY ConnectionStep DEF SInv
<1>0. CInv
  BY DEF SInv
<1>1. CASE Mount
  <2>1. mounts' = mounts + 1 /\ mounts \in Nat
    BY <1>0, <1>1 DEF Mount, CInv, TypeOK
  <2>2. CASE mounts = 0
    <3>1. Untouched
      BY <2>2 DEF SInv
    <3>2. Upright'
      BY <1>0, <1>1, <3>1, ConnectUpright DEF Mount, Untouched
    <3> QED BY <2>1, <2>2, <3>2
  <2>3. CASE mounts # 0
    BY <2>1, <2>3
  <2> QED BY <2>2, <2>3
<1>2. CASE Unmount
  BY <1>2 DEF Unmount, SInv, Untouched
<1>3. CASE ReconnectTimer
  <2>1. UNCHANGED <<mounted, mounts>> /\ isConnected' = isConnected /\ connected' = connected /\ Connect
    BY <1>3 DEF ReconnectTimer
  <2>2. mounts # 0
    BY <1>3 DEF ReconnectTimer, SInv, Untouched
  <2>3. ASSUME mounted, mounts = 1 PROVE Upright'
    <3>1. Upright
      BY <2>3 DEF SInv
    <3> QED BY <1>0, <2>1, <3>1, ConnectUpright DEF Upright
  <2> QED BY <2>1, <2>2, <2>3
<1>4. ASSUME NEW s \in Sockets, OnOpen(s) \/ OnClose(s) \/ OnError(s)
      PROVE  (mounts = 0 => Untouched)' /\ (mounted /\ mounts = 1 => Upright)'
  <2>1. UNCHANGED <<ws, mounted, mounts>> /\ readyState[s] # "closed"
    BY <1>4 DEF OnOpen, OnClose, OnError
  <2>2. mounts # 0
    BY <2>1 DEF SInv, Untouched
  <2>3. ASSUME mounted, mounts = 1 PROVE Upright'
    <3>1. Upright /\ s = ws
      BY <2>1, <2>3 DEF SInv, Upright
    <3>2. ws # NoSocket /\ ws' # NoSocket
      BY <2>1, <3>1, WSClientAssumption
    <3>3. CASE OnOpen(s)
      BY <1>0, <2>3, <3>1, <3>2, <3>3 DEF OnOpen, Notify, Upright, CInv, TypeOK
    <3>4. CASE OnClose(s)
      BY <1>0, <2>3, <3>1, <3>2, <3>4 DEF OnClose, Notify, Upright, CInv, TypeOK
    <3>5. CASE OnError(s)
      <4>1. readyState' = [readyState EXCEPT ![s] = "closed"]
        BY <1>0, <3>1, <3>5 DEF OnError, Closed, Live, CInv, TypeOK
      <4> QED BY <1>0, <2>3, <3>1, <3>2, <3>5, <4>1 DEF OnError, Notify, Upright, CInv, TypeOK
    <3> QED BY <1>4, <3>3, <3>4, <3>5
  <2> QED BY <2>1, <2>2, <2>3
<1>5. CASE UNCHANGED vars
  BY <1>5 DEF vars, SInv, Untouched, Upright
<1> QED BY <1>1, <1>2, <1>3, <1>4, <1>5 DEF Next

\* The header never claims a connection that is not there, nor denies one that is, as
\* long as App is mounted for the first time (App.tsx, onStatusChange): for any number
\* of sockets and every order of timers and events.
THEOREM StatusAlwaysTrue == Spec => []StatusIsTrue
<1>1. SInv => StatusIsTrue
  BY DEF SInv, Upright, StatusIsTrue
<1> QED BY <1>1, InitUpright, StepUpright, PTL DEF Spec

-----------------------------------------------------------------------------
(* The history.  The age of the oldest record is bounded by what the       *)
(* interval has run since it fired last; that takes an interval that runs  *)
(* on through every reconnect of the first mount (Fresh), and one that has *)
(* not fired before it.                                                    *)

\* before the first mount there is no interval; in it there is, and if what it did when it
\* last fired succeeded, no record is older than the retention time and what it has run since
Fresh ==
    /\ mounts = 0 => pruneInterval = "null" /\ ~pruned
    /\ mounted /\ mounts = 1 =>
          /\ pruneInterval = "armed"
          /\ pruned => \A a \in metrics : a <= Retention + (PruneEvery - pruneDue)

HInv == SInv /\ HistoryTypeOK /\ Fresh

\* What the connection does during the first mount leaves the interval running.
LEMMA ConnectionKeepsInterval ==
    ASSUME HInv, [Next]_vars, mounts' = 1, mounted'
    PROVE  /\ pruneInterval' = "armed"
           /\ pruneInterval = "armed" \/ ~pruned
           /\ pruneInterval = "armed" => mounts = 1 /\ mounted
<1>1. CInv /\ (mounts = 0 => Untouched) /\ mounts \in Nat
  BY DEF HInv, SInv, CInv, TypeOK
<1>2. CASE Mount
  <2>1. mounts = 0
    BY <1>1, <1>2 DEF Mount
  <2>2. NeedsSocket /\ pruneInterval = "null" /\ ~pruned
    BY <1>1, <2>1 DEF Untouched, NeedsSocket, HInv, Fresh
  <2>3. pruneInterval' = "armed"
    BY <1>2, <2>2 DEF Mount, Connect, StartPruning
  <2> QED BY <2>2, <2>3
<1>3. CASE Unmount
  BY <1>3 DEF Unmount
<1>4. CASE ReconnectTimer
  <2>1. mounts = 1 /\ mounted /\ pruneInterval = "armed"
    BY <1>4 DEF ReconnectTimer, HInv, Fresh
  <2>2. pruneInterval' = "armed"
    BY <1>4, <2>1 DEF ReconnectTimer, Connect, StartPruning
  <2> QED BY <2>1, <2>2
<1>5. CASE UNCHANGED vars \/ \E s \in Sockets : OnOpen(s) \/ OnClose(s) \/ OnError(s)
  <2>1. UNCHANGED <<mounts, mounted, pruneInterval>>
    BY <1>5 DEF vars, OnOpen, OnClose, OnError
  <2> QED BY <2>1 DEF HInv, Fresh
<1> QED BY <1>2, <1>3, <1>4, <1>5 DEF Next

\* The initial states.
LEMMA InitFresh == DashboardInit => HInv
<1> SUFFICES ASSUME DashboardInit PROVE HInv
  OBVIOUS
<1>1. MaxAge \in 0..MaxAge /\ PruneEvery \in 0..PruneEvery
  BY DashboardAssumption DEF MaxAge
<1>2. HistoryTypeOK
  <2>1. metrics = {} \/ metrics = {MaxAge}
    BY DEF DashboardInit
  <2>2. metrics \subseteq 0..MaxAge
    BY <1>1, <2>1
  <2> QED BY <1>1, <2>2 DEF DashboardInit, HistoryTypeOK
<1>3. Fresh
  BY DEF DashboardInit, Init, Fresh
<1> QED BY <1>2, <1>3, InitUpright DEF DashboardInit, HInv

\* Every step.
LEMMA StepFresh == HInv /\ [DashboardNext]_allVars => HInv'
<1> SUFFICES ASSUME HInv, [DashboardNext]_allVars PROVE HInv'
  OBVIOUS
<1>1. SInv /\ HistoryTypeOK /\ Fresh
  BY DEF HInv
<1>2. /\ Retention \in Nat /\ PruneEvery \in Nat /\ PruneEvery > 0
      /\ MaxAge = Retention + PruneEvery + 1
  BY DashboardAssumption DEF MaxAge
<1>3. metrics \subseteq 0..MaxAge /\ pruneDue \in 0..PruneEvery /\ pruned \in BOOLEAN
  BY <1>1 DEF HistoryTypeOK
<1>4. SInv'
  <2>1. [Next]_vars
    BY DEF DashboardNext, Connection, OnMessage, PruneTimer, Tick, allVars
  <2> QED BY <1>1, <2>1, StepUpright
<1>5. CASE Connection
  <2>1. /\ UNCHANGED <<metrics, pruned>> /\ Next
        /\ pruneDue' = IF pruneInterval # "armed" /\ pruneInterval' = "armed"
                       THEN PruneEvery ELSE pruneDue
    BY <1>5 DEF Connection, PruneClock
  <2>2. HistoryTypeOK'
    BY <1>2, <1>3, <2>1 DEF HistoryTypeOK
  <2>3. mounts' # 0
    <3>1. mounts = 0 => Mount
      BY <1>1, <2>1 DEF SInv, Untouched, Next, Unmount, ReconnectTimer, OnOpen, OnClose, OnError
    <3>2. mounts \in Nat
      BY <1>1 DEF SInv, CInv, TypeOK
    <3>3. mounts' = mounts \/ mounts' = mounts + 1
      BY <2>1 DEF Next, Mount, Unmount, ReconnectTimer, OnOpen, OnClose, OnError
    <3> QED BY <3>1, <3>2, <3>3 DEF Mount
  <2>4. ASSUME mounted', mounts' = 1
        PROVE  /\ pruneInterval' = "armed"
               /\ pruned' => \A a \in metrics' : a <= Retention + (PruneEvery - pruneDue')
    <3>1. /\ pruneInterval' = "armed" /\ (pruneInterval = "armed" \/ ~pruned)
          /\ pruneInterval = "armed" => mounts = 1 /\ mounted
      BY <2>1, <2>4, ConnectionKeepsInterval
    <3> QED BY <1>1, <2>1, <3>1 DEF Fresh
  <2>5. Fresh'
    BY <2>3, <2>4 DEF Fresh
  <2> QED BY <1>4, <2>2, <2>5 DEF HInv
<1>6. CASE \E s \in Sockets : OnMessage(s)
  <2>1. metrics' = metrics \cup {0} /\ UNCHANGED <<vars, pruneDue, pruned>>
    BY <1>6 DEF OnMessage
  <2>2. HistoryTypeOK'
    BY <1>2, <1>3, <2>1 DEF HistoryTypeOK, MaxAge
  <2>3. 0 <= Retention + (PruneEvery - pruneDue)
    BY <1>2, <1>3
  <2>4. Fresh'
    BY <1>1, <2>1, <2>3 DEF Fresh, vars
  <2> QED BY <1>4, <2>2, <2>4 DEF HInv
<1>7. CASE PruneTimer
  <2>1. /\ metrics' \subseteq metrics /\ pruned' \in BOOLEAN /\ pruneDue' = PruneEvery
        /\ pruned' => metrics' = {a \in metrics : a <= Retention}
        /\ UNCHANGED vars /\ pruneInterval = "armed"
    BY <1>7 DEF PruneTimer, PruneOldRecords
  <2>2. HistoryTypeOK'
    <3>1. metrics' \subseteq 0..MaxAge' /\ pruned' \in BOOLEAN
      BY <1>3, <2>1 DEF MaxAge
    <3>2. pruneDue' \in 0..PruneEvery
      BY <1>2, <2>1
    <3> QED BY <3>1, <3>2 DEF HistoryTypeOK
  <2>3. pruned' => \A a \in metrics' : a <= Retention + (PruneEvery - pruneDue')
    BY <1>2, <1>3, <2>1
  <2>4. Fresh'
    BY <1>1, <2>1, <2>3 DEF Fresh, vars
  <2> QED BY <1>4, <2>2, <2>4 DEF HInv
<1>8. CASE Tick
  <2>1. /\ metrics' = {IF a < MaxAge THEN a + 1 ELSE a : a \in metrics}
        /\ UNCHANGED <<vars, pruned>>
        /\ pruneInterval = "armed" => pruneDue > 0 /\ pruneDue' = pruneDue - 1
        /\ pruneInterval # "armed" => pruneDue' = pruneDue
    BY <1>8 DEF Tick
  <2>2. HistoryTypeOK'
    <3>1. \A a \in metrics : (IF a < MaxAge THEN a + 1 ELSE a) \in 0..MaxAge
      BY <1>2, <1>3
    <3>2. metrics' \subseteq 0..MaxAge'
      BY <2>1, <3>1 DEF MaxAge
    <3>3. pruneDue' \in 0..PruneEvery
      BY <1>2, <1>3, <2>1
    <3> QED BY <1>3, <2>1, <3>2, <3>3 DEF HistoryTypeOK
  <2>3. ASSUME mounted, mounts = 1, pruned
        PROVE  \A b \in metrics' : b <= Retention + (PruneEvery - pruneDue')
    <3>1. \A a \in metrics : a <= Retention + (PruneEvery - pruneDue)
      BY <1>1, <2>3 DEF Fresh
    <3>2. pruneDue' = pruneDue - 1
      BY <1>1, <2>1, <2>3 DEF Fresh
    <3>3. \A a \in metrics : a < MaxAge => a + 1 <= Retention + (PruneEvery - (pruneDue - 1))
      BY <1>2, <1>3, <3>1
    <3>4. \A a \in metrics : a <= Retention + (PruneEvery - (pruneDue - 1))
      BY <1>2, <1>3, <3>1
    <3> QED BY <2>1, <3>2, <3>3, <3>4
  <2>4. Fresh'
    BY <1>1, <2>1, <2>3 DEF Fresh, vars
  <2> QED BY <1>4, <2>2, <2>4 DEF HInv
<1>9. CASE UNCHANGED allVars
  BY <1>1, <1>4, <1>9 DEF allVars, historyVars, vars, HistoryTypeOK, Fresh, HInv
<1> QED BY <1>5, <1>6, <1>7, <1>8, <1>9 DEF DashboardNext

\* In production, from a deletion that succeeds to the next one that fails, no record of
\* the history is older than the retention time and one interval (db.ts, pruneOldRecords;
\* websocket.ts, connect): for any such times, however often the stream is lost and
\* however many deletions failed before.
THEOREM HistoryAlwaysBounded == DashboardSpec => []HistoryBounded
<1>1. HInv => HistoryBounded
  <2> SUFFICES ASSUME HInv PROVE HistoryBounded
    OBVIOUS
  <2>1. metrics \subseteq Nat /\ pruneDue \in 0..PruneEvery /\ PruneEvery \in Nat /\ Retention \in Nat
    BY DashboardAssumption DEF HInv, HistoryTypeOK, MaxAge
  <2> QED BY <2>1 DEF HInv, Fresh, HistoryBounded
<1> QED BY <1>1, InitFresh, StepFresh, PTL DEF DashboardSpec

-----------------------------------------------------------------------------
(* The loop over the buckets: no record is lost or counted twice, the      *)
(* points are in order, no record is put into a bucket that starts after   *)
(* it.  (That it may be put into one that ends before it is the finding of *)
(* MCAggregateGap.)                                                        *)

\* the buckets by their place: those closed cover the records before the open one
Covered ==
    /\ \A k \in 1..next - 1 : k \in bucketPoints \/ \E i \in 1..Len(result) : k \in result[i].points
    /\ bucketPoints \subseteq 1..next - 1
    /\ \A i \in 1..Len(result) : result[i].points \subseteq 1..next - 1

Disjoint ==
    /\ \A i, j \in 1..Len(result) : i # j => result[i].points \cap result[j].points = {}
    /\ \A i \in 1..Len(result) : result[i].points \cap bucketPoints = {}

\* a closed bucket starts before the open one, which after the last is closed
\* is that one
Behind == \A i \in 1..Len(result) :
             /\ result[i].start <= bucketStart
             /\ bucketPoints # {} \/ next <= Len(raw) => result[i].start < bucketStart

\* the open bucket has a record, unless the loop is at its beginning or over
Occupied == bucketPoints = {} /\ next <= Len(raw) => bucketStart = 0

StartsBefore ==
    /\ \A i \in 1..Len(result) : \A k \in result[i].points : result[i].start <= raw[k]
    /\ \A k \in bucketPoints : bucketStart <= raw[k]

AInv == /\ AggregateTypeOK /\ Sorted(raw)
        /\ Covered /\ Disjoint /\ Behind /\ Occupied /\ StartsBefore /\ InOrder

-----------------------------------------------------------------------------
\* What a closed bucket appended to the result changes.
LEMMA Appended ==
    ASSUME AggregateTypeOK, NEW b \in Buckets, result' = Append(result, b)
    PROVE  /\ Len(result') = Len(result) + 1 /\ Len(result) \in Nat
           /\ \A i \in 1..Len(result) : result'[i] = result[i]
           /\ result'[Len(result) + 1] = b
           /\ result' \in Seq(Buckets)
  BY DEF AggregateTypeOK

\* The open bucket, closed, is a bucket.
LEMMA ClosedType ==
    ASSUME AggregateTypeOK
    PROVE  LET b == Bucket(bucketStart, bucketPoints)
           IN  b \in Buckets /\ b.start = bucketStart /\ b.points = bucketPoints
<1>1. Len(raw) \in Nat /\ Len(raw) <= MaxRecords
  BY DEF AggregateTypeOK
<1>2. bucketPoints \subseteq 1..MaxRecords
  BY <1>1, AggregateAssumption DEF AggregateTypeOK
<1>3. bucketStart \in Nat
  BY DEF AggregateTypeOK
<1> QED BY <1>2, <1>3 DEF Bucket, Buckets

\* Times are numbers.
LEMMA RecordTypes == ASSUME AggregateTypeOK, NEW k \in 1..Len(raw) PROVE raw[k] \in Nat
<1>1. raw[k] \in Times
  BY DEF AggregateTypeOK
<1> QED BY <1>1 DEF Times

LEMMA BucketTypes == ASSUME AggregateTypeOK, NEW i \in 1..Len(result) PROVE result[i].start \in Nat
<1>1. result[i] \in Buckets
  BY DEF AggregateTypeOK
<1> QED BY <1>1 DEF Buckets

LEMMA AggregateInitKeeps == AggregateInit => AInv
<1> SUFFICES ASSUME AggregateInit PROVE AInv
  OBVIOUS
<1>1. PICK n \in TargetBuckets + 1..MaxRecords : raw \in [1..n -> Times]
  BY DEF AggregateInit
<1>2. n \in Nat /\ Len(raw) = n /\ raw \in Seq(Times) /\ n <= MaxRecords
  BY <1>1, AggregateAssumption
<1>3. Times \subseteq Nat
  BY DEF Times
<1>4. AggregateTypeOK
  BY <1>2 DEF AggregateInit, AggregateTypeOK
<1> QED
  BY <1>4 DEF AggregateInit, AInv, Covered, Disjoint, Behind, Occupied, StartsBefore, InOrder

-----------------------------------------------------------------------------
\* A record joins the open bucket.
LEMMA CollectKeeps == AInv /\ Collect => AInv'
<1> SUFFICES ASSUME AInv, Collect PROVE AInv'
  OBVIOUS
<1>1. /\ next \in Nat /\ 1 <= next /\ next <= Len(raw) /\ Len(raw) \in Nat
      /\ bucketStart \in Nat
      /\ raw' = raw /\ bucketStart' = bucketStart /\ result' = result
      /\ next' = next + 1 /\ bucketPoints' = bucketPoints \cup {next}
  BY DEF AInv, AggregateTypeOK, Collect
<1>2. AggregateTypeOK'
  BY <1>1 DEF AInv, AggregateTypeOK
<1>3. Covered'
  BY <1>1 DEF AInv, Covered
<1>4. Disjoint'
  BY <1>1 DEF AInv, Disjoint, Covered
<1>5. Behind' /\ Occupied' /\ InOrder' /\ Sorted(raw')
  BY <1>1 DEF AInv, Behind, Occupied, InOrder
<1>6. bucketStart <= raw[next]
  <2>1. raw[next] \in Nat
    BY <1>1, RecordTypes DEF AInv
  <2>2. CASE bucketPoints = {}
    BY <1>1, <2>1, <2>2 DEF AInv, Occupied
  <2>3. CASE bucketPoints # {}
    <3>1. PICK k \in bucketPoints : bucketStart <= raw[k]
      BY <2>3 DEF AInv, StartsBefore
    <3>2. k \in 1..Len(raw) /\ k < next
      BY <1>1, <3>1 DEF AInv, Covered
    <3>3. raw[k] \in Nat
      BY <3>2, RecordTypes DEF AInv
    <3>4. raw[k] <= raw[next]
      BY <1>1, <3>2 DEF AInv, Sorted
    <3> QED BY <1>1, <2>1, <3>1, <3>3, <3>4
  <2> QED BY <2>2, <2>3
<1>7. StartsBefore'
  BY <1>1, <1>6 DEF AInv, StartsBefore
<1> QED BY <1>2, <1>3, <1>4, <1>5, <1>7 DEF AInv

\* The open bucket is closed and the record opens the next one.
LEMMA AdvanceKeeps == AInv /\ Advance => AInv'
<1> SUFFICES ASSUME AInv, Advance PROVE AInv'
  OBVIOUS
<1>1. /\ next \in Nat /\ 1 <= next /\ next <= Len(raw) /\ Len(raw) \in Nat
      /\ bucketStart \in Nat /\ Duration \in Nat /\ Duration > 0
      /\ raw[next] \in Nat /\ raw[next] >= bucketStart + Duration
      /\ raw' = raw /\ bucketStart' = bucketStart + Duration
      /\ next' = next + 1 /\ bucketPoints' = {next}
      /\ Len(raw) <= MaxRecords
  <2>1. next \in 1..Len(raw)
    BY DEF AInv, AggregateTypeOK, Advance
  <2>2. raw[next] \in Nat
    BY <2>1, RecordTypes DEF AInv
  <2> QED BY <2>1, <2>2, AggregateAssumption DEF AInv, AggregateTypeOK, Advance
<1>2. CASE bucketPoints = {}
  <2>1. result' = result
    BY <1>2 DEF Advance
  <2>2. \A i \in 1..Len(result) : result[i].start \in Nat
    BY BucketTypes DEF AInv
  <2>3. AggregateTypeOK'
    BY <1>1, <2>1 DEF AInv, AggregateTypeOK
  <2>4. Covered'
    <3>1. \A k \in 1..next' - 1 : k = next \/ k \in 1..next - 1
      BY <1>1
    <3>2. \A i \in 1..Len(result) : result[i].points \subseteq 1..next - 1
      BY DEF AInv, Covered
    <3> QED BY <1>1, <1>2, <2>1, <3>1, <3>2 DEF AInv, Covered
  <2>7. Disjoint'
    <3>1. next \notin 1..next - 1
      BY <1>1
    <3> QED BY <1>1, <2>1, <3>1 DEF AInv, Covered, Disjoint
  <2>5. Behind' /\ Occupied' /\ InOrder' /\ Sorted(raw')
    BY <1>1, <2>1, <2>2 DEF AInv, Behind, Occupied, InOrder
  <2>6. StartsBefore'
    BY <1>1, <2>1 DEF AInv, StartsBefore
  <2> QED BY <2>3, <2>4, <2>5, <2>6, <2>7 DEF AInv
<1>3. CASE bucketPoints # {}
  <2> DEFINE b == Bucket(bucketStart, bucketPoints)
  <2>1. b \in Buckets /\ b.start = bucketStart /\ b.points = bucketPoints
    BY ClosedType DEF AInv
  <2>2. result' = Append(result, b)
    BY <1>3 DEF Advance
  <2> HIDE DEF b
  <2>3. /\ Len(result') = Len(result) + 1 /\ Len(result) \in Nat
        /\ \A i \in 1..Len(result) : result'[i] = result[i]
        /\ result'[Len(result) + 1] = b
        /\ result' \in Seq(Buckets)
    BY <2>1, <2>2, Appended DEF AInv
  <2>4. \A i \in 1..Len(result) : result[i].start \in Nat /\ result[i].start < bucketStart
    BY <1>1, BucketTypes DEF AInv, Behind
  <2>5. AggregateTypeOK'
    BY <1>1, <2>3 DEF AInv, AggregateTypeOK
  <2>6. Covered'
    <3>1. 1..Len(result') = 1..Len(result) \cup {Len(result) + 1}
      BY <2>3
    <3>2. 1..next' - 1 = 1..next - 1 \cup {next}
      BY <1>1
    <3>3. /\ \A i \in 1..Len(result) : result'[i].points \subseteq 1..next - 1
          /\ result'[Len(result) + 1].points = bucketPoints
      BY <2>1, <2>3 DEF AInv, Covered
    <3>4. bucketPoints \subseteq 1..next - 1
      BY DEF AInv, Covered
    <3>5. \A k \in 1..next - 1 : \E i \in 1..Len(result') : k \in result'[i].points
      BY <2>3, <3>1, <3>3 DEF AInv, Covered
    <3> QED BY <1>1, <3>1, <3>2, <3>3, <3>4, <3>5 DEF Covered
  <2>7. Disjoint'
    <3>1. 1..Len(result') = 1..Len(result) \cup {Len(result) + 1}
      BY <2>3
    <3>2. /\ \A i \in 1..Len(result) : result'[i].points = result[i].points
          /\ result'[Len(result) + 1].points = bucketPoints
      BY <2>1, <2>3
    <3>3. \A i, j \in 1..Len(result') : i # j => result'[i].points \cap result'[j].points = {}
      BY <3>1, <3>2 DEF AInv, Disjoint
    <3>4. next \notin 1..next - 1
      BY <1>1
    <3>5. \A i \in 1..Len(result') : result'[i].points \cap bucketPoints' = {}
      BY <1>1, <3>1, <3>2, <3>4 DEF AInv, Covered
    <3> QED BY <3>3, <3>5 DEF Disjoint
  <2>8. Behind' /\ Occupied' /\ Sorted(raw')
    BY <1>1, <2>1, <2>3, <2>4 DEF AInv, Behind, Occupied
  <2>9. InOrder'
    <3>1. \A j \in 1..Len(result') : j \in 1..Len(result) \/ j = Len(result) + 1
      BY <2>3
    <3>2. result'[Len(result) + 1].start = bucketStart
      BY <2>1, <2>3
    <3>3. \A i, j \in 1..Len(result') : i < j => i \in 1..Len(result)
      BY <2>3
    <3> QED BY <2>3, <2>4, <3>1, <3>2, <3>3 DEF AInv, InOrder
  <2>10. StartsBefore'
    BY <1>1, <2>1, <2>3 DEF AInv, StartsBefore
  <2> QED BY <2>5, <2>6, <2>7, <2>8, <2>9, <2>10 DEF AInv
<1> QED BY <1>2, <1>3

\* The last bucket is closed.
LEMMA FinishKeeps == AInv /\ Finish => AInv'
<1> SUFFICES ASSUME AInv, Finish PROVE AInv'
  OBVIOUS
<1> DEFINE b == Bucket(bucketStart, bucketPoints)
<1>1. /\ next = Len(raw) + 1 /\ Len(raw) \in Nat /\ bucketStart \in Nat
      /\ raw' = raw /\ bucketStart' = bucketStart /\ next' = next
      /\ bucketPoints' = {} /\ bucketPoints # {}
  BY DEF AInv, AggregateTypeOK, Finish
<1>2. b \in Buckets /\ b.start = bucketStart /\ b.points = bucketPoints
  BY ClosedType DEF AInv
<1>3. result' = Append(result, b)
  BY DEF Finish
<1> HIDE DEF b
<1>4. /\ Len(result') = Len(result) + 1 /\ Len(result) \in Nat
      /\ \A i \in 1..Len(result) : result'[i] = result[i]
      /\ result'[Len(result) + 1] = b
      /\ result' \in Seq(Buckets)
  BY <1>2, <1>3, Appended DEF AInv
<1>5. \A i \in 1..Len(result) : result[i].start \in Nat /\ result[i].start < bucketStart
  BY <1>1, BucketTypes DEF AInv, Behind
<1>6. AggregateTypeOK'
  BY <1>1, <1>4 DEF AInv, AggregateTypeOK
<1>7. Covered'
  <2>1. 1..Len(result') = 1..Len(result) \cup {Len(result) + 1}
    BY <1>4
  <2>2. /\ \A i \in 1..Len(result) : result'[i].points \subseteq 1..next - 1
        /\ result'[Len(result) + 1].points = bucketPoints
        /\ bucketPoints \subseteq 1..next - 1
    BY <1>2, <1>4 DEF AInv, Covered
  <2>3. \A k \in 1..next - 1 : \E i \in 1..Len(result') : k \in result'[i].points
    BY <1>4, <2>1, <2>2 DEF AInv, Covered
  <2> QED BY <1>1, <2>1, <2>2, <2>3 DEF Covered
<1>8. Disjoint'
  BY <1>1, <1>2, <1>4 DEF AInv, Disjoint, Covered
<1>9. Behind' /\ Occupied' /\ Sorted(raw')
  BY <1>1, <1>2, <1>4, <1>5 DEF AInv, Behind, Occupied
<1>10. InOrder'
  BY <1>1, <1>2, <1>4, <1>5 DEF AInv, InOrder
<1>11. StartsBefore'
  BY <1>1, <1>2, <1>4 DEF AInv, StartsBefore
<1> QED BY <1>6, <1>7, <1>8, <1>9, <1>10, <1>11 DEF AInv

LEMMA AggregateStepKeeps == AInv /\ [AggregateNext]_aggregateVars => AInv'
<1>1. AInv /\ UNCHANGED aggregateVars => AInv'
  BY DEF aggregateVars, AInv, AggregateTypeOK, Sorted, Covered, Disjoint, Behind, Occupied, StartsBefore, InOrder
<1> QED BY <1>1, CollectKeeps, AdvanceKeeps, FinishKeeps DEF AggregateNext

-----------------------------------------------------------------------------
\* Every record that the loop of getAggregatedPoints has seen is averaged in
\* exactly one bucket.
THEOREM EachRecordOnce == AggregateSpec => []Partition
<1>1. AInv => Partition
  <2> SUFFICES ASSUME AInv PROVE Partition
    OBVIOUS
  <2>1. \A b \in AllBuckets : \/ \E i \in 1..Len(result) : b = result[i]
                              \/ /\ b = Bucket(bucketStart, bucketPoints)
                                 /\ b.points = bucketPoints /\ bucketPoints # {}
    BY DEF AllBuckets, Bucket
  <2>2. ASSUME bucketPoints # {} PROVE \E b \in AllBuckets : b.points = bucketPoints
    <3> DEFINE open == Bucket(bucketStart, bucketPoints)
    <3>1. open \in AllBuckets
      BY <2>2 DEF AllBuckets
    <3>2. open.points = bucketPoints
      BY DEF Bucket
    <3> QED BY <3>1, <3>2
  <2>3. \A i \in 1..Len(result) : result[i] \in AllBuckets
    BY DEF AllBuckets
  <2>4. UNION {b.points : b \in AllBuckets} = 1..next - 1
    BY <2>1, <2>2, <2>3 DEF AInv, Covered
  <2>5. \A b, c \in AllBuckets : b # c => b.points \cap c.points = {}
    BY <2>1 DEF AInv, Disjoint
  <2> QED BY <2>4, <2>5 DEF Partition
<1> QED BY <1>1, AggregateInitKeeps, AggregateStepKeeps, PTL DEF AggregateSpec

\* The points come in the order of time.
THEOREM PointsInOrder == AggregateSpec => []InOrder
<1>1. AInv => InOrder
  BY DEF AInv
<1> QED BY <1>1, AggregateInitKeeps, AggregateStepKeeps, PTL DEF AggregateSpec

\* No record is averaged in a bucket that starts after it.
THEOREM NeverTooLate == AggregateSpec => []NotBeforeStart
<1>1. AInv => NotBeforeStart
  <2> SUFFICES ASSUME AInv, NEW b \in AllBuckets, NEW k \in b.points PROVE b.start <= raw[k]
    BY DEF NotBeforeStart
  <2>1. CASE \E i \in 1..Len(result) : b = result[i]
    BY <2>1 DEF AInv, StartsBefore
  <2>2. CASE b = Bucket(bucketStart, bucketPoints) /\ bucketPoints # {}
    BY <2>2 DEF AInv, StartsBefore, Bucket
  <2> QED BY <2>1, <2>2 DEF AllBuckets
<1> QED BY <1>1, AggregateInitKeeps, AggregateStepKeeps, PTL DEF AggregateSpec

\* The points that the chart gets are in the order of time and not too late.
THEOREM PointsFit == AggregateSpec => []PointsInTime
<1>1. InOrder /\ NotBeforeStart => PointsInTime
  BY DEF PointsInTime
<1> QED BY <1>1, PointsInOrder, NeverTooLate, PTL
================================================================================
