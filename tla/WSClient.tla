------------------------------- MODULE WSClient -------------------------------
(***************************************************************************)
(* The dashboard's connection: MetricWebSocketClient (lib/websocket.ts)    *)
(* and the effect of App that connects and disconnects it (App.tsx).  The  *)
(* browser runs one task at a time, so each handler is one action; what it *)
(* does to sockets and timers, and in which order their events come, is    *)
(* the environment.  The client is a module-level object: it outlives App, *)
(* which React's StrictMode mounts twice in development.                   *)
(***************************************************************************)
EXTENDS Naturals, FiniteSets

CONSTANTS
    Sockets,        \* WebSocket objects; one that is closed may stand for a new one
    NoSocket,
    MaxMounts       \* bound: 1 in production, 2 under StrictMode in development

ASSUME WSClientAssumption == NoSocket \notin Sockets /\ MaxMounts \in Nat \ {0}

VARIABLES
    \* the browser
    readyState,     \* of each socket; "failing" is CLOSING before it was ever open
    \* MetricWebSocketClient
    ws,
    isConnected,
    reconnectTimeout, \* "null", "armed", or "stale": the handle of a cleared timer
    pruneInterval,  \* the same
    \* App
    mounted,
    mounts,
    connected       \* what the header shows

vars == <<readyState, ws, isConnected, reconnectTimeout, pruneInterval, mounted, mounts, connected>>

Handles == {"null", "armed", "stale"}
Live == {"connecting", "open"}

TypeOK ==
    /\ readyState \in [Sockets -> {"connecting", "open", "closing", "failing", "closed"}]
    /\ ws \in Sockets \cup {NoSocket}
    /\ isConnected \in BOOLEAN /\ mounted \in BOOLEAN /\ connected \in BOOLEAN
    /\ reconnectTimeout \in Handles /\ pruneInterval \in Handles
    /\ mounts \in 0..MaxMounts

Init ==
    /\ readyState = [s \in Sockets |-> "closed"]
    /\ ws = NoSocket
    /\ isConnected = FALSE
    /\ reconnectTimeout = "null" /\ pruneInterval = "null"
    /\ mounted = FALSE /\ mounts = 0 /\ connected = FALSE

-----------------------------------------------------------------------------
(* Parts of the handlers.                                                  *)

\* close(): nothing is done to a socket that is closed or closing
Closed(rs, s) ==
    IF s # NoSocket /\ rs[s] \in Live
    THEN [rs EXCEPT ![s] = IF @ = "open" THEN "closing" ELSE "failing"]
    ELSE rs

\* notifyStatus: App listens while it is mounted
Notify(status) ==
    /\ isConnected' = status
    /\ connected' = IF mounted THEN status ELSE connected

\* scheduleReconnect: not if there is a handle, be it that of a cleared timer
ScheduleReconnect ==
    reconnectTimeout' = IF reconnectTimeout = "null" THEN "armed" ELSE reconnectTimeout

\* mutant: a socket that is still connecting is replaced
NeedsSocket_UnlessOpen == ws = NoSocket \/ readyState[ws] # "open"

\* connect() returns early while its socket is open or connecting
NeedsSocket == ws = NoSocket \/ readyState[ws] \notin Live

\* the interval is set if there is no handle of one
StartPruning == pruneInterval' = IF pruneInterval = "null" THEN "armed" ELSE pruneInterval

\* connect(): a new WebSocket (the URL is well formed, the constructor does not
\* throw), then the interval for pruning
Connect ==
    IF NeedsSocket
    THEN /\ \E s \in Sockets \ {ws} :
               /\ readyState[s] = "closed"
               /\ readyState' = [readyState EXCEPT ![s] = "connecting"]
               /\ ws' = s
         /\ StartPruning
    ELSE UNCHANGED <<readyState, ws, pruneInterval>>

-----------------------------------------------------------------------------
(* App.                                                                    *)

\* the effect: connect, subscribe; onStatusChange tells the status at once
Mount ==
    /\ ~mounted /\ mounts < MaxMounts
    /\ mounted' = TRUE /\ mounts' = mounts + 1
    /\ Connect
    /\ connected' = isConnected
    /\ UNCHANGED <<isConnected, reconnectTimeout>>

\* its cleanup: unsubscribe, disconnect(), which keeps the handles it clears
Unmount ==
    /\ mounted /\ mounts < MaxMounts
    /\ mounted' = FALSE
    /\ reconnectTimeout' = IF reconnectTimeout = "armed" THEN "stale" ELSE reconnectTimeout
    /\ pruneInterval' = IF pruneInterval = "armed" THEN "stale" ELSE pruneInterval
    /\ readyState' = Closed(readyState, ws)
    /\ UNCHANGED <<ws, isConnected, mounts, connected>>

-----------------------------------------------------------------------------
(* Events of a socket s, which may be another than ws.                     *)

\* onopen: the reconnect timer is cleared, its handle forgotten
OnOpen(s) ==
    /\ readyState[s] = "connecting"
    /\ readyState' = [readyState EXCEPT ![s] = "open"]
    /\ Notify(TRUE)
    /\ reconnectTimeout' = "null"
    /\ UNCHANGED <<ws, pruneInterval, mounted, mounts>>

\* mutant: the status is left to onerror
OnClose_Silent(s) ==
    /\ readyState[s] \in {"open", "closing"}
    /\ readyState' = [readyState EXCEPT ![s] = "closed"]
    /\ UNCHANGED <<isConnected, connected>>
    /\ ScheduleReconnect
    /\ UNCHANGED <<ws, pruneInterval, mounted, mounts>>

\* onclose of a socket that was open: the peer or close() ended it
OnClose(s) ==
    /\ readyState[s] \in {"open", "closing"}
    /\ readyState' = [readyState EXCEPT ![s] = "closed"]
    /\ Notify(FALSE)
    /\ ScheduleReconnect
    /\ UNCHANGED <<ws, pruneInterval, mounted, mounts>>

\* onerror, then onclose, in one task: s could not connect or broke; onerror
\* closes this.ws, which is s or a socket that took its place
OnError(s) ==
    /\ readyState[s] # "closed"
    /\ readyState' = Closed([readyState EXCEPT ![s] = "closed"], ws)
    /\ Notify(FALSE)
    /\ ScheduleReconnect
    /\ UNCHANGED <<ws, pruneInterval, mounted, mounts>>

\* mutant: the handle of the timer that has fired is kept
ReconnectTimer_KeepsHandle ==
    /\ reconnectTimeout = "armed"
    /\ reconnectTimeout' = "stale"
    /\ Connect
    /\ UNCHANGED <<isConnected, mounted, mounts, connected>>

\* the reconnect timer fires
ReconnectTimer ==
    /\ reconnectTimeout = "armed"
    /\ reconnectTimeout' = "null"
    /\ Connect
    /\ UNCHANGED <<isConnected, mounted, mounts, connected>>

Next ==
    \/ Mount \/ Unmount \/ ReconnectTimer
    \/ \E s \in Sockets : OnOpen(s) \/ OnClose(s) \/ OnError(s)

Spec == Init /\ [][Next]_vars

-----------------------------------------------------------------------------
(* Properties.                                                             *)

\* At most one socket is open, and every other one is on its way out: snapshots
\* come in one stream, whatever the order of timers, events and mounts.
OneStream == \A s \in Sockets \ {ws} : readyState[s] \notin Live

\* In production, where App is mounted once, the header shows the truth: "connected"
\* as long as the socket is open, never for a socket that is gone.
StatusIsTrue ==
    mounted /\ mounts = 1 => (connected <=> ws # NoSocket /\ readyState[ws] = "open")

\* In production a stream that is lost is opened again, each time.
StreamResumes == [](mounts <= 1) => []<>(ws # NoSocket /\ readyState[ws] = "open")
=============================================================================
