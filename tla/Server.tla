-------------------------------- MODULE Server -------------------------------
(***************************************************************************)
(* The server around the hub (internal/server/server.go): the poll loop,   *)
(* the cached snapshot it shares with the request handlers, and the /ws    *)
(* handler, which reads the cached bytes and then calls ServeWS.  The hub  *)
(* and the pumps are those of module Hub.                                  *)
(*                                                                         *)
(* A snapshot is the number of the poll that collected it.  A payload is a *)
(* snapshot tagged with the way it took, so that properties can tell a     *)
(* greeting from a broadcast; the program sees the same bytes.             *)
(***************************************************************************)
EXTENDS Hub, SequencesExt

CONSTANT MaxPolls       \* bound: the polls of a behaviour

ASSUME PollsAssumption == /\ MaxPolls \in Nat
                          /\ Msgs = [snap : 1..MaxPolls, greet : BOOLEAN]

VARIABLES
    polled,             \* number of the latest CollectAll
    pollPC,             \* where pollAndBroadcast is
    marshalled,         \* json.Marshal of that snapshot succeeded
    latestSnapshot,     \* Server.latestSnapshot, 0 for nil
    latestSnapshotBytes,\* the snapshot in Server.latestSnapshotBytes, 0 for none
    listening,          \* the HTTP server still accepts requests
    initialPayload,     \* what each /ws handler read; Unread before it ran
    greeting, cursor,   \* what each connection was sent, as in Feed
    view                \* the snapshot each dashboard shows, 0 for none

pollVars   == <<polled, pollPC, marshalled, latestSnapshot, latestSnapshotBytes>>
viewVars   == <<greeting, cursor, view>>
serverVars == <<pollVars, listening, initialPayload, viewVars>>
allVars    == <<vars, serverVars>>

Unread == MaxPolls + 1

ServerTypeOK ==
    /\ TypeOK
    /\ {polled, latestSnapshot, latestSnapshotBytes} \subseteq 0..MaxPolls
    /\ pollPC \in {"idle", "collected", "stored", "counted", "ended"}
    /\ marshalled \in BOOLEAN /\ listening \in BOOLEAN
    /\ initialPayload \in [Clients -> 0..Unread]
    /\ {greeting, cursor, view} \subseteq [Clients -> 0..MaxPolls]

ServerInit ==
    /\ Init
    /\ polled = 0 /\ pollPC = "idle" /\ marshalled = FALSE
    /\ latestSnapshot = 0 /\ latestSnapshotBytes = 0
    /\ listening = TRUE
    /\ initialPayload = [c \in Clients |-> Unread]
    /\ greeting = [c \in Clients |-> 0]
    /\ cursor = [c \in Clients |-> 0]
    /\ view = [c \in Clients |-> 0]

-----------------------------------------------------------------------------
(* startPolling and pollAndBroadcast.                                      *)

\* the startup poll or a tick: CollectAll, then json.Marshal, which fails on a
\* snapshot that holds a NaN or an infinity
PollCollect ==
    /\ pollPC = "idle" /\ polled < MaxPolls
    /\ polled' = polled + 1
    /\ marshalled' \in BOOLEAN
    /\ pollPC' = "collected"
    /\ UNCHANGED <<vars, latestSnapshot, latestSnapshotBytes, listening,
                   initialPayload, viewVars>>

\* mutant: the cache is skipped while somebody is connected
PollStore_SkipsCache ==
    /\ pollPC = "collected"
    /\ latestSnapshot' = polled
    /\ latestSnapshotBytes' = IF marshalled /\ clientCount = 0 THEN polled
                              ELSE latestSnapshotBytes
    /\ pollPC' = "stored"
    /\ UNCHANGED <<vars, polled, marshalled, listening, initialPayload, viewVars>>

PollStore ==
    /\ pollPC = "collected"
    /\ latestSnapshot' = polled
    /\ latestSnapshotBytes' = IF marshalled THEN polled ELSE latestSnapshotBytes
    /\ pollPC' = "stored"
    /\ UNCHANGED <<vars, polled, marshalled, listening, initialPayload, viewVars>>

\* s.hub.ClientCount() > 0 && err == nil
PollCount ==
    /\ pollPC = "stored"
    /\ pollPC' = IF clientCount > 0 /\ marshalled THEN "counted" ELSE "idle"
    /\ UNCHANGED <<vars, polled, marshalled, latestSnapshot, latestSnapshotBytes,
                   listening, initialPayload, viewVars>>

\* mutant: broadcasts run in goroutines of their own and overtake each other
PollBroadcast_Async ==
    /\ pollPC = "counted"
    /\ \E n \in 1..polled : Broadcast([snap |-> n, greet |-> FALSE])
    /\ pollPC' = "idle"
    /\ UNCHANGED <<polled, marshalled, latestSnapshot, latestSnapshotBytes,
                   listening, initialPayload, viewVars>>

PollBroadcast ==
    /\ pollPC = "counted"
    /\ Broadcast([snap |-> polled, greet |-> FALSE])
    /\ pollPC' = "idle"
    /\ UNCHANGED <<polled, marshalled, latestSnapshot, latestSnapshotBytes,
                   listening, initialPayload, viewVars>>

\* the select of startPolling sees the context done, after the startup poll
PollEnd ==
    /\ pollPC = "idle" /\ polled > 0 /\ ctxDone
    /\ pollPC' = "ended"
    /\ UNCHANGED <<vars, polled, marshalled, latestSnapshot, latestSnapshotBytes,
                   listening, initialPayload, viewVars>>

-----------------------------------------------------------------------------
(* The /ws handler and main's shutdown.                                    *)

HandleWS(c) ==
    /\ listening /\ initialPayload[c] = Unread
    /\ initialPayload' = [initialPayload EXCEPT ![c] = latestSnapshotBytes]
    /\ UNCHANGED <<vars, pollVars, listening, viewVars>>

Upgrade(c) ==
    /\ initialPayload[c] # Unread
    /\ ServeWS(c, IF initialPayload[c] = 0 THEN NoMsg
                  ELSE [snap |-> initialPayload[c], greet |-> TRUE])
    /\ UNCHANGED serverVars

\* main: cancel(), then httpServer.Shutdown closes the listener
Shutdown ==
    /\ listening /\ ctxDone
    /\ listening' = FALSE
    /\ UNCHANGED <<vars, pollVars, initialPayload, viewVars>>

-----------------------------------------------------------------------------
(* A frame reaches the dashboard.  websocket.ts parses a frame as one JSON *)
(* document: a frame of several snapshots is reported and thrown away.     *)

\* the snapshot of the last update among the messages ms, or the one before
LastUpdate(ms, before) ==
    LET updates == {i \in DOMAIN ms : ~ms[i].greet}
    IN  IF updates = {} THEN before
        ELSE ms[CHOOSE i \in updates : \A j \in updates : j <= i].snap

Deliver(c) ==
    /\ WPFlush(c)
    /\ LET f == frame[c]
       IN /\ greeting' = IF f[1].greet THEN [greeting EXCEPT ![c] = f[1].snap]
                         ELSE greeting
          /\ cursor' = [cursor EXCEPT ![c] = LastUpdate(f, @)]
          /\ view' = IF Len(f) = 1 THEN [view EXCEPT ![c] = f[1].snap] ELSE view
    /\ UNCHANGED <<pollVars, listening, initialPayload>>

HubOrClient ==
    \/ HubNext
    \/ Cancel
    \/ \E c \in Clients : \/ StartPumps(c) \/ ReadPump(c) \/ PeerGone(c)
                          \/ WPRecv(c) \/ WPMeasure(c) \/ WPDrain(c)
                          \/ WPFail(c) \/ WPClosed(c)

ServerNext ==
    \/ PollCollect \/ PollStore \/ PollCount \/ PollBroadcast \/ PollEnd
    \/ Shutdown
    \/ \E c \in Clients : HandleWS(c) \/ Upgrade(c) \/ Deliver(c)
    \/ HubOrClient /\ UNCHANGED serverVars

ServerSpec == ServerInit /\ [][ServerNext]_allVars

-----------------------------------------------------------------------------
(* Properties.                                                             *)

\* what is on its way to client c, the oldest first
Queued(c) == frame[c] \o send[c]
InHub(c) == (IF c \in fan THEN <<message>> ELSE <<>>) \o broadcast

\* Broadcasts travel to a client in the order they were collected, each at most
\* once, through the broadcast channel, the fan-out, the send channel and the
\* frame; a greeting is alone at the front.
PipelineOrdered ==
    \A c \in Clients :
        LET coming == Queued(c) \o InHub(c)
        IN /\ \A j \in DOMAIN coming : ~coming[j].greet =>
                 /\ cursor[c] < coming[j].snap
                 /\ \A i \in 1..(j - 1) : ~coming[i].greet => coming[i].snap < coming[j].snap
           /\ \A i \in DOMAIN Queued(c) :
                 Queued(c)[i].greet => i = 1 /\ greeting[c] = 0 /\ cursor[c] = 0

\* The cache is written before the broadcast: whatever is broadcast, a client
\* that connects now is greeted with a snapshot at least as new.
StoredBeforeSent ==
    \A c \in Clients :
        \A m \in ToSet(Queued(c) \o InHub(c)) : m.snap <= latestSnapshotBytes

\* A dashboard's stream moves forward, and the cache is never behind it.
StreamInOrder == ServerTypeOK /\ PipelineOrdered /\ StoredBeforeSent

\* the last update the hub queued for c
LastQueued(c) == LastUpdate(send[c], LastUpdate(frame[c], cursor[c]))

\* Registered clients see one stream: between fan-outs, any two of them that have
\* been sent anything were last sent the same snapshot, whatever was done to a
\* slow third one.
SameStream ==
    \A c, d \in {x \in clients \ fan : wp[x] # "done" /\ LastQueued(x) > 0} :
        LastQueued(c) = LastQueued(d)

FeedView == INSTANCE Feed
ImplementsFeed == FeedView!FeedSpec

\* README.md:206 "Newly connected clients receive cached metric snapshots
\* immediately, eliminating cold-start blank screens": a dashboard to which a
\* frame was delivered shows a snapshot.
GreetingShown ==
    \A c \in Clients : greeting[c] > 0 \/ cursor[c] > 0 => view[c] > 0
=============================================================================
