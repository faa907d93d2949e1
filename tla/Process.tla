--------------------------------- MODULE Process ---------------------------------
(***************************************************************************)
(* The life of the process: main (cmd/goseeit/main.go) with the goroutines *)
(* it starts, the HTTP server that it shuts down, and the hub that stops   *)
(* on its own when the context is cancelled.  What hub and pumps do while  *)
(* they run is in Hub.tla; here a WebSocket connection is only as far as   *)
(* its end goes.                                                           *)
(***************************************************************************)
EXTENDS Naturals

CONSTANTS
    HttpRequests,   \* HTTP requests: REST and static files
    Clients         \* WebSocket connections, hijacked from the HTTP server

VARIABLES
    main,           \* "select", "cancel", "shutdown", "drain", "exited"
    signalled,      \* a signal is in sigChan
    cancelled,      \* the root context
    deadline,       \* of the shutdown: "unset", "running", "passed"
    listener,       \* "starting", "open", "closed", "failed"
    hub,            \* "running", "stopped"
    poller,         \* "running", "stopped"
    request,        \* "none", "active", "done", "cut" (by the end of the process)
    client          \* "none", "handler" (not registered yet), "open", "closing"
                    \* (send channel closed), "stuck" (the hub is gone), "closed"
                    \* (told with a close frame), "cut" (by the end of the process)

goroutines == <<hub, poller>>
processVars == <<main, signalled, cancelled, deadline, listener, goroutines, request, client>>

\* the hub and Start have been started, main waits
ProcessInit ==
    /\ main = "select" /\ signalled = FALSE /\ cancelled = FALSE
    /\ deadline = "unset" /\ listener = "starting"
    /\ hub = "running" /\ poller = "running"
    /\ request = [r \in HttpRequests |-> "none"]
    /\ client = [c \in Clients |-> "none"]

Alive == main # "exited"

\* the end of main ends every goroutine and every connection
Exit ==
    /\ main' = "exited"
    /\ request' = [r \in HttpRequests |-> IF request[r] = "active" THEN "cut" ELSE request[r]]
    /\ client' = [c \in Clients |-> IF client[c] \in {"none", "closed"} THEN client[c] ELSE "cut"]

-----------------------------------------------------------------------------
(* The environment.                                                        *)

\* SIGINT or SIGTERM; the channel holds one
Signal ==
    /\ Alive /\ ~signalled /\ signalled' = TRUE
    /\ UNCHANGED <<main, cancelled, deadline, listener, goroutines, request, client>>

\* accepted by ListenAndServe: an HTTP request
Accept(r) ==
    /\ Alive /\ listener = "open" /\ request[r] = "none"
    /\ request' = [request EXCEPT ![r] = "active"]
    /\ UNCHANGED <<main, signalled, cancelled, deadline, listener, goroutines, client>>

\* a handler answers
Respond(r) ==
    /\ Alive /\ request[r] = "active"
    /\ request' = [request EXCEPT ![r] = "done"]
    /\ UNCHANGED <<main, signalled, cancelled, deadline, listener, goroutines, client>>

\* a WebSocket connection, upgraded (ServeWS up to the registration)
Upgrade(c) ==
    /\ Alive /\ listener = "open" /\ client[c] = "none"
    /\ client' = [client EXCEPT ![c] = "handler"]
    /\ UNCHANGED <<main, signalled, cancelled, deadline, listener, goroutines, request>>

\* hub.register <- client: for ever once the hub has stopped
Register(c) ==
    /\ Alive /\ client[c] = "handler"
    /\ client' = [client EXCEPT ![c] = IF hub = "running" THEN "open" ELSE "stuck"]
    /\ UNCHANGED <<main, signalled, cancelled, deadline, listener, goroutines, request>>

-----------------------------------------------------------------------------
(* Start.                                                                  *)

\* ListenAndServe binds the address
Listen ==
    /\ Alive /\ listener = "starting" /\ listener' = "open"
    /\ UNCHANGED <<main, signalled, cancelled, deadline, goroutines, request, client>>

\* or it cannot, or it stops to accept: Start returns the error to serverErr
ListenFails ==
    /\ Alive /\ listener \in {"starting", "open"} /\ listener' = "failed"
    /\ UNCHANGED <<main, signalled, cancelled, deadline, goroutines, request, client>>

\* startPolling sees that the context is done
PollerStops ==
    /\ Alive /\ cancelled /\ poller = "running" /\ poller' = "stopped"
    /\ UNCHANGED <<main, signalled, cancelled, deadline, listener, hub, request, client>>

\* Hub.Run sees it: it closes the send channel of every client and returns
HubStops ==
    /\ Alive /\ cancelled /\ hub = "running" /\ hub' = "stopped"
    /\ client' = [c \in Clients |-> IF client[c] = "open" THEN "closing" ELSE client[c]]
    /\ UNCHANGED <<main, signalled, cancelled, deadline, listener, poller, request>>

\* writePump: the channel is closed, a close frame is sent
SayGoodbye(c) ==
    /\ Alive /\ client[c] = "closing"
    /\ client' = [client EXCEPT ![c] = "closed"]
    /\ UNCHANGED <<main, signalled, cancelled, deadline, listener, goroutines, request>>

-----------------------------------------------------------------------------
(* main.                                                                   *)

\* case sig := <-sigChan; both cases may be ready
ReceiveSignal ==
    /\ main = "select" /\ signalled
    /\ main' = "cancel" /\ signalled' = FALSE
    /\ deadline' = "running"
    /\ UNCHANGED <<cancelled, listener, goroutines, request, client>>

\* case err := <-serverErr: log.Fatalf, without any shutdown
ReceiveError ==
    /\ main = "select" /\ listener = "failed"
    /\ Exit
    /\ UNCHANGED <<signalled, cancelled, deadline, listener, goroutines>>

\* cancel()
CancelContext ==
    /\ main = "cancel"
    /\ main' = "shutdown" /\ cancelled' = TRUE
    /\ UNCHANGED <<signalled, deadline, listener, goroutines, request, client>>

\* srv.Shutdown closes the listener; Start returns ErrServerClosed to nobody
CloseListener ==
    /\ main = "shutdown"
    /\ main' = "drain"
    /\ listener' = "closed"
    /\ UNCHANGED <<signalled, cancelled, deadline, goroutines, request, client>>

\* five seconds after the signal
DeadlinePasses ==
    /\ Alive /\ deadline = "running" /\ deadline' = "passed"
    /\ UNCHANGED <<main, signalled, cancelled, listener, goroutines, request, client>>

\* mutant: Shutdown without a deadline
Drained_NoDeadline ==
    /\ main = "drain"
    /\ \A r \in HttpRequests : request[r] # "active"
    /\ Exit
    /\ UNCHANGED <<signalled, cancelled, deadline, listener, goroutines>>

\* mutant: Close in the place of Shutdown
Drained_Close ==
    /\ main = "drain"
    /\ Exit
    /\ UNCHANGED <<signalled, cancelled, deadline, listener, goroutines>>

\* ... and returns when no request is active or the deadline has passed; it does
\* not know the hijacked connections; then main ends
Drained ==
    /\ main = "drain"
    /\ deadline = "passed" \/ \A r \in HttpRequests : request[r] # "active"
    /\ Exit
    /\ UNCHANGED <<signalled, cancelled, deadline, listener, goroutines>>

ProcessNext ==
    \/ Signal
    \/ \E r \in HttpRequests : Accept(r) \/ Respond(r)
    \/ \E c \in Clients : Upgrade(c) \/ Register(c) \/ SayGoodbye(c)
    \/ Listen \/ ListenFails \/ PollerStops \/ HubStops
    \/ ReceiveSignal \/ ReceiveError \/ CancelContext \/ CloseListener
    \/ DeadlinePasses \/ Drained

(***************************************************************************)
(* Fairness: goroutines that can run do run, and time passes.  Handlers    *)
(* need not answer and nothing needs to be sent to the process.            *)
(***************************************************************************)
ProcessFairness ==
    /\ WF_processVars(ReceiveSignal \/ ReceiveError \/ CancelContext \/ CloseListener \/ Drained)
    /\ WF_processVars(DeadlinePasses)
    /\ WF_processVars(PollerStops) /\ WF_processVars(HubStops)
    /\ \A c \in Clients : WF_processVars(Register(c)) /\ WF_processVars(SayGoodbye(c))

ProcessSpec == ProcessInit /\ [][ProcessNext]_processVars /\ ProcessFairness

-----------------------------------------------------------------------------
(* Properties.                                                             *)

\* A signal ends the process, also with requests that are never answered, with
\* connections that come in meanwhile and with a server that fails.
SignalEnds == signalled ~> main = "exited"

\* After a signal no request is cut off before the deadline; only a listener
\* that fails ends the process at once.
Drains ==
    \A r \in HttpRequests : request[r] = "cut" => deadline = "passed" \/ listener = "failed"
=============================================================================
