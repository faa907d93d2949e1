--------------------------------- MODULE Hub ---------------------------------
(***************************************************************************)
(* The WebSocket hub (internal/ws/hub.go) and the two goroutines it shares *)
(* each connection with (internal/ws/client.go).                           *)
(*                                                                         *)
(* The hub is one goroutine that selects over its context and three        *)
(* channels.  `register' and `unregister' are unbuffered, so a send on     *)
(* them meets a receiver or it does not happen: a plain send waits, a      *)
(* non-blocking one is lost.  Which of the two depends on whether the hub  *)
(* is parked in its select at that instant, so the model tells "about to   *)
(* select" (a ready case is taken at random) from "parked" (no case was    *)
(* ready; the next sender hands over its value and wakes the hub).  A      *)
(* hand-over to a parked hub is one step of the sender.                    *)
(*                                                                         *)
(* A member of Clients is one connection: it is opened at most once.       *)
(***************************************************************************)
EXTENDS Integers, Sequences, FiniteSets

CONSTANTS
    Clients,        \* the connections that may be opened
    Msgs,           \* the payloads that may be broadcast
    NoMsg,          \* an empty initial payload
    SendCap,        \* capacity of a client's send channel (256 in ServeWS)
    BroadcastCap    \* capacity of the hub's broadcast channel (64 in NewHub)

ASSUME ClientsFinite == IsFiniteSet(Clients)
ASSUME CapAssumption == /\ SendCap \in Nat \ {0}
                        /\ BroadcastCap \in Nat \ {0}
ASSUME NoMsgAssumption == NoMsg \notin Msgs

VARIABLES
    clients,        \* Hub.clients, the registry
    clientCount,    \* Hub.clientCount
    broadcast,      \* the buffer of Hub.broadcast
    hubPC,          \* where the Run goroutine is
    fan,            \* the clients its range loop has still to visit
    message,        \* the message that loop is sending
    ctxDone,        \* the context of Run has been cancelled
    phase,          \* of each connection: how far ServeWS has come
    send,           \* the buffer of each client's send channel
    sendClosed,     \* the clients whose send channel is closed
    connOpen,       \* the connections this side has not closed
    gone,           \* the connections on which I/O fails from now on
    rp,             \* where each readPump is
    wp,             \* where each writePump is
    frame,          \* the messages written to the frame under construction
    drain           \* n - i of writePump's inner loop

hubVars    == <<clients, clientCount, hubPC, fan, message>>
serveVars  == <<phase, rp, wp>>
pumpVars   == <<connOpen, frame, drain>>
vars == <<clients, clientCount, broadcast, hubPC, fan, message, ctxDone, phase,
          send, sendClosed, connOpen, gone, rp, wp, frame, drain>>

HubStates   == {"select", "parked", "fanout", "stopping", "stopped"}
Phases      == {"absent", "registering", "accepted", "running"}
ReadStates  == {"off", "read", "leaving", "closing", "done"}
WriteStates == {"off", "select", "writing", "draining", "done"}

TypeOK ==
    /\ clients \in SUBSET Clients
    /\ clientCount \in Int
    /\ broadcast \in Seq(Msgs)
    /\ hubPC \in HubStates
    /\ fan \in SUBSET Clients
    /\ message \in IF hubPC = "fanout" THEN Msgs ELSE {NoMsg}
    /\ ctxDone \in BOOLEAN
    /\ phase \in [Clients -> Phases]
    /\ send \in [Clients -> Seq(Msgs)]
    /\ sendClosed \in SUBSET Clients
    /\ connOpen \in SUBSET Clients
    /\ gone \in SUBSET Clients
    /\ rp \in [Clients -> ReadStates]
    /\ wp \in [Clients -> WriteStates]
    /\ frame \in [Clients -> Seq(Msgs)]
    /\ drain \in [Clients -> Nat]

Init ==
    /\ clients = {} /\ clientCount = 0 /\ broadcast = <<>>
    /\ hubPC = "select" /\ fan = {} /\ message = NoMsg
    /\ ctxDone = FALSE
    /\ phase = [c \in Clients |-> "absent"]
    /\ send = [c \in Clients |-> <<>>]
    /\ sendClosed = {} /\ connOpen = {} /\ gone = {}
    /\ rp = [c \in Clients |-> "off"]
    /\ wp = [c \in Clients |-> "off"]
    /\ frame = [c \in Clients |-> <<>>]
    /\ drain = [c \in Clients |-> 0]

-----------------------------------------------------------------------------
(* Registration and removal, the hub's side.                               *)

\* h.clients[client] = true and Add(1); ServeWS's send returns
Enrol(c) ==
    /\ clients' = clients \cup {c}
    /\ clientCount' = clientCount + 1
    /\ phase' = [phase EXCEPT ![c] = "accepted"]

\* close(client.send) and delete(h.clients, client), in either order
CloseAndDelete(c) ==
    /\ clients' = clients \ {c}
    /\ sendClosed' = sendClosed \cup {c}

\* Registering = the handlers blocked on `register'
Registering == {c \in Clients : phase[c] = "registering"}

\* no case of the select is ready
HubPark ==
    /\ hubPC = "select" /\ ~ctxDone /\ broadcast = <<>> /\ Registering = {}
    /\ hubPC' = "parked"
    /\ UNCHANGED <<clients, clientCount, broadcast, fan, message, ctxDone, send,
                   sendClosed, gone, serveVars, pumpVars>>

HubRegister(c) ==
    /\ hubPC = "select" /\ phase[c] = "registering"
    /\ Enrol(c)
    /\ UNCHANGED <<broadcast, hubPC, fan, message, ctxDone, send, sendClosed,
                   gone, rp, wp, pumpVars>>

HubDone ==
    /\ hubPC = "select" /\ ctxDone
    /\ hubPC' = "stopping"
    /\ UNCHANGED <<clients, clientCount, broadcast, fan, message, ctxDone, send,
                   sendClosed, gone, serveVars, pumpVars>>

\* mutant: the loop forgets close(client.send)
HubStop_NoClose(c) ==
    /\ hubPC = "stopping" /\ c \in clients
    /\ clients' = clients \ {c}
    /\ UNCHANGED <<clientCount, broadcast, hubPC, fan, message, ctxDone, send,
                   sendClosed, gone, serveVars, pumpVars>>

\* one iteration of the loop that closes every client
HubStop(c) ==
    /\ hubPC = "stopping" /\ c \in clients
    /\ CloseAndDelete(c)
    /\ UNCHANGED <<clientCount, broadcast, hubPC, fan, message, ctxDone, send,
                   gone, serveVars, pumpVars>>

HubStopped ==
    /\ hubPC = "stopping" /\ clients = {}
    /\ clientCount' = 0
    /\ hubPC' = "stopped"
    /\ UNCHANGED <<clients, broadcast, fan, message, ctxDone, send, sendClosed,
                   gone, serveVars, pumpVars>>

-----------------------------------------------------------------------------
(* Fan-out of one message.                                                 *)

StartFanout(m) ==
    /\ message' = m
    /\ fan' = clients
    /\ hubPC' = "fanout"

HubBroadcast ==
    /\ hubPC = "select" /\ broadcast # <<>>
    /\ StartFanout(Head(broadcast))
    /\ broadcast' = Tail(broadcast)
    /\ UNCHANGED <<clients, clientCount, ctxDone, send, sendClosed, gone,
                   serveVars, pumpVars>>

\* the client's buffer has room
FanSend(c) ==
    /\ hubPC = "fanout" /\ c \in fan /\ Len(send[c]) < SendCap
    /\ send' = [send EXCEPT ![c] = Append(@, message)]
    /\ fan' = fan \ {c}
    /\ UNCHANGED <<clients, clientCount, broadcast, hubPC, message, ctxDone,
                   sendClosed, gone, serveVars, pumpVars>>

\* mutant: the slow consumer's channel is closed, its entry stays
FanEvict_KeepsEntry(c) ==
    /\ hubPC = "fanout" /\ c \in fan /\ Len(send[c]) >= SendCap
    /\ sendClosed' = sendClosed \cup {c}
    /\ fan' = fan \ {c}
    /\ UNCHANGED <<clients, clientCount, broadcast, hubPC, message, ctxDone, send,
                   gone, serveVars, pumpVars>>

\* mutant: default drops the message and keeps the client
FanEvict_DropsMessage(c) ==
    /\ hubPC = "fanout" /\ c \in fan /\ Len(send[c]) >= SendCap
    /\ fan' = fan \ {c}
    /\ UNCHANGED <<clients, clientCount, broadcast, hubPC, message, ctxDone, send,
                   sendClosed, gone, serveVars, pumpVars>>

\* mutant: no default case, the send waits for room
FanEvict_Waits(c) ==
    /\ hubPC = "fanout" /\ c \in fan /\ Len(send[c]) >= SendCap
    /\ UNCHANGED vars

\* the client's buffer is full: slow consumer
FanEvict(c) ==
    /\ hubPC = "fanout" /\ c \in fan /\ Len(send[c]) >= SendCap
    /\ CloseAndDelete(c)
    /\ clientCount' = clientCount - 1
    /\ fan' = fan \ {c}
    /\ UNCHANGED <<broadcast, hubPC, message, ctxDone, send, gone, serveVars,
                   pumpVars>>

FanEnd ==
    /\ hubPC = "fanout" /\ fan = {}
    /\ hubPC' = "select"
    /\ message' = NoMsg
    /\ UNCHANGED <<clients, clientCount, broadcast, fan, ctxDone, send,
                   sendClosed, gone, serveVars, pumpVars>>

HubNext ==
    \/ HubPark \/ HubDone \/ HubStopped \/ HubBroadcast \/ FanEnd
    \/ \E c \in Clients : \/ HubRegister(c) \/ HubStop(c)
                          \/ FanSend(c) \/ FanEvict(c)

-----------------------------------------------------------------------------
(* Calls into the hub from other goroutines.                               *)

\* handed to a parked hub, buffered, or dropped
Broadcast(m) ==
    /\ \/ /\ hubPC = "parked"
          /\ StartFanout(m)
          /\ UNCHANGED broadcast
       \/ /\ hubPC # "parked" /\ Len(broadcast) < BroadcastCap
          /\ broadcast' = Append(broadcast, m)
          /\ UNCHANGED <<hubPC, fan, message>>
       \/ /\ hubPC # "parked" /\ Len(broadcast) >= BroadcastCap
          /\ UNCHANGED <<broadcast, hubPC, fan, message>>
    /\ UNCHANGED <<clients, clientCount, ctxDone, send, sendClosed, gone,
                   serveVars, pumpVars>>

Cancel ==
    /\ ~ctxDone
    /\ ctxDone' = TRUE
    /\ hubPC' = IF hubPC = "parked" THEN "stopping" ELSE hubPC
    /\ UNCHANGED <<clients, clientCount, broadcast, fan, message, send,
                   sendClosed, gone, serveVars, pumpVars>>

\* upgrade, buffer the initial payload, send on `register'
ServeWS(c, payload) ==
    /\ phase[c] = "absent"
    /\ connOpen' = connOpen \cup {c}
    /\ send' = IF payload = NoMsg THEN send ELSE [send EXCEPT ![c] = <<payload>>]
    /\ \/ /\ hubPC = "parked"
          /\ Enrol(c)
          /\ hubPC' = "select"
       \/ /\ hubPC # "parked"
          /\ phase' = [phase EXCEPT ![c] = "registering"]
          /\ UNCHANGED <<clients, clientCount, hubPC>>
    /\ UNCHANGED <<broadcast, fan, message, ctxDone, sendClosed, gone, rp, wp,
                   frame, drain>>

\* go client.writePump(); go client.readPump()
StartPumps(c) ==
    /\ phase[c] = "accepted"
    /\ phase' = [phase EXCEPT ![c] = "running"]
    /\ rp' = [rp EXCEPT ![c] = "read"]
    /\ wp' = [wp EXCEPT ![c] = "select"]
    /\ UNCHANGED <<hubVars, broadcast, ctxDone, send, sendClosed, gone, pumpVars>>

-----------------------------------------------------------------------------
(* readPump.                                                               *)

\* ReadMessage fails: this side closed, or the peer left, missed its pong
\* deadline or sent more than maxMessageSize
RPError(c) ==
    /\ rp[c] = "read" /\ (c \notin connOpen \/ c \in gone)
    /\ rp' = [rp EXCEPT ![c] = "leaving"]
    /\ UNCHANGED <<hubVars, broadcast, ctxDone, phase, send, sendClosed, gone, wp,
                   pumpVars>>

\* mutant: the hub does not look the client up before it counts it out
RPUnregister_Unchecked(c) ==
    /\ rp[c] = "leaving"
    /\ rp' = [rp EXCEPT ![c] = "closing"]
    /\ IF hubPC = "parked"
       THEN CloseAndDelete(c) /\ clientCount' = clientCount - 1 /\ hubPC' = "select"
       ELSE UNCHANGED <<clients, sendClosed, clientCount, hubPC>>
    /\ UNCHANGED <<broadcast, fan, message, ctxDone, phase, send, gone, wp,
                   pumpVars>>

\* the deferred non-blocking send on `unregister': a parked hub handles it,
\* otherwise it is lost
RPUnregister(c) ==
    /\ rp[c] = "leaving"
    /\ rp' = [rp EXCEPT ![c] = "closing"]
    /\ \/ /\ hubPC = "parked" /\ c \in clients
          /\ CloseAndDelete(c)
          /\ clientCount' = clientCount - 1
          /\ hubPC' = "select"
       \/ /\ hubPC = "parked" /\ c \notin clients
          /\ hubPC' = "select"
          /\ UNCHANGED <<clients, sendClosed, clientCount>>
       \/ /\ hubPC # "parked"
          /\ UNCHANGED <<clients, sendClosed, clientCount, hubPC>>
    /\ UNCHANGED <<broadcast, fan, message, ctxDone, phase, send, gone, wp,
                   pumpVars>>

\* conn.Close()
RPClose(c) ==
    /\ rp[c] = "closing"
    /\ rp' = [rp EXCEPT ![c] = "done"]
    /\ connOpen' = connOpen \ {c}
    /\ UNCHANGED <<hubVars, broadcast, ctxDone, phase, send, sendClosed, gone, wp,
                   frame, drain>>

ReadPump(c) == RPError(c) \/ RPUnregister(c) \/ RPClose(c)

-----------------------------------------------------------------------------
(* writePump.                                                              *)

WPRecv(c) ==
    /\ wp[c] = "select" /\ send[c] # <<>>
    /\ wp' = [wp EXCEPT ![c] = "writing"]
    /\ frame' = [frame EXCEPT ![c] = <<Head(send[c])>>]
    /\ send' = [send EXCEPT ![c] = Tail(@)]
    /\ UNCHANGED <<hubVars, broadcast, ctxDone, phase, sendClosed, gone, rp,
                   connOpen, drain>>

\* mutant: n is the length before the first receive
WPMeasure_Early(c) ==
    /\ wp[c] = "writing"
    /\ wp' = [wp EXCEPT ![c] = "draining"]
    /\ drain' = [drain EXCEPT ![c] = Len(send[c]) + 1]
    /\ UNCHANGED <<hubVars, broadcast, ctxDone, phase, send, sendClosed, gone, rp,
                   connOpen, frame>>

\* n := len(c.send)
WPMeasure(c) ==
    /\ wp[c] = "writing"
    /\ wp' = [wp EXCEPT ![c] = "draining"]
    /\ drain' = [drain EXCEPT ![c] = Len(send[c])]
    /\ UNCHANGED <<hubVars, broadcast, ctxDone, phase, send, sendClosed, gone, rp,
                   connOpen, frame>>

\* mutant: i <= n
WPDrain_OneMore(c) ==
    /\ wp[c] = "draining" /\ drain[c] >= 0 /\ send[c] # <<>>
    /\ frame' = [frame EXCEPT ![c] = Append(@, Head(send[c]))]
    /\ send' = [send EXCEPT ![c] = Tail(@)]
    /\ drain' = [drain EXCEPT ![c] = @ - 1]
    /\ UNCHANGED <<hubVars, broadcast, ctxDone, phase, sendClosed, gone, rp, wp,
                   connOpen>>

\* w.Write(<-c.send), the same frame
WPDrain(c) ==
    /\ wp[c] = "draining" /\ drain[c] > 0 /\ send[c] # <<>>
    /\ frame' = [frame EXCEPT ![c] = Append(@, Head(send[c]))]
    /\ send' = [send EXCEPT ![c] = Tail(@)]
    /\ drain' = [drain EXCEPT ![c] = @ - 1]
    /\ UNCHANGED <<hubVars, broadcast, ctxDone, phase, sendClosed, gone, rp, wp,
                   connOpen>>

\* w.Close() sends the frame; to a peer that is gone it may still succeed
WPFlush(c) ==
    /\ wp[c] = "draining" /\ drain[c] = 0 /\ c \in connOpen
    /\ wp' = [wp EXCEPT ![c] = "select"]
    /\ frame' = [frame EXCEPT ![c] = <<>>]
    /\ UNCHANGED <<hubVars, broadcast, ctxDone, phase, send, sendClosed, gone, rp,
                   connOpen, drain>>

\* writePump returns; its defer closes the connection
WPExit(c) ==
    /\ wp' = [wp EXCEPT ![c] = "done"]
    /\ connOpen' = connOpen \ {c}
    /\ frame' = [frame EXCEPT ![c] = <<>>]
    /\ drain' = [drain EXCEPT ![c] = 0]
    /\ UNCHANGED <<hubVars, broadcast, ctxDone, phase, send, sendClosed, gone, rp>>

\* a write, a flush or a ping fails
WPFail(c) ==
    /\ wp[c] \in {"select", "writing", "draining"}
    /\ c \notin connOpen \/ c \in gone
    /\ WPExit(c)

\* the send channel is closed and empty: close message, return
WPClosed(c) ==
    /\ wp[c] = "select" /\ send[c] = <<>> /\ c \in sendClosed
    /\ WPExit(c)

WritePump(c) ==
    WPRecv(c) \/ WPMeasure(c) \/ WPDrain(c) \/ WPFlush(c) \/ WPFail(c) \/ WPClosed(c)

-----------------------------------------------------------------------------
(* The peer and the network: from now on reads fail and writes may.        *)
PeerGone(c) ==
    /\ phase[c] # "absent" /\ c \notin gone
    /\ gone' = gone \cup {c}
    /\ UNCHANGED <<hubVars, broadcast, ctxDone, send, sendClosed, serveVars, pumpVars>>

ClientNext(c) == StartPumps(c) \/ ReadPump(c) \/ WritePump(c)

Next ==
    \/ HubNext
    \/ Cancel
    \/ \E m \in Msgs : Broadcast(m)
    \/ \E c \in Clients : \/ \E payload \in Msgs \cup {NoMsg} : ServeWS(c, payload)
                          \/ ClientNext(c)
                          \/ PeerGone(c)

Spec == Init /\ [][Next]_vars

(***************************************************************************)
(* Fairness.  Every goroutine that can run does (weak fairness); a select  *)
(* with several ready cases picks one uniformly at random, so a case that  *)
(* is ready again and again is taken (strong fairness); while the program  *)
(* serves, the poll ticker keeps calling Broadcast.  Nothing forces peers  *)
(* to come or go, or the context to be cancelled.                          *)
(***************************************************************************)
HubFairness ==
    /\ WF_vars(HubNext)
    /\ SF_vars(HubDone)
    /\ \A c \in Clients : SF_vars(HubRegister(c))

PumpFairness == \A c \in Clients : /\ WF_vars(StartPumps(c))
                                   /\ WF_vars(ReadPump(c))
                                   /\ WF_vars(WritePump(c))

BroadcastFairness == WF_vars(\E m \in Msgs : Broadcast(m))

FairSpec == Spec /\ HubFairness /\ PumpFairness /\ BroadcastFairness

-----------------------------------------------------------------------------
(* Properties.                                                             *)

\* A registered connection has an open send channel and, once enrolled, a
\* connection that left the registry has a closed one; the range loop of a
\* fan-out has only members of the registry before it.  So the hub never closes
\* a channel twice, never sends on a closed one (either panics), and never
\* forgets a client without telling its writePump.
RegistryMatchesChannels ==
    /\ fan \subseteq clients
    /\ \A c \in Clients :
          /\ phase[c] \in {"accepted", "running"} => (c \in clients <=> c \notin sendClosed)
          /\ c \in clients \cup sendClosed => phase[c] \in {"accepted", "running"}

\* Outside shutdown the lock-free counter, which every poll and /api/health
\* read, is the size of the registry: enrolments and the two ways out of the
\* registry are each counted exactly once.
CountExact ==
    IF hubPC \in {"stopping", "stopped"}
    THEN hubPC = "stopped" => clientCount = 0 /\ clients = {}
    ELSE clientCount = Cardinality(clients)

\* The inner loop of writePump receives n messages after reading n = len(send)
\* once.  They are all there: the receive never blocks and never takes the nil
\* of a closed channel, although the hub may send to or close it meanwhile.
DrainNeverBlocks ==
    \A c \in Clients : /\ drain[c] <= Len(send[c])
                       /\ drain[c] > 0 => wp[c] = "draining"

Frozen == \A c \in sendClosed : /\ c \in sendClosed'
                               /\ Len(send'[c]) <= Len(send[c])

\* What is queued for a client never grows once its channel is closed, and a
\* closed channel stays closed.
NothingAfterClose == [][Frozen]_vars

\* A connection that broke is given up: both its goroutines return, the
\* connection is closed and the hub forgets it, even when readPump's
\* non-blocking unregister was lost.
GoneClientReleased ==
    \A c \in Clients :
        (phase[c] = "running" /\ c \in gone)
            ~> (c \notin clients /\ c \notin connOpen /\ rp[c] = "done" /\ wp[c] = "done")

\* After cancellation every enrolled client's goroutines return.
PumpsEndAfterShutdown ==
    \A c \in Clients :
        (ctxDone /\ phase[c] \in {"accepted", "running"})
            ~> (c \notin connOpen /\ rp[c] = "done" /\ wp[c] = "done")

\* A fan-out under way always has a step the hub can take by itself: whatever
\* the clients' buffers hold and wherever their goroutines are, no consumer can
\* hold up the hub or the clients behind it.
SlowConsumerNeverBlocks ==
    hubPC = "fanout" =>
        ENABLED <<FanEnd \/ \E c \in Clients : FanSend(c) \/ FanEvict(c)>>_vars
=============================================================================
