----------------------------- MODULE ServerProofs -----------------------------
(***************************************************************************)
(* Proofs about Hub and about Server, for every set of clients and of      *)
(* payloads, every capacity and any number of polls.  First the hub alone: *)
(* its registry, its counters and its channels.  Then what it sends: the   *)
(* stream of a dashboard is in order, all dashboards see one stream, and   *)
(* the server implements Feed.                                             *)
(***************************************************************************)
EXTENDS Server, SequenceTheorems, FiniteSetTheorems, TLAPS

-----------------------------------------------------------------------------
(* Type correctness.                                                       *)

LEMMA InitTypeOK == Init => TypeOK
<1> SUFFICES ASSUME Init PROVE TypeOK
  OBVIOUS
<1>1. /\ clients = {} /\ fan = {} /\ message = NoMsg /\ hubPC = "select"
      /\ sendClosed = {} /\ connOpen = {} /\ gone = {}
      /\ clientCount = 0
  BY DEF Init
<1>5. ctxDone \in BOOLEAN
  BY DEF Init
<1>2. broadcast \in Seq(Msgs)
  BY DEF Init
<1>3. /\ phase \in [Clients -> Phases]
      /\ rp \in [Clients -> ReadStates]
      /\ wp \in [Clients -> WriteStates]
  BY DEF Init, Phases, ReadStates, WriteStates
<1>4. /\ send \in [Clients -> Seq(Msgs)]
      /\ frame \in [Clients -> Seq(Msgs)]
      /\ drain \in [Clients -> Nat]
  BY DEF Init
<1>. QED
  BY <1>1, <1>2, <1>3, <1>4, <1>5 DEF TypeOK, HubStates

\* the hub's own steps
LEMMA HubTypeOK == TypeOK /\ HubNext => TypeOK'
<1> SUFFICES ASSUME TypeOK, HubNext PROVE TypeOK'
  OBVIOUS
<1> USE DEF TypeOK, HubStates, Phases, hubVars, serveVars, pumpVars
<1>1. CASE HubPark
  BY <1>1 DEF HubPark
<1>2. CASE HubDone
  BY <1>2 DEF HubDone
<1>3. CASE HubStopped
  BY <1>3 DEF HubStopped
<1>4. CASE HubBroadcast
  BY <1>4 DEF HubBroadcast, StartFanout
<1>5. CASE FanEnd
  BY <1>5 DEF FanEnd
<1>6. ASSUME NEW c \in Clients, HubRegister(c) PROVE TypeOK'
  BY <1>6 DEF HubRegister, Enrol
<1>7. ASSUME NEW c \in Clients, HubStop(c) PROVE TypeOK'
  BY <1>7 DEF HubStop, CloseAndDelete
<1>8. ASSUME NEW c \in Clients, FanSend(c) PROVE TypeOK'
  BY <1>8 DEF FanSend
<1>9. ASSUME NEW c \in Clients, FanEvict(c) PROVE TypeOK'
  BY <1>9 DEF FanEvict, CloseAndDelete
<1>. QED
  BY <1>1, <1>2, <1>3, <1>4, <1>5, <1>6, <1>7, <1>8, <1>9 DEF HubNext

\* the calls into the hub
LEMMA CallTypeOK ==
  ASSUME TypeOK,
         \/ Cancel
         \/ \E m \in Msgs : Broadcast(m)
         \/ \E c \in Clients, payload \in Msgs \cup {NoMsg} : ServeWS(c, payload)
  PROVE  TypeOK'
<1> USE DEF TypeOK, HubStates, Phases, hubVars, serveVars, pumpVars
<1>1. CASE Cancel
  BY <1>1 DEF Cancel
<1>2. ASSUME NEW m \in Msgs, Broadcast(m) PROVE TypeOK'
  <2>1. broadcast' \in Seq(Msgs)
    <3>1. broadcast' = broadcast \/ broadcast' = Append(broadcast, m)
      BY <1>2 DEF Broadcast
    <3>2. Append(broadcast, m) \in Seq(Msgs)
      OBVIOUS
    <3>. QED
      BY <3>1, <3>2
  <2>2. /\ hubPC' \in HubStates
        /\ message' \in IF hubPC' = "fanout" THEN Msgs ELSE {NoMsg}
        /\ fan' \in SUBSET Clients
    BY <1>2 DEF Broadcast, StartFanout
  <2>. QED
    BY <1>2, <2>1, <2>2 DEF Broadcast
<1>3. ASSUME NEW c \in Clients, NEW payload \in Msgs \cup {NoMsg}, ServeWS(c, payload)
      PROVE  TypeOK'
  <2>1. send' \in [Clients -> Seq(Msgs)]
    <3>1. CASE payload = NoMsg
      BY <1>3, <3>1 DEF ServeWS
    <3>2. CASE payload \in Msgs
      <4>1. <<payload>> \in Seq(Msgs)
        BY <3>2
      <4>2. payload # NoMsg
        BY <3>2, NoMsgAssumption
      <4>. QED
        BY <1>3, <4>1, <4>2 DEF ServeWS
    <3>. QED
      BY <3>1, <3>2
  <2>2. /\ clients' \in SUBSET Clients
        /\ clientCount' \in Int
        /\ phase' \in [Clients -> Phases]
        /\ hubPC' \in HubStates
        /\ message' \in IF hubPC' = "fanout" THEN Msgs ELSE {NoMsg}
    <3>1. CASE hubPC = "parked"
      <4>1. Enrol(c) /\ hubPC' = "select" /\ message' = message
        BY <1>3, <3>1 DEF ServeWS
      <4>. QED
        BY <3>1, <4>1 DEF Enrol
    <3>2. CASE hubPC # "parked"
      BY <1>3, <3>2 DEF ServeWS
    <3>. QED
      BY <3>1, <3>2
  <2>3. /\ connOpen' \in SUBSET Clients
        /\ UNCHANGED <<broadcast, fan, ctxDone, sendClosed, gone, rp, wp, frame, drain>>
    BY <1>3 DEF ServeWS
  <2>. QED
    BY <2>1, <2>2, <2>3
<1>. QED
  BY <1>1, <1>2, <1>3

\* the pumps and the peer
LEMMA ClientTypeOK ==
  ASSUME TypeOK, NEW c \in Clients, ClientNext(c) \/ PeerGone(c)
  PROVE  TypeOK'
<1> USE DEF TypeOK, HubStates, Phases, ReadStates, WriteStates, hubVars, serveVars,
            pumpVars
<1>1. CASE StartPumps(c)
  BY <1>1 DEF StartPumps
<1>2. CASE RPError(c)
  BY <1>2 DEF RPError
<1>3. CASE RPUnregister(c)
  BY <1>3 DEF RPUnregister, CloseAndDelete
<1>4. CASE RPClose(c)
  BY <1>4 DEF RPClose
<1>5. CASE WPRecv(c)
  BY <1>5 DEF WPRecv
<1>6. CASE WPMeasure(c)
  BY <1>6 DEF WPMeasure
<1>7. CASE WPDrain(c)
  BY <1>7 DEF WPDrain
<1>8. CASE WPFlush(c)
  BY <1>8 DEF WPFlush
<1>9. CASE WPExit(c)
  BY <1>9 DEF WPExit
<1>10. CASE PeerGone(c)
  BY <1>10 DEF PeerGone
<1>. QED
  BY <1>1, <1>2, <1>3, <1>4, <1>5, <1>6, <1>7, <1>8, <1>9, <1>10
     DEF ClientNext, ReadPump, WritePump, WPFail, WPClosed

LEMMA NextTypeOK == TypeOK /\ [Next]_vars => TypeOK'
<1> SUFFICES ASSUME TypeOK, [Next]_vars PROVE TypeOK'
  OBVIOUS
<1>1. CASE UNCHANGED vars
  BY <1>1 DEF vars, TypeOK
<1>. QED
  BY <1>1, HubTypeOK, CallTypeOK, ClientTypeOK DEF Next

\* Every variable of the hub and of the pumps keeps its type; the message of a
\* fan-out is a payload exactly while the fan-out lasts (hub.go:69-81).
THEOREM TypeCorrect == Spec => []TypeOK
BY InitTypeOK, NextTypeOK, PTL DEF Spec

-----------------------------------------------------------------------------
(* The registry and the send channels.  RegistryMatchesChannels is not     *)
(* inductive by itself: a removal outside a fan-out must find no pending   *)
(* visit.                                                                  *)

VisitsOnlyInFanout == fan # {} => hubPC = "fanout"

RegInv == TypeOK /\ RegistryMatchesChannels /\ VisitsOnlyInFanout

LEMMA HubRegInv ==
  ASSUME RegInv, HubNext
  PROVE  RegistryMatchesChannels' /\ VisitsOnlyInFanout'
<1> USE DEF RegInv, TypeOK, RegistryMatchesChannels, VisitsOnlyInFanout, serveVars, pumpVars
<1>1. CASE HubPark \/ HubDone \/ HubStopped \/ FanEnd
  BY <1>1 DEF HubPark, HubDone, HubStopped, FanEnd
<1>2. CASE HubBroadcast
  BY <1>2 DEF HubBroadcast, StartFanout
<1>3. ASSUME NEW c \in Clients, HubRegister(c)
      PROVE  RegistryMatchesChannels' /\ VisitsOnlyInFanout'
  BY <1>3 DEF HubRegister, Enrol, Phases
<1>4. ASSUME NEW c \in Clients, HubStop(c)
      PROVE  RegistryMatchesChannels' /\ VisitsOnlyInFanout'
  BY <1>4 DEF HubStop, CloseAndDelete
<1>5. ASSUME NEW c \in Clients, FanSend(c)
      PROVE  RegistryMatchesChannels' /\ VisitsOnlyInFanout'
  BY <1>5 DEF FanSend
<1>6. ASSUME NEW c \in Clients, FanEvict(c)
      PROVE  RegistryMatchesChannels' /\ VisitsOnlyInFanout'
  BY <1>6 DEF FanEvict, CloseAndDelete
<1>. QED
  BY <1>1, <1>2, <1>3, <1>4, <1>5, <1>6 DEF HubNext

LEMMA CallRegInv ==
  ASSUME RegInv,
         \/ Cancel
         \/ \E m \in Msgs : Broadcast(m)
         \/ \E c \in Clients, payload \in Msgs \cup {NoMsg} : ServeWS(c, payload)
  PROVE  RegistryMatchesChannels' /\ VisitsOnlyInFanout'
<1> USE DEF RegInv, TypeOK, RegistryMatchesChannels, VisitsOnlyInFanout, serveVars, pumpVars
<1>1. CASE Cancel
  BY <1>1 DEF Cancel
<1>2. ASSUME NEW m \in Msgs, Broadcast(m)
      PROVE  RegistryMatchesChannels' /\ VisitsOnlyInFanout'
  BY <1>2 DEF Broadcast, StartFanout
<1>3. ASSUME NEW c \in Clients, NEW payload \in Msgs \cup {NoMsg}, ServeWS(c, payload)
      PROVE  RegistryMatchesChannels' /\ VisitsOnlyInFanout'
  <2>1. c \notin clients /\ c \notin sendClosed
    BY <1>3 DEF ServeWS
  <2>2. CASE hubPC = "parked"
    <3>1. Enrol(c) /\ hubPC' = "select" /\ UNCHANGED <<fan, sendClosed>>
      BY <1>3, <2>2 DEF ServeWS
    <3>. QED
      BY <2>1, <2>2, <3>1 DEF Enrol, Phases
  <2>3. CASE hubPC # "parked"
    <3>1. /\ phase' = [phase EXCEPT ![c] = "registering"]
          /\ UNCHANGED <<clients, hubPC, fan, sendClosed>>
      BY <1>3, <2>3 DEF ServeWS
    <3>. QED
      BY <2>1, <3>1 DEF Phases
  <2>. QED
    BY <2>2, <2>3
<1>. QED
  BY <1>1, <1>2, <1>3

LEMMA ClientRegInv ==
  ASSUME RegInv, NEW c \in Clients, ClientNext(c) \/ PeerGone(c)
  PROVE  RegistryMatchesChannels' /\ VisitsOnlyInFanout'
<1> USE DEF RegInv, TypeOK, RegistryMatchesChannels, VisitsOnlyInFanout, hubVars, serveVars,
            pumpVars
<1>1. CASE StartPumps(c)
  BY <1>1 DEF StartPumps, Phases
<1>2. CASE RPUnregister(c)
  BY <1>2 DEF RPUnregister, CloseAndDelete
<1>3. CASE RPError(c) \/ RPClose(c)
  BY <1>3 DEF RPError, RPClose
<1>4. CASE WPRecv(c) \/ WPMeasure(c) \/ WPDrain(c) \/ WPFlush(c) \/ WPExit(c)
  BY <1>4 DEF WPRecv, WPMeasure, WPDrain, WPFlush, WPExit
<1>5. CASE PeerGone(c)
  BY <1>5 DEF PeerGone
<1>. QED
  BY <1>1, <1>2, <1>3, <1>4, <1>5 DEF ClientNext, ReadPump, WritePump, WPFail, WPClosed

LEMMA InitRegInv == Init => RegInv
BY InitTypeOK DEF Init, RegInv, RegistryMatchesChannels, VisitsOnlyInFanout

LEMMA NextRegInv == RegInv /\ [Next]_vars => RegInv'
<1> SUFFICES ASSUME RegInv, [Next]_vars
             PROVE  RegistryMatchesChannels' /\ VisitsOnlyInFanout'
  BY NextTypeOK DEF RegInv
<1>1. CASE UNCHANGED vars
  BY <1>1 DEF vars, RegInv, RegistryMatchesChannels, VisitsOnlyInFanout
<1>. QED
  BY <1>1, HubRegInv, CallRegInv, ClientRegInv DEF Next

\* Whatever the number of clients and the interleaving, the hub never closes a
\* send channel twice, never sends on a closed one and never drops a client from
\* the registry without closing its channel (hub.go:48-81).
THEOREM RegistrySafe == Spec => []RegistryMatchesChannels
<1>1. RegInv => RegistryMatchesChannels
  BY DEF RegInv
<1>. QED
  BY <1>1, InitRegInv, NextRegInv, PTL DEF Spec

-----------------------------------------------------------------------------
(* The lock-free client count.                                             *)

LEMMA RegistryFinite ==
  ASSUME NEW S \in SUBSET Clients
  PROVE  IsFiniteSet(S) /\ Cardinality(S) \in Nat
BY ClientsFinite, FS_Subset, FS_CardinalityType

LEMMA CountIn ==
  ASSUME NEW S \in SUBSET Clients, NEW c \in Clients, c \notin S
  PROVE  Cardinality(S \cup {c}) = Cardinality(S) + 1
BY RegistryFinite, FS_AddElement

LEMMA CountOut ==
  ASSUME NEW S \in SUBSET Clients, NEW c \in S
  PROVE  Cardinality(S \ {c}) = Cardinality(S) - 1
BY RegistryFinite, FS_RemoveElement

LEMMA HubCount ==
  ASSUME RegInv, CountExact, HubNext
  PROVE  CountExact'
<1> USE DEF RegInv, TypeOK, CountExact, HubStates, serveVars, pumpVars
<1>1. CASE HubPark \/ HubDone \/ HubStopped \/ FanEnd
  BY <1>1 DEF HubPark, HubDone, HubStopped, FanEnd
<1>2. CASE HubBroadcast
  BY <1>2 DEF HubBroadcast, StartFanout
<1>3. ASSUME NEW c \in Clients, HubRegister(c) PROVE CountExact'
  <2>1. c \notin clients
    BY <1>3 DEF HubRegister, RegistryMatchesChannels
  <2>. QED
    BY <1>3, <2>1, CountIn DEF HubRegister, Enrol
<1>4. ASSUME NEW c \in Clients, HubStop(c) PROVE CountExact'
  BY <1>4 DEF HubStop
<1>5. ASSUME NEW c \in Clients, FanSend(c) PROVE CountExact'
  BY <1>5 DEF FanSend
<1>6. ASSUME NEW c \in Clients, FanEvict(c) PROVE CountExact'
  <2>1. c \in clients
    BY <1>6 DEF FanEvict, RegistryMatchesChannels
  <2>. QED
    BY <1>6, <2>1, CountOut DEF FanEvict, CloseAndDelete
<1>. QED
  BY <1>1, <1>2, <1>3, <1>4, <1>5, <1>6 DEF HubNext

LEMMA CallCount ==
  ASSUME RegInv, CountExact,
         \/ Cancel
         \/ \E m \in Msgs : Broadcast(m)
         \/ \E c \in Clients, payload \in Msgs \cup {NoMsg} : ServeWS(c, payload)
  PROVE  CountExact'
<1> USE DEF RegInv, TypeOK, CountExact, HubStates, serveVars, pumpVars
<1>1. CASE Cancel
  BY <1>1 DEF Cancel
<1>2. ASSUME NEW m \in Msgs, Broadcast(m) PROVE CountExact'
  BY <1>2 DEF Broadcast, StartFanout
<1>3. ASSUME NEW c \in Clients, NEW payload \in Msgs \cup {NoMsg}, ServeWS(c, payload)
      PROVE  CountExact'
  <2>1. c \notin clients
    BY <1>3 DEF ServeWS, RegistryMatchesChannels
  <2>2. CASE hubPC = "parked"
    <3>1. Enrol(c) /\ hubPC' = "select"
      BY <1>3, <2>2 DEF ServeWS
    <3>. QED
      BY <2>1, <2>2, <3>1, CountIn DEF Enrol
  <2>3. CASE hubPC # "parked"
    BY <1>3, <2>3 DEF ServeWS
  <2>. QED
    BY <2>2, <2>3
<1>. QED
  BY <1>1, <1>2, <1>3

LEMMA ClientCountStep ==
  ASSUME RegInv, CountExact, NEW c \in Clients, ClientNext(c) \/ PeerGone(c)
  PROVE  CountExact'
<1> USE DEF RegInv, TypeOK, CountExact, HubStates, hubVars, serveVars, pumpVars
<1>1. CASE RPUnregister(c)
  <2>1. CASE hubPC = "parked" /\ c \in clients
    <3>1. CloseAndDelete(c) /\ clientCount' = clientCount - 1 /\ hubPC' = "select"
      BY <1>1, <2>1 DEF RPUnregister
    <3>. QED
      BY <2>1, <3>1, CountOut DEF CloseAndDelete
  <2>2. CASE ~(hubPC = "parked" /\ c \in clients)
    BY <1>1, <2>2 DEF RPUnregister
  <2>. QED
    BY <2>1, <2>2
<1>2. CASE StartPumps(c) \/ RPError(c) \/ RPClose(c) \/ PeerGone(c)
  BY <1>2 DEF StartPumps, RPError, RPClose, PeerGone
<1>3. CASE WPRecv(c) \/ WPMeasure(c) \/ WPDrain(c) \/ WPFlush(c) \/ WPExit(c)
  BY <1>3 DEF WPRecv, WPMeasure, WPDrain, WPFlush, WPExit
<1>. QED
  BY <1>1, <1>2, <1>3 DEF ClientNext, ReadPump, WritePump, WPFail, WPClosed

LEMMA InitCount == Init => CountExact
BY FS_EmptySet DEF Init, CountExact

LEMMA NextCount == RegInv /\ CountExact /\ [Next]_vars => CountExact'
<1> SUFFICES ASSUME RegInv, CountExact, [Next]_vars PROVE CountExact'
  OBVIOUS
<1>1. CASE UNCHANGED vars
  BY <1>1 DEF vars, CountExact
<1>. QED
  BY <1>1, HubCount, CallCount, ClientCountStep DEF Next

\* Outside shutdown ClientCount() is the number of registered clients, for any
\* number of connections: the poll's "are there clients" test (server.go:122)
\* reads an exact count although it takes no lock.
THEOREM CountCorrect == Spec => []CountExact
BY InitRegInv, NextRegInv, InitCount, NextCount, PTL DEF Spec

-----------------------------------------------------------------------------
(* The inner loop of writePump.                                            *)

PumpsIdle == \A c \in Clients : phase[c] # "running" => wp[c] = "off"

DrainInv == RegInv /\ PumpsIdle /\ DrainNeverBlocks

LEMMA DrainFacts ==
  ASSUME DrainInv, NEW c \in Clients
  PROVE  /\ drain[c] \in Nat /\ Len(send[c]) \in Nat /\ drain[c] <= Len(send[c])
         /\ wp[c] # "draining" => drain[c] = 0
         /\ phase[c] # "running" => wp[c] = "off"
<1>1. drain[c] \in Nat /\ send[c] \in Seq(Msgs)
  BY DEF DrainInv, RegInv, TypeOK
<1>2. drain[c] <= Len(send[c]) /\ (drain[c] > 0 => wp[c] = "draining")
  BY DEF DrainInv, DrainNeverBlocks
<1>3. phase[c] # "running" => wp[c] = "off"
  BY DEF DrainInv, PumpsIdle
<1>. QED
  BY <1>1, <1>2, <1>3

\* a step that only client c can feel
LEMMA DrainLocal ==
  ASSUME DrainInv, NEW c \in Clients,
         \A d \in Clients \ {c} : /\ phase'[d] = phase[d] /\ wp'[d] = wp[d]
                                 /\ drain'[d] = drain[d] /\ send'[d] = send[d],
         phase'[c] # "running" => wp'[c] = "off",
         drain'[c] <= Len(send'[c]),
         drain'[c] > 0 => wp'[c] = "draining"
  PROVE  PumpsIdle' /\ DrainNeverBlocks'
<1>1. PumpsIdle'
  BY DEF DrainInv, PumpsIdle
<1>2. DrainNeverBlocks'
  BY DEF DrainInv, DrainNeverBlocks
<1>. QED
  BY <1>1, <1>2

LEMMA HubDrain ==
  ASSUME DrainInv, HubNext
  PROVE  PumpsIdle' /\ DrainNeverBlocks'
<1>1. CASE HubPark \/ HubDone \/ HubStopped \/ HubBroadcast \/ FanEnd
  BY <1>1 DEF HubPark, HubDone, HubStopped, HubBroadcast, FanEnd, serveVars, pumpVars,
              DrainInv, PumpsIdle, DrainNeverBlocks
<1>2. ASSUME NEW c \in Clients, HubRegister(c) PROVE PumpsIdle' /\ DrainNeverBlocks'
  <2>1. /\ UNCHANGED <<wp, drain, send>>
        /\ phase[c] = "registering"
        /\ \A d \in Clients \ {c} : phase'[d] = phase[d]
    BY <1>2 DEF HubRegister, Enrol, TypeOK, RegInv, DrainInv, pumpVars
  <2>. QED
    BY <2>1, DrainFacts, DrainLocal
<1>3. ASSUME NEW c \in Clients, HubStop(c) \/ FanEvict(c)
      PROVE  PumpsIdle' /\ DrainNeverBlocks'
  BY <1>3 DEF HubStop, FanEvict, serveVars, pumpVars, DrainInv, PumpsIdle, DrainNeverBlocks
<1>4. ASSUME NEW c \in Clients, FanSend(c) PROVE PumpsIdle' /\ DrainNeverBlocks'
  <2>1. /\ UNCHANGED <<phase, wp, drain>>
        /\ \A d \in Clients \ {c} : send'[d] = send[d]
        /\ Len(send'[c]) = Len(send[c]) + 1
    BY <1>4 DEF FanSend, TypeOK, RegInv, DrainInv, serveVars, pumpVars
  <2>. QED
    BY <2>1, DrainFacts, DrainLocal
<1>. QED
  BY <1>1, <1>2, <1>3, <1>4 DEF HubNext

LEMMA CallDrain ==
  ASSUME DrainInv,
         \/ Cancel
         \/ \E m \in Msgs : Broadcast(m)
         \/ \E c \in Clients, payload \in Msgs \cup {NoMsg} : ServeWS(c, payload)
  PROVE  PumpsIdle' /\ DrainNeverBlocks'
<1>1. CASE Cancel
  BY <1>1 DEF Cancel, serveVars, pumpVars, DrainInv, PumpsIdle, DrainNeverBlocks
<1>2. ASSUME NEW m \in Msgs, Broadcast(m)
      PROVE  PumpsIdle' /\ DrainNeverBlocks'
  BY <1>2 DEF Broadcast, serveVars, pumpVars, DrainInv, PumpsIdle, DrainNeverBlocks
<1>3. ASSUME NEW c \in Clients, NEW payload \in Msgs \cup {NoMsg}, ServeWS(c, payload)
      PROVE  PumpsIdle' /\ DrainNeverBlocks'
  <2>1. /\ phase[c] = "absent"
        /\ UNCHANGED <<wp, drain>>
        /\ \A d \in Clients \ {c} : phase'[d] = phase[d] /\ send'[d] = send[d]
    BY <1>3 DEF ServeWS, Enrol, TypeOK, RegInv, DrainInv
  <2>2. Len(send'[c]) \in Nat
    BY <1>3, CallTypeOK DEF TypeOK, DrainInv, RegInv
  <2>3. wp[c] = "off" /\ drain[c] = 0
    BY <2>1, DrainFacts
  <2>. QED
    BY <2>1, <2>2, <2>3, DrainLocal
<1>. QED
  BY <1>1, <1>2, <1>3

LEMMA ClientDrain ==
  ASSUME DrainInv, NEW c \in Clients, ClientNext(c) \/ PeerGone(c)
  PROVE  PumpsIdle' /\ DrainNeverBlocks'
<1>1. TypeOK /\ Len(send[c]) \in Nat /\ drain[c] \in Nat /\ drain[c] <= Len(send[c])
  BY DrainFacts DEF DrainInv, RegInv
<1>2. /\ wp[c] # "draining" => drain[c] = 0
      /\ phase[c] # "running" => wp[c] = "off"
  BY DrainFacts
<1>3. CASE StartPumps(c)
  <2>1. /\ phase[c] = "accepted" /\ phase'[c] = "running"
        /\ UNCHANGED <<drain, send>>
        /\ \A d \in Clients \ {c} : phase'[d] = phase[d] /\ wp'[d] = wp[d]
    BY <1>1, <1>3 DEF StartPumps, TypeOK, pumpVars
  <2>. QED
    BY <2>1, <1>1, <1>2, DrainLocal
<1>4. CASE RPError(c) \/ RPUnregister(c) \/ RPClose(c) \/ PeerGone(c)
  BY <1>4 DEF RPError, RPUnregister, RPClose, PeerGone, serveVars, pumpVars,
              DrainInv, PumpsIdle, DrainNeverBlocks
<1>5. CASE WPRecv(c)
  <2>1. /\ wp[c] = "select" /\ UNCHANGED <<phase, drain>>
        /\ \A d \in Clients \ {c} : wp'[d] = wp[d] /\ send'[d] = send[d]
        /\ send'[c] = Tail(send[c]) /\ send[c] # <<>> /\ send[c] \in Seq(Msgs)
    BY <1>1, <1>5 DEF WPRecv, TypeOK
  <2>2. Len(send'[c]) \in Nat
    BY <2>1
  <2>. QED
    BY <2>1, <2>2, <1>2, DrainLocal
<1>6. CASE WPMeasure(c)
  <2>1. /\ wp[c] = "writing" /\ wp'[c] = "draining" /\ drain'[c] = Len(send[c])
        /\ UNCHANGED <<phase, send>>
        /\ \A d \in Clients \ {c} : wp'[d] = wp[d] /\ drain'[d] = drain[d]
    BY <1>1, <1>6 DEF WPMeasure, TypeOK
  <2>. QED
    BY <2>1, <1>1, <1>2, DrainLocal
<1>7. CASE WPDrain(c)
  <2>1. /\ wp[c] = "draining" /\ drain'[c] = drain[c] - 1 /\ UNCHANGED <<phase, wp>>
        /\ \A d \in Clients \ {c} : drain'[d] = drain[d] /\ send'[d] = send[d]
        /\ send'[c] = Tail(send[c]) /\ send[c] # <<>> /\ send[c] \in Seq(Msgs)
    BY <1>1, <1>7 DEF WPDrain, TypeOK
  <2>2. Len(send'[c]) = Len(send[c]) - 1
    BY <2>1
  <2>3. drain'[c] <= Len(send'[c])
    BY <2>1, <2>2, <1>1
  <2>4. phase'[c] = "running" /\ wp'[c] = "draining"
    BY <2>1, <1>2
  <2>. QED
    BY <2>1, <2>3, <2>4, DrainLocal
<1>8. CASE WPFlush(c)
  <2>1. /\ wp[c] = "draining" /\ drain[c] = 0 /\ UNCHANGED <<phase, drain, send>>
        /\ \A d \in Clients \ {c} : wp'[d] = wp[d]
    BY <1>1, <1>8 DEF WPFlush, TypeOK
  <2>. QED
    BY <2>1, <1>1, <1>2, DrainLocal
<1>9. CASE WPFail(c) \/ WPClosed(c)
  <2>1. /\ wp[c] # "off" /\ drain'[c] = 0 /\ UNCHANGED <<phase, send>>
        /\ \A d \in Clients \ {c} : wp'[d] = wp[d] /\ drain'[d] = drain[d]
    BY <1>1, <1>9 DEF WPFail, WPClosed, WPExit, TypeOK
  <2>. QED
    BY <2>1, <1>1, <1>2, DrainLocal
<1>. QED
  BY <1>3, <1>4, <1>5, <1>6, <1>7, <1>8, <1>9 DEF ClientNext, ReadPump, WritePump

LEMMA InitDrain == Init => DrainInv
BY InitRegInv DEF Init, DrainInv, PumpsIdle, DrainNeverBlocks

LEMMA NextDrain == DrainInv /\ [Next]_vars => DrainInv'
<1> SUFFICES ASSUME DrainInv, [Next]_vars
             PROVE  PumpsIdle' /\ DrainNeverBlocks'
  BY NextRegInv DEF DrainInv
<1>1. CASE UNCHANGED vars
  BY <1>1 DEF vars, DrainInv, PumpsIdle, DrainNeverBlocks
<1>. QED
  BY <1>1, HubDrain, CallDrain, ClientDrain DEF Next

\* writePump's inner loop always finds the n messages it counted
\* (client.go:98-103), whatever the hub sends or closes in between.
THEOREM DrainSafe == Spec => []DrainNeverBlocks
<1>1. DrainInv => DrainNeverBlocks
  BY DEF DrainInv
<1>. QED
  BY <1>1, InitDrain, NextDrain, PTL DEF Spec

-----------------------------------------------------------------------------
(* Nothing is queued on a closed channel.                                  *)

LEMMA LenFacts ==
  ASSUME RegInv, NEW c \in Clients
  PROVE  /\ send[c] \in Seq(Msgs) /\ Len(send[c]) \in Nat /\ Len(send[c]) <= Len(send[c])
         /\ send[c] # <<>> => Len(Tail(send[c])) <= Len(send[c])
<1>1. send[c] \in Seq(Msgs)
  BY DEF RegInv, TypeOK
<1>. QED
  BY <1>1

LEMMA SendKept ==
  ASSUME RegInv, UNCHANGED send, sendClosed \subseteq sendClosed'
  PROVE  Frozen
<1>1. sendClosed \subseteq Clients
  BY DEF RegInv, TypeOK
<1>. QED
  BY <1>1, LenFacts DEF Frozen

LEMMA NextFrozen == RegInv /\ Next => Frozen
<1> SUFFICES ASSUME RegInv, Next PROVE Frozen
  OBVIOUS
<1>1. sendClosed \subseteq Clients /\ send \in [Clients -> Seq(Msgs)]
  BY DEF RegInv, TypeOK
<1>2. CASE HubPark \/ HubDone \/ HubStopped \/ HubBroadcast \/ FanEnd \/ Cancel
  BY <1>2, SendKept
     DEF HubPark, HubDone, HubStopped, HubBroadcast, FanEnd, Cancel
<1>3. ASSUME NEW c \in Clients,
             \/ HubRegister(c) \/ HubStop(c) \/ FanEvict(c) \/ StartPumps(c)
             \/ ReadPump(c) \/ PeerGone(c)
      PROVE  Frozen
  <2>1. UNCHANGED send /\ sendClosed \subseteq sendClosed'
    BY <1>3 DEF HubRegister, HubStop, FanEvict, StartPumps, ReadPump, RPError,
                RPUnregister, RPClose, PeerGone, CloseAndDelete
  <2>. QED
    BY <2>1, SendKept
<1>4. ASSUME NEW m \in Msgs, Broadcast(m) PROVE Frozen
  BY <1>4, SendKept DEF Broadcast
<1>5. ASSUME NEW c \in Clients, FanSend(c) PROVE Frozen
  <2>1. c \notin sendClosed
    BY <1>5 DEF FanSend, RegInv, RegistryMatchesChannels, TypeOK
  <2>2. UNCHANGED sendClosed /\ \A d \in Clients \ {c} : send'[d] = send[d]
    BY <1>1, <1>5 DEF FanSend
  <2>. QED
    BY <1>1, <2>1, <2>2, LenFacts DEF Frozen
<1>6. ASSUME NEW c \in Clients, NEW payload \in Msgs \cup {NoMsg}, ServeWS(c, payload)
      PROVE  Frozen
  <2>1. c \notin sendClosed
    BY <1>6 DEF ServeWS, RegInv, RegistryMatchesChannels
  <2>2. UNCHANGED sendClosed /\ \A d \in Clients \ {c} : send'[d] = send[d]
    BY <1>1, <1>6 DEF ServeWS
  <2>. QED
    BY <1>1, <2>1, <2>2, LenFacts DEF Frozen
<1>7. ASSUME NEW c \in Clients, WPRecv(c) \/ WPDrain(c) PROVE Frozen
  <2>1. /\ UNCHANGED sendClosed /\ \A d \in Clients \ {c} : send'[d] = send[d]
        /\ send[c] # <<>> /\ send'[c] = Tail(send[c])
    BY <1>1, <1>7 DEF WPRecv, WPDrain
  <2>. QED
    BY <1>1, <2>1, LenFacts DEF Frozen
<1>8. ASSUME NEW c \in Clients, WPMeasure(c) \/ WPFlush(c) \/ WPFail(c) \/ WPClosed(c)
      PROVE  Frozen
  BY <1>8, SendKept DEF WPMeasure, WPFlush, WPFail, WPClosed, WPExit
<1>. QED
  BY <1>2, <1>3, <1>4, <1>5, <1>6, <1>7, <1>8 DEF Next, HubNext, ClientNext, WritePump

\* No step queues a message for a client whose channel is closed, and no step
\* reopens it: the fan-out never hits a send on a closed channel (hub.go:71-72).
THEOREM ClosedStaysClosed == Spec => NothingAfterClose
<1>1. RegInv /\ [Next]_vars => [Frozen]_vars
  BY NextFrozen
<1>. QED
  BY <1>1, InitRegInv, NextRegInv, PTL DEF Spec, NothingAfterClose

-----------------------------------------------------------------------------
(* Sequences of messages.  A greeting carries a snapshot too, but only     *)
(* updates (~greet) are ordered.                                           *)

Ordered(s) ==
    \A i, j \in DOMAIN s : i < j /\ ~s[i].greet /\ ~s[j].greet => s[i].snap < s[j].snap
Before(s, t) ==
    \A i \in DOMAIN s, j \in DOMAIN t : ~s[i].greet /\ ~t[j].greet => s[i].snap < t[j].snap
After(n, s) == \A i \in DOMAIN s : ~s[i].greet => n < s[i].snap
Below(s, n) == \A i \in DOMAIN s : ~s[i].greet => s[i].snap < n
AtMost(s, n) == \A i \in DOMAIN s : s[i].snap <= n
GreetsFirst(s) == \A i \in DOMAIN s : s[i].greet => i = 1
HasGreeting(s) == \E i \in DOMAIN s : s[i].greet

\* A message carries the number of a poll.
LEMMA MsgFacts ==
  ASSUME NEW m \in Msgs
  PROVE  m.snap \in Int /\ 1 <= m.snap /\ m.snap <= MaxPolls /\ m.greet \in BOOLEAN /\ MaxPolls \in Nat
BY PollsAssumption

\* A sequence stays in order when a newer update is appended.
LEMMA OrderedAppend ==
  ASSUME NEW s \in Seq(Msgs), NEW m \in Msgs, Ordered(s), Below(s, m.snap)
  PROVE  Ordered(Append(s, m))
BY DEF Ordered, Below

\* Bounds on the updates of a sequence stay when one within them is appended.
LEMMA BoundsAppend ==
  ASSUME NEW s \in Seq(Msgs), NEW m \in Msgs, NEW n
  PROVE  /\ Below(s, n) /\ (~m.greet => m.snap < n) => Below(Append(s, m), n)
         /\ After(n, s) /\ (~m.greet => n < m.snap) => After(n, Append(s, m))
         /\ AtMost(s, n) /\ m.snap <= n => AtMost(Append(s, m), n)
BY DEF Below, After, AtMost

\* So does the order of two sequences.
LEMMA BeforeAppend ==
  ASSUME NEW s \in Seq(Msgs), NEW t \in Seq(Msgs), NEW m \in Msgs, Before(s, t)
  PROVE  /\ (~m.greet => Below(s, m.snap)) => Before(s, Append(t, m))
         /\ (~m.greet => After(m.snap, t)) => Before(Append(s, m), t)
BY DEF Before, Below, After

\* An empty sequence is in order, and before and after every other.
LEMMA EmptyFacts ==
  ASSUME NEW s, NEW n
  PROVE  /\ Ordered(<<>>) /\ Before(<<>>, s) /\ Before(s, <<>>)
         /\ After(n, <<>>) /\ Below(<<>>, n) /\ AtMost(<<>>, n) /\ GreetsFirst(<<>>)
BY DEF Ordered, Before, After, Below, AtMost, GreetsFirst

\* Where the elements of a tail stand in the sequence.
LEMMA TailAt ==
  ASSUME NEW s \in Seq(Msgs), s # <<>>
  PROVE  /\ Tail(s) \in Seq(Msgs) /\ Head(s) = s[1] /\ 1 \in DOMAIN s
         /\ \A i \in DOMAIN Tail(s) : i \in Nat /\ 1 <= i /\ i + 1 \in DOMAIN s /\ Tail(s)[i] = s[i + 1]
OBVIOUS

\* A sequence is empty if it has no length.
LEMMA EmptyLen ==
  ASSUME NEW s \in Seq(Msgs)
  PROVE  s = <<>> <=> Len(s) = 0
BY EmptySeq

\* The last element of a tail is the sequence's last.
LEMMA TailLast ==
  ASSUME NEW s \in Seq(Msgs), s # <<>>
  PROVE  /\ Len(s) = 1 => Tail(s) = <<>>
         /\ Len(s) # 1 => /\ Tail(s) # <<>> /\ Len(s) \in DOMAIN s
                          /\ Tail(s)[Len(Tail(s))] = s[Len(s)]
<1>1. Len(s) \in Nat \ {0} /\ Tail(s) \in Seq(Msgs) /\ Len(Tail(s)) = Len(s) - 1
  BY HeadTailProperties, EmptySeq
<1>2. CASE Len(s) = 1
  <2>1. Len(Tail(s)) = 0
    BY <1>1, <1>2
  <2>2. Tail(s) = <<>>
    BY <1>1, <2>1, EmptyLen
  <2>. QED
    BY <1>2, <2>2
<1>3. CASE Len(s) # 1
  <2>1. Len(Tail(s)) \in 1..Len(Tail(s)) /\ Len(Tail(s)) + 1 = Len(s) /\ Len(s) \in 1..Len(s)
    BY <1>1, <1>3
  <2>4. Len(Tail(s)) # 0
    BY <1>1, <1>3
  <2>2. Tail(s) # <<>>
    BY <1>1, <2>4, EmptyLen
  <2>3. DOMAIN s = 1..Len(s)
    BY LenProperties
  <2>. QED
    BY <1>3, <2>1, <2>2, <2>3, HeadTailProperties
<1>. QED
  BY <1>2, <1>3

\* A tail has what the sequence has, and no greeting.
LEMMA TailFacts ==
  ASSUME NEW s \in Seq(Msgs), s # <<>>, NEW t \in Seq(Msgs), NEW n
  PROVE  /\ Ordered(s) => Ordered(Tail(s))
         /\ Before(s, t) => Before(Tail(s), t)
         /\ Before(t, s) => Before(t, Tail(s))
         /\ After(n, s) => After(n, Tail(s))
         /\ Below(s, n) => Below(Tail(s), n)
         /\ AtMost(s, n) => AtMost(Tail(s), n)
         /\ GreetsFirst(s) => \A i \in DOMAIN Tail(s) : ~Tail(s)[i].greet
BY TailAt DEF Ordered, Before, After, Below, AtMost, GreetsFirst

\* An update at the head is before all the others.
LEMMA HeadFacts ==
  ASSUME NEW s \in Seq(Msgs), s # <<>>, NEW t \in Seq(Msgs), NEW n
  PROVE  /\ Ordered(s) /\ ~Head(s).greet => After(Head(s).snap, Tail(s))
         /\ Before(s, t) /\ ~Head(s).greet => After(Head(s).snap, t)
         /\ Before(t, s) /\ ~Head(s).greet => Below(t, Head(s).snap)
         /\ After(n, s) /\ ~Head(s).greet => n < Head(s).snap
         /\ Below(s, n) /\ ~Head(s).greet => Head(s).snap < n
         /\ AtMost(s, n) => Head(s).snap <= n
BY TailAt DEF Ordered, Before, After, Below, AtMost

\* what the cursor becomes when the messages s are delivered after b
LEMMA LastUpdateIs ==
  ASSUME NEW s \in Seq(Msgs), GreetsFirst(s), NEW b
  PROVE  LastUpdate(s, b) = IF s = <<>> \/ s[Len(s)].greet THEN b ELSE s[Len(s)].snap
<1> DEFINE U == {i \in DOMAIN s : ~s[i].greet}
<1>1. CASE s = <<>>
  BY <1>1 DEF LastUpdate
<1>2. CASE s # <<>> /\ s[Len(s)].greet
  <2>0. Len(s) \in DOMAIN s
    BY <1>2
  <2>1. Len(s) = 1
    BY <1>2, <2>0 DEF GreetsFirst
  <2>2. U = {}
    BY <1>2, <2>1
  <2>. QED
    BY <1>2, <2>2 DEF LastUpdate
<1>3. CASE s # <<>> /\ ~s[Len(s)].greet
  <2>1. Len(s) \in U /\ \A j \in U : j <= Len(s) /\ j \in Nat
    BY <1>3
  <2>2. (CHOOSE i \in U : \A j \in U : j <= i) = Len(s)
    BY <2>1
  <2>. QED
    BY <1>3, <2>1, <2>2 DEF LastUpdate
<1>. QED
  BY <1>1, <1>2, <1>3

\* No message shows no update.
LEMMA LastUpdateEmpty == ASSUME NEW b PROVE LastUpdate(<<>>, b) = b
BY DEF LastUpdate

\* An update that is appended is the last one.
LEMMA LastUpdateAppend ==
  ASSUME NEW s \in Seq(Msgs), GreetsFirst(s), NEW m \in Msgs, m.greet => s = <<>>, NEW b
  PROVE  /\ GreetsFirst(Append(s, m))
         /\ LastUpdate(Append(s, m), b) = IF m.greet THEN b ELSE m.snap
<1>1. GreetsFirst(Append(s, m))
  BY DEF GreetsFirst
<1>2. Append(s, m) \in Seq(Msgs) /\ Append(s, m) # <<>> /\ Append(s, m)[Len(Append(s, m))] = m
  OBVIOUS
<1>. QED
  BY <1>1, <1>2, LastUpdateIs

\* The last update is one of the sequence, and within its bounds.
LEMMA LastUpdateBounds ==
  ASSUME NEW s \in Seq(Msgs), GreetsFirst(s), NEW t \in Seq(Msgs), NEW b \in Int, NEW n \in Int
  PROVE  /\ LastUpdate(s, b) \in {b} \cup 1..MaxPolls
         /\ After(b, s) => b <= LastUpdate(s, b)
         /\ b < n /\ Below(s, n) => LastUpdate(s, b) < n
         /\ After(b, t) /\ Before(s, t) => After(LastUpdate(s, b), t)
<1>1. CASE s = <<>> \/ s[Len(s)].greet
  BY <1>1, LastUpdateIs
<1>2. CASE s # <<>> /\ ~s[Len(s)].greet
  <2>1. Len(s) \in DOMAIN s /\ s[Len(s)] \in Msgs
    BY <1>2
  <2>2. LastUpdate(s, b) = s[Len(s)].snap
    BY <1>2, LastUpdateIs
  <2>3. s[Len(s)].snap \in 1..MaxPolls
    BY <2>1, PollsAssumption
  <2>. QED
    BY <1>2, <2>1, <2>2, <2>3 DEF After, Below, Before
<1>. QED
  BY <1>1, <1>2

\* moving the head of the channel to the end of the frame
LEMMA LastUpdateMove ==
  ASSUME NEW f \in Seq(Msgs), GreetsFirst(f), NEW s \in Seq(Msgs), GreetsFirst(s),
         s # <<>>, Head(s).greet => f = <<>>, NEW b
  PROVE  LastUpdate(Tail(s), LastUpdate(Append(f, Head(s)), b)) = LastUpdate(s, LastUpdate(f, b))
<1>1. Head(s) \in Msgs /\ Head(s) = s[1] /\ Tail(s) \in Seq(Msgs) /\ Len(Tail(s)) = Len(s) - 1
  OBVIOUS
<1>2. GreetsFirst(Tail(s))
  BY TailAt DEF GreetsFirst
<1>3. LastUpdate(Append(f, Head(s)), b) = IF Head(s).greet THEN b ELSE Head(s).snap
  BY <1>1, LastUpdateAppend
<1>4. CASE Len(s) = 1
  <2>1. Tail(s) = <<>>
    BY <1>4, TailLast
  <2>2. LastUpdate(s, LastUpdate(f, b)) = IF Head(s).greet THEN LastUpdate(f, b) ELSE Head(s).snap
    BY <1>1, <1>4, LastUpdateIs
  <2>. QED
    BY <1>3, <2>1, <2>2, LastUpdateEmpty
<1>5. CASE Len(s) # 1
  <2>1. Tail(s) # <<>> /\ Len(s) \in DOMAIN s /\ Len(s) # 1 /\ Tail(s)[Len(Tail(s))] = s[Len(s)]
    BY <1>5, TailLast
  <2>2. ~s[Len(s)].greet
    BY <2>1 DEF GreetsFirst
  <2>3. LastUpdate(Tail(s), LastUpdate(Append(f, Head(s)), b)) = s[Len(s)].snap
    BY <1>1, <1>2, <2>1, <2>2, LastUpdateIs
  <2>. QED
    BY <2>2, <2>3, LastUpdateIs
<1>. QED
  BY <1>4, <1>5

\* A greeting is the first message of a sequence or none of it.
LEMMA GreetingFacts ==
  ASSUME NEW s \in Seq(Msgs), NEW m \in Msgs
  PROVE  /\ ~HasGreeting(<<>>)
         /\ HasGreeting(Append(s, m)) => HasGreeting(s) \/ m.greet
         /\ s # <<>> /\ GreetsFirst(s) => ~HasGreeting(Tail(s)) /\ (Head(s).greet => HasGreeting(s))
         /\ ~HasGreeting(s) => GreetsFirst(s)
<1>1. ~HasGreeting(<<>>) /\ (~HasGreeting(s) => GreetsFirst(s))
  BY DEF HasGreeting, GreetsFirst
<1>2. HasGreeting(Append(s, m)) => HasGreeting(s) \/ m.greet
  BY DEF HasGreeting
<1>3. s # <<>> /\ GreetsFirst(s) => ~HasGreeting(Tail(s)) /\ (Head(s).greet => HasGreeting(s))
  BY TailAt DEF HasGreeting, GreetsFirst
<1>. QED
  BY <1>1, <1>2, <1>3

-----------------------------------------------------------------------------
(* One connection's way: the frame f, the channel s, the hub's channel b   *)
(* and the cursor cur, oldest first; and what the hub is about to send it. *)

Lane(f, s, b, cur) ==
    /\ Ordered(f) /\ Ordered(s) /\ Before(f, s) /\ Before(f, b) /\ Before(s, b)
    /\ After(cur, f) /\ After(cur, s) /\ After(cur, b)

Newer(m, f, s, cur) == cur < m.snap /\ Below(f, m.snap) /\ Below(s, m.snap)

\* Broadcast appends to the hub's channel what is newer than all of the way.
LEMMA LaneBroadcast ==
  ASSUME NEW f \in Seq(Msgs), NEW s \in Seq(Msgs), NEW b \in Seq(Msgs), NEW cur \in Int,
         NEW m \in Msgs, Lane(f, s, b, cur), Newer(m, f, s, cur)
  PROVE  Lane(f, s, Append(b, m), cur)
BY BeforeAppend, BoundsAppend DEF Lane, Newer

\* Run takes the head of its channel, which is newer than all that is queued.
LEMMA LaneFanout ==
  ASSUME NEW f \in Seq(Msgs), NEW s \in Seq(Msgs), NEW b \in Seq(Msgs), NEW cur \in Int,
         b # <<>>, ~Head(b).greet, Lane(f, s, b, cur)
  PROVE  Lane(f, s, Tail(b), cur) /\ Newer(Head(b), f, s, cur)
BY TailFacts, HeadFacts DEF Lane, Newer

\* The fan-out queues a message that is newer than what is queued, and older than
\* the channel's.
LEMMA LaneSend ==
  ASSUME NEW f \in Seq(Msgs), NEW s \in Seq(Msgs), NEW b \in Seq(Msgs), NEW cur \in Int,
         NEW m \in Msgs, Lane(f, s, b, cur), Newer(m, f, s, cur), After(m.snap, b)
  PROVE  Lane(f, Append(s, m), b, cur)
BY OrderedAppend, BeforeAppend, BoundsAppend DEF Lane, Newer

\* writePump moves the head of the queue into the frame.
LEMMA LaneMove ==
  ASSUME NEW f \in Seq(Msgs), NEW s \in Seq(Msgs), NEW b \in Seq(Msgs), NEW cur \in Int,
         s # <<>>, Head(s).greet => f = <<>>, Lane(f, s, b, cur)
  PROVE  /\ Lane(Append(f, Head(s)), Tail(s), b, cur)
         /\ \A m \in Msgs : Newer(m, f, s, cur) => Newer(m, Append(f, Head(s)), Tail(s), cur)
<1> DEFINE h == Head(s)
<1>1. h \in Msgs /\ Tail(s) \in Seq(Msgs)
  OBVIOUS
<1>2. Ordered(Append(f, h))
  <2>1. CASE h.greet
    BY <2>1 DEF Ordered
  <2>2. CASE ~h.greet
    BY <1>1, <2>2, HeadFacts, OrderedAppend DEF Lane
  <2>. QED
    BY <2>1, <2>2
<1>3. Before(Append(f, h), Tail(s)) /\ Before(Append(f, h), b)
  BY <1>1, HeadFacts, TailFacts, BeforeAppend DEF Lane
<1>4. After(cur, Append(f, h))
  BY <1>1, HeadFacts, BoundsAppend DEF Lane
<1>5. ASSUME NEW m \in Msgs, Newer(m, f, s, cur)
      PROVE  Newer(m, Append(f, h), Tail(s), cur)
  BY <1>1, <1>5, HeadFacts, TailFacts, BoundsAppend DEF Newer
<1>. QED
  BY <1>1, <1>2, <1>3, <1>4, <1>5, TailFacts DEF Lane

\* The frame is delivered: the dashboard shows its last update.
LEMMA LaneDeliver ==
  ASSUME NEW f \in Seq(Msgs), NEW s \in Seq(Msgs), NEW b \in Seq(Msgs), NEW cur \in Int,
         GreetsFirst(f), Lane(f, s, b, cur)
  PROVE  /\ Lane(<<>>, s, b, LastUpdate(f, cur))
         /\ \A m \in Msgs : Newer(m, f, s, cur) => Newer(m, <<>>, s, LastUpdate(f, cur))
<1>1. Lane(<<>>, s, b, LastUpdate(f, cur))
  BY EmptyFacts, LastUpdateBounds DEF Lane
<1>2. ASSUME NEW m \in Msgs, Newer(m, f, s, cur)
      PROVE  Newer(m, <<>>, s, LastUpdate(f, cur))
  BY <1>2, MsgFacts, EmptyFacts, LastUpdateBounds DEF Newer
<1>. QED
  BY <1>1, <1>2

\* A frame that is lost leaves the rest of the way in order.
LEMMA LaneDrop ==
  ASSUME NEW f, NEW s, NEW b, NEW cur, Lane(f, s, b, cur)
  PROVE  /\ Lane(<<>>, s, b, cur)
         /\ \A m : Newer(m, f, s, cur) => Newer(m, <<>>, s, cur)
BY EmptyFacts DEF Lane, Newer

\* The greeting of a connection may stand before anything.
LEMMA LaneNew ==
  ASSUME NEW m \in Msgs, m.greet, NEW b \in Seq(Msgs), NEW cur, Lane(<<>>, <<>>, b, cur)
  PROVE  Lane(<<>>, <<m>>, b, cur)
BY DEF Lane, Ordered, Before, After

-----------------------------------------------------------------------------
(* The inductive invariant.  The three ordered pieces of a connection's    *)
(* way and what separates them, what the hub holds, what the poll loop has *)
(* reached, and the last update each client was queued.                    *)

Way(c) ==
    /\ Lane(frame[c], send[c], broadcast, cursor[c])
    /\ c \in fan => Newer(message, frame[c], send[c], cursor[c])

HubWay ==
    /\ Ordered(broadcast) /\ ~HasGreeting(broadcast)
    /\ hubPC = "parked" => broadcast = <<>>
    /\ hubPC = "fanout" => ~message.greet /\ After(message.snap, broadcast)

Greets(c) ==
    /\ GreetsFirst(frame[c]) /\ GreetsFirst(send[c])
    /\ frame[c] # <<>> => ~HasGreeting(send[c])
    /\ HasGreeting(frame[c]) \/ HasGreeting(send[c]) => greeting[c] = 0 /\ cursor[c] = 0

Started(c) ==
    /\ phase[c] = "running" <=> wp[c] # "off"
    /\ wp[c] = "off" => greeting[c] = 0 /\ cursor[c] = 0
    /\ frame[c] = <<>> <=> wp[c] \notin {"writing", "draining"}
    /\ phase[c] \in {"absent", "registering"} => \A i \in DOMAIN send[c] : send[c][i].greet
    /\ phase[c] = "absent" => send[c] = <<>>

\* a poll is under way: its snapshot is not broadcast yet
Polling == pollPC \in {"collected", "stored", "counted"}
Newest == IF Polling THEN polled ELSE polled + 1

Bounded(f, s, cur, g, n, k) ==
    /\ cur < n /\ Below(f, n) /\ Below(s, n)
    /\ g <= k /\ AtMost(f, k) /\ AtMost(s, k)

Recent(c) ==
    /\ Bounded(frame[c], send[c], cursor[c], greeting[c], Newest, latestSnapshotBytes)
    /\ initialPayload[c] <= latestSnapshotBytes \/ initialPayload[c] = Unread

HubRecent ==
    /\ Below(broadcast, Newest) /\ AtMost(broadcast, latestSnapshotBytes)
    /\ hubPC = "fanout" => message.snap < Newest /\ message.snap <= latestSnapshotBytes

Cache ==
    /\ latestSnapshotBytes <= polled
    /\ Polling => polled > 0
    /\ pollPC = "counted" => marshalled
    /\ pollPC \in {"stored", "counted"} /\ marshalled => latestSnapshotBytes = polled

Awake(S) == {x \in S : wp[x] # "done" /\ LastQueued(x) > 0}

Alike ==
    /\ \A c, d \in Awake(fan) : LastQueued(c) = LastQueued(d)
    /\ hubPC = "fanout" =>
          \A c \in clients \ fan : wp[c] # "done" => LastQueued(c) = message.snap
    /\ hubPC # "fanout" => \A c, d \in Awake(clients) : LastQueued(c) = LastQueued(d)

StreamInv ==
    /\ ServerTypeOK /\ RegInv /\ HubWay /\ Cache /\ HubRecent
    /\ \A c \in Clients : Way(c) /\ Greets(c) /\ Started(c) /\ Recent(c)

FeedInv == StreamInv /\ Alike

\* The conjuncts of the type invariant.
LEMMA TypeParts ==
  /\ ServerTypeOK <=> /\ TypeOK
                      /\ polled \in 0..MaxPolls
                      /\ latestSnapshot \in 0..MaxPolls /\ latestSnapshotBytes \in 0..MaxPolls
                      /\ pollPC \in {"idle", "collected", "stored", "counted", "ended"}
                      /\ marshalled \in BOOLEAN /\ listening \in BOOLEAN
                      /\ initialPayload \in [Clients -> 0..Unread]
                      /\ greeting \in [Clients -> 0..MaxPolls]
                      /\ cursor \in [Clients -> 0..MaxPolls]
                      /\ view \in [Clients -> 0..MaxPolls]
BY DEF ServerTypeOK

\* The types of the state, one by one.
LEMMA StateFacts ==
  ASSUME StreamInv
  PROVE  /\ broadcast \in Seq(Msgs) /\ polled \in 0..MaxPolls /\ latestSnapshotBytes \in 0..MaxPolls
         /\ polled \in Nat /\ latestSnapshotBytes \in Nat /\ MaxPolls \in Nat /\ Newest \in Nat
         /\ hubPC = "fanout" => message \in Msgs
         /\ \A c \in Clients : /\ frame[c] \in Seq(Msgs) /\ send[c] \in Seq(Msgs)
                                /\ cursor[c] \in 0..MaxPolls /\ greeting[c] \in 0..MaxPolls
                                /\ initialPayload[c] \in 0..Unread
                                /\ cursor[c] \in Nat /\ greeting[c] \in Nat
<1>1. ServerTypeOK /\ TypeOK /\ MaxPolls \in Nat
  BY PollsAssumption DEF StreamInv, RegInv
<1>2. polled \in 0..MaxPolls /\ latestSnapshotBytes \in 0..MaxPolls
  BY <1>1 DEF ServerTypeOK
<1>3. Newest \in Nat
  BY <1>1, <1>2 DEF Newest
<1>4. ASSUME NEW c \in Clients
      PROVE  /\ frame[c] \in Seq(Msgs) /\ send[c] \in Seq(Msgs)
             /\ cursor[c] \in 0..MaxPolls /\ greeting[c] \in 0..MaxPolls
             /\ initialPayload[c] \in 0..Unread
             /\ cursor[c] \in Nat /\ greeting[c] \in Nat
  BY <1>1 DEF ServerTypeOK, TypeOK
<1>. QED
  BY <1>1, <1>2, <1>3, <1>4 DEF TypeOK

\* The server begins in the invariant.
LEMMA InitStream == ServerInit => FeedInv
<1> SUFFICES ASSUME ServerInit PROVE FeedInv
  OBVIOUS
<1>1. RegInv
  BY InitRegInv DEF ServerInit
<1>2. ServerTypeOK
  <2>1. 0 \in 0..MaxPolls /\ Unread \in 0..Unread
    BY PollsAssumption DEF Unread
  <2>2. TypeOK
    BY <1>1 DEF RegInv
  <2>. QED
    BY <2>1, <2>2, TypeParts DEF ServerInit
<1>3. /\ broadcast = <<>> /\ hubPC = "select" /\ fan = {} /\ clients = {}
      /\ polled = 0 /\ pollPC = "idle" /\ latestSnapshotBytes = 0 /\ ~marshalled
  BY DEF ServerInit, Init
<1>4. ASSUME NEW c \in Clients
      PROVE  /\ frame[c] = <<>> /\ send[c] = <<>> /\ cursor[c] = 0 /\ greeting[c] = 0
             /\ phase[c] = "absent" /\ wp[c] = "off" /\ initialPayload[c] = Unread
  BY DEF ServerInit, Init
<1>5. HubWay /\ Cache /\ HubRecent
  BY <1>3, EmptyFacts DEF HubWay, Cache, HubRecent, Polling, HasGreeting
<1>6. ASSUME NEW c \in Clients PROVE Way(c) /\ Greets(c) /\ Started(c) /\ Recent(c)
  BY <1>3, <1>4, EmptyFacts
     DEF Way, Lane, Greets, HasGreeting, Started, Recent, Bounded, Newest, Polling
<1>7. Alike
  BY <1>3 DEF Alike, Awake
<1>. QED
  BY <1>1, <1>2, <1>5, <1>6, <1>7 DEF FeedInv, StreamInv

-----------------------------------------------------------------------------
(* Every step of the server is a step of the hub and its connections.      *)

\* Each step of the server is one of the hub or leaves it alone.
LEMMA ServerIsHub == StreamInv /\ ServerNext => [Next]_vars
<1> SUFFICES ASSUME StreamInv, ServerNext PROVE [Next]_vars
  OBVIOUS
<1>1. CASE PollCollect \/ PollStore \/ PollCount \/ PollEnd \/ Shutdown
  BY <1>1 DEF PollCollect, PollStore, PollCount, PollEnd, Shutdown
<1>2. CASE PollBroadcast
  <2>1. polled \in 1..MaxPolls
    BY <1>2, StateFacts DEF PollBroadcast, StreamInv, Cache, Polling
  <2>2. [snap |-> polled, greet |-> FALSE] \in Msgs
    BY <2>1, PollsAssumption
  <2>. QED
    BY <1>2, <2>2 DEF PollBroadcast, Next
<1>3. ASSUME NEW c \in Clients, HandleWS(c) PROVE [Next]_vars
  BY <1>3 DEF HandleWS
<1>4. ASSUME NEW c \in Clients, Upgrade(c) PROVE [Next]_vars
  <2> DEFINE p == IF initialPayload[c] = 0 THEN NoMsg
                  ELSE [snap |-> initialPayload[c], greet |-> TRUE]
  <2>1. p \in Msgs \cup {NoMsg}
    <3>1. CASE initialPayload[c] = 0
      BY <3>1
    <3>2. CASE initialPayload[c] # 0
      <4>1. initialPayload[c] \in 1..MaxPolls
        BY <1>4, <3>2, StateFacts DEF Upgrade, Unread
      <4>. QED
        BY <3>2, <4>1, PollsAssumption
    <3>. QED
      BY <3>1, <3>2
  <2>2. ServeWS(c, p)
    BY <1>4 DEF Upgrade
  <2>. QED
    BY <2>1, <2>2 DEF Next
<1>5. ASSUME NEW c \in Clients, Deliver(c) PROVE [Next]_vars
  BY <1>5 DEF Deliver, Next, ClientNext, WritePump
<1>6. CASE HubOrClient
  BY <1>6 DEF HubOrClient, Next, ClientNext, WritePump
<1>. QED
  BY <1>1, <1>2, <1>3, <1>4, <1>5, <1>6 DEF ServerNext

\* What a delivery changes.
LEMMA DeliveryFacts ==
  ASSUME StreamInv, NEW c \in Clients, Deliver(c)
  PROVE  /\ wp[c] = "draining" /\ frame[c] # <<>> /\ GreetsFirst(frame[c])
         /\ frame[c][1] \in Msgs
         /\ frame' = [frame EXCEPT ![c] = <<>>] /\ wp' = [wp EXCEPT ![c] = "select"]
         /\ greeting' = IF frame[c][1].greet THEN [greeting EXCEPT ![c] = frame[c][1].snap]
                        ELSE greeting
         /\ cursor' = [cursor EXCEPT ![c] = LastUpdate(frame[c], cursor[c])]
         /\ LastUpdate(frame[c], cursor[c]) \in 0..MaxPolls
         /\ UNCHANGED <<hubVars, broadcast, ctxDone, phase, send, rp, pollVars, listening,
                        initialPayload>>
         /\ view' \in [Clients -> 0..MaxPolls]
<1>1. /\ wp[c] = "draining"
      /\ frame' = [frame EXCEPT ![c] = <<>>] /\ wp' = [wp EXCEPT ![c] = "select"]
      /\ greeting' = IF frame[c][1].greet THEN [greeting EXCEPT ![c] = frame[c][1].snap]
                     ELSE greeting
      /\ cursor' = [cursor EXCEPT ![c] = LastUpdate(frame[c], cursor[c])]
      /\ view' = IF Len(frame[c]) = 1 THEN [view EXCEPT ![c] = frame[c][1].snap] ELSE view
      /\ UNCHANGED <<hubVars, broadcast, ctxDone, phase, send, rp, pollVars, listening,
                     initialPayload>>
  BY DEF Deliver, WPFlush
<1>2. frame[c] # <<>> /\ GreetsFirst(frame[c])
  BY <1>1 DEF StreamInv, Started, Greets
<1>3. frame[c][1] \in Msgs
  BY <1>2, StateFacts
<1>4. LastUpdate(frame[c], cursor[c]) \in 0..MaxPolls
  BY <1>2, StateFacts, LastUpdateBounds
<1>5. view' \in [Clients -> 0..MaxPolls]
  <2>1. view \in [Clients -> 0..MaxPolls]
    BY TypeParts DEF StreamInv
  <2>2. frame[c][1].snap \in 0..MaxPolls
    BY <1>3, PollsAssumption
  <2>. QED
    BY <1>1, <2>1, <2>2
<1>. QED
  BY <1>1, <1>2, <1>3, <1>4, <1>5

\* Every step keeps the types.
LEMMA ServerNextTypeOK == StreamInv /\ ServerNext => ServerTypeOK'
<1> SUFFICES ASSUME StreamInv, ServerNext PROVE ServerTypeOK'
  OBVIOUS
<1>1. TypeOK'
  BY ServerIsHub, NextTypeOK DEF StreamInv, RegInv
<1>2. /\ polled \in 0..MaxPolls
      /\ latestSnapshot \in 0..MaxPolls /\ latestSnapshotBytes \in 0..MaxPolls
      /\ pollPC \in {"idle", "collected", "stored", "counted", "ended"}
      /\ marshalled \in BOOLEAN /\ listening \in BOOLEAN
      /\ initialPayload \in [Clients -> 0..Unread]
      /\ greeting \in [Clients -> 0..MaxPolls] /\ cursor \in [Clients -> 0..MaxPolls]
      /\ view \in [Clients -> 0..MaxPolls]
  BY TypeParts DEF StreamInv
<1>3. CASE PollCollect
  <2>1. polled + 1 \in 0..MaxPolls
    BY <1>2, <1>3, PollsAssumption DEF PollCollect
  <2>. QED
    BY <1>1, <1>2, <1>3, <2>1 DEF PollCollect, ServerTypeOK, viewVars
<1>4. CASE PollStore \/ PollCount \/ PollBroadcast \/ PollEnd \/ Shutdown
  BY <1>1, <1>2, <1>4 DEF PollStore, PollCount, PollBroadcast, PollEnd, Shutdown,
                          ServerTypeOK, viewVars, pollVars
<1>5. ASSUME NEW c \in Clients, HandleWS(c) PROVE ServerTypeOK'
  <2>1. latestSnapshotBytes \in 0..Unread
    BY <1>2, PollsAssumption DEF Unread
  <2>. QED
    BY <1>1, <1>2, <1>5, <2>1 DEF HandleWS, ServerTypeOK, viewVars, pollVars
<1>6. ASSUME NEW c \in Clients, Upgrade(c) PROVE ServerTypeOK'
  BY <1>1, <1>2, <1>6 DEF Upgrade, ServerTypeOK, serverVars, viewVars, pollVars
<1>7. ASSUME NEW c \in Clients, Deliver(c) PROVE ServerTypeOK'
  <2>1. frame[c][1].snap \in 0..MaxPolls
    BY <1>7, DeliveryFacts, PollsAssumption
  <2>2. greeting' \in [Clients -> 0..MaxPolls] /\ cursor' \in [Clients -> 0..MaxPolls]
    BY <1>2, <1>7, <2>1, DeliveryFacts
  <2>3. view' \in [Clients -> 0..MaxPolls] /\ UNCHANGED <<pollVars, listening, initialPayload>>
    BY <1>7, DeliveryFacts
  <2>. QED
    BY <1>1, <1>2, <2>2, <2>3 DEF ServerTypeOK, pollVars
<1>8. CASE UNCHANGED serverVars
  BY <1>1, <1>2, <1>8 DEF ServerTypeOK, serverVars, viewVars, pollVars
<1>. QED
  BY <1>3, <1>4, <1>5, <1>6, <1>7, <1>8 DEF ServerNext

\* the steps that move nothing on its way to a connection
Quiet ==
    /\ UNCHANGED <<frame, send, broadcast, cursor, greeting>>
    /\ fan' \subseteq fan /\ (fan' # {} => message' = message)

Moving(c) == FanSend(c) \/ WPRecv(c) \/ WPDrain(c) \/ WPFail(c) \/ WPClosed(c)

\* A step moves no message, or it is one of these.
LEMMA QuietSteps ==
  ASSUME StreamInv, ServerNext
  PROVE  \/ Quiet \/ PollBroadcast
         \/ \E c \in Clients : Upgrade(c) \/ Deliver(c)
         \/ UNCHANGED serverVars /\ (HubBroadcast \/ \E c \in Clients : Moving(c))
<1>1. CASE PollCollect \/ PollStore \/ PollCount \/ PollEnd \/ Shutdown
  BY <1>1 DEF PollCollect, PollStore, PollCount, PollEnd, Shutdown, Quiet, vars, viewVars
<1>2. ASSUME NEW c \in Clients, HandleWS(c) PROVE Quiet
  BY <1>2 DEF HandleWS, Quiet, vars, viewVars
<1>3. CASE HubOrClient /\ UNCHANGED serverVars
  <2>1. UNCHANGED <<cursor, greeting>>
    BY <1>3 DEF serverVars, viewVars
  <2>2. CASE HubPark \/ HubDone \/ HubStopped \/ FanEnd \/ Cancel
    BY <2>1, <2>2 DEF HubPark, HubDone, HubStopped, FanEnd, Cancel, Quiet, serveVars, pumpVars
  <2>3. ASSUME NEW c \in Clients,
               \/ HubRegister(c) \/ HubStop(c) \/ FanEvict(c)
               \/ StartPumps(c) \/ ReadPump(c) \/ PeerGone(c) \/ WPMeasure(c)
        PROVE  Quiet
    BY <2>1, <2>3 DEF HubRegister, HubStop, FanEvict, StartPumps, ReadPump, RPError,
                      RPUnregister, RPClose, PeerGone, WPMeasure, Quiet, hubVars,
                      serveVars, pumpVars
  <2>. QED
    BY <1>3, <2>2, <2>3 DEF HubOrClient, HubNext, Moving
<1>. QED
  BY <1>1, <1>2, <1>3 DEF ServerNext

-----------------------------------------------------------------------------
(* The way of each connection.                                             *)

WayAndGreets(c) == Way(c) /\ Greets(c)

\* a connection whose own way and the hub's channel stay put
LEMMA WayKept ==
  ASSUME StreamInv, NEW d \in Clients,
         frame'[d] = frame[d], send'[d] = send[d], cursor'[d] = cursor[d],
         greeting'[d] = greeting[d], broadcast' = broadcast,
         d \in fan' => d \in fan /\ message' = message
  PROVE  WayAndGreets(d)'
BY DEF StreamInv, WayAndGreets, Way, Greets

\* A step that moves no message keeps each way in order.
LEMMA QuietWay ==
  ASSUME StreamInv, Quiet, NEW d \in Clients
  PROVE  WayAndGreets(d)'
BY WayKept DEF Quiet

\* a new message m enters the hub: it is newer than anything on its way
LEMMA PollBroadcastWay ==
  ASSUME StreamInv, PollBroadcast, NEW d \in Clients
  PROVE  WayAndGreets(d)'
<1> DEFINE m == [snap |-> polled, greet |-> FALSE]
<1>1. /\ Broadcast(m) /\ pollPC = "counted" /\ Newest = polled
      /\ UNCHANGED <<cursor, greeting>>
  BY DEF PollBroadcast, viewVars, Newest, Polling
<1>2. m \in Msgs
  <2>1. polled \in 1..MaxPolls
    BY <1>1, StateFacts DEF StreamInv, Cache, Polling
  <2>. QED
    BY <2>1, PollsAssumption
<1>3. Newer(m, frame[d], send[d], cursor[d])
  BY <1>1 DEF StreamInv, Recent, Bounded, Newer
<1>4. UNCHANGED <<frame, send>>
  BY <1>1 DEF Broadcast, pumpVars
<1>5. Lane(frame[d], send[d], broadcast, cursor[d]) /\ Greets(d)
  BY DEF StreamInv, Way
<1>6. CASE hubPC = "parked"
  <2>1. message' = m /\ broadcast' = broadcast
    BY <1>1, <1>6 DEF Broadcast, StartFanout
  <2>. QED
    BY <1>1, <1>3, <1>4, <1>5, <2>1 DEF WayAndGreets, Way, Greets
<1>7. CASE hubPC # "parked"
  <2>1. /\ broadcast' = Append(broadcast, m) \/ broadcast' = broadcast
        /\ UNCHANGED <<fan, message>>
    BY <1>1, <1>7 DEF Broadcast
  <2>2. Lane(frame[d], send[d], Append(broadcast, m), cursor[d])
    BY <1>2, <1>3, <1>5, StateFacts, LaneBroadcast
  <2>. QED
    BY <1>1, <1>4, <1>5, <2>1, <2>2 DEF WayAndGreets, Way, Greets, StreamInv
<1>. QED
  BY <1>6, <1>7

\* So does Run when it takes a message of the channel.
LEMMA HubBroadcastWay ==
  ASSUME StreamInv, HubBroadcast, UNCHANGED serverVars, NEW d \in Clients
  PROVE  WayAndGreets(d)'
<1>1. /\ broadcast # <<>> /\ message' = Head(broadcast) /\ broadcast' = Tail(broadcast)
      /\ UNCHANGED <<frame, send, cursor, greeting>>
  BY DEF HubBroadcast, StartFanout, pumpVars, serverVars, viewVars
<1>2. Head(broadcast) \in Msgs /\ ~Head(broadcast).greet
  BY <1>1, StateFacts, TailAt DEF StreamInv, HubWay, HasGreeting
<1>3. Lane(frame[d], send[d], broadcast, cursor[d]) /\ Greets(d)
  BY DEF StreamInv, Way
<1>4. /\ Lane(frame[d], send[d], Tail(broadcast), cursor[d])
      /\ Newer(Head(broadcast), frame[d], send[d], cursor[d])
  BY <1>1, <1>2, <1>3, StateFacts, LaneFanout
<1>. QED
  BY <1>1, <1>3, <1>4 DEF WayAndGreets, Way, Greets

\* So does the fan-out to a client.
LEMMA FanSendWay ==
  ASSUME StreamInv, NEW c \in Clients, FanSend(c), UNCHANGED serverVars, NEW d \in Clients
  PROVE  WayAndGreets(d)'
<1>1. /\ hubPC = "fanout" /\ c \in fan /\ fan' = fan \ {c}
      /\ send' = [send EXCEPT ![c] = Append(send[c], message)]
      /\ UNCHANGED <<frame, broadcast, message, cursor, greeting>>
  BY DEF FanSend, pumpVars, serverVars, viewVars
<1>2. send \in [Clients -> Seq(Msgs)]
  BY DEF StreamInv, RegInv, TypeOK
<1>3. CASE d # c
  BY <1>1, <1>2, <1>3, WayKept
<1>4. CASE d = c
  <2>1. message \in Msgs /\ ~message.greet /\ After(message.snap, broadcast)
    BY <1>1, StateFacts DEF StreamInv, HubWay
  <2>2. /\ Lane(frame[c], send[c], broadcast, cursor[c])
        /\ Newer(message, frame[c], send[c], cursor[c]) /\ Greets(c)
    BY <1>1 DEF StreamInv, Way
  <2>3. Lane(frame[c], Append(send[c], message), broadcast, cursor[c])
    BY <2>1, <2>2, StateFacts, LaneSend
  <2>4. /\ HasGreeting(Append(send[c], message)) => HasGreeting(send[c])
        /\ GreetsFirst(Append(send[c], message))
    <3>1. GreetsFirst(send[c])
      BY <2>2 DEF Greets
    <3>. QED
      BY <2>1, <3>1, StateFacts, GreetingFacts, LastUpdateAppend
  <2>5. send'[c] = Append(send[c], message) /\ c \notin fan'
    BY <1>1, <1>2
  <2>. QED
    BY <1>1, <1>4, <2>2, <2>3, <2>4, <2>5 DEF WayAndGreets, Way, Greets
<1>. QED
  BY <1>3, <1>4

\* writePump moves the head of the channel to the frame
LEMMA ReceiveWay ==
  ASSUME StreamInv, NEW c \in Clients, WPRecv(c) \/ WPDrain(c), UNCHANGED serverVars,
         NEW d \in Clients
  PROVE  WayAndGreets(d)'
<1>1. /\ send[c] # <<>>
      /\ wp[c] = "select" \/ wp[c] = "draining"
      /\ \A x \in Clients \ {c} : frame'[x] = frame[x] /\ send'[x] = send[x]
      /\ frame'[c] = Append(frame[c], Head(send[c])) /\ send'[c] = Tail(send[c])
      /\ UNCHANGED <<fan, message, broadcast, cursor, greeting>>
  <2>1. /\ frame \in [Clients -> Seq(Msgs)] /\ send \in [Clients -> Seq(Msgs)]
        /\ UNCHANGED <<cursor, greeting>>
    BY DEF StreamInv, RegInv, TypeOK, serverVars, viewVars
  <2>2. CASE WPRecv(c)
    <3>1. wp[c] = "select" /\ frame[c] = <<>>
      BY <2>2 DEF WPRecv, StreamInv, Started
    <3>2. <<Head(send[c])>> = Append(frame[c], Head(send[c]))
      BY <3>1
    <3>. QED
      BY <2>1, <2>2, <3>1, <3>2 DEF WPRecv, hubVars
  <2>3. CASE WPDrain(c)
    BY <2>1, <2>3 DEF WPDrain, hubVars
  <2>. QED
    BY <2>2, <2>3
<1>2. CASE d # c
  BY <1>1, <1>2, WayKept
<1>3. CASE d = c
  <2> DEFINE f == frame[c]
             s == send[c]
             h == Head(send[c])
  <2>1. f \in Seq(Msgs) /\ s \in Seq(Msgs) /\ h \in Msgs /\ broadcast \in Seq(Msgs)
        /\ cursor[c] \in Int /\ (c \in fan => message \in Msgs)
    BY <1>1, StateFacts DEF StreamInv, RegInv, VisitsOnlyInFanout
  <2>2. Way(c) /\ Greets(c) /\ Lane(f, s, broadcast, cursor[c])
    BY DEF StreamInv, Way
  <2>3. /\ GreetsFirst(f) /\ GreetsFirst(s) /\ ~HasGreeting(Tail(s))
        /\ (h.greet => f = <<>> /\ HasGreeting(s))
    BY <1>1, <2>1, <2>2, GreetingFacts DEF Greets
  <2>4. /\ Lane(Append(f, h), Tail(s), broadcast, cursor[c])
        /\ \A m \in Msgs : Newer(m, f, s, cursor[c]) => Newer(m, Append(f, h), Tail(s), cursor[c])
    BY <1>1, <2>1, <2>2, <2>3, LaneMove
  <2>5. Way(c)'
    BY <1>1, <2>1, <2>2, <2>4 DEF Way
  <2>6. /\ GreetsFirst(Append(f, h)) /\ GreetsFirst(Tail(s))
        /\ HasGreeting(Append(f, h)) => HasGreeting(f) \/ HasGreeting(s)
    BY <1>1, <2>1, <2>3, TailAt, GreetingFacts, LastUpdateAppend
  <2>7. Greets(c)'
    BY <1>1, <2>2, <2>3, <2>6 DEF Greets
  <2>. QED
    BY <1>3, <2>5, <2>7 DEF WayAndGreets
<1>. QED
  BY <1>2, <1>3

\* So does writePump when it gives up, or finds its queue closed.
LEMMA ExitWay ==
  ASSUME StreamInv, NEW c \in Clients, WPFail(c) \/ WPClosed(c), UNCHANGED serverVars,
         NEW d \in Clients
  PROVE  WayAndGreets(d)'
<1>1. /\ frame' = [frame EXCEPT ![c] = <<>>]
      /\ UNCHANGED <<fan, message, broadcast, send, cursor, greeting>>
  BY DEF WPFail, WPClosed, WPExit, hubVars, serverVars, viewVars
<1>2. frame \in [Clients -> Seq(Msgs)]
  BY DEF StreamInv, RegInv, TypeOK
<1>3. CASE d # c
  BY <1>1, <1>2, <1>3, WayKept
<1>4. CASE d = c
  <2>1. Way(c) /\ Greets(c) /\ frame'[c] = <<>>
    BY <1>1, <1>2 DEF StreamInv
  <2>2. /\ Lane(<<>>, send[c], broadcast, cursor[c])
        /\ Newer(message, frame[c], send[c], cursor[c]) => Newer(message, <<>>, send[c], cursor[c])
    BY <2>1, LaneDrop DEF Way
  <2>3. Way(c)'
    BY <1>1, <2>1, <2>2 DEF Way
  <2>4. Greets(c)'
    BY <1>1, <2>1, EmptyFacts DEF Greets, HasGreeting
  <2>. QED
    BY <1>4, <2>3, <2>4 DEF WayAndGreets
<1>. QED
  BY <1>3, <1>4

\* So does a delivery.
LEMMA DeliverWay ==
  ASSUME StreamInv, NEW c \in Clients, Deliver(c), NEW d \in Clients
  PROVE  WayAndGreets(d)'
<1>1. /\ frame[c] # <<>> /\ GreetsFirst(frame[c]) /\ frame[c][1] \in Msgs
      /\ frame' = [frame EXCEPT ![c] = <<>>]
      /\ cursor' = [cursor EXCEPT ![c] = LastUpdate(frame[c], cursor[c])]
      /\ greeting' = IF frame[c][1].greet THEN [greeting EXCEPT ![c] = frame[c][1].snap]
                     ELSE greeting
      /\ UNCHANGED <<fan, message, broadcast, send>>
  BY DeliveryFacts DEF hubVars
<1>2. /\ frame \in [Clients -> Seq(Msgs)]
      /\ cursor \in [Clients -> 0..MaxPolls] /\ greeting \in [Clients -> 0..MaxPolls]
  BY TypeParts DEF StreamInv, TypeOK
<1>3. CASE d # c
  BY <1>1, <1>2, <1>3, WayKept
<1>4. CASE d = c
  <2>1. Way(c) /\ Greets(c) /\ frame'[c] = <<>> /\ cursor'[c] = LastUpdate(frame[c], cursor[c])
    BY <1>1, <1>2 DEF StreamInv
  <2>2. frame[c] \in Seq(Msgs) /\ send[c] \in Seq(Msgs) /\ broadcast \in Seq(Msgs)
        /\ cursor[c] \in Int /\ (c \in fan => message \in Msgs)
    BY StateFacts DEF StreamInv, RegInv, VisitsOnlyInFanout
  <2>3. /\ Lane(<<>>, send[c], broadcast, LastUpdate(frame[c], cursor[c]))
        /\ \A m \in Msgs : Newer(m, frame[c], send[c], cursor[c]) =>
              Newer(m, <<>>, send[c], LastUpdate(frame[c], cursor[c]))
    BY <1>1, <2>1, <2>2, LaneDeliver DEF Way
  <2>4. Way(c)'
    BY <1>1, <2>1, <2>2, <2>3 DEF Way
  <2>5. ~HasGreeting(send[c])
    BY <1>1, <2>1 DEF Greets
  <2>6. Greets(c)'
    BY <1>1, <2>1, <2>5, EmptyFacts DEF Greets, HasGreeting
  <2>. QED
    BY <1>4, <2>4, <2>6 DEF WayAndGreets
<1>. QED
  BY <1>3, <1>4

\* What an upgrade changes: at most the greeting is queued.
LEMMA UpgradeFacts ==
  ASSUME StreamInv, NEW c \in Clients, Upgrade(c)
  PROVE  /\ phase[c] = "absent" /\ wp[c] = "off" /\ frame[c] = <<>> /\ send[c] = <<>>
         /\ greeting[c] = 0 /\ cursor[c] = 0 /\ c \notin clients /\ c \notin fan
         /\ \/ send' = send
            \/ \E m \in Msgs : /\ m.greet /\ m.snap = initialPayload[c]
                              /\ send' = [send EXCEPT ![c] = <<m>>]
         /\ initialPayload[c] # Unread
         /\ UNCHANGED <<serverVars, broadcast, fan, message, frame, wp>>
         /\ phase'[c] \in {"registering", "accepted"}
         /\ \A d \in Clients \ {c} : phase'[d] = phase[d]
<1> DEFINE p == [snap |-> initialPayload[c], greet |-> TRUE]
<1>1. /\ initialPayload[c] # Unread /\ UNCHANGED serverVars
      /\ ServeWS(c, IF initialPayload[c] = 0 THEN NoMsg ELSE p)
  BY DEF Upgrade
<1>2. phase[c] = "absent" /\ UNCHANGED <<broadcast, fan, message, frame, wp>>
  BY <1>1 DEF ServeWS
<1>3. /\ wp[c] = "off" /\ frame[c] = <<>> /\ send[c] = <<>>
      /\ greeting[c] = 0 /\ cursor[c] = 0
  BY <1>2 DEF StreamInv, Started
<1>4. c \notin clients /\ c \notin fan
  BY <1>2 DEF StreamInv, RegInv, RegistryMatchesChannels
<1>5. /\ phase'[c] \in {"registering", "accepted"}
      /\ \A d \in Clients \ {c} : phase'[d] = phase[d]
  BY <1>1 DEF ServeWS, Enrol, StreamInv, RegInv, TypeOK
<1>6. CASE initialPayload[c] = 0
  BY <1>1, <1>2, <1>3, <1>4, <1>5, <1>6 DEF ServeWS
<1>7. CASE initialPayload[c] # 0
  <2>1. initialPayload[c] \in 1..MaxPolls
    BY <1>1, <1>7, StateFacts DEF Unread
  <2>2. p \in Msgs /\ p.greet /\ p.snap = initialPayload[c]
    BY <2>1, PollsAssumption
  <2>3. send' = [send EXCEPT ![c] = <<p>>]
    BY <1>1, <1>7, <2>2, NoMsgAssumption DEF ServeWS
  <2>. QED
    BY <1>1, <1>2, <1>3, <1>4, <1>5, <2>2, <2>3
<1>. QED
  BY <1>6, <1>7

\* An upgrade keeps each way in order.
LEMMA UpgradeWay ==
  ASSUME StreamInv, NEW c \in Clients, Upgrade(c), NEW d \in Clients
  PROVE  WayAndGreets(d)'
<1>1. /\ send[c] = <<>> /\ frame[c] = <<>> /\ greeting[c] = 0 /\ cursor[c] = 0 /\ c \notin fan
      /\ UNCHANGED <<broadcast, fan, message, frame, cursor, greeting>>
  BY UpgradeFacts DEF serverVars, viewVars
<1>2. CASE send' = send
  BY <1>1, <1>2, WayKept
<1>3. ASSUME NEW m \in Msgs, m.greet, send' = [send EXCEPT ![c] = <<m>>]
      PROVE  WayAndGreets(d)'
  <2>1. send \in [Clients -> Seq(Msgs)]
    BY DEF StreamInv, RegInv, TypeOK
  <2>2. CASE d # c
    BY <1>1, <1>3, <2>1, <2>2, WayKept
  <2>3. CASE d = c
    <3>1. send'[c] = <<m>>
      BY <1>3, <2>1
    <3>2. Lane(<<>>, <<m>>, broadcast, 0)
      BY <1>1, <1>3, StateFacts, LaneNew DEF StreamInv, Way
    <3>3. GreetsFirst(<<m>>) /\ GreetsFirst(<<>>) /\ ~HasGreeting(<<>>)
      BY DEF GreetsFirst, HasGreeting
    <3>. QED
      BY <1>1, <2>3, <3>1, <3>2, <3>3 DEF WayAndGreets, Way, Greets
  <2>. QED
    BY <2>2, <2>3
<1>. QED
  BY <1>2, <1>3, UpgradeFacts

\* Every step keeps the way of each client in order.
LEMMA NextWay ==
  ASSUME StreamInv, ServerNext, NEW d \in Clients
  PROVE  WayAndGreets(d)'
BY QuietSteps, QuietWay, PollBroadcastWay, HubBroadcastWay, FanSendWay, ReceiveWay, ExitWay,
   DeliverWay, UpgradeWay DEF Moving

-----------------------------------------------------------------------------
(* The hub's channel and the poll loop.                                    *)

\* Every step keeps the hub's channel in order.
LEMMA NextHubWay == StreamInv /\ ServerNext => HubWay'
<1> SUFFICES ASSUME StreamInv, ServerNext PROVE HubWay'
  OBVIOUS
<1>1. HubWay /\ broadcast \in Seq(Msgs)
  BY StateFacts DEF StreamInv
<1>2. CASE UNCHANGED <<broadcast, hubPC, message>>
  BY <1>1, <1>2 DEF HubWay
\* the hub leaves or enters no fan-out
<1>3. CASE /\ UNCHANGED broadcast
           /\ hubPC' # "fanout"
           /\ hubPC' = "parked" => hubPC = "parked" \/ broadcast = <<>>
  BY <1>1, <1>3 DEF HubWay
<1>4. CASE PollBroadcast
  <2> DEFINE m == [snap |-> polled, greet |-> FALSE]
  <2>1. Broadcast(m) /\ pollPC = "counted" /\ Newest = polled
    BY <1>4 DEF PollBroadcast, Newest, Polling
  <2>2. m \in Msgs /\ ~m.greet /\ m.snap = polled
    <3>1. polled \in 1..MaxPolls
      BY <2>1, StateFacts DEF StreamInv, Cache, Polling
    <3>. QED
      BY <3>1, PollsAssumption
  <2>3. Below(broadcast, m.snap)
    BY <2>1, <2>2 DEF StreamInv, HubRecent
  <2>4. CASE hubPC = "parked"
    <3>1. broadcast = <<>> /\ broadcast' = <<>> /\ message' = m /\ hubPC' = "fanout"
      BY <1>1, <2>1, <2>4 DEF Broadcast, StartFanout, HubWay
    <3>. QED
      BY <1>1, <2>2, <3>1, EmptyFacts DEF HubWay
  <2>5. CASE hubPC # "parked" /\ broadcast' = Append(broadcast, m)
    <3>1. UNCHANGED <<hubPC, message>>
      BY <2>1, <2>5 DEF Broadcast
    <3>2. Ordered(Append(broadcast, m)) /\ ~HasGreeting(Append(broadcast, m))
      BY <1>1, <2>2, <2>3, OrderedAppend, GreetingFacts DEF HubWay
    <3>3. hubPC = "fanout" => After(message.snap, Append(broadcast, m))
      <4>1. hubPC = "fanout" => message.snap < m.snap /\ After(message.snap, broadcast)
        BY <1>1, <2>1, <2>2 DEF StreamInv, HubRecent, HubWay
      <4>. QED
        BY <1>1, <2>2, <4>1, BoundsAppend
    <3>. QED
      BY <1>1, <2>5, <3>1, <3>2, <3>3 DEF HubWay
  <2>6. CASE hubPC # "parked" /\ broadcast' # Append(broadcast, m)
    BY <1>2, <2>1, <2>6 DEF Broadcast
  <2>. QED
    BY <2>4, <2>5, <2>6
<1>5. CASE HubBroadcast
  <2>1. /\ broadcast # <<>> /\ message' = Head(broadcast) /\ broadcast' = Tail(broadcast)
        /\ hubPC' = "fanout"
    BY <1>5 DEF HubBroadcast, StartFanout
  <2>2. /\ ~HasGreeting(broadcast) /\ GreetsFirst(broadcast)
        /\ ~Head(broadcast).greet /\ Ordered(broadcast)
    BY <1>1, <2>1, TailAt DEF HubWay, HasGreeting, GreetsFirst
  <2>3. /\ Ordered(Tail(broadcast)) /\ ~HasGreeting(Tail(broadcast))
        /\ After(Head(broadcast).snap, Tail(broadcast))
    BY <1>1, <2>1, <2>2, TailFacts, HeadFacts, GreetingFacts, TailAt DEF HasGreeting
  <2>. QED
    BY <2>1, <2>2, <2>3 DEF HubWay
<1>6. CASE PollCollect \/ PollStore \/ PollCount \/ PollEnd \/ Shutdown
  BY <1>2, <1>6 DEF PollCollect, PollStore, PollCount, PollEnd, Shutdown, vars
<1>7. ASSUME NEW c \in Clients, HandleWS(c) \/ Deliver(c) PROVE HubWay'
  BY <1>2, <1>7 DEF HandleWS, Deliver, WPFlush, vars, hubVars
<1>8. ASSUME NEW c \in Clients, Upgrade(c) PROVE HubWay'
  <2>1. UNCHANGED <<broadcast, message>> /\ (hubPC' = hubPC \/ hubPC' = "select")
    BY <1>8 DEF Upgrade, ServeWS
  <2>. QED
    BY <1>2, <1>3, <2>1
<1>9. CASE HubOrClient
  <2>1. CASE HubPark \/ HubDone \/ HubStopped \/ FanEnd \/ Cancel
    BY <1>2, <1>3, <2>1 DEF HubPark, HubDone, HubStopped, FanEnd, Cancel
  <2>2. ASSUME NEW c \in Clients,
               \/ HubRegister(c) \/ HubStop(c) \/ FanSend(c) \/ FanEvict(c)
               \/ StartPumps(c) \/ PeerGone(c) \/ Moving(c) \/ WPMeasure(c)
        PROVE  HubWay'
    BY <1>2, <2>2 DEF HubRegister, HubStop, FanSend, FanEvict, StartPumps, PeerGone, Moving,
                      WPRecv, WPMeasure, WPDrain, WPFail, WPClosed, WPExit, hubVars
  <2>3. ASSUME NEW c \in Clients, ReadPump(c) PROVE HubWay'
    BY <1>2, <1>3, <2>3 DEF ReadPump, RPError, RPUnregister, RPClose, hubVars
  <2>. QED
    BY <1>5, <1>9, <2>1, <2>2, <2>3 DEF HubOrClient, HubNext, Moving
<1>. QED
  BY <1>4, <1>6, <1>7, <1>8, <1>9 DEF ServerNext

\* Every step keeps the snapshot cache, which only gets newer.
LEMMA NextCache ==
  ASSUME StreamInv, ServerNext
  PROVE  Cache' /\ Newest <= Newest' /\ latestSnapshotBytes <= latestSnapshotBytes'
         /\ Newest' \in Nat
<1>1. /\ Cache /\ polled \in Nat /\ latestSnapshotBytes \in Nat
      /\ pollPC \in {"idle", "collected", "stored", "counted", "ended"}
      /\ marshalled \in BOOLEAN
  BY StateFacts, TypeParts DEF StreamInv
<1>2. CASE PollCollect
  <2>1. /\ polled' = polled + 1 /\ pollPC = "idle" /\ pollPC' = "collected"
        /\ latestSnapshotBytes' = latestSnapshotBytes
    BY <1>2 DEF PollCollect
  <2>. QED
    BY <1>1, <2>1 DEF Cache, Newest, Polling
<1>3. CASE PollStore
  <2>1. /\ polled' = polled /\ pollPC = "collected" /\ pollPC' = "stored"
        /\ marshalled' = marshalled
        /\ latestSnapshotBytes' = IF marshalled THEN polled ELSE latestSnapshotBytes
    BY <1>3 DEF PollStore
  <2>. QED
    BY <1>1, <2>1 DEF Cache, Newest, Polling
<1>4. CASE PollCount \/ PollBroadcast \/ PollEnd
  <2>1. /\ polled' = polled /\ marshalled' = marshalled
        /\ latestSnapshotBytes' = latestSnapshotBytes
        /\ \/ pollPC = "stored" /\ pollPC' = "counted" /\ marshalled
           \/ pollPC \in {"stored", "counted"} /\ pollPC' = "idle"
           \/ pollPC = "idle" /\ pollPC' = "ended"
    BY <1>4 DEF PollCount, PollBroadcast, PollEnd
  <2>. QED
    BY <1>1, <2>1 DEF Cache, Newest, Polling
<1>5. CASE UNCHANGED pollVars
  <2>1. /\ polled' = polled /\ marshalled' = marshalled /\ pollPC' = pollPC
        /\ latestSnapshotBytes' = latestSnapshotBytes
    BY <1>5 DEF pollVars
  <2>. QED
    BY <1>1, <2>1 DEF Cache, Newest, Polling
<1>6. PollCollect \/ PollStore \/ PollCount \/ PollBroadcast \/ PollEnd \/ UNCHANGED pollVars
  BY DEF ServerNext, Shutdown, HandleWS, Upgrade, Deliver, serverVars
<1>. QED
  BY <1>2, <1>3, <1>4, <1>5, <1>6

\* bounds that only grow
LEMMA BoundsGrow ==
  ASSUME NEW s \in Seq(Msgs), NEW n \in Int, NEW n2 \in Int, n <= n2,
         NEW k \in Int, NEW k2 \in Int, k <= k2
  PROVE  /\ Below(s, n) => Below(s, n2)
         /\ AtMost(s, k) => AtMost(s, k2)
         /\ \A x \in Int : (x < n => x < n2) /\ (x <= k => x <= k2)
<1>1. ASSUME NEW i \in DOMAIN s PROVE s[i].snap \in Int
  <2>1. s[i] \in Msgs
    OBVIOUS
  <2>. QED
    BY <2>1, MsgFacts
<1>. QED
  BY <1>1 DEF Below, AtMost

\* Bounds by the newest snapshot stay as it gets newer.
LEMMA NextBounds ==
  ASSUME StreamInv, ServerNext
  PROVE  /\ \A s \in Seq(Msgs) : /\ Below(s, Newest) => Below(s, Newest')
                                 /\ AtMost(s, latestSnapshotBytes) => AtMost(s, latestSnapshotBytes')
         /\ \A x \in Int : /\ x < Newest => x < Newest'
                           /\ x <= latestSnapshotBytes => x <= latestSnapshotBytes'
<1>1. /\ Newest \in Int /\ Newest' \in Int /\ Newest <= Newest'
      /\ latestSnapshotBytes \in Int /\ latestSnapshotBytes' \in Int
      /\ latestSnapshotBytes <= latestSnapshotBytes'
  <2>1. latestSnapshotBytes' \in 0..MaxPolls
    BY ServerNextTypeOK DEF ServerTypeOK
  <2>. QED
    BY <2>1, StateFacts, NextCache
<1>2. PICK n2 \in Int : n2 = Newest'
  BY <1>1
<1>3. PICK k2 \in Int : k2 = latestSnapshotBytes'
  BY <1>1
<1>4. <<>> \in Seq(Msgs)
  OBVIOUS
<1>. QED
  BY <1>1, <1>2, <1>3, <1>4, BoundsGrow

\* Every step keeps what is in the hub within the newest snapshot.
LEMMA NextHubRecent == StreamInv /\ ServerNext => HubRecent'
<1> SUFFICES ASSUME StreamInv, ServerNext PROVE HubRecent'
  OBVIOUS
<1>1. /\ Below(broadcast, Newest) /\ AtMost(broadcast, latestSnapshotBytes)
      /\ broadcast \in Seq(Msgs)
      /\ hubPC = "fanout" => /\ message \in Msgs /\ message.snap < Newest
                             /\ message.snap <= latestSnapshotBytes
  BY StateFacts DEF StreamInv, HubRecent
<1>2. /\ Below(broadcast, Newest') /\ AtMost(broadcast, latestSnapshotBytes')
      /\ hubPC = "fanout" => /\ message.snap < Newest' /\ message.snap <= latestSnapshotBytes'
  BY <1>1, NextBounds, MsgFacts
<1>3. CASE UNCHANGED broadcast /\ (hubPC' = "fanout" => hubPC = "fanout" /\ message' = message)
  BY <1>2, <1>3 DEF HubRecent
<1>4. CASE PollBroadcast
  <2> DEFINE m == [snap |-> polled, greet |-> FALSE]
  <2>1. /\ Broadcast(m) /\ pollPC = "counted" /\ pollPC' = "idle" /\ polled' = polled
        /\ latestSnapshotBytes' = latestSnapshotBytes
    BY <1>4 DEF PollBroadcast
  <2>2. polled \in 1..MaxPolls /\ polled \in Nat /\ latestSnapshotBytes = polled
    BY <2>1, StateFacts DEF StreamInv, Cache, Polling
  <2>3. Newest' = polled + 1
    BY <2>1 DEF Newest, Polling
  <2>4. m \in Msgs /\ m.snap < Newest' /\ m.snap <= latestSnapshotBytes'
    BY <2>1, <2>2, <2>3, PollsAssumption
  <2>5. CASE hubPC = "parked"
    BY <1>2, <2>1, <2>4, <2>5 DEF Broadcast, StartFanout, HubRecent
  <2>6. CASE hubPC # "parked"
    <3>1. Below(Append(broadcast, m), Newest') /\ AtMost(Append(broadcast, m), latestSnapshotBytes')
      BY <1>1, <1>2, <2>4, BoundsAppend
    <3>2. /\ UNCHANGED <<hubPC, message>>
          /\ broadcast' = broadcast \/ broadcast' = Append(broadcast, m)
      BY <2>1, <2>6 DEF Broadcast
    <3>. QED
      BY <1>2, <3>1, <3>2 DEF HubRecent
  <2>. QED
    BY <2>5, <2>6
<1>5. CASE HubBroadcast
  <2>1. broadcast # <<>> /\ message' = Head(broadcast) /\ broadcast' = Tail(broadcast)
    BY <1>5 DEF HubBroadcast, StartFanout
  <2>2. Head(broadcast) \in Msgs /\ ~Head(broadcast).greet
    BY <1>1, <2>1, TailAt DEF StreamInv, HubWay, HasGreeting
  <2>3. /\ Below(Tail(broadcast), Newest') /\ AtMost(Tail(broadcast), latestSnapshotBytes')
        /\ Head(broadcast).snap < Newest' /\ Head(broadcast).snap <= latestSnapshotBytes'
    BY <1>1, <1>2, <2>1, <2>2, TailFacts, HeadFacts
  <2>. QED
    BY <2>1, <2>3 DEF HubRecent
<1>6. CASE PollCollect \/ PollStore \/ PollCount \/ PollEnd \/ Shutdown
  BY <1>3, <1>6 DEF PollCollect, PollStore, PollCount, PollEnd, Shutdown, vars
<1>7. ASSUME NEW c \in Clients, HandleWS(c) \/ Deliver(c) PROVE HubRecent'
  BY <1>3, <1>7 DEF HandleWS, Deliver, WPFlush, vars, hubVars
<1>8. ASSUME NEW c \in Clients, Upgrade(c) PROVE HubRecent'
  <2>1. UNCHANGED <<broadcast, message>> /\ (hubPC' = hubPC \/ hubPC' = "select")
    BY <1>8 DEF Upgrade, ServeWS
  <2>. QED
    BY <1>3, <2>1
<1>9. CASE HubOrClient
  <2>1. CASE HubPark \/ HubDone \/ HubStopped \/ FanEnd \/ Cancel
    BY <1>3, <2>1 DEF HubPark, HubDone, HubStopped, FanEnd, Cancel
  <2>2. ASSUME NEW c \in Clients,
               \/ HubRegister(c) \/ HubStop(c) \/ FanSend(c) \/ FanEvict(c)
               \/ StartPumps(c) \/ PeerGone(c) \/ Moving(c) \/ WPMeasure(c)
        PROVE  HubRecent'
    BY <1>3, <2>2 DEF HubRegister, HubStop, FanSend, FanEvict, StartPumps, PeerGone, Moving,
                      WPRecv, WPMeasure, WPDrain, WPFail, WPClosed, WPExit, hubVars
  <2>3. ASSUME NEW c \in Clients, ReadPump(c) PROVE HubRecent'
    BY <1>3, <2>3 DEF ReadPump, RPError, RPUnregister, RPClose, hubVars
  <2>. QED
    BY <1>5, <1>9, <2>1, <2>2, <2>3 DEF HubOrClient, HubNext, Moving
<1>. QED
  BY <1>4, <1>6, <1>7, <1>8, <1>9 DEF ServerNext

-----------------------------------------------------------------------------
(* Where each connection stands.                                           *)

\* only Upgrade, the start of the pumps and a delivery touch what Started says,
\* apart from what moves
LEMMA NextStarted ==
  ASSUME StreamInv, ServerNext, NEW d \in Clients
  PROVE  Started(d)'
<1>1. /\ Started(d) /\ phase \in [Clients -> Phases] /\ wp \in [Clients -> WriteStates]
      /\ frame \in [Clients -> Seq(Msgs)] /\ send \in [Clients -> Seq(Msgs)]
      /\ greeting \in [Clients -> 0..MaxPolls] /\ cursor \in [Clients -> 0..MaxPolls]
  BY TypeParts DEF StreamInv, TypeOK
<1>2. CASE /\ phase'[d] = phase[d] /\ wp'[d] = wp[d] /\ frame'[d] = frame[d]
           /\ send'[d] = send[d] /\ greeting'[d] = greeting[d] /\ cursor'[d] = cursor[d]
  BY <1>1, <1>2 DEF Started
<1>3. CASE PollCollect \/ PollStore \/ PollCount \/ PollBroadcast \/ PollEnd \/ Shutdown
  BY <1>2, <1>3 DEF PollCollect, PollStore, PollCount, PollBroadcast, PollEnd, Shutdown, vars,
                    viewVars, Broadcast, serveVars, pumpVars
<1>4. ASSUME NEW c \in Clients, HandleWS(c) PROVE Started(d)'
  BY <1>2, <1>4 DEF HandleWS, vars, viewVars
<1>5. ASSUME NEW c \in Clients, Upgrade(c) PROVE Started(d)'
  <2>1. UNCHANGED <<wp, frame, greeting, cursor>>
    BY <1>5, UpgradeFacts DEF serverVars, viewVars
  <2>2. CASE d # c
    BY <1>1, <1>2, <1>5, <2>1, <2>2, UpgradeFacts
  <2>3. CASE d = c
    <3>1. phase'[c] \in {"registering", "accepted"} /\ wp[c] = "off" /\ frame[c] = <<>>
      BY <1>5, UpgradeFacts
    <3>2. \A i \in DOMAIN send'[c] : send'[c][i].greet
      <4>1. CASE send' = send
        BY <1>1, <1>5, <4>1, UpgradeFacts DEF Started
      <4>2. ASSUME NEW m \in Msgs, m.greet, send' = [send EXCEPT ![c] = <<m>>]
            PROVE  \A i \in DOMAIN send'[c] : send'[c][i].greet
        BY <1>1, <4>2
      <4>. QED
        BY <1>5, <4>1, <4>2, UpgradeFacts
    <3>. QED
      BY <1>1, <2>1, <2>3, <3>1, <3>2 DEF Started
  <2>. QED
    BY <2>2, <2>3
<1>6. ASSUME NEW c \in Clients, Deliver(c) PROVE Started(d)'
  <2>1. /\ wp[c] = "draining" /\ wp' = [wp EXCEPT ![c] = "select"]
        /\ frame' = [frame EXCEPT ![c] = <<>>] /\ UNCHANGED <<phase, send>>
        /\ greeting' = IF frame[c][1].greet THEN [greeting EXCEPT ![c] = frame[c][1].snap]
                       ELSE greeting
        /\ cursor' = [cursor EXCEPT ![c] = LastUpdate(frame[c], cursor[c])]
    BY <1>6, DeliveryFacts
  <2>. QED
    BY <1>1, <1>2, <2>1 DEF Started
<1>7. CASE HubOrClient /\ UNCHANGED serverVars
  <2>1. UNCHANGED <<greeting, cursor>>
    BY <1>7 DEF serverVars, viewVars
  <2>2. CASE HubPark \/ HubDone \/ HubStopped \/ HubBroadcast \/ FanEnd \/ Cancel
    BY <1>2, <2>1, <2>2 DEF HubPark, HubDone, HubStopped, HubBroadcast, FanEnd, Cancel,
                            serveVars, pumpVars
  <2>3. ASSUME NEW c \in Clients,
               HubStop(c) \/ FanEvict(c) \/ ReadPump(c) \/ PeerGone(c)
        PROVE  Started(d)'
    BY <1>2, <2>1, <2>3 DEF HubStop, FanEvict, ReadPump, RPError, RPUnregister, RPClose,
                            PeerGone, serveVars, pumpVars
  <2>4. ASSUME NEW c \in Clients, HubRegister(c) PROVE Started(d)'
    BY <1>1, <1>2, <2>1, <2>4 DEF HubRegister, Enrol, pumpVars, Started
  <2>5. ASSUME NEW c \in Clients, StartPumps(c) PROVE Started(d)'
    BY <1>1, <1>2, <2>1, <2>5 DEF StartPumps, pumpVars, Started
  <2>6. ASSUME NEW c \in Clients, WPMeasure(c) PROVE Started(d)'
    BY <1>1, <1>2, <2>1, <2>6 DEF WPMeasure, Started
  <2>7. ASSUME NEW c \in Clients, WPFail(c) \/ WPClosed(c) PROVE Started(d)'
    BY <1>1, <1>2, <2>1, <2>7 DEF WPFail, WPClosed, WPExit, Started
  <2>8. ASSUME NEW c \in Clients, WPRecv(c) \/ WPDrain(c) PROVE Started(d)'
    <3>1. /\ wp[c] \in {"select", "draining"} /\ wp'[c] \in {"writing", "draining"}
          /\ frame'[c] # <<>>
          /\ \A x \in Clients \ {c} : /\ wp'[x] = wp[x] /\ frame'[x] = frame[x]
                                      /\ send'[x] = send[x]
          /\ UNCHANGED phase
      <4>1. CASE WPRecv(c)
        BY <1>1, <4>1 DEF WPRecv
      <4>2. CASE WPDrain(c)
        <5>1. Append(frame[c], Head(send[c])) # <<>>
          BY <1>1, <4>2 DEF WPDrain
        <5>. QED
          BY <1>1, <4>2, <5>1 DEF WPDrain
      <4>. QED
        BY <2>8, <4>1, <4>2
    <3>. QED
      BY <1>1, <1>2, <2>1, <3>1 DEF Started
  <2>9. ASSUME NEW c \in Clients, FanSend(c) PROVE Started(d)'
    <3>1. /\ phase[c] \in {"accepted", "running"}
          /\ \A x \in Clients \ {c} : send'[x] = send[x]
          /\ UNCHANGED <<phase, wp, frame>>
      BY <2>9 DEF FanSend, serveVars, pumpVars, StreamInv, RegInv, RegistryMatchesChannels
    <3>. QED
      BY <1>1, <1>2, <2>1, <3>1 DEF Started
  <2>. QED
    BY <1>7, <2>2, <2>3, <2>4, <2>5, <2>6, <2>7, <2>8, <2>9 DEF HubOrClient, HubNext
<1>. QED
  BY <1>3, <1>4, <1>5, <1>6, <1>7 DEF ServerNext

\* what is new on a connection's way is bounded like what was there
LEMMA NextRecent ==
  ASSUME StreamInv, ServerNext, NEW d \in Clients
  PROVE  Recent(d)'
<1> DEFINE L == latestSnapshotBytes
<1>1. /\ Bounded(frame[d], send[d], cursor[d], greeting[d], Newest, L)
      /\ initialPayload[d] <= L \/ initialPayload[d] = Unread
  BY DEF StreamInv, Recent
<1>2. /\ frame[d] \in Seq(Msgs) /\ send[d] \in Seq(Msgs) /\ cursor[d] \in Int
      /\ greeting[d] \in Int /\ initialPayload[d] \in Int /\ L \in Int /\ Newest \in Int
  <2>1. initialPayload[d] \in 0..Unread
    BY StateFacts
  <2>. QED
    BY <2>1, StateFacts
<1>3. Bounded(frame[d], send[d], cursor[d], greeting[d], Newest', L')
  BY <1>1, <1>2, NextBounds DEF Bounded
<1>4. initialPayload'[d] <= L' \/ initialPayload'[d] = Unread
  <2>1. initialPayload[d] <= L' \/ initialPayload[d] = Unread
    BY <1>1, <1>2, NextBounds
  <2>2. ASSUME NEW c \in Clients, HandleWS(c)
        PROVE  initialPayload'[d] <= L' \/ initialPayload'[d] = Unread
    <3>1. /\ initialPayload' = [initialPayload EXCEPT ![c] = L] /\ L' = L
          /\ initialPayload \in [Clients -> 0..Unread]
      BY <2>2, TypeParts DEF HandleWS, pollVars, StreamInv
    <3>2. CASE d = c
      BY <1>2, <3>1, <3>2
    <3>3. CASE d # c
      BY <2>1, <3>1, <3>3
    <3>. QED
      BY <3>2, <3>3
  <2>3. (\E c \in Clients : HandleWS(c)) \/ UNCHANGED initialPayload
    BY DEF ServerNext, PollCollect, PollStore, PollCount, PollBroadcast, PollEnd, Shutdown,
           Upgrade, Deliver, serverVars
  <2>. QED
    BY <2>1, <2>2, <2>3
<1> DEFINE Kept == /\ frame'[d] = frame[d] /\ send'[d] = send[d]
                   /\ greeting'[d] = greeting[d] /\ cursor'[d] = cursor[d]
<1>5. CASE Kept
  BY <1>3, <1>4, <1>5 DEF Recent
<1>6. /\ frame \in [Clients -> Seq(Msgs)] /\ send \in [Clients -> Seq(Msgs)]
      /\ greeting \in [Clients -> 0..MaxPolls] /\ cursor \in [Clients -> 0..MaxPolls]
  BY TypeParts DEF StreamInv, TypeOK
<1>7. CASE Quiet
  BY <1>5, <1>7 DEF Quiet
<1>8. CASE PollBroadcast \/ (HubBroadcast /\ UNCHANGED serverVars)
  BY <1>5, <1>8 DEF PollBroadcast, HubBroadcast, Broadcast, pumpVars, serverVars, viewVars
<1>9. ASSUME NEW c \in Clients, Upgrade(c) PROVE Recent(d)'
  <2>1. UNCHANGED <<frame, greeting, cursor>> /\ UNCHANGED initialPayload
    BY <1>9, UpgradeFacts DEF serverVars, viewVars
  <2>2. CASE send' = send
    BY <1>5, <2>1, <2>2
  <2>3. ASSUME NEW m \in Msgs, m.greet, m.snap = initialPayload[c],
               send' = [send EXCEPT ![c] = <<m>>]
        PROVE  Recent(d)'
    <3>1. CASE d # c
      BY <1>5, <1>6, <2>1, <2>3, <3>1
    <3>2. CASE d = c
      <4>1. initialPayload'[c] # Unread /\ initialPayload[c] = initialPayload'[c]
        BY <1>9, <2>1, UpgradeFacts
      <4>2. m.snap <= L'
        BY <1>4, <2>3, <3>2, <4>1
      <4>3. Below(<<m>>, Newest') /\ AtMost(<<m>>, L')
        BY <2>3, <4>2 DEF Below, AtMost
      <4>4. send'[d] = <<m>>
        BY <1>6, <2>3, <3>2
      <4>. QED
        BY <1>3, <1>4, <2>1, <4>3, <4>4 DEF Recent, Bounded
    <3>. QED
      BY <3>1, <3>2
  <2>. QED
    BY <1>9, <2>2, <2>3, UpgradeFacts
<1>10. ASSUME NEW c \in Clients, Deliver(c) PROVE Recent(d)'
  <2>1. /\ GreetsFirst(frame[c]) /\ frame[c] # <<>>
        /\ frame' = [frame EXCEPT ![c] = <<>>] /\ UNCHANGED send
        /\ greeting' = IF frame[c][1].greet THEN [greeting EXCEPT ![c] = frame[c][1].snap]
                       ELSE greeting
        /\ cursor' = [cursor EXCEPT ![c] = LastUpdate(frame[c], cursor[c])]
    BY <1>10, DeliveryFacts
  <2>2. CASE d # c
    BY <1>5, <1>6, <2>1, <2>2
  <2>3. CASE d = c
    <3>1. LastUpdate(frame[d], cursor[d]) < Newest'
      <4>1. Newest' \in Int
        BY NextCache
      <4>2. PICK n \in Int : n = Newest'
        BY <4>1
      <4>3. cursor[d] < n /\ Below(frame[d], n)
        BY <1>3, <4>2 DEF Bounded
      <4>4. LastUpdate(frame[d], cursor[d]) < n
        BY <1>2, <2>1, <2>3, <4>3, LastUpdateBounds
      <4>. QED
        BY <4>2, <4>4
    <3>2. frame[d][1].snap <= L'
      BY <1>2, <1>3, <2>1, <2>3 DEF Bounded, AtMost
    <3>3. /\ frame'[d] = <<>> /\ cursor'[d] = LastUpdate(frame[d], cursor[d])
          /\ greeting'[d] = greeting[d] \/ greeting'[d] = frame[d][1].snap
      BY <1>6, <2>1, <2>3
    <3>. QED
      BY <1>3, <1>4, <2>1, <3>1, <3>2, <3>3, EmptyFacts DEF Recent, Bounded
  <2>. QED
    BY <2>2, <2>3
<1>11. ASSUME NEW c \in Clients, Moving(c), UNCHANGED serverVars PROVE Recent(d)'
  <2>1. UNCHANGED <<greeting, cursor>>
    BY <1>11 DEF serverVars, viewVars
  <2>2. CASE FanSend(c)
    <3>1. /\ hubPC = "fanout" /\ send' = [send EXCEPT ![c] = Append(send[c], message)]
          /\ UNCHANGED <<frame, hubPC, message>>
      BY <2>2 DEF FanSend, pumpVars
    <3>2. message \in Msgs /\ message.snap < Newest' /\ message.snap <= L'
      BY <3>1, StateFacts, NextHubRecent DEF HubRecent
    <3>3. Below(Append(send[d], message), Newest') /\ AtMost(Append(send[d], message), L')
      BY <1>2, <1>3, <3>2, BoundsAppend DEF Bounded
    <3>4. send'[d] = send[d] \/ send'[d] = Append(send[d], message)
      BY <1>6, <3>1
    <3>. QED
      BY <1>3, <1>4, <2>1, <3>1, <3>3, <3>4 DEF Recent, Bounded
  <2>3. CASE WPFail(c) \/ WPClosed(c)
    <3>1. frame' = [frame EXCEPT ![c] = <<>>] /\ UNCHANGED send
      BY <2>3 DEF WPFail, WPClosed, WPExit
    <3>2. frame'[d] = frame[d] \/ frame'[d] = <<>>
      BY <1>6, <3>1
    <3>. QED
      BY <1>3, <1>4, <2>1, <3>1, <3>2, EmptyFacts DEF Recent, Bounded
  <2>4. CASE WPRecv(c) \/ WPDrain(c)
    <3>1. /\ send[c] # <<>> /\ send' = [send EXCEPT ![c] = Tail(send[c])]
          /\ \/ frame' = [frame EXCEPT ![c] = Append(frame[c], Head(send[c]))]
             \/ frame' = [frame EXCEPT ![c] = Append(<<>>, Head(send[c]))]
      BY <2>4 DEF WPRecv, WPDrain
    <3>2. CASE d # c
      BY <1>5, <1>6, <2>1, <3>1, <3>2
    <3>3. CASE d = c
      <4>1. Head(send[d]) \in Msgs /\ <<>> \in Seq(Msgs)
        BY <1>2, <3>1, <3>3
      <4>2. /\ Below(Tail(send[d]), Newest') /\ AtMost(Tail(send[d]), L')
            /\ (~Head(send[d]).greet => Head(send[d]).snap < Newest')
            /\ Head(send[d]).snap <= L'
        BY <1>2, <1>3, <3>1, <3>3, TailFacts, HeadFacts DEF Bounded
      <4>3. /\ Below(Append(frame[d], Head(send[d])), Newest')
            /\ Below(Append(<<>>, Head(send[d])), Newest')
            /\ AtMost(Append(frame[d], Head(send[d])), L')
            /\ AtMost(Append(<<>>, Head(send[d])), L')
        BY <1>2, <1>3, <4>1, <4>2, BoundsAppend, EmptyFacts DEF Bounded
      <4>4. /\ send'[d] = Tail(send[d])
            /\ \/ frame'[d] = Append(frame[d], Head(send[d]))
               \/ frame'[d] = Append(<<>>, Head(send[d]))
        BY <1>6, <3>1, <3>3
      <4>. QED
        BY <1>3, <1>4, <2>1, <4>2, <4>3, <4>4 DEF Recent, Bounded
    <3>. QED
      BY <3>2, <3>3
  <2>. QED
    BY <1>11, <2>2, <2>3, <2>4 DEF Moving
<1>. QED
  BY <1>7, <1>8, <1>9, <1>10, <1>11, QuietSteps

\* The invariant is inductive.
LEMMA NextStream == StreamInv /\ [ServerNext]_allVars => StreamInv'
<1>1. ASSUME StreamInv, ServerNext PROVE StreamInv'
  <2>1. ServerTypeOK'
    BY <1>1, ServerNextTypeOK
  <2>2. RegInv'
    BY <1>1, ServerIsHub, NextRegInv DEF StreamInv
  <2>3. HubWay' /\ Cache' /\ HubRecent'
    BY <1>1, NextHubWay, NextCache, NextHubRecent
  <2>4. ASSUME NEW d \in Clients
        PROVE  Way(d)' /\ Greets(d)' /\ Started(d)' /\ Recent(d)'
    BY <1>1, NextWay, NextStarted, NextRecent DEF WayAndGreets
  <2>. QED
    BY <2>1, <2>2, <2>3, <2>4 DEF StreamInv
<1>2. ASSUME StreamInv, UNCHANGED allVars PROVE StreamInv'
  <2>1. /\ UNCHANGED <<clients, clientCount, broadcast, hubPC, fan, message, ctxDone, phase,
                       send, sendClosed, connOpen, gone, rp, wp, frame, drain>>
        /\ UNCHANGED <<polled, pollPC, marshalled, latestSnapshot, latestSnapshotBytes>>
        /\ UNCHANGED <<listening, initialPayload, greeting, cursor, view>>
    BY <1>2 DEF allVars, vars, serverVars, pollVars, viewVars
  <2>2. RegInv'
    BY <1>2, <2>1, NextRegInv DEF StreamInv, vars
  <2>3. ServerTypeOK'
    BY <1>2, <2>1, <2>2 DEF StreamInv, ServerTypeOK, RegInv
  <2>4. HubWay' /\ Cache' /\ HubRecent'
    BY <1>2, <2>1 DEF StreamInv, HubWay, Cache, HubRecent, Newest, Polling
  <2>5. ASSUME NEW d \in Clients
        PROVE  Way(d)' /\ Greets(d)' /\ Started(d)' /\ Recent(d)'
    BY <1>2, <2>1 DEF StreamInv, Way, Greets, Started, Recent, Newest, Polling
  <2>. QED
    BY <2>2, <2>3, <2>4, <2>5 DEF StreamInv
<1>. QED
  BY <1>1, <1>2

-----------------------------------------------------------------------------
(* From the pieces of a connection's way to the whole of it.               *)

\* Where the elements of two sequences stand in their concatenation.
LEMMA ConcatAt ==
  ASSUME NEW s \in Seq(Msgs), NEW t \in Seq(Msgs)
  PROVE  /\ s \o t \in Seq(Msgs)
         /\ \A i \in DOMAIN (s \o t) :
               /\ i \in Int
               /\ \/ i \in DOMAIN s /\ (s \o t)[i] = s[i]
                  \/ i > Len(s) /\ i - Len(s) \in DOMAIN t /\ (s \o t)[i] = t[i - Len(s)]
         /\ \A i \in DOMAIN s : i <= Len(s)
OBVIOUS

\* Two sequences in order, one before the other, are one in order.
LEMMA ConcatOrdered ==
  ASSUME NEW s \in Seq(Msgs), NEW t \in Seq(Msgs), Ordered(s), Ordered(t), Before(s, t)
  PROVE  Ordered(s \o t)
<1> SUFFICES ASSUME NEW i \in DOMAIN (s \o t), NEW j \in DOMAIN (s \o t), i < j,
                    ~(s \o t)[i].greet, ~(s \o t)[j].greet
             PROVE  (s \o t)[i].snap < (s \o t)[j].snap
  BY DEF Ordered
<1>1. CASE i \in DOMAIN s /\ (s \o t)[i] = s[i]
  <2>1. CASE j \in DOMAIN s /\ (s \o t)[j] = s[j]
    BY <1>1, <2>1 DEF Ordered
  <2>2. CASE j - Len(s) \in DOMAIN t /\ (s \o t)[j] = t[j - Len(s)]
    BY <1>1, <2>2 DEF Before
  <2>. QED
    BY <2>1, <2>2, ConcatAt
<1>2. CASE i > Len(s) /\ i - Len(s) \in DOMAIN t /\ (s \o t)[i] = t[i - Len(s)]
  <2>1. i \in Int /\ j \in Int /\ Len(s) \in Int
    BY ConcatAt
  <2>2. j - Len(s) \in DOMAIN t /\ (s \o t)[j] = t[j - Len(s)] /\ i - Len(s) < j - Len(s)
    BY <1>2, <2>1, ConcatAt
  <2>. QED
    BY <1>2, <2>2 DEF Ordered
<1>. QED
  BY <1>1, <1>2, ConcatAt

\* A concatenation has the bounds that both its parts have.
LEMMA ConcatFacts ==
  ASSUME NEW s \in Seq(Msgs), NEW t \in Seq(Msgs), NEW u \in Seq(Msgs), NEW n
  PROVE  /\ Before(s, u) /\ Before(t, u) => Before(s \o t, u)
         /\ Before(u, s) /\ Before(u, t) => Before(u, s \o t)
         /\ After(n, s) /\ After(n, t) => After(n, s \o t)
         /\ AtMost(s, n) /\ AtMost(t, n) => AtMost(s \o t, n)
BY ConcatAt DEF Before, After, AtMost

\* A single message is in order.
LEMMA Singleton ==
  ASSUME NEW m \in Msgs, NEW s \in Seq(Msgs), NEW n
  PROVE  /\ <<m>> \in Seq(Msgs) /\ Ordered(<<m>>)
         /\ Below(s, m.snap) => Before(s, <<m>>)
         /\ After(m.snap, s) => Before(<<m>>, s)
         /\ n < m.snap => After(n, <<m>>)
         /\ m.snap <= n => AtMost(<<m>>, n)
BY DEF Ordered, Before, Below, After, AtMost

\* All that is coming to a client is in order, and newer than what its dashboard
\* shows.
LEMMA WholeWay ==
  ASSUME StreamInv, NEW c \in Clients
  PROVE  LET coming == Queued(c) \o InHub(c)
         IN  /\ coming \in Seq(Msgs) /\ Ordered(coming) /\ After(cursor[c], coming)
             /\ AtMost(coming, latestSnapshotBytes)
<1> DEFINE f == frame[c]
           s == send[c]
           v == IF c \in fan THEN <<message>> ELSE <<>>
           L == latestSnapshotBytes
<1>1. /\ f \in Seq(Msgs) /\ s \in Seq(Msgs) /\ broadcast \in Seq(Msgs)
      /\ Way(c) /\ HubWay /\ HubRecent
      /\ AtMost(f, L) /\ AtMost(s, L)
      /\ c \in fan => hubPC = "fanout" /\ message \in Msgs
  BY StateFacts DEF StreamInv, Recent, Bounded, RegInv, VisitsOnlyInFanout
<1>2. /\ v \in Seq(Msgs) /\ Ordered(v) /\ Before(f, v) /\ Before(s, v) /\ Before(v, broadcast)
      /\ After(cursor[c], v) /\ AtMost(v, L)
  <2>1. CASE c \in fan
    <3>1. Newer(message, f, s, cursor[c]) /\ After(message.snap, broadcast) /\ message.snap <= L
      BY <1>1, <2>1 DEF Way, HubWay, HubRecent
    <3>. QED
      BY <1>1, <2>1, <3>1, Singleton DEF Newer
  <2>2. CASE c \notin fan
    <3>1. v = <<>>
      BY <2>2
    <3>2. <<>> \in Seq(Msgs)
      OBVIOUS
    <3>. QED
      BY <3>1, <3>2, EmptyFacts
  <2>. QED
    BY <2>1, <2>2
<1>3. /\ Lane(f, s, broadcast, cursor[c]) /\ Ordered(broadcast) /\ AtMost(broadcast, L)
  BY <1>1 DEF Way, HubWay, HubRecent
<1> DEFINE q == f \o s
           h == v \o broadcast
<1>4. q \in Seq(Msgs) /\ Ordered(q) /\ After(cursor[c], q) /\ AtMost(q, L)
      /\ Before(q, v) /\ Before(q, broadcast)
  BY <1>1, <1>2, <1>3, ConcatAt, ConcatOrdered, ConcatFacts DEF Lane
<1>5. h \in Seq(Msgs) /\ Ordered(h) /\ After(cursor[c], h) /\ AtMost(h, L) /\ Before(q, h)
  BY <1>1, <1>2, <1>3, <1>4, ConcatAt, ConcatOrdered, ConcatFacts DEF Lane
<1>6. q \o h \in Seq(Msgs) /\ Ordered(q \o h) /\ After(cursor[c], q \o h) /\ AtMost(q \o h, L)
  BY <1>4, <1>5, ConcatAt, ConcatOrdered, ConcatFacts
<1>. QED
  BY <1>6 DEF Queued, InHub

\* A greeting that is still queued is the first message, and nothing was
\* delivered before it.
LEMMA GreetingAlone ==
  ASSUME StreamInv, NEW c \in Clients, NEW i \in DOMAIN Queued(c), Queued(c)[i].greet
  PROVE  i = 1 /\ greeting[c] = 0 /\ cursor[c] = 0
<1>1. frame[c] \in Seq(Msgs) /\ send[c] \in Seq(Msgs) /\ Greets(c)
  BY StateFacts DEF StreamInv
<1>2. CASE i \in DOMAIN frame[c] /\ Queued(c)[i] = frame[c][i]
  BY <1>1, <1>2 DEF Greets, GreetsFirst, HasGreeting
<1>3. CASE /\ i - Len(frame[c]) \in DOMAIN send[c]
           /\ Queued(c)[i] = send[c][i - Len(frame[c])]
  <2>1. HasGreeting(send[c]) /\ i - Len(frame[c]) = 1
    BY <1>1, <1>3 DEF Greets, GreetsFirst, HasGreeting
  <2>2. frame[c] = <<>> /\ greeting[c] = 0 /\ cursor[c] = 0
    BY <1>1, <2>1 DEF Greets
  <2>3. i \in Int /\ Len(frame[c]) = 0
    BY <1>1, <2>2, ConcatAt DEF Queued
  <2>. QED
    BY <2>1, <2>2, <2>3
<1>. QED
  BY <1>1, <1>2, <1>3, ConcatAt DEF Queued

\* The invariant implies the property of the run.
LEMMA StreamIsInOrder == StreamInv => StreamInOrder
<1> SUFFICES ASSUME StreamInv PROVE StreamInOrder
  OBVIOUS
<1>1. PipelineOrdered
  <2> SUFFICES ASSUME NEW c \in Clients
               PROVE  LET coming == Queued(c) \o InHub(c)
                      IN /\ \A j \in DOMAIN coming : ~coming[j].greet =>
                              /\ cursor[c] < coming[j].snap
                              /\ \A i \in 1..(j - 1) :
                                    ~coming[i].greet => coming[i].snap < coming[j].snap
                         /\ \A i \in DOMAIN Queued(c) :
                              Queued(c)[i].greet => i = 1 /\ greeting[c] = 0 /\ cursor[c] = 0
    BY DEF PipelineOrdered
  <2> DEFINE coming == Queued(c) \o InHub(c)
  <2>1. coming \in Seq(Msgs) /\ Ordered(coming) /\ After(cursor[c], coming)
    BY WholeWay
  <2>2. ASSUME NEW j \in DOMAIN coming, ~coming[j].greet
        PROVE  /\ cursor[c] < coming[j].snap
               /\ \A i \in 1..(j - 1) : ~coming[i].greet => coming[i].snap < coming[j].snap
    <3> HIDE DEF coming
    <3>1. \A i \in 1..(j - 1) : i \in DOMAIN coming /\ i < j
      BY <2>1
    <3>. QED
      BY <2>1, <2>2, <3>1 DEF Ordered, After
  <2>. QED
    BY <2>2, GreetingAlone
<1>2. StoredBeforeSent
  <2> SUFFICES ASSUME NEW c \in Clients, NEW m \in ToSet(Queued(c) \o InHub(c))
               PROVE  m.snap <= latestSnapshotBytes
    BY DEF StoredBeforeSent
  <2>1. PICK i \in DOMAIN (Queued(c) \o InHub(c)) : m = (Queued(c) \o InHub(c))[i]
    BY DEF ToSet
  <2>. QED
    BY <2>1, WholeWay DEF AtMost
<1>. QED
  BY <1>1, <1>2 DEF StreamInOrder, StreamInv

\* Whatever the number of dashboards, the capacities of the channels and the
\* interleaving of polls, fan-outs, evictions and deliveries, everything on its
\* way to a dashboard is in the order it was collected, at most once, with the
\* greeting alone at the front, and the cache is never behind it
\* (server.go:104-125, hub.go:69-81, client.go:89-110).
THEOREM StreamCorrect == ServerSpec => []StreamInOrder
<1>1. ServerInit => StreamInv
  BY InitStream DEF FeedInv
<1>. QED
  BY <1>1, NextStream, StreamIsInOrder, PTL DEF ServerSpec

-----------------------------------------------------------------------------
(* One stream: the last update each connection was queued.                 *)

\* The types of a client's queue and frame.
LEMMA QueueFacts ==
  ASSUME StreamInv, NEW d \in Clients
  PROVE  /\ frame[d] \in Seq(Msgs) /\ send[d] \in Seq(Msgs) /\ cursor[d] \in Nat
         /\ GreetsFirst(frame[d]) /\ GreetsFirst(send[d])
         /\ frame \in [Clients -> Seq(Msgs)] /\ send \in [Clients -> Seq(Msgs)]
         /\ cursor \in [Clients -> 0..MaxPolls]
BY StateFacts, TypeParts DEF StreamInv, Greets, TypeOK

\* nothing but a fan-out changes the last update a connection was queued
LEMMA QueuedKept ==
  ASSUME StreamInv, ServerNext, NEW d \in Clients, d \in fan => d \in fan', wp'[d] # "done"
  PROVE  LastQueued(d)' = LastQueued(d)
<1>1. CASE frame'[d] = frame[d] /\ send'[d] = send[d] /\ cursor'[d] = cursor[d]
  BY <1>1 DEF LastQueued
<1>2. CASE Quiet \/ PollBroadcast \/ (HubBroadcast /\ UNCHANGED serverVars)
  BY <1>1, <1>2 DEF Quiet, PollBroadcast, HubBroadcast, Broadcast, pumpVars, serverVars, viewVars
<1>3. ASSUME NEW c \in Clients, Upgrade(c) PROVE LastQueued(d)' = LastQueued(d)
  <2>1. UNCHANGED <<frame, cursor>> /\ frame[c] = <<>> /\ send[c] = <<>>
    BY <1>3, UpgradeFacts DEF serverVars, viewVars
  <2>2. CASE send' = send
    BY <1>1, <2>1, <2>2
  <2>3. ASSUME NEW m \in Msgs, m.greet, send' = [send EXCEPT ![c] = <<m>>]
        PROVE  LastQueued(d)' = LastQueued(d)
    <3>1. CASE d # c
      BY <1>1, <2>1, <2>3, <3>1, QueueFacts
    <3>2. CASE d = c
      <4>1. send'[d] = Append(<<>>, m)
        BY <2>3, <3>2, QueueFacts
      <4>2. \A b : LastUpdate(Append(<<>>, m), b) = b /\ LastUpdate(<<>>, b) = b
        <5>1. <<>> \in Seq(Msgs)
          OBVIOUS
        <5>. QED
          BY <2>3, <5>1, EmptyFacts, LastUpdateEmpty, LastUpdateAppend
      <4>. QED
        BY <2>1, <3>2, <4>1, <4>2 DEF LastQueued
    <3>. QED
      BY <3>1, <3>2
  <2>. QED
    BY <1>3, <2>2, <2>3, UpgradeFacts
<1>4. ASSUME NEW c \in Clients, Deliver(c) PROVE LastQueued(d)' = LastQueued(d)
  <2>1. /\ frame' = [frame EXCEPT ![c] = <<>>] /\ UNCHANGED send
        /\ cursor' = [cursor EXCEPT ![c] = LastUpdate(frame[c], cursor[c])]
    BY <1>4, DeliveryFacts
  <2>2. CASE d # c
    BY <1>1, <2>1, <2>2, QueueFacts
  <2>3. CASE d = c
    <3>1. frame'[d] = <<>> /\ send'[d] = send[d] /\ cursor'[d] = LastUpdate(frame[d], cursor[d])
      BY <2>1, <2>3, QueueFacts
    <3>. QED
      BY <3>1, LastUpdateEmpty DEF LastQueued
  <2>. QED
    BY <2>2, <2>3
<1>5. ASSUME NEW c \in Clients, Moving(c), UNCHANGED serverVars
      PROVE  LastQueued(d)' = LastQueued(d)
  <2>1. UNCHANGED cursor
    BY <1>5 DEF serverVars, viewVars
  <2>2. CASE FanSend(c)
    <3>1. d # c
      BY <2>2 DEF FanSend
    <3>. QED
      BY <1>1, <2>1, <2>2, <3>1, QueueFacts DEF FanSend, pumpVars
  <2>3. CASE WPFail(c) \/ WPClosed(c)
    <3>1. /\ wp' = [wp EXCEPT ![c] = "done"] /\ frame' = [frame EXCEPT ![c] = <<>>]
          /\ UNCHANGED send
      BY <2>3 DEF WPFail, WPClosed, WPExit
    <3>2. wp \in [Clients -> WriteStates]
      BY DEF StreamInv, RegInv, TypeOK
    <3>3. d # c
      BY <3>1, <3>2
    <3>. QED
      BY <1>1, <2>1, <3>1, <3>3, QueueFacts
  <2>4. CASE WPRecv(c) \/ WPDrain(c)
    <3>1. /\ send[c] # <<>> /\ send' = [send EXCEPT ![c] = Tail(send[c])]
          /\ frame' = [frame EXCEPT ![c] = Append(frame[c], Head(send[c]))]
      <4>1. CASE WPRecv(c)
        <5>1. frame[c] = <<>>
          BY <4>1 DEF WPRecv, StreamInv, Started
        <5>2. <<Head(send[c])>> = Append(frame[c], Head(send[c]))
          BY <5>1
        <5>. QED
          BY <4>1, <5>2 DEF WPRecv
      <4>2. CASE WPDrain(c)
        BY <4>2 DEF WPDrain
      <4>. QED
        BY <2>4, <4>1, <4>2
    <3>2. CASE d # c
      BY <1>1, <2>1, <3>1, <3>2, QueueFacts
    <3>3. CASE d = c
      <4>1. Head(send[d]).greet => frame[d] = <<>>
        BY <3>1, <3>3, QueueFacts, GreetingFacts, TailAt DEF StreamInv, Greets, HasGreeting
      <4>2. LastUpdate(Tail(send[d]), LastUpdate(Append(frame[d], Head(send[d])), cursor[d]))
              = LastUpdate(send[d], LastUpdate(frame[d], cursor[d]))
        BY <3>1, <3>3, <4>1, QueueFacts, LastUpdateMove
      <4>3. send'[d] = Tail(send[d]) /\ frame'[d] = Append(frame[d], Head(send[d]))
        BY <3>1, <3>3, QueueFacts
      <4>. QED
        BY <2>1, <4>2, <4>3 DEF LastQueued
    <3>. QED
      BY <3>2, <3>3
  <2>. QED
    BY <1>5, <2>2, <2>3, <2>4 DEF Moving
<1>. QED
  BY <1>2, <1>3, <1>4, <1>5, QuietSteps

\* a connection that is not enrolled yet was queued no update
LEMMA NewIsEmpty ==
  ASSUME StreamInv, NEW d \in Clients, phase[d] \in {"absent", "registering"}
  PROVE  LastQueued(d) = 0
<1>1. /\ wp[d] = "off" /\ frame[d] = <<>> /\ cursor[d] = 0
      /\ \A i \in DOMAIN send[d] : send[d][i].greet
  BY DEF StreamInv, Started
<1>2. send[d] = <<>> \/ send[d][Len(send[d])].greet
  BY <1>1, QueueFacts
<1>. QED
  BY <1>1, <1>2, QueueFacts, LastUpdateIs, LastUpdateEmpty DEF LastQueued

\* a writePump that returned stays returned
LEMMA DoneStays ==
  ASSUME StreamInv, ServerNext, NEW d \in Clients, wp[d] = "done"
  PROVE  wp'[d] = "done"
<1>1. /\ phase[d] = "running" /\ wp \in [Clients -> WriteStates]
  BY DEF StreamInv, Started, RegInv, TypeOK
<1>2. CASE UNCHANGED wp
  BY <1>2
<1>3. CASE PollCollect \/ PollStore \/ PollCount \/ PollBroadcast \/ PollEnd \/ Shutdown
  BY <1>2, <1>3 DEF PollCollect, PollStore, PollCount, PollBroadcast, PollEnd, Shutdown, vars,
                    Broadcast, serveVars
<1>4. ASSUME NEW c \in Clients, HandleWS(c) \/ Upgrade(c) PROVE wp'[d] = "done"
  BY <1>2, <1>4 DEF HandleWS, Upgrade, ServeWS, vars
<1>5. ASSUME NEW c \in Clients, Deliver(c) PROVE wp'[d] = "done"
  <2>1. wp[c] = "draining" /\ wp' = [wp EXCEPT ![c] = "select"]
    BY <1>5 DEF Deliver, WPFlush
  <2>. QED
    BY <1>1, <2>1
<1>6. CASE HubOrClient
  <2>1. CASE HubNext \/ Cancel
    BY <1>2, <2>1 DEF HubNext, HubPark, HubDone, HubStopped, HubBroadcast, FanEnd, HubRegister,
                      HubStop, FanSend, FanEvict, Cancel, serveVars
  <2>2. ASSUME NEW c \in Clients, ReadPump(c) \/ PeerGone(c) PROVE wp'[d] = "done"
    BY <1>2, <2>2 DEF ReadPump, RPError, RPUnregister, RPClose, PeerGone, serveVars
  <2>3. ASSUME NEW c \in Clients,
               \/ StartPumps(c) \/ WPRecv(c) \/ WPMeasure(c) \/ WPDrain(c)
               \/ WPFail(c) \/ WPClosed(c)
        PROVE  wp'[d] = "done"
    BY <1>1, <2>3 DEF StartPumps, WPRecv, WPMeasure, WPDrain, WPFail, WPClosed, WPExit
  <2>. QED
    BY <1>6, <2>1, <2>2, <2>3 DEF HubOrClient
<1>. QED
  BY <1>3, <1>4, <1>5, <1>6 DEF ServerNext

\* every connection of S keeps what it was last queued, unless its writePump returns
LEMMA AwakeKept ==
  ASSUME StreamInv, ServerNext, NEW S \in SUBSET Clients, S \cap fan \subseteq fan'
  PROVE  \A x \in S : wp'[x] # "done" =>
            wp[x] # "done" /\ LastQueued(x)' = LastQueued(x)
BY QueuedKept, DoneStays

\* a step that keeps the fan-out, or the absence of one, and enrols nobody
LEMMA AlikeShrinks ==
  ASSUME FeedInv, ServerNext, hubPC' = hubPC, hubPC = "fanout" => message' = message,
         fan' \subseteq fan, clients' \subseteq clients, clients' \ fan' \subseteq clients \ fan
  PROVE  Alike'
<1>1. /\ StreamInv /\ Alike /\ fan \subseteq Clients /\ clients \subseteq Clients
      /\ hubPC # "fanout" => fan = {}
  BY DEF FeedInv, StreamInv, RegInv, TypeOK, VisitsOnlyInFanout
<1>2. \A x \in fan' \cup (clients' \ fan') : wp'[x] # "done" =>
         wp[x] # "done" /\ LastQueued(x)' = LastQueued(x)
  BY <1>1, AwakeKept
<1>3. Awake(fan)' \subseteq Awake(fan) /\ (hubPC # "fanout" => Awake(clients)' \subseteq Awake(clients))
  BY <1>1, <1>2 DEF Awake
<1>. QED
  BY <1>1, <1>2, <1>3 DEF Alike, Awake

\* a step outside a fan-out that enrols at most connections nothing was queued for
LEMMA AlikeOutside ==
  ASSUME FeedInv, ServerNext, hubPC # "fanout", hubPC' # "fanout", fan' = {},
         clients' \subseteq Clients,
         \A x \in clients' : x \in clients \/ phase[x] \in {"absent", "registering"}
  PROVE  Alike'
<1>1. StreamInv /\ Alike /\ fan = {} /\ clients \subseteq Clients
  BY DEF FeedInv, StreamInv, RegInv, TypeOK, VisitsOnlyInFanout
<1>2. \A x \in clients' : wp'[x] # "done" =>
         wp[x] # "done" /\ LastQueued(x)' = LastQueued(x)
  BY <1>1, AwakeKept
<1>3. \A x \in clients' : x \in clients \/ LastQueued(x) = 0
  BY <1>1, NewIsEmpty
<1>4. \A x \in Awake(clients)' : x \in Awake(clients) /\ LastQueued(x)' = LastQueued(x)
  BY <1>2, <1>3 DEF Awake
<1>5. \A x, y \in Awake(clients)' : LastQueued(x)' = LastQueued(y)'
  BY <1>1, <1>4 DEF Alike
<1>. QED
  BY <1>1, <1>5 DEF Alike, Awake

\* the start of a fan-out
LEMMA AlikeStarts ==
  ASSUME FeedInv, ServerNext, hubPC # "fanout", fan' = clients, clients' = clients
  PROVE  Alike'
<1>1. StreamInv /\ Alike /\ fan = {} /\ clients \subseteq Clients
  BY DEF FeedInv, StreamInv, RegInv, TypeOK, VisitsOnlyInFanout
<1>2. \A x \in clients : wp'[x] # "done" =>
         wp[x] # "done" /\ LastQueued(x)' = LastQueued(x)
  BY <1>1, AwakeKept
<1>3. \A x \in Awake(clients)' : x \in Awake(clients) /\ LastQueued(x)' = LastQueued(x)
  BY <1>2 DEF Awake
<1>4. \A x, y \in Awake(clients)' : LastQueued(x)' = LastQueued(y)'
  BY <1>1, <1>3 DEF Alike
<1>. QED
  BY <1>4 DEF Alike, Awake

\* A send of the fan-out keeps the queues alike.
LEMMA AlikeSend ==
  ASSUME FeedInv, ServerNext, NEW c \in Clients, FanSend(c), UNCHANGED serverVars
  PROVE  Alike'
<1>1. /\ StreamInv /\ Alike /\ fan \subseteq Clients /\ clients \subseteq Clients
      /\ fan \subseteq clients
  BY DEF FeedInv, StreamInv, RegInv, TypeOK, RegistryMatchesChannels
<1>2. /\ hubPC = "fanout" /\ c \in fan /\ fan' = fan \ {c}
      /\ send' = [send EXCEPT ![c] = Append(send[c], message)]
      /\ UNCHANGED <<hubPC, message, clients, wp, frame, cursor>>
  BY DEF FanSend, serveVars, pumpVars, serverVars, viewVars
<1>3. \A x \in clients \ {c} : wp'[x] # "done" =>
         wp[x] # "done" /\ LastQueued(x)' = LastQueued(x)
  <2>1. (clients \ {c}) \cap fan \subseteq fan'
    BY <1>2
  <2>. QED
    BY <1>1, <2>1, AwakeKept
<1>4. LastQueued(c)' = message.snap
  <2>1. message \in Msgs /\ ~message.greet
    BY <1>1, <1>2, StateFacts DEF StreamInv, HubWay
  <2>2. \A b : LastUpdate(Append(send[c], message), b) = message.snap
    BY <1>1, <2>1, QueueFacts, LastUpdateAppend
  <2>3. send'[c] = Append(send[c], message)
    BY <1>1, <1>2, QueueFacts
  <2>. QED
    BY <2>2, <2>3 DEF LastQueued
<1>5. \A x \in Awake(fan)' : x \in Awake(fan) /\ LastQueued(x)' = LastQueued(x)
  BY <1>1, <1>2, <1>3 DEF Awake
<1>6. \A x, y \in Awake(fan)' : LastQueued(x)' = LastQueued(y)'
  BY <1>1, <1>5 DEF Alike
<1>7. \A x \in clients' \ fan' : wp'[x] # "done" => LastQueued(x)' = message.snap
  BY <1>1, <1>2, <1>3, <1>4 DEF Alike
<1>. QED
  BY <1>2, <1>6, <1>7 DEF Alike

\* So does its end.
LEMMA AlikeEnds ==
  ASSUME FeedInv, ServerNext, FanEnd
  PROVE  Alike'
<1>1. StreamInv /\ Alike /\ clients \subseteq Clients
  BY DEF FeedInv, StreamInv, RegInv, TypeOK
<1>2. /\ hubPC = "fanout" /\ fan = {} /\ hubPC' = "select"
      /\ UNCHANGED <<clients, fan>>
  BY DEF FanEnd
<1>3. \A x \in clients : wp'[x] # "done" =>
         wp[x] # "done" /\ LastQueued(x)' = LastQueued(x)
  BY <1>1, <1>2, AwakeKept
<1>4. \A x \in Awake(clients)' : LastQueued(x)' = message.snap
  BY <1>1, <1>2, <1>3 DEF Alike, Awake
<1>. QED
  BY <1>2, <1>4 DEF Alike, Awake

\* Every step keeps the queues alike.
LEMMA NextAlike == FeedInv /\ ServerNext => Alike'
<1> SUFFICES ASSUME FeedInv, ServerNext PROVE Alike'
  OBVIOUS
<1>1. /\ StreamInv /\ RegInv /\ clients \subseteq Clients /\ (hubPC # "fanout" => fan = {})
  BY DEF FeedInv, StreamInv, RegInv, TypeOK, VisitsOnlyInFanout
<1>2. CASE UNCHANGED <<hubPC, message, fan, clients>>
  BY <1>2, AlikeShrinks
<1>3. CASE PollCollect \/ PollStore \/ PollCount \/ PollEnd \/ Shutdown
  BY <1>2, <1>3 DEF PollCollect, PollStore, PollCount, PollEnd, Shutdown, vars
<1>4. CASE PollBroadcast
  <2>1. \/ hubPC = "parked" /\ fan' = clients /\ clients' = clients
        \/ UNCHANGED <<hubPC, message, fan, clients>>
    BY <1>4 DEF PollBroadcast, Broadcast, StartFanout
  <2>. QED
    BY <1>2, <2>1, AlikeStarts
<1>5. ASSUME NEW c \in Clients, HandleWS(c) \/ Deliver(c) PROVE Alike'
  BY <1>2, <1>5 DEF HandleWS, Deliver, WPFlush, vars, hubVars
<1>6. ASSUME NEW c \in Clients, Upgrade(c) PROVE Alike'
  <2>1. /\ phase[c] = "absent" /\ UNCHANGED <<fan, message>>
        /\ \/ hubPC = "parked" /\ hubPC' = "select" /\ clients' = clients \cup {c}
           \/ UNCHANGED <<hubPC, clients>>
    BY <1>6 DEF Upgrade, ServeWS, Enrol
  <2>. QED
    BY <1>1, <1>2, <2>1, AlikeOutside
<1>7. CASE HubOrClient /\ UNCHANGED serverVars
  <2>1. CASE HubPark \/ HubDone \/ HubStopped \/ Cancel
    <3>1. /\ UNCHANGED <<fan, clients>>
          /\ \/ hubPC # "fanout" /\ hubPC' # "fanout"
             \/ UNCHANGED <<hubPC, message>>
      BY <2>1 DEF HubPark, HubDone, HubStopped, Cancel
    <3>. QED
      BY <1>1, <1>2, <3>1, AlikeOutside
  <2>2. CASE HubBroadcast
    BY <2>2, AlikeStarts DEF HubBroadcast, StartFanout
  <2>3. CASE FanEnd
    BY <2>3, AlikeEnds
  <2>4. ASSUME NEW c \in Clients, HubRegister(c) PROVE Alike'
    BY <1>1, <2>4, AlikeOutside DEF HubRegister, Enrol
  <2>5. ASSUME NEW c \in Clients, HubStop(c) \/ FanEvict(c) PROVE Alike'
    BY <2>5, AlikeShrinks DEF HubStop, FanEvict, CloseAndDelete
  <2>6. ASSUME NEW c \in Clients, FanSend(c) PROVE Alike'
    BY <1>7, <2>6, AlikeSend
  <2>7. ASSUME NEW c \in Clients, ReadPump(c) PROVE Alike'
    <3>1. /\ UNCHANGED <<fan, message>> /\ clients' \subseteq clients
          /\ \/ hubPC = "parked" /\ hubPC' = "select"
             \/ UNCHANGED <<hubPC, clients>>
      BY <2>7 DEF ReadPump, RPError, RPUnregister, RPClose, CloseAndDelete, hubVars
    <3>. QED
      BY <1>1, <1>2, <3>1, AlikeOutside
  <2>8. ASSUME NEW c \in Clients,
               \/ StartPumps(c) \/ PeerGone(c) \/ WPRecv(c) \/ WPMeasure(c) \/ WPDrain(c)
               \/ WPFail(c) \/ WPClosed(c)
        PROVE  Alike'
    BY <1>2, <2>8 DEF StartPumps, PeerGone, WPRecv, WPMeasure, WPDrain, WPFail, WPClosed,
                      WPExit, hubVars
  <2>. QED
    BY <1>7, <2>1, <2>2, <2>3, <2>4, <2>5, <2>6, <2>7, <2>8 DEF HubOrClient, HubNext
<1>. QED
  BY <1>3, <1>4, <1>5, <1>6, <1>7 DEF ServerNext

\* The stronger invariant is inductive.
LEMMA NextFeed == FeedInv /\ [ServerNext]_allVars => FeedInv'
<1>1. ASSUME FeedInv, UNCHANGED allVars PROVE Alike'
  BY <1>1 DEF allVars, vars, serverVars, viewVars, FeedInv, Alike, Awake, LastQueued
<1>. QED
  BY <1>1, NextStream, NextAlike DEF FeedInv

\* It implies the property of the run.
LEMMA FeedIsSame == FeedInv => SameStream
<1>1. FeedInv => (hubPC # "fanout" => fan = {})
  BY DEF FeedInv, StreamInv, RegInv, VisitsOnlyInFanout
<1>. QED
  BY <1>1 DEF FeedInv, Alike, Awake, SameStream

\* Between two fan-outs all registered dashboards were last queued the same
\* snapshot, however slow any of them is: a full buffer costs a client its
\* registration and never a message (hub.go:69-81).
THEOREM OneStream == ServerSpec => []SameStream
BY InitStream, NextFeed, FeedIsSame, PTL DEF ServerSpec

-----------------------------------------------------------------------------
(* The refinement of Feed: a collection is Collect, a delivery is Receive, *)
(* everything else stutters.                                               *)

\* A delivery is a step of Feed.
LEMMA DeliverReceives ==
  ASSUME StreamInv, NEW c \in Clients, Deliver(c)
  PROVE  FeedView!Receive(c)
<1> DEFINE f == frame[c]
           g == IF f[1].greet THEN f[1].snap ELSE greeting[c]
           u == LastUpdate(f, cursor[c])
<1>1. /\ f # <<>> /\ GreetsFirst(f) /\ f[1] \in Msgs
      /\ greeting' = IF f[1].greet THEN [greeting EXCEPT ![c] = f[1].snap] ELSE greeting
      /\ cursor' = [cursor EXCEPT ![c] = u] /\ UNCHANGED pollVars
  BY DeliveryFacts
<1>2. /\ f \in Seq(Msgs) /\ cursor[c] \in Nat /\ greeting[c] \in Nat /\ polled \in Nat
      /\ latestSnapshotBytes \in Nat /\ latestSnapshotBytes <= polled
      /\ greeting \in [Clients -> 0..MaxPolls]
      /\ Bounded(f, send[c], cursor[c], greeting[c], Newest, latestSnapshotBytes)
      /\ After(cursor[c], f) /\ Newest \in Int /\ Newest <= polled + 1
  BY StateFacts, TypeParts DEF StreamInv, Cache, Recent, Way, Lane, Newest
<1>3. g \in 0..polled
  <2>1. f[1].snap \in Nat /\ f[1].snap <= latestSnapshotBytes
    BY <1>1, <1>2, MsgFacts DEF Bounded, AtMost
  <2>. QED
    BY <1>2, <2>1 DEF Bounded
<1>4. u \in cursor[c]..polled
  <2>1. u \in {cursor[c]} \cup 1..MaxPolls /\ cursor[c] <= u /\ u < Newest
    BY <1>1, <1>2, LastUpdateBounds DEF Bounded
  <2>. QED
    BY <1>2, <2>1, StateFacts
<1>5. g # greeting[c] => greeting[c] = 0 /\ cursor[c] = 0
  BY <1>1, <1>2 DEF StreamInv, Greets, HasGreeting
<1>6. greeting' = [greeting EXCEPT ![c] = g]
  BY <1>1, <1>2
<1>7. UNCHANGED polled
  BY <1>1 DEF pollVars
<1> HIDE DEF g, u
<1>. QED
  BY <1>1, <1>3, <1>4, <1>5, <1>6, <1>7 DEF FeedView!Receive, u

\* Every step of the server is one of Feed, or a stutter.
LEMMA ServerStepsAreFeed ==
  StreamInv /\ [ServerNext]_allVars => [FeedView!FeedNext]_(FeedView!feedVars)
<1> SUFFICES ASSUME StreamInv, [ServerNext]_allVars
             PROVE  FeedView!FeedNext \/ UNCHANGED <<polled, greeting, cursor>>
  BY DEF FeedView!feedVars
<1>1. CASE UNCHANGED allVars
  BY <1>1 DEF allVars, serverVars, pollVars, viewVars
<1>2. CASE PollCollect
  BY <1>2 DEF PollCollect, viewVars, FeedView!FeedNext, FeedView!Collect
<1>3. CASE PollStore \/ PollCount \/ PollBroadcast \/ PollEnd \/ Shutdown
  BY <1>3 DEF PollStore, PollCount, PollBroadcast, PollEnd, Shutdown, pollVars, viewVars
<1>4. ASSUME NEW c \in Clients, HandleWS(c) \/ Upgrade(c)
      PROVE  UNCHANGED <<polled, greeting, cursor>>
  BY <1>4 DEF HandleWS, Upgrade, serverVars, pollVars, viewVars
<1>5. ASSUME NEW c \in Clients, Deliver(c) PROVE FeedView!FeedNext
  BY <1>5, DeliverReceives DEF FeedView!FeedNext
<1>6. CASE UNCHANGED serverVars
  BY <1>6 DEF serverVars, pollVars, viewVars
<1>. QED
  BY <1>1, <1>2, <1>3, <1>4, <1>5, <1>6 DEF ServerNext

\* What the server delivers is what Feed promises a dashboard: at most one
\* greeting, before any update, and updates that only move forward
\* (server.go:104-125, hub.go, client.go:89-110, websocket.ts:34-50).
THEOREM ServerImplementsFeed == ServerSpec => ImplementsFeed
<1>1. ServerInit => FeedView!FeedInit
  BY DEF ServerInit, FeedView!FeedInit
<1>2. ServerInit => StreamInv
  BY InitStream DEF FeedInv
<1>. QED
  BY <1>1, <1>2, NextStream, ServerStepsAreFeed, PTL
     DEF ServerSpec, ImplementsFeed, FeedView!FeedSpec
=============================================================================
