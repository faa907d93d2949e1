----------------------------- MODULE ProcessProofs -----------------------------
(***************************************************************************)
(* Drains for any number of requests and connections.  It needs where the  *)
(* requests are cut: only where main returns, which a signal lets it do    *)
(* with every request answered or the deadline past, and a listener that   *)
(* failed stays so unless the shutdown has closed it, which no return      *)
(* precedes.                                                               *)
(***************************************************************************)
EXTENDS Process, TLAPS

TypeOK ==
    /\ main \in {"select", "cancel", "shutdown", "drain", "exited"}
    /\ listener \in {"starting", "open", "closed", "failed"}
    /\ deadline \in {"unset", "running", "passed"}
    /\ request \in [HttpRequests -> {"none", "active", "done", "cut"}]

\* requests are cut by the end of the process alone
CutAtTheEnd == (\E r \in HttpRequests : request[r] = "cut") => main = "exited"

IInv == TypeOK /\ CutAtTheEnd /\ Drains

\* The initial states.
LEMMA InitHolds == ProcessInit => IInv
  BY DEF ProcessInit, IInv, TypeOK, CutAtTheEnd, Drains

\* The end of main cuts the active requests, and no others.
LEMMA ExitCuts ==
    ASSUME IInv, Exit, main # "exited", UNCHANGED <<deadline, listener>>,
           deadline = "passed" \/ listener = "failed" \/ \A r \in HttpRequests : request[r] # "active"
    PROVE  IInv'
<1>1. TypeOK'
  BY DEF Exit, IInv, TypeOK
<1>2. CutAtTheEnd'
  BY DEF Exit, CutAtTheEnd
<1>3. Drains'
  <2>1. \A r \in HttpRequests : request'[r] = "cut" => request[r] = "active"
    BY DEF Exit, IInv, CutAtTheEnd
  <2> QED BY <2>1 DEF Drains
<1> QED BY <1>1, <1>2, <1>3 DEF IInv

\* Every step.
LEMMA StepHolds == IInv /\ [ProcessNext]_processVars => IInv'
<1> SUFFICES ASSUME IInv, [ProcessNext]_processVars PROVE IInv'
  OBVIOUS
<1> USE DEF IInv
<1>1. CASE Signal
  BY <1>1 DEF Signal, TypeOK, CutAtTheEnd, Drains
<1>2. ASSUME NEW r \in HttpRequests, Accept(r) \/ Respond(r) PROVE IInv'
  <2>1. /\ UNCHANGED <<main, deadline, listener>> /\ main # "exited"
        /\ \E x \in {"active", "done"} : request' = [request EXCEPT ![r] = x]
    BY <1>2 DEF Accept, Respond, Alive
  <2>2. PICK x \in {"active", "done"} : request' = [request EXCEPT ![r] = x]
    BY <2>1
  <2>3. \A q \in HttpRequests : request[q] # "cut"
    BY <2>1 DEF CutAtTheEnd
  <2>4. \A q \in HttpRequests : request'[q] # "cut"
    BY <2>2, <2>3 DEF TypeOK
  <2>5. TypeOK'
    BY <2>1, <2>2 DEF TypeOK
  <2> QED BY <2>4, <2>5 DEF CutAtTheEnd, Drains
<1>3. ASSUME NEW c \in Clients, Upgrade(c) \/ Register(c) \/ SayGoodbye(c) PROVE IInv'
  BY <1>3 DEF Upgrade, Register, SayGoodbye, TypeOK, CutAtTheEnd, Drains
<1>4. CASE Listen \/ ListenFails \/ CloseListener
  <2>1. \A r \in HttpRequests : request[r] # "cut"
    BY <1>4 DEF Listen, ListenFails, CloseListener, Alive, CutAtTheEnd
  <2>2. request' = request
    BY <1>4 DEF Listen, ListenFails, CloseListener
  <2>3. TypeOK'
    BY <1>4 DEF Listen, ListenFails, CloseListener, TypeOK
  <2> QED BY <2>1, <2>2, <2>3 DEF CutAtTheEnd, Drains
<1>5. CASE PollerStops \/ HubStops
  BY <1>5 DEF PollerStops, HubStops, TypeOK, CutAtTheEnd, Drains
<1>6. CASE ReceiveSignal \/ CancelContext \/ DeadlinePasses
  <2>1. \A r \in HttpRequests : request[r] # "cut"
    BY <1>6 DEF ReceiveSignal, CancelContext, DeadlinePasses, Alive, CutAtTheEnd
  <2>2. request' = request
    BY <1>6 DEF ReceiveSignal, CancelContext, DeadlinePasses
  <2>3. TypeOK'
    BY <1>6 DEF ReceiveSignal, CancelContext, DeadlinePasses, TypeOK
  <2> QED BY <2>1, <2>2, <2>3 DEF CutAtTheEnd, Drains
<1>7. CASE ReceiveError
  BY <1>7, ExitCuts DEF ReceiveError
<1>8. CASE Drained
  BY <1>8, ExitCuts DEF Drained
<1>9. CASE UNCHANGED processVars
  BY <1>9 DEF processVars, TypeOK, CutAtTheEnd, Drains
<1> QED BY <1>1, <1>2, <1>3, <1>4, <1>5, <1>6, <1>7, <1>8, <1>9 DEF ProcessNext

\* A shutdown (main.go, server.go Shutdown) cuts no request off before its deadline: for
\* any number of requests and connections.
THEOREM DrainsAlways == ProcessSpec => []Drains
<1>1. IInv => Drains
  BY DEF IInv
<1> QED BY <1>1, InitHolds, StepHolds, PTL DEF ProcessSpec
=============================================================================
