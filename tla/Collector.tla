------------------------------ MODULE Collector ------------------------------
(***************************************************************************)
(* Manager.CollectAll (internal/collector/manager.go) and its two callers  *)
(* in the server: the poll loop, one call at a time under a deadline, and  *)
(* the handler of /api/metrics/current, which collects by itself while no  *)
(* snapshot is cached.                                                     *)
(*                                                                         *)
(* A call starts one goroutine per subsystem and waits for all of them.  A *)
(* subsystem that looks at its context gives up when the deadline passes;  *)
(* one that sits in a system call does not.  Which subsystems those are is *)
(* a parameter.                                                            *)
(***************************************************************************)
EXTENDS Integers, FiniteSets

CONSTANTS
    Subsystems,         \* host, cpu, memory, disk, network, gpu, docker
    Uninterruptible,    \* those whose collection may hang in a system call
    Requests,           \* the calls of /api/metrics/current
    Poller              \* the poll loop

Callers == Requests \cup {Poller}

ASSUME CollectorAssumption == /\ IsFiniteSet(Subsystems)
                              /\ Uninterruptible \subseteq Subsystems
                              /\ Poller \notin Requests

VARIABLES
    call,       \* of each caller: "idle", "missed" (a request that found no
                \* cached snapshot), "collecting", "returned" or (the
                \* poll loop) "stopped"
    work,       \* of each caller and subsystem: "off", "running", then
                \* "returned" or "panicked", then "done"
    wg,         \* of each caller: the counter of its WaitGroup
    section,    \* of each caller: the sections its snapshot has
    expired,    \* the callers whose context is done
    hung,       \* <<caller, subsystem>> stuck in a system call
    tick,       \* a tick waits in the ticker's channel
    cached,     \* Server.latestSnapshot is not nil
    stopping    \* the root context is cancelled

vars == <<call, work, wg, section, expired, hung, tick, cached, stopping>>

TypeOK ==
    /\ call \in [Callers -> {"idle", "missed", "collecting", "returned", "stopped"}]
    /\ work \in [Callers -> [Subsystems -> {"off", "running", "returned", "panicked", "done"}]]
    /\ wg \in [Callers -> 0..Cardinality(Subsystems)]
    /\ section \in [Callers -> SUBSET Subsystems]
    /\ expired \subseteq Callers
    /\ hung \subseteq Callers \X Subsystems
    /\ {tick, cached, stopping} \subseteq BOOLEAN

Init ==
    /\ call = [k \in Callers |-> "idle"]
    /\ work = [k \in Callers |-> [c \in Subsystems |-> "off"]]
    /\ wg = [k \in Callers |-> 0]
    /\ section = [k \in Callers |-> {}]
    /\ expired = {} /\ hung = {}
    /\ tick = TRUE              \* the startup poll needs no tick
    /\ cached = FALSE /\ stopping = FALSE

-----------------------------------------------------------------------------
(* CollectAll.                                                             *)

\* an empty snapshot and one goroutine per subsystem; the poll loop's context is a
\* child of the root context
FanOut(k) ==
    /\ call' = [call EXCEPT ![k] = "collecting"]
    /\ work' = [work EXCEPT ![k] = [c \in Subsystems |-> "running"]]
    /\ wg' = [wg EXCEPT ![k] = Cardinality(Subsystems)]
    /\ section' = [section EXCEPT ![k] = {}]
    /\ expired' = IF k = Poller /\ stopping THEN expired \cup {k} ELSE expired \ {k}

\* the collector's own part of the goroutine ends, for whatever reason
Leaves(k, c, how) ==
    /\ work[k][c] = "running" /\ <<k, c>> \notin hung
    /\ work' = [work EXCEPT ![k][c] = how]

\* it stored its section under the snapshot's mutex
Succeed(k, c) ==
    /\ Leaves(k, c, "returned")
    /\ section' = [section EXCEPT ![k] = @ \cup {c}]
    /\ UNCHANGED <<call, wg, expired, hung, tick, cached, stopping>>

\* an error, that of a context that is done included, leaves no section; so
\* does a panic
Fail(k, c) ==
    /\ \E how \in {"returned", "panicked"} : Leaves(k, c, how)
    /\ UNCHANGED <<call, wg, section, expired, hung, tick, cached, stopping>>

\* mutant: wg.Done as the last statement of the goroutine, not deferred
Done_NotDeferred(k, c) ==
    /\ work[k][c] = "returned"
    /\ work' = [work EXCEPT ![k][c] = "done"]
    /\ wg' = [wg EXCEPT ![k] = @ - 1]
    /\ UNCHANGED <<call, section, expired, hung, tick, cached, stopping>>

\* mutant: wg.Done where the panic is recovered and deferred as well
Done_Twice(k, c) ==
    /\ work[k][c] \in {"returned", "panicked"}
    /\ work' = [work EXCEPT ![k][c] = "done"]
    /\ wg' = [wg EXCEPT ![k] = @ - IF work[k][c] = "panicked" THEN 2 ELSE 1]
    /\ UNCHANGED <<call, section, expired, hung, tick, cached, stopping>>

\* the deferred functions: recover, then wg.Done
Done(k, c) ==
    /\ work[k][c] \in {"returned", "panicked"}
    /\ work' = [work EXCEPT ![k][c] = "done"]
    /\ wg' = [wg EXCEPT ![k] = @ - 1]
    /\ UNCHANGED <<call, section, expired, hung, tick, cached, stopping>>

\* mutant: the deadline ends the wait as well
FanIn_OnDeadline(k) ==
    /\ call[k] = "collecting"
    /\ wg[k] = 0 \/ k \in expired
    /\ call' = [call EXCEPT ![k] = "returned"]
    /\ UNCHANGED <<work, wg, section, expired, hung, tick, cached, stopping>>

\* wg.Wait(); return snapshot
FanIn(k) ==
    /\ call[k] = "collecting"
    /\ wg[k] = 0
    /\ call' = [call EXCEPT ![k] = "returned"]
    /\ UNCHANGED <<work, wg, section, expired, hung, tick, cached, stopping>>

-----------------------------------------------------------------------------
(* The callers.                                                            *)

\* startPolling takes a tick and calls pollAndBroadcast
Poll ==
    /\ call[Poller] = "idle" /\ tick
    /\ tick' = FALSE
    /\ FanOut(Poller)
    /\ UNCHANGED <<hung, cached, stopping>>

\* context.WithTimeout runs out
Deadline ==
    /\ call[Poller] = "collecting" /\ Poller \notin expired
    /\ expired' = expired \cup {Poller}
    /\ UNCHANGED <<call, work, wg, section, hung, tick, cached, stopping>>

\* the snapshot is cached; the loop goes back to its select
Store ==
    /\ call[Poller] = "returned"
    /\ cached' = TRUE
    /\ call' = [call EXCEPT ![Poller] = "idle"]
    /\ work' = [work EXCEPT ![Poller] = [c \in Subsystems |-> "off"]]
    /\ UNCHANGED <<wg, section, expired, hung, tick, stopping>>

\* main cancels the root context
Cancel ==
    /\ ~stopping
    /\ stopping' = TRUE
    /\ expired' = expired \cup {Poller}
    /\ UNCHANGED <<call, work, wg, section, hung, tick, cached>>

\* startPolling returns; if a tick waits as well, its select may take either
StopPolling ==
    /\ call[Poller] = "idle" /\ stopping
    /\ call' = [call EXCEPT ![Poller] = "stopped"]
    /\ UNCHANGED <<work, wg, section, expired, hung, tick, cached, stopping>>

\* handleCurrentMetrics reads the cache; what it finds there it answers at once
ReadCache(r) ==
    /\ call[r] = "idle" /\ ~cached
    /\ call' = [call EXCEPT ![r] = "missed"]
    /\ UNCHANGED <<work, wg, section, expired, hung, tick, cached, stopping>>

\* nothing was cached: it collects, even if a poll has been stored meanwhile;
\* its context has no deadline
Request(r) ==
    /\ call[r] = "missed"
    /\ FanOut(r)
    /\ UNCHANGED <<hung, tick, cached, stopping>>

\* the peer of the request goes away: r.Context() is done
Abandon(r) ==
    /\ call[r] = "collecting" /\ r \notin expired
    /\ expired' = expired \cup {r}
    /\ UNCHANGED <<call, work, wg, section, hung, tick, cached, stopping>>

\* the ticker's channel holds one tick; a tick that finds it full is dropped
Tick ==
    /\ ~tick
    /\ tick' = TRUE
    /\ UNCHANGED <<call, work, wg, section, expired, hung, cached, stopping>>

\* the operating system: a system call does not return
Hang(k, c) ==
    /\ c \in Uninterruptible /\ work[k][c] = "running"
    /\ hung' = hung \cup {<<k, c>>}
    /\ UNCHANGED <<call, work, wg, section, expired, tick, cached, stopping>>

Next ==
    \/ Poll \/ Deadline \/ Store \/ Tick \/ Cancel \/ StopPolling
    \/ \E r \in Requests : ReadCache(r) \/ Request(r) \/ Abandon(r)
    \/ \E k \in Callers : FanIn(k)
    \/ \E k \in Callers, c \in Subsystems :
          Succeed(k, c) \/ Fail(k, c) \/ Done(k, c) \/ Hang(k, c)

Spec == Init /\ [][Next]_vars

(***************************************************************************)
(* Fairness.  The poll loop and the fan-in run when they can; timers fire; *)
(* a collector that is not stuck ends once its context is done.            *)
(***************************************************************************)
EndsOnDeadline(k, c) == k \in expired /\ (Succeed(k, c) \/ Fail(k, c))

Fairness ==
    /\ WF_vars(Poll) /\ WF_vars(Deadline) /\ WF_vars(Store) /\ WF_vars(Tick)
    /\ WF_vars(StopPolling)
    /\ \A k \in Callers : WF_vars(FanIn(k))
    /\ \A k \in Callers, c \in Subsystems :
          WF_vars(EndsOnDeadline(k, c)) /\ WF_vars(Done(k, c))

FairSpec == Spec /\ Fairness

-----------------------------------------------------------------------------
(* Properties.                                                             *)

\* A snapshot that CollectAll returned is final: no collector that is late,
\* hung or past the deadline can still write to it while the server marshals it,
\* caches it and sends it without the snapshot's mutex.
ReturnedIsFinal ==
    [][\A k \in Callers : call[k] = "returned" => section'[k] = section[k]]_vars

\* While no collector sits in a system call that does not return, the poll loop
\* comes back to its ticker again and again, whichever collectors fail, panic or
\* wait for the deadline, and whatever requests collect meanwhile.
TickerNeverStalls == [](hung = {}) => []<>(call[Poller] \in {"idle", "stopped"})

\* README.md:204 "guaranteeing a slow Docker socket or NFS mount never stalls the
\* ticker", without the condition.  disk.UsageWithContext is a statfs, which no
\* context interrupts, and the fan-in waits for it.
SlowMountNeverStalls == []<>(call[Poller] \in {"idle", "stopped"})
=============================================================================
