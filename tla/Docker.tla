-------------------------------- MODULE Docker --------------------------------
(***************************************************************************)
(* DockerCollector.Collect (internal/collector/docker.go).                 *)
(*                                                                         *)
(* A scrape lists the containers and reads the counters of the running     *)
(* ones, one goroutine per container and at most SemCap requests at a      *)
(* time.  A container's CPU share is the difference to its previous        *)
(* counters, kept between scrapes in prevStats.  The poll loop scrapes     *)
(* again and again; a request that found nothing cached does so once, and  *)
(* may overlap with it.  The daemon, the containers and the clock are the  *)
(* environment.                                                            *)
(***************************************************************************)
EXTENDS Integers, FiniteSets

CONSTANTS
    Containers,
    Poller,         \* the poll loop
    Requests,       \* the requests at startup, each with one call
    SemCap,         \* 5 in the code
    CPUs,           \* online CPUs
    MaxClock        \* bound: the clock of a behaviour

ASSUME DockerAssumption == /\ IsFiniteSet(Containers)
                           /\ Poller \notin Requests
                           /\ SemCap \in Nat \ {0}
                           /\ CPUs \in Nat \ {0}
                           /\ MaxClock \in Nat \ {0}

Scrapes == {Poller} \cup Requests

VARIABLES
    \* the environment
    clock,          \* wall time; the host has spent CPUs * clock of CPU time
    running,        \* the containers that run
    used,           \* CPU time of each container since it was started
    \* the collector
    prevStats,      \* function: the last counters read of a container
    \* each call
    pc,             \* "idle", "stats"; of a request then "done"
    listed,         \* the running containers of its last list
    worker,         \* per container: "off", "waiting" for a slot, "fetching",
                    \* "answered", "decoded", "done"
    timedOut,       \* the workers whose statCtx is done
    sem,            \* slots taken
    sample,         \* per container: the counters its worker decoded
    results         \* per container: the CPU reading of the call

environment == <<clock, running, used>>
vars == <<clock, running, used, prevStats, pc, listed, worker, timedOut, sem, sample, results>>

\* containerPrevStats: totalUsage, systemUsage, time
Stats == [total : Nat, system : Nat, at : Nat]
NoStats == [total |-> 0, system |-> 0, at |-> 0]

\* a CPU reading: cpuDelta over systemDelta, and where the latter came from
Readings == [cpu : Nat, span : Nat, by : {"none", "system", "clock"}]
NoReading == [cpu |-> 0, span |-> 0, by |-> "none"]

TypeOK ==
    /\ clock \in 0..MaxClock
    /\ running \subseteq Containers
    /\ used \in [Containers -> Nat]
    /\ DOMAIN prevStats \subseteq Containers
    /\ \A c \in DOMAIN prevStats : prevStats[c] \in Stats
    /\ pc \in [Scrapes -> {"idle", "stats", "done"}]
    /\ listed \in [Scrapes -> SUBSET Containers]
    /\ worker \in [Scrapes -> [Containers ->
                      {"off", "waiting", "fetching", "answered", "decoded", "done"}]]
    /\ timedOut \subseteq Scrapes \X Containers
    /\ sem \in [Scrapes -> 0..SemCap]
    /\ sample \in [Scrapes -> [Containers -> Stats]]
    /\ results \in [Scrapes -> [Containers -> Readings]]

Init ==
    /\ clock = 1
    /\ running \in {R \in SUBSET Containers : Cardinality(R) <= 1}
    /\ used = [c \in Containers |-> IF c \in running THEN CPUs ELSE 0]
    /\ prevStats = [c \in {} |-> NoStats]
    /\ pc = [s \in Scrapes |-> "idle"]
    /\ listed = [s \in Scrapes |-> {}]
    /\ worker = [s \in Scrapes |-> [c \in Containers |-> "off"]]
    /\ timedOut = {}
    /\ sem = [s \in Scrapes |-> 0]
    /\ sample = [s \in Scrapes |-> [c \in Containers |-> NoStats]]
    /\ results = [s \in Scrapes |-> [c \in Containers |-> NoReading]]

-----------------------------------------------------------------------------
(* One call of Collect.                                                    *)

\* ContainerList, then one goroutine for each container that runs
List(s) ==
    /\ pc[s] = "idle"
    /\ pc' = [pc EXCEPT ![s] = "stats"]
    /\ listed' = [listed EXCEPT ![s] = running]
    /\ worker' = [worker EXCEPT ![s] =
                     [c \in Containers |-> IF c \in running THEN "waiting" ELSE "off"]]
    /\ timedOut' = {p \in timedOut : p[1] # s}
    /\ sem' = [sem EXCEPT ![s] = 0]
    /\ sample' = [sample EXCEPT ![s] = [c \in Containers |-> NoStats]]
    /\ results' = [results EXCEPT ![s] = [c \in Containers |-> NoReading]]
    /\ UNCHANGED <<environment, prevStats>>

\* no client, or the daemon does not answer the list in time: the call returns
\* the error, and prevStats stays as it is
ListFails(s) ==
    /\ pc[s] = "idle"
    /\ pc' = [pc EXCEPT ![s] = IF s = Poller THEN "idle" ELSE "done"]
    /\ results' = [results EXCEPT ![s] = [c \in Containers |-> NoReading]]
    /\ UNCHANGED <<environment, prevStats, listed, worker, timedOut, sem, sample>>

\* the goroutine's timeout runs from its launch, the wait for a slot included;
\* the context of the call may end it earlier
Timeout(s, c) ==
    /\ worker[s][c] \in {"waiting", "fetching", "answered"} /\ <<s, c>> \notin timedOut
    /\ timedOut' = timedOut \cup {<<s, c>>}
    /\ UNCHANGED <<environment, prevStats, pc, listed, worker, sem, sample, results>>

\* case sem <- struct{}{}
Acquire(s, c) ==
    /\ worker[s][c] = "waiting" /\ sem[s] < SemCap
    /\ worker' = [worker EXCEPT ![s][c] = "fetching"]
    /\ sem' = [sem EXCEPT ![s] = @ + 1]
    /\ UNCHANGED <<environment, prevStats, pc, listed, timedOut, sample, results>>

\* case <-statCtx.Done()
GiveUp(s, c) ==
    /\ worker[s][c] = "waiting" /\ <<s, c>> \in timedOut
    /\ worker' = [worker EXCEPT ![s][c] = "done"]
    /\ UNCHANGED <<environment, prevStats, pc, listed, timedOut, sem, sample, results>>

\* what the daemon answers: a container that has stopped has no counters
Counters(c) ==
    [total  |-> IF c \in running THEN used[c] ELSE 0,
     system |-> IF c \in running THEN CPUs * clock ELSE 0]

\* the daemon answers
Answer(s, c) ==
    /\ worker[s][c] = "fetching"
    /\ sample' = [sample EXCEPT ![s][c].total = Counters(c).total,
                                ![s][c].system = Counters(c).system]
    /\ worker' = [worker EXCEPT ![s][c] = "answered"]
    /\ UNCHANGED <<environment, prevStats, pc, listed, timedOut, sem, results>>

\* the answer is decoded, then now := time.Now()
Decode(s, c) ==
    /\ worker[s][c] = "answered"
    /\ sample' = [sample EXCEPT ![s][c].at = clock]
    /\ worker' = [worker EXCEPT ![s][c] = "decoded"]
    /\ UNCHANGED <<environment, prevStats, pc, listed, timedOut, sem, results>>

\* mutant: a request without the worker's context
FetchFails_NoContext(s, c) ==
    /\ worker[s][c] \in {"fetching", "answered"} /\ <<s, c>> \notin timedOut
    /\ worker' = [worker EXCEPT ![s][c] = "done"]
    /\ sem' = [sem EXCEPT ![s] = @ - 1]
    /\ UNCHANGED <<environment, prevStats, pc, listed, timedOut, sample, results>>

\* no answer, an error, a body that cannot be decoded; the context ends the wait
FetchFails(s, c) ==
    /\ worker[s][c] \in {"fetching", "answered"}
    /\ worker' = [worker EXCEPT ![s][c] = "done"]
    /\ sem' = [sem EXCEPT ![s] = @ - 1]
    /\ UNCHANGED <<environment, prevStats, pc, listed, timedOut, sample, results>>

\* mutant: the difference of the counters is taken before it is made a float
Reading_Unsigned(cur, prev, hasPrev) ==
    LET cpu == (cur.total - prev.total) % 1000
        bySystem == cur.system > 0 /\ prev.system > 0 /\ cur.system > prev.system
        span == IF bySystem THEN cur.system - prev.system
                            ELSE CPUs * (cur.at - prev.at)
    IN  IF hasPrev /\ span > 0 /\ cpu > 0
        THEN [cpu |-> cpu, span |-> span, by |-> IF bySystem THEN "system" ELSE "clock"]
        ELSE NoReading

\* calculateCPUPercent.  Without a previous sample the daemon's precpu_stats
\* would be used, which a one-shot request leaves at zero.
Reading(cur, prev, hasPrev) ==
    LET cpu == cur.total - prev.total
        bySystem == cur.system > 0 /\ prev.system > 0 /\ cur.system > prev.system
        span == IF bySystem THEN cur.system - prev.system
                            ELSE CPUs * (cur.at - prev.at)
    IN  IF hasPrev /\ span > 0 /\ cpu > 0
        THEN [cpu |-> cpu, span |-> span, by |-> IF bySystem THEN "system" ELSE "clock"]
        ELSE NoReading

\* f with f[x] = y, x in its domain or not
Put(f, x, y) == [z \in DOMAIN f \cup {x} |-> IF z = x THEN y ELSE f[z]]

Baseline(c) == IF c \in DOMAIN prevStats THEN prevStats[c] ELSE NoStats

\* prevStats is read and replaced under its lock; the reading is stored in the
\* worker's own place of results, the slot given back
Swap(s, c) ==
    LET cur == sample[s][c]
    IN  /\ worker[s][c] = "decoded"
        /\ prevStats' = Put(prevStats, c, cur)
        /\ results' = [results EXCEPT ![s][c] =
                          Reading(cur, Baseline(c), c \in DOMAIN prevStats)]
        /\ worker' = [worker EXCEPT ![s][c] = "done"]
        /\ sem' = [sem EXCEPT ![s] = @ - 1]
        /\ UNCHANGED <<environment, pc, listed, timedOut, sample>>

\* mutant: the active IDs are the short ones, the cache's the long ones
Prune_ShortIDs(s) == prevStats' = [c \in {} |-> NoStats]

\* prevStats without the containers that this call did not list as running
Prune(s) == prevStats' = [c \in DOMAIN prevStats \cap listed[s] |-> prevStats[c]]

\* wg.Wait(), the pruning, the return; what a request has read is not kept
Finish(s) ==
    /\ pc[s] = "stats"
    /\ \A c \in listed[s] : worker[s][c] = "done"
    /\ Prune(s)
    /\ worker' = [worker EXCEPT ![s] = [c \in Containers |-> "off"]]
    /\ timedOut' = {p \in timedOut : p[1] # s}
    /\ IF s = Poller
       THEN pc' = [pc EXCEPT ![s] = "idle"] /\ UNCHANGED <<sample, results>>
       ELSE /\ pc' = [pc EXCEPT ![s] = "done"]
            /\ sample' = [sample EXCEPT ![s] = [c \in Containers |-> NoStats]]
            /\ results' = [results EXCEPT ![s] = [c \in Containers |-> NoReading]]
    /\ UNCHANGED <<environment, listed, sem>>

-----------------------------------------------------------------------------
(* The environment.                                                        *)

\* each container that runs gets up to CPUs of CPU time
Tick ==
    /\ clock < MaxClock
    /\ clock' = clock + 1
    /\ \E u \in [running -> {0, CPUs}] :
          used' = [c \in Containers |-> IF c \in running THEN used[c] + u[c] ELSE used[c]]
    /\ UNCHANGED <<running, prevStats, pc, listed, worker, timedOut, sem, sample, results>>

\* a container is started: its counters begin at zero.  Bound: one at a time as
\* long as a request may scrape
Run(c) ==
    /\ c \notin running
    /\ running = {} \/ \A r \in Requests : pc[r] = "done"
    /\ running' = running \cup {c}
    /\ used' = [used EXCEPT ![c] = 0]
    /\ UNCHANGED <<clock, prevStats, pc, listed, worker, timedOut, sem, sample, results>>

Stop(c) ==
    /\ c \in running
    /\ running' = running \ {c}
    /\ used' = [used EXCEPT ![c] = 0]
    /\ UNCHANGED <<clock, prevStats, pc, listed, worker, timedOut, sem, sample, results>>

Collect(s) ==
    \/ List(s) \/ ListFails(s) \/ Finish(s)
    \/ \E c \in Containers :
          \/ Timeout(s, c) \/ Acquire(s, c) \/ GiveUp(s, c)
          \/ Answer(s, c) \/ Decode(s, c) \/ FetchFails(s, c) \/ Swap(s, c)

Next ==
    \/ \E s \in Scrapes : Collect(s)
    \/ Tick
    \/ \E c \in Containers : Run(c) \/ Stop(c)

Spec == Init /\ [][Next]_vars

-----------------------------------------------------------------------------
(* Properties.                                                             *)

\* A reading taken from two system counters never shows more CPU time than the
\* host had between them, also when the container was restarted in between or
\* two scrapes store their samples in the other order.
NeverExaggerates ==
    \A s \in Scrapes, c \in Containers :
        results[s][c].by = "system" => results[s][c].cpu <= results[s][c].span

\* Counters are kept only of containers that some scrape's last list held:
\* removed containers do not pile up in prevStats.
NoGhosts ==
    (\A s \in Scrapes : pc[s] # "stats") =>
        DOMAIN prevStats \subseteq UNION {listed[s] : s \in Scrapes}

\* A container that the poll loop has sampled has a baseline for its next scrape,
\* unless a request has a list without it: its CPU share is not zero only because
\* the cache lost it.
BaselineKept ==
    \A c \in Containers :
        (pc[Poller] = "idle" /\ sample[Poller][c].at > 0) =>
            \/ c \in DOMAIN prevStats
            \/ \E r \in Requests : pc[r] # "idle" /\ c \notin listed[r]

\* The baselines that the prune leaves are those of the containers there are, and no
\* worker gives back a slot that it never had.
BaselinesFit == TypeOK /\ NoGhosts /\ BaselineKept

\* the steps of a scrape that need nothing of the daemon: timers fire, and a
\* request whose context is done returns its error.  Each takes a worker forward.
Cancelled(s, c) == <<s, c>> \in timedOut /\ FetchFails(s, c)

Onward(s) ==
    \/ Finish(s)
    \/ \E c \in Containers : Timeout(s, c) \/ GiveUp(s, c) \/ Cancelled(s, c) \/ Swap(s, c)

\* A scrape with a daemon that answers no request for counters comes to its end
\* all the same, with more containers than slots too.
CollectEnds == \A s \in Scrapes : pc[s] = "stats" => ENABLED Onward(s)
=============================================================================
