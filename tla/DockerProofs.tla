------------------------------ MODULE DockerProofs ------------------------------
(***************************************************************************)
(* BaselinesFit and NeverExaggerates for any number of containers, slots,  *)
(* CPUs and requests at startup.                                           *)
(*                                                                         *)
(* The slots that are taken are those of the workers between their request *)
(* and their baseline (Workers).  What keeps the baselines is that a       *)
(* worker that has decoded an answer puts it there, and that only the      *)
(* prune of a call that has not listed the container takes it away         *)
(* (Baselines).  A reading is no larger than the CPU time that was spent   *)
(* because any two samples of a container, wherever they are kept and in   *)
(* whichever order they were taken, are no further apart than the host's   *)
(* counters in them (Pace); that has to hold also of the samples that are  *)
(* yet to come, hence NotAhead.                                            *)
(***************************************************************************)
EXTENDS Docker, TLAPS, FiniteSetTheorems

States == {"off", "waiting", "fetching", "answered", "decoded", "done"}
WithSlot == {"fetching", "answered", "decoded"}
Holding(s) == {c \in Containers : worker[s][c] \in WithSlot}

SlotsCounted == \A s \in Scrapes : sem[s] = Cardinality(Holding(s))

WorkersListed ==
    \A s \in Scrapes, c \in Containers :
        worker[s][c] # "off" => pc[s] = "stats" /\ c \in listed[s]

\* a slot is given back by a worker that has one
Workers == TypeOK /\ SlotsCounted /\ WorkersListed

\* the times of samples are of workers that have decoded an answer
Decoded ==
    \A s \in Scrapes, c \in Containers :
        sample[s][c].at > 0 => worker[s][c] \in {"decoded", "done", "off"} /\ c \in listed[s]

\* a request has scraped, or does, with a list without the container
Dropped(c) == \E r \in Requests : pc[r] # "idle" /\ c \notin listed[r]

Kept ==
    \A c \in Containers :
        sample[Poller][c].at > 0 /\ worker[Poller][c] # "decoded" =>
            c \in DOMAIN prevStats \/ Dropped(c)

Baselines == Decoded /\ Kept /\ NoGhosts

\* the CPU time of the host
HostTime == CPUs * clock

\* what the collector has in hand of a container
Seen(c) == {sample[s][c] : s \in Scrapes} \cup {prevStats[d] : d \in DOMAIN prevStats \cap {c}}

\* a sample with a system counter, and the next one that could be taken
NotAhead(c) ==
    \A x \in Seen(c) :
        /\ x.system <= HostTime
        /\ x.system > 0 => used[c] <= x.total + (HostTime - x.system)

\* two samples with system counters
Paced(c) ==
    \A x, y \in Seen(c) :
        0 < x.system /\ x.system < y.system => y.total <= x.total + (y.system - x.system)

Pace == (\A c \in Containers : NotAhead(c) /\ Paced(c)) /\ NeverExaggerates

-----------------------------------------------------------------------------
(* Facts about the operators.                                              *)

\* The host's CPU time is a number, and grows by CPUs with each moment.
LEMMA HostTimeGrows ==
    ASSUME TypeOK
    PROVE  /\ HostTime \in Nat
           /\ clock' = clock => HostTime' = HostTime
           /\ clock' = clock + 1 => HostTime' = HostTime + CPUs
<1>1. clock \in Nat /\ CPUs \in Nat
  BY DockerAssumption DEF TypeOK
<1>2. \A a, b \in Nat : a * (b + 1) = a * b + a /\ a * b \in Nat
  OBVIOUS
<1> QED BY <1>1, <1>2 DEF HostTime

\* A reading is of its type, and if it is taken from system counters it is the
\* difference of two samples with such counters.
LEMMA ReadingFits ==
    ASSUME NEW cur \in Stats, NEW prev \in Stats, NEW hasPrev \in BOOLEAN
    PROVE  /\ Reading(cur, prev, hasPrev) \in Readings
           /\ Reading(cur, prev, hasPrev).by = "system" =>
                 /\ hasPrev /\ 0 < prev.system /\ prev.system < cur.system
                 /\ Reading(cur, prev, hasPrev).cpu = cur.total - prev.total
                 /\ Reading(cur, prev, hasPrev).span = cur.system - prev.system
<1> DEFINE cpu == cur.total - prev.total
           bySystem == cur.system > 0 /\ prev.system > 0 /\ cur.system > prev.system
           byClock == CPUs * (cur.at - prev.at)
           span == IF bySystem THEN cur.system - prev.system ELSE byClock
           r == Reading(cur, prev, hasPrev)
<1>1. cpu \in Int /\ cur.system - prev.system \in Int
  BY DEF Stats
<1>2. byClock \in Int
  <2>1. cur.at - prev.at \in Int /\ CPUs \in Int
    BY DockerAssumption DEF Stats
  <2> QED BY <2>1
<1>3. span \in Int
  BY <1>1, <1>2
<1>4. r = IF hasPrev /\ span > 0 /\ cpu > 0
          THEN [cpu |-> cpu, span |-> span, by |-> IF bySystem THEN "system" ELSE "clock"]
          ELSE NoReading
  BY DEF Reading
<1> HIDE DEF byClock, r
<1>5. CASE hasPrev /\ span > 0 /\ cpu > 0
  <2>1. r = [cpu |-> cpu, span |-> span, by |-> IF bySystem THEN "system" ELSE "clock"]
    BY <1>4, <1>5
  <2>2. cpu \in Nat /\ span \in Nat
    BY <1>1, <1>3, <1>5
  <2>3. r.cpu = cpu /\ r.span = span /\ r.by = IF bySystem THEN "system" ELSE "clock"
    BY <2>1
  <2>4. r \in Readings
    <3> HIDE DEF cpu, span, bySystem
    <3> QED BY <2>1, <2>2 DEF Readings
  <2>5. bySystem => 0 < prev.system /\ prev.system < cur.system /\ span = cur.system - prev.system
    BY DEF Stats
  <2>6. r.by = "system" => bySystem
    <3> HIDE DEF bySystem
    <3> QED BY <2>3
  <2>7. r.by = "system" => /\ hasPrev /\ 0 < prev.system /\ prev.system < cur.system
                           /\ r.cpu = cur.total - prev.total
                           /\ r.span = cur.system - prev.system
    BY <1>5, <2>3, <2>5, <2>6
  <2> QED BY <2>4, <2>7 DEF r
<1>6. CASE ~(hasPrev /\ span > 0 /\ cpu > 0)
  <2>1. r = NoReading
    BY <1>4, <1>6
  <2>2. r \in Readings /\ r.by # "system"
    BY <2>1 DEF NoReading, Readings
  <2> QED BY <2>2 DEF r
<1> QED BY <1>5, <1>6

-----------------------------------------------------------------------------
(* The workers and their slots.                                            *)

\* The step of one worker keeps the count of the slots: one is taken where the worker
\* comes to hold one, given back where it no longer does.
LEMMA WorkerSteps ==
    ASSUME Workers, NEW s \in Scrapes, NEW c \in Containers, NEW st \in States \ {"off"},
           worker[s][c] # "off", worker' = [worker EXCEPT ![s][c] = st],
           pc' = pc, listed' = listed,
           \/ /\ worker[s][c] \notin WithSlot /\ st \in WithSlot
              /\ sem[s] < SemCap /\ sem' = [sem EXCEPT ![s] = @ + 1]
           \/ /\ worker[s][c] \in WithSlot /\ st \notin WithSlot
              /\ sem' = [sem EXCEPT ![s] = @ - 1]
           \/ (worker[s][c] \in WithSlot <=> st \in WithSlot) /\ sem' = sem
    PROVE  /\ worker' \in [Scrapes -> [Containers -> States]]
           /\ sem' \in [Scrapes -> 0..SemCap]
           /\ SlotsCounted' /\ WorkersListed'
<1>1. TypeOK /\ SlotsCounted /\ WorkersListed
  BY DEF Workers
<1>2. worker \in [Scrapes -> [Containers -> States]] /\ sem \in [Scrapes -> 0..SemCap]
  BY <1>1 DEF TypeOK, States
<1>3. /\ worker' \in [Scrapes -> [Containers -> States]]
      /\ \A t \in Scrapes, d \in Containers :
            worker'[t][d] = IF t = s /\ d = c THEN st ELSE worker[t][d]
  BY <1>2
<1>4. WorkersListed'
  BY <1>1, <1>3 DEF WorkersListed
<1>5. IsFiniteSet(Holding(s)) /\ Cardinality(Holding(s)) \in Nat
  <2>1. Holding(s) \subseteq Containers
    BY DEF Holding
  <2> QED BY <2>1, FS_Subset, FS_CardinalityType, DockerAssumption
<1>6. \A t \in Scrapes : sem[t] = Cardinality(Holding(t))
  BY <1>1 DEF SlotsCounted
<1>7. \A t \in Scrapes \ {s} : Holding(t)' = Holding(t)
  BY <1>3 DEF Holding
<1>8. SemCap \in Nat
  BY DockerAssumption
<1>9. sem' \in [Scrapes -> 0..SemCap] /\ \A t \in Scrapes : sem'[t] = Cardinality(Holding(t)')
  <2>1. CASE /\ worker[s][c] \notin WithSlot /\ st \in WithSlot
             /\ sem[s] < SemCap /\ sem' = [sem EXCEPT ![s] = @ + 1]
    <3>1. c \notin Holding(s) /\ Holding(s)' = Holding(s) \cup {c}
      BY <1>3, <2>1 DEF Holding
    <3>2. Cardinality(Holding(s)') = Cardinality(Holding(s)) + 1
      BY <1>5, <3>1, FS_AddElement
    <3>3. sem[s] \in 0..SemCap /\ sem[s] + 1 \in 0..SemCap
      BY <1>2, <1>8, <2>1
    <3> QED BY <1>2, <1>6, <1>7, <2>1, <3>2, <3>3
  <2>2. CASE /\ worker[s][c] \in WithSlot /\ st \notin WithSlot
             /\ sem' = [sem EXCEPT ![s] = @ - 1]
    <3>1. c \in Holding(s) /\ Holding(s)' = Holding(s) \ {c}
      BY <1>3, <2>2 DEF Holding
    <3>2. Cardinality(Holding(s)') = Cardinality(Holding(s)) - 1
      BY <1>5, <3>1, FS_RemoveElement
    <3>3. Cardinality(Holding(s)) # 0
      BY <1>5, <3>1, FS_EmptySet
    <3>4. sem[s] - 1 \in 0..SemCap
      BY <1>2, <1>5, <1>6, <1>8, <3>3
    <3> QED BY <1>2, <1>6, <1>7, <2>2, <3>2, <3>4
  <2>3. CASE (worker[s][c] \in WithSlot <=> st \in WithSlot) /\ sem' = sem
    <3>1. Holding(s)' = Holding(s)
      BY <1>3, <2>3 DEF Holding
    <3> QED BY <1>2, <1>6, <1>7, <2>3, <3>1
  <2> QED BY <2>1, <2>2, <2>3
<1> QED BY <1>3, <1>4, <1>9 DEF SlotsCounted

\* The collector starts with no worker and no slot taken.
LEMMA InitWorkers == Init => Workers
<1> SUFFICES ASSUME Init PROVE Workers
  OBVIOUS
<1>1. 0 \in 0..SemCap /\ CPUs \in Nat /\ 1 \in 0..MaxClock
  BY DockerAssumption
<1>2. NoStats \in Stats /\ NoReading \in Readings
  BY DEF NoStats, NoReading, Stats, Readings
<1>3. prevStats = [c \in {} |-> NoStats] /\ DOMAIN prevStats = {}
  BY DEF Init
<1>4. TypeOK
  BY <1>1, <1>2, <1>3 DEF Init, TypeOK
<1>5. \A s \in Scrapes : Holding(s) = {}
  BY DEF Init, Holding, WithSlot
<1>6. SlotsCounted
  BY <1>5, FS_EmptySet DEF Init, SlotsCounted
<1>7. WorkersListed
  BY DEF Init, WorkersListed
<1> QED BY <1>4, <1>6, <1>7 DEF Workers

\* Every step keeps the types, the count of the slots and the workers to the list.
LEMMA NextWorkers == Workers /\ [Next]_vars => Workers'
<1> SUFFICES ASSUME Workers, [Next]_vars PROVE Workers'
  OBVIOUS
<1>1. TypeOK /\ SlotsCounted /\ WorkersListed
  BY DEF Workers
<1>2. NoStats \in Stats /\ NoReading \in Readings
  BY DEF NoStats, NoReading, Stats, Readings
<1>3. 0 \in 0..SemCap /\ CPUs \in Nat \ {0} /\ MaxClock \in Nat
  BY DockerAssumption
<1>4. ASSUME NEW s \in Scrapes, List(s) PROVE Workers'
  <2>1. running \subseteq Containers
    BY <1>1 DEF TypeOK
  <2>2. TypeOK'
    BY <1>1, <1>2, <1>3, <1>4, <2>1 DEF List, TypeOK, environment
  <2>3. Holding(s)' = {} /\ sem'[s] = 0
    BY <1>1, <1>4 DEF List, TypeOK, Holding, WithSlot
  <2>4. \A t \in Scrapes \ {s} : Holding(t)' = Holding(t) /\ sem'[t] = sem[t]
    BY <1>1, <1>4 DEF List, TypeOK, Holding
  <2>5. SlotsCounted'
    BY <1>1, <2>3, <2>4, FS_EmptySet DEF SlotsCounted
  <2>6. WorkersListed'
    BY <1>1, <1>4 DEF List, TypeOK, WorkersListed
  <2> QED BY <2>2, <2>5, <2>6 DEF Workers
<1>5. ASSUME NEW s \in Scrapes, ListFails(s) PROVE Workers'
  <2>1. TypeOK'
    BY <1>1, <1>2, <1>5 DEF ListFails, TypeOK, environment
  <2>2. SlotsCounted'
    BY <1>1, <1>5 DEF ListFails, SlotsCounted, Holding
  <2>3. WorkersListed'
    BY <1>1, <1>5 DEF ListFails, TypeOK, WorkersListed
  <2> QED BY <2>1, <2>2, <2>3 DEF Workers
<1>6. ASSUME NEW s \in Scrapes, NEW c \in Containers, Timeout(s, c) PROVE Workers'
  <2>1. TypeOK'
    BY <1>1, <1>6 DEF Timeout, TypeOK, environment
  <2>2. SlotsCounted' /\ WorkersListed'
    BY <1>1, <1>6 DEF Timeout, SlotsCounted, Holding, WorkersListed
  <2> QED BY <2>1, <2>2 DEF Workers
<1>7. ASSUME NEW s \in Scrapes, NEW c \in Containers,
             Acquire(s, c) \/ GiveUp(s, c) \/ Answer(s, c) \/ Decode(s, c)
               \/ FetchFails(s, c) \/ Swap(s, c)
      PROVE  /\ worker' \in [Scrapes -> [Containers -> States]]
             /\ sem' \in [Scrapes -> 0..SemCap]
             /\ SlotsCounted' /\ WorkersListed'
  <2> USE DEF States, WithSlot
  <2>1. CASE Acquire(s, c)
    BY <2>1, WorkerSteps DEF Acquire
  <2>2. CASE GiveUp(s, c)
    BY <2>2, WorkerSteps DEF GiveUp
  <2>3. CASE Answer(s, c)
    BY <2>3, WorkerSteps DEF Answer
  <2>4. CASE Decode(s, c)
    BY <2>4, WorkerSteps DEF Decode
  <2>5. CASE FetchFails(s, c)
    BY <2>5, WorkerSteps DEF FetchFails
  <2>6. CASE Swap(s, c)
    BY <2>6, WorkerSteps DEF Swap
  <2> QED BY <1>7, <2>1, <2>2, <2>3, <2>4, <2>5, <2>6
<1>8. ASSUME NEW s \in Scrapes, NEW c \in Containers,
             Acquire(s, c) \/ GiveUp(s, c) \/ FetchFails(s, c)
      PROVE  Workers'
  <2>1. UNCHANGED <<environment, prevStats, pc, listed, timedOut, sample, results>>
    BY <1>8 DEF Acquire, GiveUp, FetchFails
  <2>2. TypeOK'
    BY <1>1, <1>7, <1>8, <2>1 DEF TypeOK, environment, States
  <2> QED BY <1>7, <1>8, <2>2 DEF Workers
<1>9. ASSUME NEW s \in Scrapes, NEW c \in Containers, Answer(s, c) \/ Decode(s, c)
      PROVE  Workers'
  <2>1. UNCHANGED <<environment, prevStats, pc, listed, timedOut, results>>
    BY <1>9 DEF Answer, Decode
  <2>2. sample[s][c] \in Stats /\ clock \in Nat /\ used[c] \in Nat
    BY <1>1, <1>3 DEF TypeOK
  <2>3. Counters(c).total \in Nat /\ Counters(c).system \in Nat
    <3>1. CPUs * clock \in Nat
      BY <1>3, <2>2
    <3> QED BY <2>2, <3>1 DEF Counters
  <2>4. sample' \in [Scrapes -> [Containers -> Stats]]
    <3>1. CASE Answer(s, c)
      <4>1. [sample[s][c] EXCEPT !.total = Counters(c).total, !.system = Counters(c).system] \in Stats
        BY <2>2, <2>3 DEF Stats
      <4>2. sample' = [sample EXCEPT ![s] = [sample[s] EXCEPT ![c] =
                 [sample[s][c] EXCEPT !.total = Counters(c).total, !.system = Counters(c).system]]]
        BY <1>1, <3>1 DEF Answer, TypeOK
      <4> QED BY <1>1, <4>1, <4>2 DEF TypeOK
    <3>2. CASE Decode(s, c)
      <4>1. [sample[s][c] EXCEPT !.at = clock] \in Stats
        BY <2>2 DEF Stats
      <4>2. sample' = [sample EXCEPT ![s] = [sample[s] EXCEPT ![c] =
                 [sample[s][c] EXCEPT !.at = clock]]]
        BY <1>1, <3>2 DEF Decode, TypeOK
      <4> QED BY <1>1, <4>1, <4>2 DEF TypeOK
    <3> QED BY <1>9, <3>1, <3>2
  <2>5. TypeOK'
    BY <1>1, <1>7, <1>9, <2>1, <2>4 DEF TypeOK, environment, States
  <2> QED BY <1>7, <1>9, <2>5 DEF Workers
<1>10. ASSUME NEW s \in Scrapes, NEW c \in Containers, Swap(s, c) PROVE Workers'
  <2>1. UNCHANGED <<environment, pc, listed, timedOut, sample>>
    BY <1>10 DEF Swap
  <2>2. sample[s][c] \in Stats /\ Baseline(c) \in Stats
    BY <1>1, <1>2 DEF TypeOK, Baseline
  <2>3. Reading(sample[s][c], Baseline(c), c \in DOMAIN prevStats) \in Readings
    <3>1. (c \in DOMAIN prevStats) \in BOOLEAN
      OBVIOUS
    <3> QED BY <2>2, <3>1, ReadingFits
  <2>4. results' \in [Scrapes -> [Containers -> Readings]]
    BY <1>1, <1>10, <2>3 DEF Swap, TypeOK
  <2>5. /\ DOMAIN prevStats' \subseteq Containers
        /\ \A d \in DOMAIN prevStats' : prevStats'[d] \in Stats
    BY <1>1, <1>10, <2>2 DEF Swap, Put, TypeOK
  <2>6. TypeOK'
    BY <1>1, <1>7, <1>10, <2>1, <2>4, <2>5 DEF TypeOK, environment, States
  <2> QED BY <1>7, <1>10, <2>6 DEF Workers
<1>11. ASSUME NEW s \in Scrapes, Finish(s) PROVE Workers'
  <2>1. /\ DOMAIN prevStats' \subseteq Containers
        /\ \A d \in DOMAIN prevStats' : prevStats'[d] \in Stats
    BY <1>1, <1>11 DEF Finish, Prune, TypeOK
  <2>2. /\ sample' \in [Scrapes -> [Containers -> Stats]]
        /\ results' \in [Scrapes -> [Containers -> Readings]]
        /\ pc' \in [Scrapes -> {"idle", "stats", "done"}]
    <3>1. CASE s = Poller
      BY <1>1, <1>11, <3>1 DEF Finish, TypeOK
    <3>2. CASE s # Poller
      <4>1. /\ pc' = [pc EXCEPT ![s] = "done"]
            /\ sample' = [sample EXCEPT ![s] = [c \in Containers |-> NoStats]]
            /\ results' = [results EXCEPT ![s] = [c \in Containers |-> NoReading]]
        BY <1>11, <3>2 DEF Finish
      <4> QED BY <1>1, <1>2, <4>1 DEF TypeOK
    <3> QED BY <3>1, <3>2
  <2>3. /\ worker' = [worker EXCEPT ![s] = [c \in Containers |-> "off"]]
        /\ timedOut' \subseteq timedOut
        /\ UNCHANGED <<environment, listed, sem>>
    BY <1>11 DEF Finish
  <2>4. TypeOK'
    BY <1>1, <2>1, <2>2, <2>3 DEF TypeOK, environment
  <2>5. \A t \in Scrapes : Holding(t)' = Holding(t)
    <3>1. \A c \in listed[s] : worker[s][c] = "done"
      BY <1>11 DEF Finish
    <3>2. Holding(s) = {}
      BY <1>1, <3>1 DEF Holding, WithSlot, WorkersListed
    <3> QED BY <1>1, <2>3, <3>2 DEF Holding, WithSlot, TypeOK
  <2>6. SlotsCounted'
    BY <1>1, <2>3, <2>5 DEF SlotsCounted
  <2>7. WorkersListed'
    BY <1>1, <1>11, <2>3 DEF Finish, TypeOK, WorkersListed
  <2> QED BY <2>4, <2>6, <2>7 DEF Workers
<1>12. ASSUME Tick \/ \E c \in Containers : Run(c) \/ Stop(c) PROVE Workers'
  <2>1. /\ clock' \in 0..MaxClock /\ running' \subseteq Containers
        /\ used' \in [Containers -> Nat]
        /\ UNCHANGED <<prevStats, pc, listed, worker, timedOut, sem, sample, results>>
    <3>1. CASE Tick
      <4>1. PICK u \in [running -> {0, CPUs}] :
                used' = [c \in Containers |-> IF c \in running THEN used[c] + u[c] ELSE used[c]]
        BY <3>1 DEF Tick
      <4>2. used' \in [Containers -> Nat]
        BY <1>1, <1>3, <4>1 DEF TypeOK
      <4> QED BY <1>1, <1>3, <3>1, <4>2 DEF Tick, TypeOK
    <3>2. CASE \E c \in Containers : Run(c) \/ Stop(c)
      BY <1>1, <3>2 DEF Run, Stop, TypeOK
    <3> QED BY <1>12, <3>1, <3>2
  <2>2. TypeOK'
    BY <1>1, <2>1 DEF TypeOK
  <2>3. SlotsCounted' /\ WorkersListed'
    BY <1>1, <2>1 DEF SlotsCounted, Holding, WorkersListed
  <2> QED BY <2>2, <2>3 DEF Workers
<1>13. CASE UNCHANGED vars
  BY <1>1, <1>13 DEF vars, Workers, TypeOK, SlotsCounted, Holding, WorkersListed
<1> QED BY <1>4, <1>5, <1>6, <1>8, <1>9, <1>10, <1>11, <1>12, <1>13 DEF Next, Collect

-----------------------------------------------------------------------------
(* The baselines.                                                          *)

\* Nothing has been sampled at the start.
LEMMA InitBaselines == Init => Baselines
<1> SUFFICES ASSUME Init PROVE Baselines
  OBVIOUS
<1>1. \A s \in Scrapes, c \in Containers : sample[s][c].at = 0
  BY DEF Init, NoStats
<1>2. Poller \in Scrapes
  BY DEF Scrapes
<1>3. DOMAIN prevStats = {}
  BY DEF Init
<1> QED BY <1>1, <1>2, <1>3 DEF Baselines, Decoded, Kept, NoGhosts

\* What a worker has decoded stays with the collector until a call that has not
\* listed the container prunes it.
LEMMA NextBaselines == Workers /\ Baselines /\ [Next]_vars => Baselines'
<1> SUFFICES ASSUME Workers, Baselines, [Next]_vars PROVE Baselines'
  OBVIOUS
<1>1. TypeOK /\ WorkersListed /\ Decoded /\ Kept /\ NoGhosts
  BY DEF Workers, Baselines
<1>2. Poller \in Scrapes /\ Requests \subseteq Scrapes /\ Poller \notin Requests
  BY DockerAssumption DEF Scrapes
<1>3. clock \in Nat
  BY <1>1, DockerAssumption DEF TypeOK
<1>4. ASSUME NEW s \in Scrapes, List(s) PROVE Baselines'
  <2>1. /\ pc[s] = "idle" /\ pc'[s] = "stats"
        /\ \A t \in Scrapes \ {s} : /\ pc'[t] = pc[t] /\ listed'[t] = listed[t]
                                    /\ worker'[t] = worker[t] /\ sample'[t] = sample[t]
        /\ \A c \in Containers : sample'[s][c].at = 0
        /\ prevStats' = prevStats
    BY <1>1, <1>4 DEF List, TypeOK, NoStats
  <2>2. Decoded'
    BY <1>1, <2>1 DEF Decoded
  <2>3. \A c \in Containers : Dropped(c) => Dropped(c)'
    BY <1>2, <2>1 DEF Dropped
  <2>4. Kept'
    BY <1>1, <1>2, <2>1, <2>3 DEF Kept
  <2>5. NoGhosts'
    BY <2>1 DEF NoGhosts
  <2> QED BY <2>2, <2>4, <2>5 DEF Baselines
<1>5. ASSUME NEW s \in Scrapes, ListFails(s) PROVE Baselines'
  <2>1. /\ pc[s] = "idle" /\ \A t \in Scrapes \ {s} : pc'[t] = pc[t]
        /\ UNCHANGED <<prevStats, listed, worker, sample>>
    BY <1>1, <1>5 DEF ListFails, TypeOK
  <2>2. Decoded'
    BY <1>1, <2>1 DEF Decoded
  <2>3. \A c \in Containers : Dropped(c) => Dropped(c)'
    BY <1>2, <2>1 DEF Dropped
  <2>4. Kept'
    BY <1>1, <1>2, <2>1, <2>3 DEF Kept
  <2>5. NoGhosts'
    BY <1>1, <2>1 DEF NoGhosts
  <2> QED BY <2>2, <2>4, <2>5 DEF Baselines
<1>6. ASSUME NEW s \in Scrapes, NEW c \in Containers,
             Acquire(s, c) \/ GiveUp(s, c) \/ Answer(s, c) \/ FetchFails(s, c)
      PROVE  Baselines'
  <2>1. /\ worker[s][c] \in {"waiting", "fetching", "answered"}
        /\ UNCHANGED <<prevStats, pc, listed>>
    BY <1>6 DEF Acquire, GiveUp, Answer, FetchFails
  <2>2. \A t \in Scrapes, d \in Containers :
            /\ sample'[t][d].at = sample[t][d].at
            /\ (t # s \/ d # c) => worker'[t][d] = worker[t][d]
    <3>1. CASE Answer(s, c)
      <4>1. /\ sample' = [sample EXCEPT ![s] = [sample[s] EXCEPT ![c] =
                  [sample[s][c] EXCEPT !.total = Counters(c).total,
                                       !.system = Counters(c).system]]]
            /\ worker' = [worker EXCEPT ![s] = [worker[s] EXCEPT ![c] = "answered"]]
        BY <1>1, <3>1 DEF Answer, TypeOK
      <4>2. sample[s][c] \in Stats
        BY <1>1 DEF TypeOK
      <4>3. [sample[s][c] EXCEPT !.total = Counters(c).total,
                                 !.system = Counters(c).system].at = sample[s][c].at
        BY <4>2 DEF Stats
      <4> QED BY <1>1, <4>1, <4>3 DEF TypeOK
    <3>2. CASE Acquire(s, c) \/ GiveUp(s, c) \/ FetchFails(s, c)
      BY <1>1, <3>2 DEF Acquire, GiveUp, FetchFails, TypeOK
    <3> QED BY <1>6, <3>1, <3>2
  <2>3. ~(sample[s][c].at > 0)
    BY <1>1, <2>1 DEF Decoded
  <2>4. Decoded'
    BY <1>1, <2>1, <2>2, <2>3 DEF Decoded
  <2>5. Kept'
    BY <1>1, <1>2, <2>1, <2>2, <2>3 DEF Kept, Dropped
  <2>6. NoGhosts'
    BY <1>1, <2>1 DEF NoGhosts
  <2> QED BY <2>4, <2>5, <2>6 DEF Baselines
<1>7. ASSUME NEW s \in Scrapes, NEW c \in Containers, Decode(s, c) PROVE Baselines'
  <2>1. /\ worker[s][c] = "answered" /\ worker'[s][c] = "decoded"
        /\ UNCHANGED <<prevStats, pc, listed>>
        /\ \A t \in Scrapes, d \in Containers :
              (t # s \/ d # c) => worker'[t][d] = worker[t][d] /\ sample'[t][d] = sample[t][d]
    BY <1>1, <1>7 DEF Decode, TypeOK
  <2>2. c \in listed[s]
    BY <1>1, <2>1 DEF WorkersListed
  <2>3. Decoded'
    BY <1>1, <2>1, <2>2 DEF Decoded
  <2>4. Kept'
    BY <1>1, <1>2, <2>1 DEF Kept, Dropped
  <2>5. NoGhosts'
    BY <1>1, <2>1 DEF NoGhosts
  <2> QED BY <2>3, <2>4, <2>5 DEF Baselines
<1>8. ASSUME NEW s \in Scrapes, NEW c \in Containers, Swap(s, c) PROVE Baselines'
  <2>1. /\ worker[s][c] = "decoded" /\ worker'[s][c] = "done"
        /\ UNCHANGED <<pc, listed, sample>>
        /\ \A t \in Scrapes, d \in Containers :
              (t # s \/ d # c) => worker'[t][d] = worker[t][d]
        /\ DOMAIN prevStats' = DOMAIN prevStats \cup {c}
    BY <1>1, <1>8 DEF Swap, Put, TypeOK
  <2>2. Decoded'
    BY <1>1, <2>1 DEF Decoded
  <2>3. Kept'
    BY <1>1, <1>2, <2>1 DEF Kept, Dropped
  <2>4. pc[s] = "stats"
    BY <1>1, <2>1 DEF WorkersListed
  <2>5. NoGhosts'
    BY <2>1, <2>4 DEF NoGhosts
  <2> QED BY <2>2, <2>3, <2>5 DEF Baselines
<1>9. ASSUME NEW s \in Scrapes, Finish(s) PROVE Baselines'
  <2>1. /\ pc[s] = "stats" /\ listed' = listed
        /\ \A d \in listed[s] : worker[s][d] = "done"
        /\ DOMAIN prevStats' = DOMAIN prevStats \cap listed[s]
        /\ worker' = [worker EXCEPT ![s] = [c \in Containers |-> "off"]]
        /\ pc' = [pc EXCEPT ![s] = IF s = Poller THEN "idle" ELSE "done"]
        /\ sample' = IF s = Poller THEN sample
                     ELSE [sample EXCEPT ![s] = [c \in Containers |-> NoStats]]
    BY <1>9 DEF Finish, Prune
  <2>2. \A t \in Scrapes \ {s} : pc'[t] = pc[t] /\ worker'[t] = worker[t] /\ sample'[t] = sample[t]
    BY <1>1, <2>1 DEF TypeOK
  <2>3. \A d \in Containers : /\ worker'[s][d] = "off"
                              /\ sample'[s][d].at = IF s = Poller THEN sample[s][d].at ELSE 0
    BY <1>1, <2>1 DEF TypeOK, NoStats
  <2>4. Decoded'
    BY <1>1, <2>1, <2>2, <2>3 DEF Decoded
  <2>5. \A d \in Containers : Dropped(d) => Dropped(d)'
    <3>1. s # Poller => pc'[s] = "done"
      BY <1>1, <2>1 DEF TypeOK
    <3> QED BY <1>2, <2>1, <2>2, <3>1 DEF Dropped
  <2>6. ASSUME NEW d \in Containers, sample'[Poller][d].at > 0, worker'[Poller][d] # "decoded"
        PROVE  d \in DOMAIN prevStats' \/ Dropped(d)'
    <3>1. CASE s = Poller
      <4>1. sample[Poller][d].at > 0
        BY <2>3, <2>6, <3>1
      <4>2. d \in listed[Poller]
        BY <1>1, <1>2, <4>1 DEF Decoded
      <4>3. worker[Poller][d] = "done"
        BY <2>1, <3>1, <4>2
      <4> QED BY <1>1, <2>1, <2>5, <3>1, <4>1, <4>2, <4>3 DEF Kept
    <3>2. CASE s # Poller
      <4>1. sample[Poller][d].at > 0 /\ worker[Poller][d] # "decoded"
        BY <1>2, <2>2, <2>6, <3>2
      <4>2. d \in DOMAIN prevStats \/ Dropped(d)
        BY <1>1, <4>1 DEF Kept
      <4>3. d \notin listed[s] => Dropped(d)'
        <5>1. s \in Requests /\ pc'[s] = "done"
          BY <1>1, <2>1, <3>2 DEF TypeOK, Scrapes
        <5> QED BY <2>1, <5>1 DEF Dropped
      <4> QED BY <2>1, <2>5, <4>2, <4>3
    <3> QED BY <3>1, <3>2
  <2>7. Kept'
    BY <2>6 DEF Kept
  <2>8. NoGhosts'
    BY <2>1 DEF NoGhosts
  <2> QED BY <2>4, <2>7, <2>8 DEF Baselines
<1>10. ASSUME \/ Tick \/ UNCHANGED vars
              \/ \E s \in Scrapes, c \in Containers : Timeout(s, c)
              \/ \E c \in Containers : Run(c) \/ Stop(c)
       PROVE  Baselines'
  <2>1. UNCHANGED <<prevStats, pc, listed, worker, sample>>
    BY <1>10 DEF Tick, Timeout, Run, Stop, vars
  <2> QED BY <1>1, <2>1 DEF Baselines, Decoded, Kept, Dropped, NoGhosts
<1> QED BY <1>4, <1>5, <1>6, <1>7, <1>8, <1>9, <1>10 DEF Next, Collect

\* What the prune leaves fits, and with it what the workers do with their slots.
LEMMA BaselinesAreFit == Workers /\ Baselines => BaselinesFit
<1> SUFFICES ASSUME Workers, Baselines PROVE BaselineKept
  BY DEF Workers, Baselines, BaselinesFit
<1>1. WorkersListed /\ Kept /\ Poller \in Scrapes
  BY DEF Workers, Baselines, Scrapes
<1>2. ASSUME NEW c \in Containers, pc[Poller] = "idle" PROVE worker[Poller][c] = "off"
  BY <1>1, <1>2 DEF WorkersListed
<1> QED BY <1>1, <1>2 DEF BaselineKept, Kept, Dropped

\* In every state of the collector the baselines are those of the containers that
\* some last list held, one that the poll loop has sampled has not lost its baseline
\* to it, and the slots taken are never fewer than none or more than there are.
THEOREM BaselinesAlwaysFit == Spec => []BaselinesFit
<1>1. Init => Workers /\ Baselines
  BY InitWorkers, InitBaselines
<1>2. Workers /\ Baselines /\ [Next]_vars => Workers' /\ Baselines'
  BY NextWorkers, NextBaselines
<1> QED BY <1>1, <1>2, BaselinesAreFit, PTL DEF Spec

-----------------------------------------------------------------------------
(* The pace of the counters.                                               *)

\* What is in hand of a container are samples.
LEMMA SeenAreStats ==
    ASSUME TypeOK, NEW c \in Containers
    PROVE  Seen(c) \subseteq Stats
BY DEF Seen, TypeOK

\* Counters that are kept, dropped, or without a system counter keep the pace, also
\* when the container starts or stops.
LEMMA SamplesCarry ==
    ASSUME TypeOK, TypeOK', NEW c \in Containers, NotAhead(c), Paced(c),
           HostTime' = HostTime, used'[c] \in {used[c], 0},
           \A y \in Seen(c)' :
              y.system = 0 \/ \E x \in Seen(c) : x.system = y.system /\ x.total = y.total
    PROVE  NotAhead(c)' /\ Paced(c)'
<1>1. Seen(c) \subseteq Stats
  BY SeenAreStats
<1>2. Seen(c)' \subseteq Stats
  BY DEF Seen, TypeOK
<1>3. HostTime \in Nat /\ used[c] \in Nat
  BY HostTimeGrows DEF TypeOK
<1>4. ASSUME NEW y \in Seen(c)'
      PROVE  /\ y.system <= HostTime
             /\ y.system > 0 => used'[c] <= y.total + (HostTime - y.system)
  <2>1. y \in Stats
    BY <1>2
  <2>2. CASE y.system = 0
    BY <1>3, <2>2
  <2>3. CASE \E x \in Seen(c) : x.system = y.system /\ x.total = y.total
    <3>1. PICK x \in Seen(c) : x.system = y.system /\ x.total = y.total
      BY <2>3
    <3>2. x.system \in Nat /\ x.total \in Nat
      BY <1>1 DEF Stats
    <3>3. /\ x.system <= HostTime
          /\ x.system > 0 => used[c] <= x.total + (HostTime - x.system)
      BY DEF NotAhead
    <3> QED BY <1>3, <3>1, <3>2, <3>3
  <2> QED BY <2>2, <2>3
<1>5. ASSUME NEW x \in Seen(c)', NEW y \in Seen(c)', 0 < x.system, x.system < y.system
      PROVE  y.total <= x.total + (y.system - x.system)
  <2>1. x \in Stats /\ y \in Stats
    BY <1>2
  <2>2. x.system # 0 /\ y.system # 0
    BY <1>5, <2>1 DEF Stats
  <2>3. PICK u \in Seen(c) : u.system = x.system /\ u.total = x.total
    BY <2>2
  <2>4. PICK v \in Seen(c) : v.system = y.system /\ v.total = y.total
    BY <2>2
  <2>5. 0 < u.system /\ u.system < v.system => v.total <= u.total + (v.system - u.system)
    BY DEF Paced
  <2> QED BY <1>5, <2>3, <2>4, <2>5
<1>6. NotAhead(c)'
  BY <1>4 DEF NotAhead
<1>7. Paced(c)'
  BY <1>5 DEF Paced
<1> QED BY <1>6, <1>7

\* The daemon's next answer keeps the pace with all that is in hand.
LEMMA AnswerKeepsPace ==
    ASSUME TypeOK, TypeOK', Pace, NEW s \in Scrapes, NEW c \in Containers, Answer(s, c)
    PROVE  NotAhead(c)' /\ Paced(c)'
<1>1. Seen(c) \subseteq Stats
  BY SeenAreStats
<1>2. HostTime \in Nat /\ used[c] \in Nat /\ HostTime' = HostTime /\ used' = used
  BY HostTimeGrows DEF TypeOK, Answer, environment
<1>3. NotAhead(c) /\ Paced(c)
  BY DEF Pace
<1>4. sample \in [Scrapes -> [Containers -> Stats]] /\ sample[s][c] \in Stats
  BY DEF TypeOK
<1>5. sample' = [sample EXCEPT ![s] = [sample[s] EXCEPT ![c] =
          [sample[s][c] EXCEPT !.total = Counters(c).total, !.system = Counters(c).system]]]
  BY <1>4 DEF Answer
<1>6. /\ sample'[s][c] = [sample[s][c] EXCEPT !.total = Counters(c).total,
                                              !.system = Counters(c).system]
      /\ \A t \in Scrapes : t # s => sample'[t][c] = sample[t][c]
  BY <1>4, <1>5
<1>7. sample'[s][c].total = Counters(c).total /\ sample'[s][c].system = Counters(c).system
  BY <1>4, <1>6 DEF Stats
<1>8. \A y \in Seen(c)' : y = sample'[s][c] \/ y \in Seen(c)
  BY <1>6 DEF Seen, Answer
<1>9. CASE c \notin running
  <2>1. sample'[s][c].system = 0
    BY <1>7, <1>9 DEF Counters
  <2> QED BY <1>2, <1>3, <1>8, <2>1, SamplesCarry
<1>10. CASE c \in running
  <2> DEFINE z == sample'[s][c]
  <2>1. z.total = used[c] /\ z.system = HostTime
    BY <1>7, <1>10 DEF Counters, HostTime
  <2>2. \A x \in Seen(c) : x.system \in Nat /\ x.total \in Nat
    BY <1>1 DEF Stats
  <2>3. \A x \in Seen(c) : /\ x.system <= HostTime
                           /\ x.system > 0 => used[c] <= x.total + (HostTime - x.system)
    BY <1>3 DEF NotAhead
  <2> HIDE DEF z
  <2>4. NotAhead(c)'
    <3>1. \A y \in Seen(c)' : /\ y.system <= HostTime
                              /\ y.system > 0 => used[c] <= y.total + (HostTime - y.system)
      BY <1>2, <1>8, <2>1, <2>3 DEF z
    <3> QED BY <1>2, <3>1 DEF NotAhead
  <2>5. ASSUME NEW x \in Seen(c)', NEW y \in Seen(c)', 0 < x.system, x.system < y.system
        PROVE  y.total <= x.total + (y.system - x.system)
    <3>1. x \in Seen(c)
      BY <1>2, <1>8, <2>1, <2>3, <2>5, <2>2 DEF z
    <3>2. CASE y \in Seen(c)
      BY <1>3, <2>5, <3>1, <3>2 DEF Paced
    <3>3. CASE y = z
      BY <2>1, <2>3, <2>5, <3>1, <3>3
    <3> QED BY <1>8, <3>2, <3>3 DEF z
  <2>6. Paced(c)'
    BY <2>5 DEF Paced
  <2> QED BY <2>4, <2>6
<1> QED BY <1>9, <1>10

\* No moment gives a container more CPU time than the host.
LEMMA TickKeepsPace ==
    ASSUME TypeOK, Pace, NEW c \in Containers, Tick
    PROVE  NotAhead(c)' /\ Paced(c)'
<1>1. Seen(c) \subseteq Stats /\ Seen(c)' = Seen(c)
  BY SeenAreStats DEF Seen, Tick
<1>2. \A x \in Seen(c) : x.system \in Nat /\ x.total \in Nat
  BY <1>1 DEF Stats
<1>3. /\ HostTime \in Nat /\ HostTime' = HostTime + CPUs
      /\ CPUs \in Nat /\ used[c] \in Nat
  BY HostTimeGrows, DockerAssumption DEF TypeOK, Tick
<1>4. used'[c] \in Nat /\ used'[c] <= used[c] + CPUs
  <2>1. PICK u \in [running -> {0, CPUs}] :
            used' = [d \in Containers |-> IF d \in running THEN used[d] + u[d] ELSE used[d]]
    BY DEF Tick
  <2>2. used'[c] = IF c \in running THEN used[c] + u[c] ELSE used[c]
    BY <2>1
  <2>3. c \in running => u[c] \in {0, CPUs}
    BY <2>1
  <2> QED BY <1>3, <2>2, <2>3
<1>5. NotAhead(c) /\ Paced(c)
  BY DEF Pace
<1>6. NotAhead(c)'
  <2>1. \A x \in Seen(c) : /\ x.system <= HostTime
                           /\ x.system > 0 => used[c] <= x.total + (HostTime - x.system)
    BY <1>5 DEF NotAhead
  <2>2. \A x \in Seen(c) : /\ x.system <= HostTime + CPUs
                           /\ x.system > 0 => used'[c] <= x.total + ((HostTime + CPUs) - x.system)
    BY <1>2, <1>3, <1>4, <2>1
  <2> QED BY <1>1, <1>3, <2>2 DEF NotAhead
<1>7. Paced(c)'
  BY <1>1, <1>5 DEF Paced
<1> QED BY <1>6, <1>7

\* A reading from system counters is of two samples that are in hand.
LEMMA SwapExaggeratesNot ==
    ASSUME TypeOK, Pace, NEW s \in Scrapes, NEW c \in Containers, Swap(s, c)
    PROVE  NeverExaggerates'
<1> DEFINE cur == sample[s][c]
           known == c \in DOMAIN prevStats
           r == Reading(cur, Baseline(c), known)
<1>1. results \in [Scrapes -> [Containers -> Readings]]
  BY DEF TypeOK
<1>2. results' = [results EXCEPT ![s][c] = r]
  BY DEF Swap
<1>3. \A t \in Scrapes, d \in Containers :
          results'[t][d] = IF t = s /\ d = c THEN r ELSE results[t][d]
  BY <1>1, <1>2
<1>4. cur \in Stats /\ Baseline(c) \in Stats /\ known \in BOOLEAN
  BY DEF TypeOK, Baseline, NoStats, Stats
<1>5. r.by = "system" => r.cpu <= r.span
  <2>1. r.by = "system" => /\ known /\ 0 < Baseline(c).system /\ Baseline(c).system < cur.system
                           /\ r.cpu = cur.total - Baseline(c).total
                           /\ r.span = cur.system - Baseline(c).system
    <3> HIDE DEF known
    <3> QED BY <1>4, ReadingFits
  <2>2. cur \in Seen(c) /\ (known => Baseline(c) \in Seen(c))
    BY DEF Seen, Baseline
  <2>3. Paced(c)
    BY DEF Pace
  <2>4. known /\ 0 < Baseline(c).system /\ Baseline(c).system < cur.system =>
            cur.total <= Baseline(c).total + (cur.system - Baseline(c).system)
    BY <2>2, <2>3 DEF Paced
  <2>5. /\ cur.total \in Nat /\ cur.system \in Nat
        /\ Baseline(c).total \in Nat /\ Baseline(c).system \in Nat
    BY <1>4 DEF Stats
  <2> HIDE DEF r, cur, known
  <2> QED BY <2>1, <2>4, <2>5
<1>6. \A t \in Scrapes, d \in Containers :
          results[t][d].by = "system" => results[t][d].cpu <= results[t][d].span
  BY DEF Pace, NeverExaggerates
<1> HIDE DEF r
<1> QED BY <1>3, <1>5, <1>6 DEF NeverExaggerates

\* Before the first sample there is nothing to be ahead of.
LEMMA InitPace == Init => Pace
<1> SUFFICES ASSUME Init PROVE Pace
  OBVIOUS
<1>1. DOMAIN prevStats = {}
  BY DEF Init
<1>2. \A c \in Containers : \A x \in Seen(c) : x.system = 0
  BY <1>1 DEF Init, Seen, NoStats
<1>3. HostTime \in Nat
  BY InitWorkers, HostTimeGrows DEF Workers
<1>4. \A c \in Containers : NotAhead(c) /\ Paced(c)
  BY <1>2, <1>3 DEF NotAhead, Paced
<1>5. NeverExaggerates
  BY DEF Init, NeverExaggerates, NoReading
<1> QED BY <1>4, <1>5 DEF Pace

\* Every step keeps the pace.
LEMMA NextPace == TypeOK /\ TypeOK' /\ Pace /\ [Next]_vars => Pace'
<1> SUFFICES ASSUME TypeOK, TypeOK', Pace, [Next]_vars PROVE Pace'
  OBVIOUS
<1>1. /\ sample \in [Scrapes -> [Containers -> Stats]]
      /\ results \in [Scrapes -> [Containers -> Readings]]
  BY DEF TypeOK
<1>2. \A c \in Containers : NotAhead(c) /\ Paced(c)
  BY DEF Pace
<1>3. NoStats.system = 0 /\ NoReading.by # "system"
  BY DEF NoStats, NoReading
<1>4. ASSUME NEW s \in Scrapes, List(s) \/ ListFails(s) \/ Finish(s)
      PROVE  Pace'
  <2>1. /\ UNCHANGED environment
        /\ prevStats' = prevStats \/ prevStats' = [c \in DOMAIN prevStats \cap listed[s] |-> prevStats[c]]
        /\ sample' \in {sample, [sample EXCEPT ![s] = [c \in Containers |-> NoStats]]}
        /\ results' \in {results, [results EXCEPT ![s] = [c \in Containers |-> NoReading]]}
    BY <1>4 DEF List, ListFails, Finish, Prune
  <2>2. \A t \in Scrapes, c \in Containers : /\ sample'[t][c] \in {sample[t][c], NoStats}
                                             /\ results'[t][c] \in {results[t][c], NoReading}
    BY <1>1, <2>1
  <2>3. \A c \in Containers : Seen(c)' \subseteq Seen(c) \cup {NoStats}
    <3>1. \A c \in DOMAIN prevStats' : c \in DOMAIN prevStats /\ prevStats'[c] = prevStats[c]
      BY <2>1
    <3> QED BY <2>2, <3>1 DEF Seen
  <2>4. HostTime' = HostTime /\ used' = used
    BY <2>1, HostTimeGrows DEF environment
  <2>5. ASSUME NEW c \in Containers PROVE NotAhead(c)' /\ Paced(c)'
    <3>1. \A y \in Seen(c)' : y.system = 0 \/ \E x \in Seen(c) : x.system = y.system /\ x.total = y.total
      BY <1>3, <2>3
    <3> QED BY <1>2, <2>4, <3>1, SamplesCarry
  <2>6. NeverExaggerates'
    BY <1>3, <2>2 DEF Pace, NeverExaggerates
  <2> QED BY <2>5, <2>6 DEF Pace
<1>5. ASSUME \/ UNCHANGED vars
             \/ \E s \in Scrapes, c \in Containers :
                   Timeout(s, c) \/ Acquire(s, c) \/ GiveUp(s, c) \/ FetchFails(s, c)
             \/ \E c \in Containers : Run(c) \/ Stop(c)
      PROVE  Pace'
  <2>1. UNCHANGED <<clock, prevStats, sample, results>>
    BY <1>5 DEF vars, Timeout, Acquire, GiveUp, FetchFails, Run, Stop, environment
  <2>2. \A c \in Containers : used'[c] \in {used[c], 0}
    <3>1. used' = used \/ \E d \in Containers : used' = [used EXCEPT ![d] = 0]
      BY <1>5 DEF vars, Timeout, Acquire, GiveUp, FetchFails, Run, Stop, environment
    <3>2. used \in [Containers -> Nat]
      BY DEF TypeOK
    <3> QED BY <3>1, <3>2
  <2>3. HostTime' = HostTime
    BY <2>1, HostTimeGrows
  <2>4. \A c \in Containers : Seen(c)' = Seen(c)
    BY <2>1 DEF Seen
  <2>5. \A c \in Containers : NotAhead(c)' /\ Paced(c)'
    BY <1>2, <2>2, <2>3, <2>4, SamplesCarry
  <2>6. NeverExaggerates'
    BY <2>1 DEF Pace, NeverExaggerates
  <2> QED BY <2>5, <2>6 DEF Pace
<1>6. ASSUME NEW s \in Scrapes, NEW c \in Containers, Answer(s, c) PROVE Pace'
  <2>1. /\ HostTime' = HostTime /\ UNCHANGED <<used, prevStats, results>>
    BY <1>6, HostTimeGrows DEF Answer, environment
  <2>2. ASSUME NEW d \in Containers, d # c PROVE NotAhead(d)' /\ Paced(d)'
    <3>1. \A t \in Scrapes : sample'[t][d] = sample[t][d]
      BY <1>1, <1>6, <2>2 DEF Answer
    <3>2. Seen(d)' = Seen(d)
      BY <2>1, <3>1 DEF Seen
    <3> QED BY <1>2, <2>1, <3>2, SamplesCarry
  <2>3. NotAhead(c)' /\ Paced(c)'
    BY <1>6, AnswerKeepsPace
  <2>4. NeverExaggerates'
    BY <2>1 DEF Pace, NeverExaggerates
  <2> QED BY <2>2, <2>3, <2>4 DEF Pace
<1>7. ASSUME NEW s \in Scrapes, NEW c \in Containers, Decode(s, c) PROVE Pace'
  <2>1. /\ HostTime' = HostTime /\ UNCHANGED <<used, prevStats, results>>
    BY <1>7, HostTimeGrows DEF Decode, environment
  <2>2. \A t \in Scrapes, d \in Containers :
            /\ sample'[t][d].system = sample[t][d].system
            /\ sample'[t][d].total = sample[t][d].total
    <3>1. sample' = [sample EXCEPT ![s] = [sample[s] EXCEPT ![c] =
                        [sample[s][c] EXCEPT !.at = clock]]]
      BY <1>1, <1>7 DEF Decode
    <3>2. /\ [sample[s][c] EXCEPT !.at = clock].system = sample[s][c].system
          /\ [sample[s][c] EXCEPT !.at = clock].total = sample[s][c].total
      BY <1>1 DEF Stats
    <3> QED BY <1>1, <3>1, <3>2
  <2>3. ASSUME NEW d \in Containers PROVE NotAhead(d)' /\ Paced(d)'
    <3>1. \A y \in Seen(d)' : \E x \in Seen(d) : x.system = y.system /\ x.total = y.total
      BY <2>1, <2>2 DEF Seen
    <3> QED BY <1>2, <2>1, <3>1, SamplesCarry
  <2>4. NeverExaggerates'
    BY <2>1 DEF Pace, NeverExaggerates
  <2> QED BY <2>3, <2>4 DEF Pace
<1>8. ASSUME NEW s \in Scrapes, NEW c \in Containers, Swap(s, c) PROVE Pace'
  <2>1. /\ HostTime' = HostTime /\ UNCHANGED <<used, sample>>
        /\ prevStats' = Put(prevStats, c, sample[s][c])
    BY <1>8, HostTimeGrows DEF Swap, environment
  <2>2. ASSUME NEW d \in Containers PROVE NotAhead(d)' /\ Paced(d)'
    <3>1. Seen(d)' \subseteq Seen(d)
      BY <2>1 DEF Seen, Put
    <3> QED BY <1>2, <2>1, <3>1, SamplesCarry
  <2> QED BY <1>8, <2>2, SwapExaggeratesNot DEF Pace
<1>9. ASSUME Tick PROVE Pace'
  <2>1. NeverExaggerates'
    BY <1>9 DEF Tick, Pace, NeverExaggerates
  <2> QED BY <1>9, <2>1, TickKeepsPace DEF Pace
<1> QED BY <1>4, <1>5, <1>6, <1>7, <1>8, <1>9 DEF Next, Collect

\* In every state, no reading of a container that comes from two system counters
\* shows more CPU time than the host had between them: restarts, failed requests and
\* overlapping scrapes included.
THEOREM NeverExaggeratesAlways == Spec => []NeverExaggerates
<1>1. Init => Workers /\ Pace
  BY InitWorkers, InitPace
<1>2. Workers /\ Pace /\ [Next]_vars => Workers' /\ Pace'
  BY NextWorkers, NextPace DEF Workers
<1>3. Pace => NeverExaggerates
  BY DEF Pace
<1> QED BY <1>1, <1>2, <1>3, PTL DEF Spec
=============================================================================
