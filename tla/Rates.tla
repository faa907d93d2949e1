--------------------------------- MODULE Rates ---------------------------------
(***************************************************************************)
(* The I/O rates of DiskCollector.Collect and NetworkCollector.Collect     *)
(* (internal/collector/disk.go, network.go).  Both read the kernel's       *)
(* cumulative counters, then, under a lock, go through their rows (mount   *)
(* points, interfaces) and divide what a device's counter gained since the *)
(* baseline in lastIO by the time since then.  Several mount points may    *)
(* share a device.  One counter stands for the four of a device, which are *)
(* treated alike.  Counters are uint64: they wrap, and they start again at *)
(* zero when a device is replaced.                                         *)
(***************************************************************************)
EXTENDS Integers, Sequences, SequencesExt, FiniteSetsExt

CONSTANTS
    Devices,
    Rows,           \* sequence: what the collector goes through, in order
    DeviceOf,       \* function: the device of a row
    Poller,         \* the poll loop
    Requests,       \* the requests at startup, each with one call
    Width,          \* 2^64 in the code
    Gap,            \* 0.1 s in the code: no rate over a shorter time
    MaxRate,        \* bound: what a device carries in a unit of time
    MaxResets,      \* bound: device replacements of a behaviour
    MaxClock        \* bound: the clock of a behaviour

ASSUME RatesAssumption ==
    /\ Poller \notin Requests
    /\ Rows \in Seq(Range(Rows)) /\ DeviceOf \in [Range(Rows) -> Devices]
    /\ {Width, Gap, MaxRate, MaxResets, MaxClock} \subseteq Nat
    /\ Width > 0

Scrapes == {Poller} \cup Requests

VARIABLES
    \* the environment
    clock,
    counter,        \* the kernel's counter of each device
    carried,        \* what each device really carried, replaced or not
    resets,
    \* the collector
    lastIO,         \* function: baseline [bytes, at] of a device, with [mark, takenAt]
    \* each call
    pc,             \* "idle", "read" (counters read), "stamped" (now
                    \* taken); of a request then "done"
    read,           \* the counters of the devices it could read
    now,
    mark,           \* carried, when it read them (history)
    takenAt,        \* the clock, when it read them (history)
    \* the last call that has measured
    rates,          \* per row: [bytes, dt], bytes over dt being the rate
    due             \* per device: [bytes, late, overtaken] (history)

environment == <<clock, counter, carried, resets>>
reading == <<read, mark, takenAt, now>>
vars == <<environment, lastIO, pc, reading, rates, due>>

NoRate == [bytes |-> 0, dt |-> 0]
NothingDue == [bytes |-> 0, late |-> 0, overtaken |-> FALSE]
Zero == [d \in Devices |-> 0]
RowSet == Range(Rows)
Counts == 0..Width - 1

TypeOK ==
    /\ clock \in 0..MaxClock /\ resets \in 0..MaxResets
    /\ counter \in [Devices -> Counts]
    /\ carried \in [Devices -> Nat]
    /\ DOMAIN lastIO \subseteq Devices
    /\ \A d \in DOMAIN lastIO : lastIO[d] \in [bytes : Counts, at : Nat, mark : Nat, takenAt : Nat]
    /\ pc \in [Scrapes -> {"idle", "read", "stamped", "done"}]
    /\ \A s \in Scrapes : DOMAIN read[s] \subseteq Devices /\ Range(read[s]) \subseteq Counts
    /\ mark \in [Scrapes -> [Devices -> Nat]]
    /\ {now, takenAt} \subseteq [Scrapes -> 0..MaxClock]
    /\ rates \in [RowSet -> [bytes : Counts, dt : Nat]]
    /\ due \in [Devices -> [bytes : Nat, late : Nat, overtaken : BOOLEAN]]

Init ==
    /\ clock = 0 /\ resets = 0
    /\ counter = Zero /\ carried = Zero
    /\ lastIO = [d \in {} |-> [bytes |-> 0, at |-> 0, mark |-> 0, takenAt |-> 0]]
    /\ pc = [s \in Scrapes |-> "idle"]
    /\ read = [s \in Scrapes |-> [d \in {} |-> 0]]
    /\ mark = [s \in Scrapes |-> Zero]
    /\ takenAt = [s \in Scrapes |-> 0] /\ now = [s \in Scrapes |-> 0]
    /\ rates = [r \in RowSet |-> NoRate]
    /\ due = [d \in Devices |-> NothingDue]

-----------------------------------------------------------------------------
(* One call of Collect.                                                    *)

\* IOCounters: a device that is not there, or whose counters cannot be read, is
\* left out
ReadCounters(s) ==
    /\ pc[s] = "idle"
    /\ \E D \in SUBSET Devices : read' = [read EXCEPT ![s] = [d \in D |-> counter[d]]]
    /\ mark' = [mark EXCEPT ![s] = carried]
    /\ takenAt' = [takenAt EXCEPT ![s] = clock]
    /\ pc' = [pc EXCEPT ![s] = "read"]
    /\ UNCHANGED <<environment, lastIO, now, rates, due>>

\* now := time.Now(), before the lock
Stamp(s) ==
    /\ pc[s] = "read"
    /\ now' = [now EXCEPT ![s] = clock]
    /\ pc' = [pc EXCEPT ![s] = "stamped"]
    /\ UNCHANGED <<environment, lastIO, read, mark, takenAt, rates, due>>

\* the rate since the baseline; the differences are unsigned: none over a time
\* too short, none for a counter that went back
RateOf(prev, bytes, at) ==
    LET dt == at - prev.at
    IN  IF dt > Gap /\ bytes >= prev.bytes
        THEN [bytes |-> bytes - prev.bytes, dt |-> dt]
        ELSE NoRate

\* what the loop has made of the baselines and the rows so far
LoopState == [last |-> lastIO, rates |-> [r \in RowSet |-> NoRate]]

\* the baseline that a call leaves of a device
BaseOf(s, d) == [bytes |-> read[s][d], at |-> now[s], mark |-> mark[s][d], takenAt |-> takenAt[s]]

\* the baseline was not read before the call read, and the counter went back between the
\* two: it lacked less of what was carried when the call read it
Overtaken(s, d) ==
    /\ lastIO[d].takenAt >= takenAt[s]
    /\ mark[s][d] - read[s][d] < lastIO[d].mark - lastIO[d].bytes

\* what the device carried since its baseline was read, and how long after the reading
\* the baseline's clock was taken
Due(s, d) ==
    IF d \notin DOMAIN lastIO \cap DOMAIN read[s] THEN NothingDue
    ELSE [bytes |-> Max({0, mark[s][d] - lastIO[d].mark}),
          late |-> lastIO[d].at - lastIO[d].takenAt,
          overtaken |-> Overtaken(s, d)]

\* mutant: all rows are measured against the baselines of the previous call
Row_OldBaseline(s, st, r) ==
    LET d == DeviceOf[r]
    IN  IF d \notin DOMAIN read[s] THEN st
        ELSE [last  |-> [e \in DOMAIN st.last \cup {d} |-> IF e = d THEN BaseOf(s, d) ELSE st.last[e]],
              rates |-> IF d \in DOMAIN lastIO
                        THEN [st.rates EXCEPT ![r] = RateOf(lastIO[d], read[s][d], now[s])]
                        ELSE st.rates]

\* one row: the rate of its device, and the device's new baseline
Row(s, st, r) ==
    LET d == DeviceOf[r]
    IN  IF d \notin DOMAIN read[s] THEN st
        ELSE [last  |-> [e \in DOMAIN st.last \cup {d} |-> IF e = d THEN BaseOf(s, d) ELSE st.last[e]],
              rates |-> IF d \in DOMAIN st.last
                        THEN [st.rates EXCEPT ![r] = RateOf(st.last[d], read[s][d], now[s])]
                        ELSE st.rates]

\* the loop, under the lock, over the rows that the filter lets through and, for
\* a mount point, whose usage can be read
Measure(s) ==
    /\ pc[s] = "stamped"
    /\ \E shown \in SUBSET RowSet :
          LET st == FoldLeft(LAMBDA acc, r : IF r \in shown THEN Row(s, acc, r) ELSE acc,
                             LoopState, Rows)
          IN  lastIO' = st.last /\ rates' = st.rates
    /\ due' = [d \in Devices |-> Due(s, d)]
    /\ pc' = [pc EXCEPT ![s] = IF s = Poller THEN "idle" ELSE "done"]
    /\ read' = [read EXCEPT ![s] = [d \in {} |-> 0]]
    /\ mark' = [mark EXCEPT ![s] = Zero]
    /\ takenAt' = [takenAt EXCEPT ![s] = 0]
    /\ now' = [now EXCEPT ![s] = 0]
    /\ UNCHANGED environment

-----------------------------------------------------------------------------
(* The environment.                                                        *)

\* time passes and the devices carry something
Tick ==
    /\ clock < MaxClock
    /\ clock' = clock + 1
    /\ \E b \in [Devices -> 0..MaxRate] :
          /\ counter' = [d \in Devices |-> (counter[d] + b[d]) % Width]
          /\ carried' = [d \in Devices |-> carried[d] + b[d]]
    /\ UNCHANGED <<resets, lastIO, pc, reading, rates, due>>

\* the device is replaced by one of the same name
Reset(d) ==
    /\ resets < MaxResets
    /\ resets' = resets + 1
    /\ counter' = [counter EXCEPT ![d] = 0]
    /\ UNCHANGED <<clock, carried, lastIO, pc, reading, rates, due>>

Next ==
    \/ \E s \in Scrapes : ReadCounters(s) \/ Stamp(s) \/ Measure(s)
    \/ Tick
    \/ \E d \in Devices : Reset(d)

Spec == Init /\ [][Next]_vars

-----------------------------------------------------------------------------
(* Properties.                                                             *)

\* The rates of all rows of a device together never show more bytes than the device
\* carried since the baseline was read: not when its counter wraps or starts again, not
\* when it is mounted twice, not when another call gets between a call's reading and its
\* measuring.  All of these at once are too much for the code: a call that read before
\* the counter went back, and measures against a baseline that was read after it, takes
\* the difference for traffic (network.go:68, disk.go:95).
NeverInvents ==
    \A d \in Devices :
        ~due[d].overtaken =>
            SumFunction([r \in {q \in RowSet : DeviceOf[q] = d} |-> rates[r].bytes])
                <= due[d].bytes

\* The clock is read after the counters: a rate is above what the device can carry by
\* no more than the time between the two in the call that set the baseline, also when
\* that call's clock is later than the one of a call that read after it.
NeverTooFast ==
    \A r \in RowSet :
        LET d == DeviceOf[r]
        IN  ~due[d].overtaken =>
                rates[r].bytes <= MaxRate * (rates[r].dt + due[d].late)

\* A rate is never negative, although its counters may go back, and shows what was
\* carried in the time that it was carried in, but for a call that was overtaken.
RatesAreReal == TypeOK /\ NeverInvents /\ NeverTooFast

\* What Collect returns are rates of the device (disk.go:44, network.go:42): no more
\* bytes than it carried.
RatesOfTheDevice ==
    \A d \in Devices :
        SumFunction([r \in {q \in RowSet : DeviceOf[q] = d} |-> rates[r].bytes])
            <= due[d].bytes
=============================================================================
