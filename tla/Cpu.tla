---------------------------------- MODULE Cpu ----------------------------------
(***************************************************************************)
(* CPUCollector.Collect (internal/collector/cpu.go).  "Percent with        *)
(* interval 0 computes usage since the previous call": the library reads   *)
(* the times of the cores, then swaps them under a lock against those of   *)
(* the call before, whoever made it.  Collections overlap (the poll loop,  *)
(* a request at startup), so one may swap in a reading that is older than  *)
(* the one it gets.  Usage is in tenths of a percent.                      *)
(***************************************************************************)
EXTENDS Integers, FiniteSets, Functions

CONSTANTS
    Poller,         \* the poll loop
    Requests,       \* the requests at startup, each with one call
    Cores,
    MaxClock        \* bound: the clock of a behaviour

\* stated as an assumption where the constants get their values
CpuAssumption ==
    /\ Poller \notin Requests /\ IsFiniteSet(Cores) /\ Cores # {} /\ MaxClock \in Nat

Scrapes == {Poller} \cup Requests

VARIABLES
    clock,
    worked,         \* core -> the moments in which it worked
    lastTimes,      \* the library's: when the times it keeps were read
    pc, readAt,     \* each call: "idle", "read"; of a request then "done"
    sample,         \* the last usage: from one reading to another
    counted         \* the moments that some usage was taken over (history)

vars == <<clock, worked, lastTimes, pc, readAt, sample, counted>>

\* the library reads the times when the program starts, too
Init ==
    /\ clock = 0 /\ worked = [c \in Cores |-> {}]
    /\ lastTimes = 0
    /\ pc = [s \in Scrapes |-> "idle"] /\ readAt = [s \in Scrapes |-> 0]
    /\ sample = [from |-> 0, to |-> 0] /\ counted = {}

-----------------------------------------------------------------------------
(* Usage.                                                                  *)

\* the time that a core had worked, of the time that had passed
Busy(c, t) == Cardinality(worked[c] \cap 1..t)

Tenths(a, b) == (2 * 1000 * a + b) \div (2 * b)

\* the time that a core worked in the interval; none in one that goes back
Gain(c, s) == IF Busy(c, s.to) <= Busy(c, s.from) THEN 0 ELSE Busy(c, s.to) - Busy(c, s.from)

\* rounded, each by itself
PerCorePercent(s) == [c \in Cores |-> IF Gain(c, s) = 0 THEN 0 ELSE Tenths(Gain(c, s), s.to - s.from)]

\* the mean of those that are not rounded yet
TotalPercent(s) ==
    LET gains == SumFunction([c \in Cores |-> Gain(c, s)])
    IN  IF gains = 0 THEN 0 ELSE Tenths(gains, Cardinality(Cores) * (s.to - s.from))

-----------------------------------------------------------------------------
(* One call of Collect.                                                    *)

ReadTimes(s) ==
    /\ pc[s] = "idle"
    /\ pc' = [pc EXCEPT ![s] = "read"] /\ readAt' = [readAt EXCEPT ![s] = clock]
    /\ UNCHANGED <<clock, worked, lastTimes, sample, counted>>

\* under the library's lock
Measure(s) ==
    /\ pc[s] = "read"
    /\ sample' = [from |-> lastTimes, to |-> readAt[s]]
    /\ lastTimes' = readAt[s]
    /\ counted' = counted \cup lastTimes + 1..readAt[s]
    /\ pc' = [pc EXCEPT ![s] = IF s = Poller THEN "idle" ELSE "done"]
    /\ readAt' = [readAt EXCEPT ![s] = 0]
    /\ UNCHANGED <<clock, worked>>

\* the environment: a moment passes in which some cores work
Tick ==
    /\ clock < MaxClock /\ clock' = clock + 1
    /\ \E S \in SUBSET Cores :
          worked' = [c \in Cores |-> IF c \in S THEN worked[c] \cup {clock'} ELSE worked[c]]
    /\ UNCHANGED <<lastTimes, pc, readAt, sample, counted>>

Next == (\E s \in Scrapes : ReadTimes(s) \/ Measure(s)) \/ Tick

Spec == Init /\ [][Next]_vars

-----------------------------------------------------------------------------
(* Properties.                                                             *)

\* However collections overlap, no work is missed: every moment up to the reading that
\* is kept has been in the interval of some usage (it may have been in two).
NoTimeMissed == 1..lastTimes \subseteq counted

\* A core is shown with the part of the interval in which it worked, to half of the digit
\* that is shown, and the total lies between the least and the busiest core.  A usage
\* over an interval that goes back is none.
ShareOfTime ==
    LET percent == PerCorePercent(sample)
        interval == sample.from + 1..sample.to
        n == Cardinality(interval)
    IN  /\ \A c \in Cores :
              LET part == Cardinality(worked[c] \cap interval)
              IN  /\ percent[c] \in 0..1000 /\ (part = 0 => percent[c] = 0)
                  /\ 2 * (n * percent[c] - 1000 * part) <= n
                  /\ 2 * (1000 * part - n * percent[c]) <= n
        /\ \E c, d \in Cores : percent[c] <= TotalPercent(sample) /\ TotalPercent(sample) <= percent[d]

CpuUsageIsReal == NoTimeMissed /\ ShareOfTime
=============================================================================
