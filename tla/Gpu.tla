---------------------------------- MODULE Gpu ----------------------------------
(***************************************************************************)
(* GPUCollector.Collect (internal/collector/gpu_linux.go): the usage of an *)
(* Intel GPU.  It is what is left of the time since the previous sample    *)
(* when the time in the sleep state RC6 is taken away, a guess from the    *)
(* clock frequency when that cannot be known, and zero when the device is  *)
(* suspended.  The sysfs files are read before the lock, the time of the   *)
(* sample is taken under it.  The path may come to lead to another card    *)
(* (GpuPath.tla), whose files count on their own.  One unit of time stands *)
(* for 100 ms; usage is in tenths of a percent, as the code rounds it.     *)
(***************************************************************************)
EXTENDS Integers, FiniteSetsExt

CONSTANTS
    Poller,         \* the poll loop
    Requests,       \* the requests at startup, each with one call
    Freqs,          \* bound: the frequencies the files may hold
    MinInterval,    \* 200 ms in the code: no RC6 usage over a shorter time
    MaxSwitches,    \* bound: how often the path comes to lead to another card
    MaxClock        \* bound: the clock of a behaviour

\* stated as an assumption where the constants get their values
GpuAssumption == /\ Poller \notin Requests
                 /\ Freqs \subseteq Nat
                 /\ MinInterval \in Nat \ {0}
                 /\ MaxClock \in Nat /\ MaxSwitches \in Nat

Scrapes == {Poller} \cup Requests

VARIABLES
    \* the environment
    clock,
    card,           \* the card that the path leads to
    residency,      \* the time that card has spent in RC6
    \* the collector
    hasPrevRC6, prevRC6Ms, prevSampleAt,
    prevReadAt,     \* when prevRC6Ms was read, and of which card (history)
    prevCard,
    \* each call
    pc,             \* "idle", "read" (the files are read); of a request then "done"
    files,          \* what it read
    readAt,         \* when it read it, and of which card (history)
    readCard,
    stats,          \* the result
    awake           \* the time the card was awake between the two readings of
                    \* RC6, and the time from the second to its sample, or
                    \* Unknown if they were of two cards (history)

device == <<card, residency>>
baseline == <<hasPrevRC6, prevRC6Ms, prevSampleAt, prevReadAt, prevCard>>
reading == <<files, readAt, readCard>>
vars == <<clock, device, baseline, pc, reading, stats, awake>>

\* a file that cannot be read, or holds no number
Absent == -1
Optional(S) == S \cup {Absent}

Unknown == -1

Files == [suspended : BOOLEAN, rc6 : Optional(0..MaxClock),
          cur : Optional(Freqs), min : Optional(Freqs), max : Optional(Freqs)]
NoFiles == [suspended |-> FALSE, rc6 |-> Absent, cur |-> Absent, min |-> Absent, max |-> Absent]

\* the usage, how it was found, and for RC6 the busy time it stands for
Stats == [usage : 0..1000, by : {"none", "suspended", "rc6", "freq"}, busy : 0..MaxClock]
NoStats == [usage |-> 0, by |-> "none", busy |-> 0]

TypeOK ==
    /\ clock \in 0..MaxClock /\ residency \in 0..clock
    /\ {card, prevCard} \subseteq 0..MaxSwitches
    /\ hasPrevRC6 \in BOOLEAN
    /\ {prevRC6Ms, prevSampleAt, prevReadAt} \subseteq 0..MaxClock
    /\ pc \in [Scrapes -> {"idle", "read", "done"}]
    /\ files \in [Scrapes -> Files]
    /\ readAt \in [Scrapes -> 0..MaxClock] /\ readCard \in [Scrapes -> 0..MaxSwitches]
    /\ stats \in [Scrapes -> Stats]
    /\ awake \in [Scrapes -> 0..MaxClock \cup {Unknown}]

Init ==
    /\ clock = 0 /\ card = 0 /\ residency = 0
    /\ hasPrevRC6 = FALSE /\ prevRC6Ms = 0 /\ prevSampleAt = 0
    /\ prevReadAt = 0 /\ prevCard = 0
    /\ pc = [s \in Scrapes |-> "idle"]
    /\ files = [s \in Scrapes |-> NoFiles]
    /\ readAt = [s \in Scrapes |-> 0] /\ readCard = [s \in Scrapes |-> 0]
    /\ stats = [s \in Scrapes |-> NoStats]
    /\ awake = [s \in Scrapes |-> 0]

-----------------------------------------------------------------------------
(* Usage.                                                                  *)

\* math.Round(a / b * 1000), a and b not negative
Tenths(a, b) == (2 * 1000 * a + b) \div (2 * b)

\* the guess: the place of the frequency between the lowest and the highest, or,
\* with no lowest known, its part of the highest if that is over a quarter
FreqUsage(cur, min, max) ==
    IF min > 0 /\ max > min
    THEN IF cur <= min THEN 0 ELSE Min({1000, Tenths(cur - min, max - min)})
    ELSE IF 4 * cur <= max THEN 0 ELSE Min({1000, Tenths(cur, max)})

\* the busy part of an interval, given what RC6 gained in it
Busy(interval, gain) == interval - Min({gain, interval})

\* a sample of the files f taken at time now
Sample(f, now) ==
    LET interval == now - prevSampleAt
        gain == f.rc6 - prevRC6Ms
    IN  IF f.suspended
        THEN [NoStats EXCEPT !.by = "suspended"]
        ELSE IF f.rc6 # Absent /\ hasPrevRC6 /\ interval >= MinInterval /\ gain >= 0
        THEN [usage |-> Tenths(Busy(interval, gain), interval), by |-> "rc6",
              busy |-> Busy(interval, gain)]
        ELSE IF f.cur # Absent /\ f.max > 0
        THEN [usage |-> FreqUsage(f.cur, f.min, f.max), by |-> "freq", busy |-> 0]
        ELSE NoStats

-----------------------------------------------------------------------------
(* One call of Collect.                                                    *)

\* the files, each of which may be missing; or no device, and no statistics.
\* Bound: frequencies, the guess from which depends on nothing else, are there at
\* the start only, when the requests are over
ReadFiles(s) ==
    /\ pc[s] = "idle"
    /\ \E suspended \in BOOLEAN, rc6 \in {residency, Absent},
          cur, min, max \in IF clock > 0 \/ \E r \in Requests : pc[r] # "done"
                            THEN {Absent} ELSE Optional(Freqs) :
          files' = [files EXCEPT ![s] = [suspended |-> suspended, rc6 |-> rc6,
                                         cur |-> cur, min |-> min, max |-> max]]
    /\ readAt' = [readAt EXCEPT ![s] = clock] /\ readCard' = [readCard EXCEPT ![s] = card]
    /\ pc' = [pc EXCEPT ![s] = "read"]
    /\ UNCHANGED <<clock, device, baseline, stats, awake>>

Unavailable(s) ==
    /\ pc[s] = "idle"
    /\ stats' = [stats EXCEPT ![s] = NoStats]
    /\ UNCHANGED <<clock, device, baseline, pc, reading, awake>>

\* mutant: the time of the baseline is set once
Rebase_Once(f, at, of) ==
    IF f.rc6 # Absent
    THEN /\ prevRC6Ms' = f.rc6 /\ prevReadAt' = at /\ prevCard' = of
         /\ prevSampleAt' = IF hasPrevRC6 THEN prevSampleAt ELSE clock
         /\ hasPrevRC6' = TRUE
    ELSE UNCHANGED baseline

\* the baseline becomes this sample, if it has an RC6 value
Rebase(f, at, of) ==
    IF f.rc6 # Absent
    THEN /\ prevRC6Ms' = f.rc6 /\ prevReadAt' = at /\ prevCard' = of
         /\ prevSampleAt' = clock
         /\ hasPrevRC6' = TRUE
    ELSE UNCHANGED baseline

\* under the lock
Measure(s) ==
    /\ pc[s] = "read"
    /\ stats' = [stats EXCEPT ![s] = Sample(files[s], clock)]
    /\ awake' = [awake EXCEPT ![s] =
          CASE Sample(files[s], clock).by # "rc6" -> 0
            [] Sample(files[s], clock).by = "rc6" /\ readCard[s] # prevCard -> Unknown
            [] OTHER -> (clock - prevReadAt) - (files[s].rc6 - prevRC6Ms)]
    /\ Rebase(files[s], readAt[s], readCard[s])
    /\ pc' = [pc EXCEPT ![s] = IF s = Poller THEN "idle" ELSE "done"]
    /\ files' = [files EXCEPT ![s] = NoFiles]
    /\ readAt' = [readAt EXCEPT ![s] = 0] /\ readCard' = [readCard EXCEPT ![s] = 0]
    /\ UNCHANGED <<clock, device>>

-----------------------------------------------------------------------------
\* the environment: time passes, in RC6 or not
Tick ==
    /\ clock < MaxClock
    /\ clock' = clock + 1
    /\ residency' \in {residency, residency + 1}
    /\ UNCHANGED <<card, baseline, pc, reading, stats, awake>>

\* the path has gone, and is found again with another card, or with this one and its
\* driver loaded anew; nothing in the collector but the path changes
Switch ==
    /\ card < MaxSwitches /\ card' = card + 1
    /\ residency' \in 0..clock
    /\ UNCHANGED <<clock, baseline, pc, reading, stats, awake>>

Next == (\E s \in Scrapes : ReadFiles(s) \/ Unavailable(s) \/ Measure(s)) \/ Tick \/ Switch

Spec == Init /\ [][Next]_vars

-----------------------------------------------------------------------------
(* Properties.                                                             *)

\* The busy time behind a usage is no more than the card was awake between the
\* two readings of RC6, plus the time this call took from its reading to its
\* sample; in particular a card that slept all the time is shown idle, if the
\* call was not held up.  Between two cards there is no such time: one usage may
\* then be made up, and the next one, of two readings of the new card, is real.
BusyIsReal ==
    \A s \in Scrapes :
       stats[s].by = "rc6" =>
          IF awake[s] = Unknown THEN card > 0 ELSE stats[s].busy <= awake[s]

\* A higher frequency never shows a lower usage, whichever of the limits are known.
HigherIsBusier ==
    \A s \in Scrapes :
        (pc[s] = "read" /\ files[s].max > 0 /\ files[s].cur # Absent) =>
            \A f \in Freqs : f <= files[s].cur =>
                FreqUsage(f, files[s].min, files[s].max)
                    <= FreqUsage(files[s].cur, files[s].min, files[s].max)

\* A usage is from 0 to 100 percent, is time that the GPU was awake and rises with the
\* frequency.
UsageIsReal == TypeOK /\ BusyIsReal /\ HigherIsBusier
=============================================================================
