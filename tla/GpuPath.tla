--------------------------------- MODULE GpuPath ---------------------------------
(***************************************************************************)
(* Where the GPU collector looks (internal/collector/gpu_linux.go): the    *)
(* directory of the configuration, or a card of the DRM directory that is  *)
(* an Intel GPU.  Every collection verifies the path first and looks for   *)
(* another one when it is gone; then it reads the path again for each file *)
(* of the directory, of which the vendor's stands for all.  sysfsPath is   *)
(* read and written without the collector's lock, and two collections may  *)
(* overlap.                                                                *)
(***************************************************************************)
EXTENDS Naturals, FiniteSetsExt

CONSTANTS
    Cards,          \* the numbers of the cards that are looked for: 0..7 in the code
    Elsewhere,      \* a directory outside of the DRM directory
    None,           \* no path is configured; no GPU is reported
    Torn,           \* what a read may see of a string that is being written
    Poller,         \* the poll loop
    Requests,       \* the requests at startup, each with one call
    MaxChanges      \* bound: the changes of the host

\* stated as an assumption where the constants get their values
GpuPathAssumption ==
    /\ Cards \subseteq Nat /\ 0 \in Cards
    /\ Poller \notin Requests /\ MaxChanges \in Nat

Scrapes == {Poller} \cup Requests
Paths == Cards \cup {Elsewhere}

VARIABLES
    configured,
    present, intel, changes,    \* the host: directories, which of them are Intel's
    sysfsPath,
    pc,             \* "idle", "resolve" (the path is gone), "verify", "report"
                    \* (the path is there); of a request then "done"
    reported        \* the directory that each scrape's last result is of

host == <<configured, present, intel, changes>>
vars == <<host, sysfsPath, pc, reported>>

\* resolveDrmPath without a configured path
ResolveDrmPath ==
    LET found == present \cap intel \cap Cards IN IF found = {} THEN 0 ELSE Min(found)

\* NewGPUCollector
Init ==
    /\ configured \in {None, 0, Elsewhere}
    /\ present \in SUBSET Paths /\ intel \in SUBSET Paths /\ changes = 0
    /\ sysfsPath = IF configured = None THEN ResolveDrmPath ELSE configured
    /\ pc = [s \in Scrapes |-> "idle"]
    /\ reported = [s \in Scrapes |-> None]

\* a driver is loaded or a volume mounted, or taken away
Change ==
    /\ changes < MaxChanges /\ changes' = changes + 1
    /\ \E p \in Paths : present' = IF p \in present THEN present \ {p} ELSE present \cup {p}
    /\ UNCHANGED <<configured, intel, sysfsPath, pc, reported>>

\* The string is a pointer and a length: while another path is written over Elsewhere,
\* which has another length, a read may see the one of the old and the other of the new.
Read(s) ==
    {sysfsPath} \cup
       (IF sysfsPath = Elsewhere /\ \E o \in Scrapes \ {s} : pc[o] = "resolve"
        THEN {Torn} ELSE {})

Return(s, p) ==
    /\ pc' = [pc EXCEPT ![s] = IF s = Poller THEN "idle" ELSE "done"]
    /\ reported' = [reported EXCEPT ![s] = p]

GoTo(s, step) == pc' = [pc EXCEPT ![s] = step] /\ UNCHANGED reported

\* mutant: the path is not looked for again
Stat_Once(s) ==
    /\ pc[s] = "idle"
    /\ \E p \in Read(s) : IF p \in present THEN GoTo(s, "report") ELSE Return(s, None)
    /\ UNCHANGED <<host, sysfsPath>>

Stat(s) ==
    /\ pc[s] = "idle"
    /\ \E p \in Read(s) : GoTo(s, IF p \in present THEN "report" ELSE "resolve")
    /\ UNCHANGED <<host, sysfsPath>>

Resolve(s) ==
    /\ pc[s] = "resolve"
    /\ sysfsPath' = ResolveDrmPath
    /\ GoTo(s, "verify")
    /\ UNCHANGED host

Verify(s) ==
    /\ pc[s] = "verify"
    /\ \E p \in Read(s) : IF p \in present THEN GoTo(s, "report") ELSE Return(s, None)
    /\ UNCHANGED <<host, sysfsPath>>

\* The result is of an Intel GPU, also if the vendor cannot be read, or of another vendor's.
Report(s) ==
    /\ pc[s] = "report"
    /\ \E p \in Read(s) : Return(s, p)
    /\ UNCHANGED <<host, sysfsPath>>

Next == Change \/ \E s \in Scrapes : Stat(s) \/ Resolve(s) \/ Verify(s) \/ Report(s)

\* Fairness: the poll loop collects again and again, and a collection that has begun
\* ends.  The host need not change.
Fairness ==
    /\ WF_vars(Stat(Poller))
    /\ \A s \in Scrapes : WF_vars(Resolve(s) \/ Verify(s) \/ Report(s))

Spec == Init /\ [][Next]_vars /\ Fairness

-----------------------------------------------------------------------------
(* Properties.                                                             *)

\* An Intel card that appears after the start is found, whichever path was configured and
\* whatever overlapping collections did to the path: every result of the poll loop is from
\* then on of an Intel GPU.  Unless the collector holds on to a directory of another
\* vendor's GPU: it looks for another path only when its own is gone (gpu_linux.go:86), so
\* the configured one, or card0, which it falls back to, is kept while it is there.
HeldOnTo == sysfsPath \in present \ intel /\ sysfsPath \in {configured, 0}
CardReported ==
    present \cap intel \cap Cards # {} =>
        reported[Poller] \in IF HeldOnTo THEN {sysfsPath} ELSE present \cap intel
CardFound == <>[]CardReported
=============================================================================
