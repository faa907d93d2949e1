--------------------------------- MODULE Format ---------------------------------
(***************************************************************************)
(* How the dashboard writes numbers: formatBytes, formatSpeed and          *)
(* formatUptime (lib/utils.ts).  A rising amount is written at every step; *)
(* an amount is in tenths, as the collectors round rates to them.  The     *)
(* unit is found by a logarithm in floating point, so that there may be    *)
(* two ways to write an amount that is all but a power of K.               *)
(***************************************************************************)
EXTENDS Integers, Sequences, FiniteSetsExt

CONSTANTS
    K,              \* 1024 in the code: what the units differ by
    Units,          \* sequence: B, KB, ..., PB
    Slip,           \* the tenths below each power at which its logarithm may reach it
    MaxAmount       \* bound: the largest amount, in tenths

VARIABLE amount

Init == amount = 0

Next == amount < MaxAmount /\ amount' = amount + 1

Spec == Init /\ [][Next]_amount

-----------------------------------------------------------------------------
Power[i \in Nat] == IF i = 0 THEN 1 ELSE K * Power[i - 1]

\* Stated as an assumption where the constants get their values.  A tenth of a byte is
\* more than the K-th part of one.  The logarithm of a power is exact; doubles slip by a
\* few bytes below the fifth and by less than a tenth below the others.
FormatAssumption ==
    /\ K \in Nat /\ K >= 10 /\ Units # <<>> /\ MaxAmount \in Nat
    /\ Slip \in [1..Len(Units) -> Nat]
    /\ \A i \in 1..Len(Units) : 2 * Slip[i] <= Power[i - 1]

\* the highest power of K that an amount of a byte or more has in it
Filled(tenths) == Max({i \in 0..Len(Units) : 10 * Power[i] <= tenths})

\* mutant: rounded in the place of floor, so that amounts change the unit early
Exponents_Rounded(tenths) ==
    IF tenths < 10 THEN {-1}
    ELSE {IF 20 * Power[Filled(tenths)] <= tenths THEN Filled(tenths) + 1 ELSE Filled(tenths)}

\* what floor(log(bytes) / log(k)) may be: -1 below one byte
Exponents(tenths) ==
    IF tenths < 10 THEN {-1}
    ELSE {i \in {Filled(tenths), Filled(tenths) + 1} :
             i > Filled(tenths) => i <= Len(Units) /\ 10 * Power[i] - Slip[i] <= tenths}

\* the place of the unit: none, if the exponent is below zero
UnitIndex(exponent) == IF exponent < Len(Units) THEN exponent ELSE Len(Units) - 1

\* (bytes / k^idx).toFixed(1), in tenths; a tie is rounded up
InUnit(tenths, i) ==
    IF i < 0 THEN tenths * K ELSE (2 * tenths + Power[i]) \div (2 * Power[i])

\* the number and the place of its unit, in each way it may be written
FormatBytes(tenths) ==
    IF tenths = 0 THEN {[number |-> 0, unit |-> 0]}
    ELSE {[number |-> InUnit(tenths, UnitIndex(e)), unit |-> UnitIndex(e)] : e \in Exponents(tenths)}

\* formatSpeed: the same with "/s" behind it
FormatSpeed(tenths) == FormatBytes(tenths)

-----------------------------------------------------------------------------
\* the parts of formatUptime, those left out being zero
FormatUptime(s) ==
    [days |-> s \div 86400, hours |-> (s % 86400) \div 3600, minutes |-> (s % 3600) \div 60]

-----------------------------------------------------------------------------
(* Properties.                                                             *)

\* what is written has a unit, and is worth so many tenths
Named(f) == f.unit \in 0..Len(Units) - 1
Worth(f) == f.number * Power[f.unit]

\* Nothing at all, and whatever is a byte or more, is written with a unit.  (What is
\* between has none: the code looks it up at -1.)
HasAUnit == amount = 0 \/ amount >= 10 => \A f \in FormatBytes(amount) : Named(f)

\* Of two amounts that are written with units, the larger one is not written as less,
\* also where the unit changes, early or not, and where rounding reaches the next unit
\* ("1024 KB").
NeverLess ==
    \A f \in FormatBytes(amount), g \in FormatBytes(amount + 1) :
       Named(f) /\ Named(g) => Worth(f) <= Worth(g)

\* What is written with a unit is off by half of its last digit at most, and as short
\* as the units allow: four digits and the decimal, until the last unit.
Accurate ==
    \A f \in FormatBytes(amount) : Named(f) =>
       LET off == Worth(f) - amount
       IN  /\ 2 * off <= Power[f.unit] /\ -2 * off <= Power[f.unit]
           /\ amount > 0 /\ f.unit < Len(Units) - 1 => f.number \in 10..10 * K

\* The parts of an uptime are those of a clock and lose less than a minute.
UptimeOfAClock ==
    LET u == FormatUptime(amount)
        seconds == 86400 * u.days + 3600 * u.hours + 60 * u.minutes
    IN  u.hours < 24 /\ u.minutes < 60 /\ seconds \in amount - 59..amount

\* Amounts and uptimes are written right.
WrittenRight == HasAUnit /\ NeverLess /\ Accurate /\ UptimeOfAClock
=============================================================================
