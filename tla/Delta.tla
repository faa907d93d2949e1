---------------------------------- MODULE Delta ----------------------------------
(***************************************************************************)
(* The change that a card of the dashboard shows: OverviewCards computes   *)
(* it, KpiCard colours its sparkline by it, DeltaBadge writes it with an   *)
(* arrow and a colour (lib/format.ts, lib/utils.ts).  Which renders it     *)
(* compares is in View.tla, this module is about the numbers.  A reading   *)
(* is in tenths (of a percent, of a byte per second), a change a fraction. *)
(***************************************************************************)
EXTENDS Integers

CONSTANTS
    Percents, Rates     \* bound: the readings, in tenths

\* stated as an assumption where the constants get their values
DeltaAssumption == Percents \subseteq 0..1000 /\ Rates \subseteq Nat

Shown == {"cpu", "net"}       \* memory is computed as cpu is

VARIABLES
    value,          \* what is shown
    prevRef,        \* the last reading above zero
    against,        \* the one before it, which the change is from (history)
    deltas          \* [num, den], or Undefined

vars == <<value, prevRef, against, deltas>>

Undefined == [num |-> 0, den |-> 0]

Init ==
    /\ value = [m \in Shown |-> 0] /\ prevRef = [m \in Shown |-> 0]
    /\ against = [m \in Shown |-> 0]
    /\ deltas = [m \in Shown |-> Undefined]

\* (new - old) / 100 of percents, which are in tenths, and (new - old) / old of rates
Change(m, new, old) ==
    CASE old = 0 -> Undefined
      [] old > 0 /\ m = "cpu" -> [num |-> new - old, den |-> 1000]
      [] old > 0 /\ m = "net" ->
            IF new > 0 THEN [num |-> new - old, den |-> old] ELSE Undefined

\* the effect of a render with these readings
Show(cpu, net) ==
    LET new == [m \in Shown |-> IF m = "cpu" THEN cpu ELSE net]
    IN  /\ value' = new
        /\ deltas' = [m \in Shown |-> Change(m, new[m], prevRef[m])]
        /\ prevRef' = [m \in Shown |-> IF new[m] > 0 THEN new[m] ELSE prevRef[m]]
        /\ against' = prevRef

Next == \E cpu \in Percents, net \in Rates : Show(cpu, net)

Spec == Init /\ [][Next]_vars

-----------------------------------------------------------------------------
(* The card.                                                               *)

Inverted(m) == m = "cpu"

\* getDeltaDirection
Direction(d) == IF d.num = 0 THEN "flat" ELSE IF d.num > 0 THEN "up" ELSE "down"

\* DeltaBadge
BadgeColour(m, d) ==
    CASE Direction(d) = "flat" -> "muted"
      [] Direction(d) # "flat" ->
            IF (Direction(d) = "up") # Inverted(m) THEN "green" ELSE "red"

\* KpiCard: without a delta the direction is flat
LineColour(m, d) ==
    IF d = Undefined \/ Direction(d) = "flat" THEN "primary"
    ELSE IF (Direction(d) = "up") # Inverted(m) THEN "green" ELSE "red"

\* formatDelta: tenths of a percent, a half rounded away from zero
Written(d) ==
    LET tenths(n) == (2000 * n + d.den) \div (2 * d.den)
    IN  IF d.num < 0 THEN -tenths(-d.num) ELSE tenths(d.num)

-----------------------------------------------------------------------------
(* Properties.                                                             *)

\* What a badge writes is the change to the last digit that it has, and never in the
\* other direction than its arrow.
WritesTheChange ==
    \A m \in Shown : deltas[m] # Undefined =>
       LET d == deltas[m]
           off == Written(d) * d.den - 1000 * d.num
       IN  /\ 2 * off <= d.den /\ -2 * off <= d.den
           /\ Written(d) > 0 => Direction(d) = "up"
           /\ Written(d) < 0 => Direction(d) = "down"

\* Badge and sparkline, which find their colours on their own, agree; a busier CPU is
\* bad and more traffic is good, compared with the last render that had a reading.
ColoursAgree ==
    \A m \in Shown : deltas[m] # Undefined =>
       /\ BadgeColour(m, deltas[m]) = "muted" <=> LineColour(m, deltas[m]) = "primary"
       /\ LineColour(m, deltas[m]) \in {"primary", BadgeColour(m, deltas[m])}
       /\ BadgeColour(m, deltas[m]) = "red" <=>
             IF Inverted(m) THEN value[m] > against[m] ELSE value[m] < against[m]

\* A badge tells the change that there was, in number, arrow and colour.
BadgeTellsTheChange == WritesTheChange /\ ColoursAgree
=============================================================================
