--------------------------------- MODULE Meters ---------------------------------
(***************************************************************************)
(* The meters and gauges of the dashboard: SegmentedMeter, RadialGauge and *)
(* Progress (components/ui) with the zones and colours that the sections   *)
(* give them (VisualGaugesSection, DiskAndNetworkSection, CpuSection).  A  *)
(* percentage rises at every step; it is in tenths, as the collectors      *)
(* round, and may lie outside of 0 to 100.                                 *)
(***************************************************************************)
EXTENDS Integers, Sequences, FiniteSetsExt

CONSTANTS
    Lowest, Highest,    \* bound: the percentages, in tenths
    Segments,           \* 28 in the code
    Cores               \* bound: the core counts

\* stated as an assumption where the constants get their values
MetersAssumption ==
    /\ Lowest \in Int /\ Highest \in Int /\ Lowest <= 0 /\ Highest >= 1000
    /\ Segments \in Nat \ {0} /\ Cores \subseteq Nat

VARIABLE percent

Init == percent = Lowest

Next == percent < Highest /\ percent' = percent + 1

Spec == Init /\ [][Next]_percent

\* Math.min(hi, Math.max(lo, x))
Clamp(lo, hi, x) == IF x < lo THEN lo ELSE IF x > hi THEN hi ELSE x

-----------------------------------------------------------------------------
(* SegmentedMeter.                                                         *)

\* zones by their boundaries: zone i is from zones[i] to zones[i + 1]
StorageZones == <<0, 700, 850, 1000>>
LoadZones == <<0, 500, 800, 1000>>
DiskZones == <<0, 750, 900, 1000>>

Zones(bounds) == 1..Len(bounds) - 1
Span(bounds) == bounds[Len(bounds)] - bounds[1]

\* mutant: no zone contains its upper boundary
Contains_NoEnd(bounds, i, v) == v >= bounds[i] /\ v < bounds[i + 1]

\* the last zone contains its upper boundary, too
Contains(bounds, i, v) ==
    /\ v >= bounds[i]
    /\ v < bounds[i + 1] \/ (i = Len(bounds) - 1 /\ v <= bounds[i + 1])

\* zones.findIndex(...), 0 for none
ActiveIndex(bounds, v) ==
    LET found == {i \in Zones(bounds) : Contains(bounds, i, v)}
    IN  IF found = {} THEN 0 ELSE Min(found)

\* the marker's place, of Span(bounds)
Position(bounds, v) == Clamp(0, Span(bounds), v - bounds[1])

\* the zones are drawn one after the other, as wide as they are
Width(bounds, i) == bounds[i + 1] - bounds[i]
LeftEdge(bounds, i) == MapThenSumSet(LAMBDA j : Width(bounds, j), 1..i - 1)

\* a load (in hundredths) in whole percent of the cores; a count of zero is taken
\* for one
LoadRatio(load, cores) ==
    LET n == IF cores = 0 THEN 1 ELSE cores
    IN  Min({1000, 10 * ((2 * load + n) \div (2 * n))})

-----------------------------------------------------------------------------
(* RadialGauge.                                                            *)

\* a segment is filled once its middle is reached
Filled(i) == (2 * i + 1) * 1000 <= 2 * Segments * Clamp(0, 1000, percent)

\* Math.max(1, Math.round(fraction * segments)), which the delays are shares of
FilledCount ==
    LET n == (2 * Segments * Clamp(0, 1000, percent) + 1000) \div 2000
    IN  IF n > 1 THEN n ELSE 1

-----------------------------------------------------------------------------
(* Properties.                                                             *)

\* Whatever a section passes to a meter, one zone is lit, and the marker stands on
\* it: the zone is found from the boundaries, the marker placed from the span, the
\* zones drawn from their widths.
MarkerOnZone ==
    LET OnZone(bounds, v) ==
            LET i == ActiveIndex(bounds, v)
            IN  /\ i # 0
                /\ Position(bounds, v) >= LeftEdge(bounds, i)
                /\ Position(bounds, v) <= LeftEdge(bounds, i) + Width(bounds, i)
    IN  /\ OnZone(StorageZones, Clamp(0, 1000, percent))
        /\ OnZone(DiskZones, Clamp(0, 1000, percent))
        /\ percent >= 0 => \A cores \in Cores : OnZone(LoadZones, LoadRatio(percent, cores))

\* The segments that are filled are as many as the value's share and begin at the first
\* one; the delays are computed from another formula, which agrees.
FilledIsTheShare ==
    LET filled == {i \in 0..Segments - 1 : Filled(i)}
    IN  /\ filled \in {{}, 0..FilledCount - 1}
        /\ filled = {} <=> 2 * Segments * Clamp(0, 1000, percent) < 1000

\* Meters and gauges show the value.
ShowsTheValue == MarkerOnZone /\ FilledIsTheShare
=============================================================================
