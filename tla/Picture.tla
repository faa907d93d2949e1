-------------------------------- MODULE Picture --------------------------------
(***************************************************************************)
(* What the history chart draws of its points: the series of the category  *)
(* that is selected (components/HistoricalChart.tsx), the areas, lines or  *)
(* bars of TrendChart (ui/trend-chart.tsx), and the legend and the tooltip *)
(* (ui/chart.tsx), which find the label of a series in the configuration   *)
(* by names that the chart library passes on.  When the points are asked   *)
(* for is in Chart.tla.                                                    *)
(*                                                                         *)
(* Percentages are in tenths and rates in bytes per second, as the         *)
(* database keeps them.                                                    *)
(***************************************************************************)
EXTENDS Integers, Sequences, SequencesExt, FiniteSetsExt

CONSTANTS
    K,                  \* 1024 in the code
    Units,              \* sequence: B, KB, ..., PB
    Slip,               \* what the logarithm of an amount may be off by, see Format.tla
    Percents, Rates     \* bound: the readings of a point

Bytes == INSTANCE Format WITH MaxAmount <- 0, amount <- 0

\* stated as an assumption where the constants get their values
PictureAssumption ==
    Bytes!FormatAssumption /\ Percents \subseteq 0..1000 /\ Rates \subseteq Nat

VARIABLES
    category, chartType,
    point           \* the point under the pointer: its two readings in this category

vars == <<category, chartType, point>>

Readings(c) == IF c = "system" THEN Percents ELSE Rates

Init ==
    /\ category = "system" /\ chartType = "area"
    /\ point \in [1..2 -> Readings("system")]

\* the tabs
SetCategory(c) ==
    /\ category # c /\ category' = c
    /\ point' \in [1..2 -> Readings(c)]
    /\ UNCHANGED chartType

SetChartType(t) == chartType # t /\ chartType' = t /\ UNCHANGED <<category, point>>

Hover == point' \in [1..2 -> Readings(category)] /\ UNCHANGED <<category, chartType>>

Next ==
    \/ \E c \in {"system", "network", "disk"} : SetCategory(c)
    \/ \E t \in {"area", "line"} : SetChartType(t)
    \/ Hover

Spec == Init /\ [][Next]_vars

-----------------------------------------------------------------------------
(* HistoricalChart.                                                        *)

Series ==
    CASE category = "system" ->
             <<[key |-> "cpu", label |-> "CPU Usage (%)", color |-> "chart-1"],
               [key |-> "memory", label |-> "Memory Usage (%)", color |-> "chart-2"]>>
      [] category = "network" ->
             <<[key |-> "rx", label |-> "Download (KB/s)", color |-> "chart-1"],
               [key |-> "tx", label |-> "Upload (KB/s)", color |-> "chart-4"]>>
      [] category = "disk" ->
             <<[key |-> "read", label |-> "Disk Read (KB/s)", color |-> "chart-2"],
               [key |-> "write", label |-> "Disk Write (KB/s)", color |-> "chart-3"]>>

Round(n, d) == (2 * n + d) \div (2 * d)

\* a rate is drawn in whole KB/s
Value(reading) == IF category = "system" THEN reading ELSE Round(reading, K)

\* whole percents; for the others formatSpeed(value * 1024), whose unit need not be
\* the one that the label names; in each way it may be written
YFormatter(value) ==
    IF category = "system" THEN {[number |-> Round(value, 10), unit |-> 0]}
    ELSE Bytes!FormatSpeed(10 * K * value)

-----------------------------------------------------------------------------
(* TrendChart and ChartContainer.                                          *)

Keys == {Series[i].key : i \in DOMAIN Series}
SeriesOf(key) == CHOOSE s \in Range(Series) : s.key = key

\* Object.fromEntries(series.map(...))
Config == [k \in Keys |-> [label |-> SeriesOf(k).label, color |-> SeriesOf(k).color]]

\* the style that defines --color-<key>
Stroke(key) == Config[key].color

\* one area or line for each series
Drawn ==
    [i \in DOMAIN Series |-> [mark |-> chartType, dataKey |-> Series[i].key,
                              stroke |-> Stroke(Series[i].key), value |-> Value(point[i])]]

\* the axis: percentages up to 100, rates to the largest there is; a line at zero if
\* anything is below it
Domain == [from |-> 0, to |-> IF category = "system" THEN 1000 ELSE Max({Drawn[i].value : i \in 1..2})]
HasNegative == \E i \in DOMAIN Drawn : Drawn[i].value < 0

\* what the library passes to the legend and to the tooltip for series i: the element's
\* properties, and the row of the data
Item(i) ==
    [dataKey |-> Drawn[i].dataKey, name |-> Drawn[i].dataKey, value |-> Drawn[i].value,
     color |-> Drawn[i].stroke, payload |-> [time |-> "12:00:00"]]

\* a field of the item or of its row that has the name and is a text leads to
\* another entry of the configuration
TextFields == {"dataKey", "name", "color"}
ConfigOf(item, key) ==
    LET label == CASE key \in TextFields -> item[key]
                   [] key \notin TextFields /\ key = "time" -> item.payload.time
                   [] OTHER -> key
    IN  IF label \in DOMAIN Config THEN Config[label] ELSE Config[key]

Legend ==
    [i \in DOMAIN Series |->
        [label |-> ConfigOf(Item(i), Item(i).dataKey).label, color |-> Item(i).color]]

\* TrendChart's formatter writes the row of a series
Formatter(value, name) == [label |-> Config[name].label, written |-> YFormatter(value)]

\* the point's label, unless it is the key of a series; the rows, without indicator where
\* there is a formatter
Heading == LET time == Item(1).payload.time
           IN  IF time \in DOMAIN Config THEN Config[time].label ELSE time
Tooltip == [i \in DOMAIN Series |-> Formatter(Item(i).value, Item(i).name)]

\* the corners that are rounded, of bar `index' of `count'; all of them for bars that
\* stand alone
All == {"top left", "top right", "bottom right", "bottom left"}
BarCorners(stacked, hasNegative, horizontal, index, count) ==
    CASE ~stacked \/ count = 1 -> All
      [] stacked /\ count # 1 /\ hasNegative -> {}
      [] stacked /\ count # 1 /\ ~hasNegative /\ index = count - 1 ->
             IF horizontal THEN {"top right", "bottom right"} ELSE {"top left", "top right"}
      [] stacked /\ count # 1 /\ ~hasNegative /\ index = 0 ->
             IF horizontal THEN {"top left", "bottom left"} ELSE {"bottom right", "bottom left"}
      [] OTHER -> {}

-----------------------------------------------------------------------------
(* Properties.                                                             *)

\* A point is within the axis.  The legend and the tooltip name a series as the chart
\* draws it, and what the tooltip says is the reading: to half a percent, or to half a
\* KB/s and half of the last digit that is written.
TellsThePoint ==
    \A i \in DOMAIN Series :
       /\ Legend[i] = [label |-> Series[i].label, color |-> Stroke(Series[i].key)]
       /\ Tooltip[i].label = Series[i].label /\ Heading = Item(i).payload.time
       /\ Drawn[i].value \in Domain.from..Domain.to /\ ~HasNegative
       /\ \A amount \in Tooltip[i].written :
             LET off == IF category = "system" THEN 10 * amount.number - point[i]
                        ELSE Bytes!Worth(amount) - 10 * point[i]
                 bound == IF category = "system" THEN 10
                          ELSE 10 * K + Bytes!Power[amount.unit]
             IN  2 * off <= bound /\ -2 * off <= bound

\* Two series of a category are told apart.
ToldApart == \A i, j \in DOMAIN Series : i # j =>
    Legend[i].label # Legend[j].label /\ Legend[i].color # Legend[j].color

\* "Round only the outer corners of a stack; mixed-sign stacks stay square"
\* (trend-chart.tsx:100): bars that are stacked round each corner of the stack once.
RoundOutside ==
    \A horizontal \in BOOLEAN, count \in 2..4 :
       LET corners(i) == BarCorners(TRUE, FALSE, horizontal, i, count)
       IN  /\ UNION {corners(i) : i \in 0..count - 1} = All
           /\ \A i, j \in 0..count - 1 : i # j => corners(i) \cap corners(j) = {}
           /\ \A i \in 1..count - 2 : corners(i) = {}
           /\ \A i \in 0..count - 1 : BarCorners(TRUE, TRUE, horizontal, i, count) = {}

PictureTells == TellsThePoint /\ ToldApart /\ RoundOutside
=============================================================================
