---------------------------------- MODULE Page ----------------------------------
(***************************************************************************)
(* What the page draws, side by side: the snapshots it renders (View), its *)
(* sections (Sections), the columns and the rows of its table (Columns,    *)
(* DataTable), the points of its chart (Picture), the way it writes        *)
(* amounts (Format), its meters (Meters), its badges (Delta) and its links *)
(* (Links).  They share no state; `part' says which of them moves in a     *)
(* behaviour.                                                              *)
(***************************************************************************)
EXTENDS View, Integers

CONSTANTS
    Missing, Null, NoText, Text, Crash,                         \* Sections
    Hosts, CPUs, Memories, Disks, Networks, GPUs, Dockers,
    Columns, PinnedStart, PinnedEnd, CanHide, Listed, AnyColumn, None,  \* Columns
    Listing, Names, Ranks, Matching, NoQuery, PageSizes, InitialSize,   \* DataTable
    K, Units, Slip, MaxAmount,                                  \* Format
    PointPercents, PointRates,                                  \* Picture
    Lowest, Highest, Segments, Cores,                           \* Meters
    Percents, Rates,                                            \* Delta
    Schemes, PageHost, Host, Path, Ports, Slashes               \* Links

VARIABLES
    part,
    content,                                            \* Sections
    containers, dockerError, sorting, query,            \* DataTable
    pageIndex, pageSize, resetDue,
    category, chartType, point,                         \* Picture
    columnOrder, hidden, dragging, dropTarget, last,    \* Columns
    amount,                                             \* Format
    percent,                                            \* Meters
    value, deltaRef, against, change,                   \* Delta
    label, location                                     \* Links

SectionsPart == INSTANCE Sections
    WITH snapshot <- content

TablePart == INSTANCE Columns

RowsPart == INSTANCE DataTable

PicturePart == INSTANCE Picture
    WITH Percents <- PointPercents, Rates <- PointRates

AmountPart == INSTANCE Format

MeterPart == INSTANCE Meters

BadgePart == INSTANCE Delta
    WITH prevRef <- deltaRef, deltas <- change

LinkPart == INSTANCE Links
    WITH page <- location

ASSUME PartAssumptions == /\ SectionsPart!SectionsAssumption
                          /\ TablePart!ColumnsAssumption
                          /\ RowsPart!DataTableAssumption
                          /\ PicturePart!PictureAssumption /\ 0 \in PointPercents
                          /\ AmountPart!FormatAssumption
                          /\ MeterPart!MetersAssumption
                          /\ BadgePart!DeltaAssumption
                          /\ LinkPart!LinksAssumption

-----------------------------------------------------------------------------
tableVars == <<columnOrder, hidden, dragging, dropTarget, last>>
rowsVars == <<containers, dockerError, sorting, query, pageIndex, pageSize, resetDue>>
pictureVars == <<category, chartType, point>>
badgeVars == <<value, deltaRef, against, change>>
linkVars == <<label, location>>
scales == <<amount, percent>>
others == <<content, rowsVars, pictureVars>>

\* the parts that stand still do so in one of their initial states
PageInit ==
    /\ part \in {"stream", "sections", "table", "rows", "picture", "amount", "meter",
                 "badge", "link"}
    /\ part # "picture" => point = <<0, 0>>
    /\ part # "link" =>
          /\ label = [start |-> "none", blanks |-> FALSE, scheme |-> "http", port |-> 0]
          /\ location = [scheme |-> "http", host |-> PageHost, port |-> 0]
    /\ Init /\ SectionsPart!Init /\ TablePart!Init /\ RowsPart!Init /\ PicturePart!Init
    /\ AmountPart!Init /\ MeterPart!Init /\ BadgePart!Init /\ LinkPart!Init

PageNext ==
    /\ UNCHANGED part
    /\ \/ /\ part = "stream" /\ Next
          /\ UNCHANGED <<others, tableVars, scales, badgeVars, linkVars>>
       \/ /\ part = "sections" /\ SectionsPart!Next
          /\ UNCHANGED <<rowsVars, pictureVars, vars, tableVars, scales, badgeVars, linkVars>>
       \/ /\ part = "table" /\ TablePart!Next
          /\ UNCHANGED <<others, vars, scales, badgeVars, linkVars>>
       \/ /\ part = "rows" /\ RowsPart!Next
          /\ UNCHANGED <<content, pictureVars, vars, tableVars, scales, badgeVars, linkVars>>
       \/ /\ part = "picture" /\ PicturePart!Next
          /\ UNCHANGED <<content, rowsVars, vars, tableVars, scales, badgeVars, linkVars>>
       \/ /\ part = "amount" /\ AmountPart!Next
          /\ UNCHANGED <<others, vars, tableVars, percent, badgeVars, linkVars>>
       \/ /\ part = "meter" /\ MeterPart!Next
          /\ UNCHANGED <<others, vars, tableVars, amount, badgeVars, linkVars>>
       \/ /\ part = "badge" /\ BadgePart!Next
          /\ UNCHANGED <<others, vars, tableVars, scales, linkVars>>
       \/ /\ part = "link" /\ LinkPart!Next
          /\ UNCHANGED <<others, vars, tableVars, scales, badgeVars>>

PageSpec ==
    PageInit /\ [][PageNext]_<<part, others, vars, tableVars, scales, badgeVars, linkVars>>

-----------------------------------------------------------------------------
(* The properties of the parts that are instantiated.                      *)

\* Columns: no column is lost, a dropped one is where the one was that it was dropped
\* on, and a drag that was over is forgotten.
ColumnsKept == part = "table" => TablePart!ColumnsKept

\* DataTable: the footer, its buttons and the rows agree, and every container that is
\* searched for is on one page.
TableTellsTheRows == part = "rows" => RowsPart!TableTellsTheRows

\* Sections: whatever the collectors bring, no section reads what is not there, and they
\* tell the same thing alike.
SectionsFit == part = "sections" => SectionsPart!SectionsFit

\* Format: what is written with a unit, nothing at all and whatever is a byte or more, is
\* the amount to the digits that are shown, never less for more, whichever unit the
\* logarithm finds just below a power; an uptime is written as a clock's.  Delta: a badge writes the change, in the
\* direction of its arrow and in the colour of its card.
WrittenRight ==
    /\ part = "amount" => AmountPart!WrittenRight
    /\ part = "badge" => BadgePart!BadgeTellsTheChange

\* Meters: the marker of a meter stands on the zone that is lit, a gauge fills the
\* share of its segments that the value is.  Picture: the legend and the tooltip of the
\* chart name the series that is drawn, and the tooltip writes the reading.
ShowsTheValue ==
    /\ part = "meter" => MeterPart!ShowsTheValue
    /\ part = "picture" => PicturePart!PictureTells

\* Links: a container's link leads to what its label names.
LeadsWhereItSays == part = "link" => LinkPart!LeadsWhereItSays
=============================================================================
