-------------------------------- MODULE Columns --------------------------------
(***************************************************************************)
(* The columns of the data table (components/ui/data-table.tsx): hiding    *)
(* them, and bringing them into another order by drag and drop or with the *)
(* arrow keys.  Pinned columns are drawn at an edge and not dragged.  The  *)
(* table library keeps the order that setColumnOrder gives it and calls    *)
(* the columns that are missing in it in their original order.             *)
(***************************************************************************)
EXTENDS Integers, Sequences, SequencesExt, Ordering

CONSTANTS
    Columns,        \* sequence: the columns as they are declared
    PinnedStart, PinnedEnd,
    CanHide,        \* the columns that may be hidden
    Listed,         \* reorderable: the columns it lists, or AnyColumn (true)
    AnyColumn,
    None            \* no column

ColumnSet == Range(Columns)

\* stated as an assumption where the constants get their values
ColumnsAssumption ==
    /\ Columns \in Seq(ColumnSet) /\ IsInjective(Columns)
    /\ {PinnedStart, PinnedEnd, CanHide} \subseteq SUBSET ColumnSet
    /\ PinnedStart \cap PinnedEnd = {}
    /\ Listed = AnyColumn \/ Listed \subseteq ColumnSet
    /\ None \notin ColumnSet

VARIABLES
    columnOrder,    \* the order that was set, <<>> for none
    hidden,
    dragging,       \* the column that is dragged, or None
    dropTarget,     \* the one it is over, or None
    \* history
    last            \* the last action: [kind, column, target, before]

vars == <<columnOrder, hidden, dragging, dropTarget, last>>

\* getAllLeafColumns: the declared columns in the order that was set
Leaves(order) == order \o Kept(Columns, ColumnSet \ Range(order))

\* what is drawn between the pinned columns, from left to right
Drawn(order, hid) == Kept(Leaves(order), ColumnSet \ (hid \cup PinnedStart \cup PinnedEnd))

\* what an action started from
Did(kind, column, target) ==
    last' = [kind |-> kind, column |-> column, target |-> target,
             drawn |-> Drawn(columnOrder, hidden), leaves |-> Leaves(columnOrder)]

\* useDataTable: nothing is ordered or hidden yet
Init ==
    /\ columnOrder = <<>> /\ hidden = {}
    /\ dragging = None /\ dropTarget = None
    /\ last = [kind |-> "none", column |-> None, target |-> None,
               drawn |-> Drawn(<<>>, {}), leaves |-> Columns]

CanReorder(c) ==
    /\ c \notin PinnedStart \cup PinnedEnd
    /\ IF Listed = AnyColumn THEN c \in CanHide ELSE c \in Listed

\* a header that is on the screen and may be dragged
Draggable(c) == c \notin hidden /\ CanReorder(c)

IndexOf(s, c) == CHOOSE i \in 1..Len(s) : s[i] = c

\* mutant: the target's place is looked up once the column is taken out
Moved_LookUpLate(s, from, to) ==
    InsertAt(RemoveAt(s, from), IF from < to THEN to - 1 ELSE to, s[from])

\* splice(from, 1), then splice(to, 0, column)
Moved(s, from, to) == InsertAt(RemoveAt(s, from), to, s[from])

\* the slots exist, and they differ
MoveColumn(c, target) ==
    LET order == Leaves(columnOrder)
        from == IndexOf(order, c)
        to == IndexOf(order, target)
    IN  columnOrder' = IF from = to THEN columnOrder ELSE Moved(order, from, to)

\* one slot to the left or to the right, unless there is none
ShiftColumn(c, delta) ==
    LET order == Leaves(columnOrder)
        from == IndexOf(order, c)
        to == from + delta
    IN  columnOrder' = IF to \in 1..Len(order) THEN Moved(order, from, to) ELSE columnOrder

-----------------------------------------------------------------------------
(* Drag and drop, with the events of one header each.                      *)

DragStart(c) ==
    /\ dragging = None /\ Draggable(c)
    /\ dragging' = c
    /\ Did("start", c, None)
    /\ UNCHANGED <<columnOrder, hidden, dropTarget>>

DragOver(c) ==
    /\ dragging \notin {None, c} /\ Draggable(c)
    /\ dropTarget' = c
    /\ Did("over", dragging, c)
    /\ UNCHANGED <<columnOrder, hidden, dragging>>

\* the browser reports that it left a column after it has entered the next one
DragLeave(c) ==
    /\ dragging # None /\ Draggable(c)
    /\ dropTarget' = IF dropTarget = c THEN None ELSE dropTarget
    /\ Did("leave", dragging, c)
    /\ UNCHANGED <<columnOrder, hidden, dragging>>

\* only where a dragover was accepted; then dragend finds nothing to do
Drop(c) ==
    /\ dragging # None /\ dropTarget = c /\ c \notin hidden
    /\ MoveColumn(dragging, c)
    /\ Did("drop", dragging, c)
    /\ dragging' = None /\ dropTarget' = None
    /\ UNCHANGED hidden

\* elsewhere, or with Escape
DragEnd ==
    /\ dragging # None
    /\ Did("end", dragging, None)
    /\ dragging' = None /\ dropTarget' = None
    /\ UNCHANGED <<columnOrder, hidden>>

\* the grip of a header, ArrowLeft and ArrowRight
ArrowKey(c, delta) ==
    /\ dragging = None /\ Draggable(c)
    /\ ShiftColumn(c, delta)
    /\ Did(IF delta < 0 THEN "left" ELSE "right", c, None)
    /\ UNCHANGED <<hidden, dragging, dropTarget>>

-----------------------------------------------------------------------------
(* The View menu.                                                          *)

ToggleVisibility(c) ==
    /\ dragging = None /\ c \in CanHide
    /\ hidden' = IF c \in hidden THEN hidden \ {c} ELSE hidden \cup {c}
    /\ Did("toggle", c, None)
    /\ UNCHANGED <<columnOrder, dragging, dropTarget>>

ResetColumnOrder ==
    /\ dragging = None
    /\ columnOrder' = <<>>
    /\ Did("reset", None, None)
    /\ UNCHANGED <<hidden, dragging, dropTarget>>

Next ==
    \/ \E c \in ColumnSet :
          \/ DragStart(c) \/ DragOver(c) \/ DragLeave(c) \/ Drop(c)
          \/ ArrowKey(c, -1) \/ ArrowKey(c, 1)
          \/ ToggleVisibility(c)
    \/ DragEnd \/ ResetColumnOrder

Spec == Init /\ [][Next]_vars

-----------------------------------------------------------------------------
(* Properties.                                                             *)

Order == Leaves(columnOrder)
OnScreen == Drawn(columnOrder, hidden)
Others(s, c) == Kept(s, ColumnSet \ {c})

\* No column is lost or doubled, whatever is dragged, nudged, hidden and reset,
\* and the library is never given an order that names a column twice.
NoColumnLost == IsInjective(columnOrder) /\ IsInjective(Order) /\ Range(Order) = ColumnSet

\* A column that is dropped is on the screen where the one was that it was
\* dropped on, also with columns between them that are hidden or pinned; the
\* others keep their order (moveColumn, line 593).
DropLands ==
    last.kind = "drop" =>
       /\ IndexOf(OnScreen, last.column) = IndexOf(last.drawn, last.target)
       /\ Others(Order, last.column) = Others(last.leaves, last.column)

\* A drag that was over is forgotten: nothing is moved later that is not being
\* dragged then, and no column stays marked as its target.
DragForgotten ==
    /\ last.kind \in {"drop", "end"} => dragging = None
    /\ dropTarget # None => dragging # None /\ dropTarget # dragging

\* The columns are all kept, and where they were put.
ColumnsKept == NoColumnLost /\ DropLands /\ DragForgotten
=============================================================================
