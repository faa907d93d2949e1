-------------------------------- MODULE Selection --------------------------------
(***************************************************************************)
(* Which file systems are shown: the target list of DiskCollector          *)
(* (internal/collector/disk.go) against what the host has, which changes   *)
(* between the polls.  A name is a model value; what the code reads in it  *)
(* (its last element, that one begins with another) is given by constants. *)
(***************************************************************************)
EXTENDS Naturals, Sequences, SequencesExt

CONSTANTS
    Mounts, Devices,
    Root,               \* "/", a mount point, also given as a device
    RootDevice,         \* "root", the device of the row for it
    DiskTargets,        \* bound: the lists of disks one may configure
    MaxPartitions,      \* bound: the entries of the mount table
    \* filepath.Base of a name, and the pairs of which the first begins the second
    Base(_), BeginsWith(_, _)

\* stated as an assumption where the constants get their values
SelectionAssumption ==
    /\ Root \in Mounts \cap Devices /\ RootDevice \notin Devices
    /\ DiskTargets \subseteq SUBSET (Mounts \cup Devices)
    /\ \A d \in Devices : BeginsWith(Base(d), Base(d))

VARIABLES
    targetDisks,                \* the configuration
    disks,                      \* the rows of the last snapshot
    partitions,                 \* what they were made of (history): the mount
    usable                      \* table and the mount points that answered

vars == <<targetDisks, disks, partitions, usable>>

Partition == [mount : Mounts, device : Devices]

Init ==
    /\ targetDisks \in DiskTargets
    /\ disks = <<>>
    /\ partitions = <<>> /\ usable = {}

-----------------------------------------------------------------------------
(* The collection of the disks.                                            *)

MatchesTarget(p) ==
    \E t \in targetDisks :
       p.mount = t \/ p.device = t \/ BeginsWith(Base(t), Base(p.device))

Wanted(p) == targetDisks = {} \/ MatchesTarget(p)

NoRows == [seen |-> {}, rows |-> <<>>]

\* mutant: a mount point is seen before the target list is asked
AddRow_SeenFirst(ok, acc, p) ==
    [seen |-> acc.seen \cup {p.mount},
     rows |-> IF p.mount \notin acc.seen /\ Wanted(p) /\ p.mount \in ok
              THEN Append(acc.rows, p) ELSE acc.rows]

\* one turn of the loop over the partitions; ok: the mount points that answer
AddRow(ok, acc, p) ==
    IF ~Wanted(p) \/ p.mount \in acc.seen THEN acc
    ELSE [seen |-> acc.seen \cup {p.mount},
          rows |-> IF p.mount \in ok THEN Append(acc.rows, p) ELSE acc.rows]

\* nothing matches: a row for the root
DiskRows(table, ok) ==
    LET rows == FoldLeft(LAMBDA acc, p : AddRow(ok, acc, p), NoRows, table).rows
    IN  IF rows = <<>> /\ Root \in ok
        THEN <<[mount |-> Root, device |-> RootDevice]>> ELSE rows

\* The mount table of the moment; a mount point may be in it twice, the later file
\* system hiding the earlier one.  If it cannot be read: one entry for the root.
CollectDisks ==
    /\ \/ \E n \in 0..MaxPartitions : partitions' \in [1..n -> Partition]
       \/ partitions' = <<[mount |-> Root, device |-> Root]>>
    /\ usable' \in {Mounts, Mounts \ {Root}, {Root}, {}}
    /\ disks' = DiskRows(partitions', usable')
    /\ UNCHANGED targetDisks

Next == CollectDisks

Spec == Init /\ [][Next]_vars

-----------------------------------------------------------------------------
(* Properties.                                                             *)

\* A mount point has one row, also when the mount table has it twice: the totals that
\* the dashboard sums over the rows count no file system twice.
OneRowPerMount ==
    \A i, j \in DOMAIN disks : disks[i].mount = disks[j].mount => i = j

\* What is configured by its mount point or by its device is shown whenever it is
\* mounted and answers, whatever is mounted in the same place or listed before it.
TargetsShown ==
    \A i \in DOMAIN partitions :
       LET p == partitions[i]
       IN  {p.mount, p.device} \cap targetDisks # {} /\ p.mount \in usable =>
              \E j \in DOMAIN disks : disks[j].mount = p.mount

\* The dashboard takes its storage card and gauge from the first row: there is one as
\* long as the root answers.
PrimaryDisk == disks = <<>> => Root \notin usable

\* What the dashboard gets is one row for each file system that it should show.
RowsFit == OneRowPerMount /\ TargetsShown /\ PrimaryDisk
=============================================================================
