------------------------------- MODULE Aggregate -------------------------------
(***************************************************************************)
(* getAggregatedPoints (lib/db.ts): the records of a time window, averaged *)
(* in buckets for the chart.  The loop is modelled one record at a time;   *)
(* a record is its timestamp, a bucket the places of the records it        *)
(* averages and its start.  The window is a multiple of the number of      *)
(* buckets, so that their length is an integer.                            *)
(***************************************************************************)
EXTENDS Integers, Sequences, FiniteSets

CONSTANTS
    TargetBuckets,      \* 50 in the code
    Duration,           \* the length of a bucket
    Skew,               \* records may lie so far in the future: their time is
                        \* the server's, the window's end the browser's
    MaxRecords          \* bound: the records of the window

ASSUME AggregateAssumption ==
    TargetBuckets \in Nat \ {0} /\ Duration \in Nat \ {0} /\ Skew \in Nat /\ MaxRecords \in Nat

\* the window begins at 0, which is fromTime
Now == TargetBuckets * Duration
Times == 0..Now + Skew

VARIABLES
    raw,            \* the records, sorted by their time
    next,           \* the place of the record the loop is at
    bucketStart,
    bucketPoints,   \* the places of the records of the open bucket
    result          \* the closed buckets

aggregateVars == <<raw, next, bucketStart, bucketPoints, result>>

Buckets == [start : Nat, points : SUBSET (1..MaxRecords)]

AggregateTypeOK ==
    /\ raw \in Seq(Times) /\ Len(raw) <= MaxRecords
    /\ next \in 1..Len(raw) + 1
    /\ bucketStart \in Nat
    /\ bucketPoints \subseteq 1..Len(raw)
    /\ result \in Seq(Buckets)

Sorted(s) == \A i, j \in 1..Len(s) : i < j => s[i] <= s[j]

\* more records than buckets; else they are returned as they are
AggregateInit ==
    /\ \E n \in TargetBuckets + 1..MaxRecords : raw \in [1..n -> Times]
    /\ Sorted(raw)
    /\ next = 1 /\ bucketStart = 0 /\ bucketPoints = {} /\ result = <<>>

-----------------------------------------------------------------------------
Bucket(start, points) == [start |-> start, points |-> points]

\* the record is of the open bucket
Collect ==
    /\ next <= Len(raw) /\ raw[next] < bucketStart + Duration
    /\ bucketPoints' = bucketPoints \cup {next}
    /\ next' = next + 1
    /\ UNCHANGED <<raw, bucketStart, result>>

\* mutant: the record that closes a bucket is lost
Advance_DropsRecord ==
    /\ next <= Len(raw) /\ raw[next] >= bucketStart + Duration
    /\ result' = IF bucketPoints # {} THEN Append(result, Bucket(bucketStart, bucketPoints))
                                      ELSE result
    /\ bucketStart' = bucketStart + Duration
    /\ bucketPoints' = {}
    /\ next' = next + 1
    /\ UNCHANGED raw

\* mutant: the next bucket starts two lengths later
Advance_Overtakes ==
    /\ next <= Len(raw) /\ raw[next] >= bucketStart + Duration
    /\ result' = IF bucketPoints # {} THEN Append(result, Bucket(bucketStart, bucketPoints))
                                      ELSE result
    /\ bucketStart' = bucketStart + 2 * Duration
    /\ bucketPoints' = {next}
    /\ next' = next + 1
    /\ UNCHANGED raw

\* the record is beyond the open bucket: that one is closed, unless it is empty,
\* and the record is put into the next one, wherever it belongs
Advance ==
    /\ next <= Len(raw) /\ raw[next] >= bucketStart + Duration
    /\ result' = IF bucketPoints # {} THEN Append(result, Bucket(bucketStart, bucketPoints))
                                      ELSE result
    /\ bucketStart' = bucketStart + Duration
    /\ bucketPoints' = {next}
    /\ next' = next + 1
    /\ UNCHANGED raw

\* after the loop the open bucket is closed
Finish ==
    /\ next = Len(raw) + 1 /\ bucketPoints # {}
    /\ result' = Append(result, Bucket(bucketStart, bucketPoints))
    /\ bucketPoints' = {}
    /\ UNCHANGED <<raw, next, bucketStart>>

AggregateNext == Collect \/ Advance \/ Finish

AggregateSpec == AggregateInit /\ [][AggregateNext]_aggregateVars

-----------------------------------------------------------------------------
(* Properties.                                                             *)

\* the open bucket, if it has records, and the closed ones
AllBuckets ==
    {result[i] : i \in 1..Len(result)}
        \cup IF bucketPoints = {} THEN {} ELSE {Bucket(bucketStart, bucketPoints)}

\* Every record that the loop has seen is averaged in exactly one bucket.
Partition ==
    /\ UNION {b.points : b \in AllBuckets} = 1..next - 1
    /\ \A b, c \in AllBuckets : b # c => b.points \cap c.points = {}

\* The chart gets its points in the order of time.
InOrder == \A i, j \in 1..Len(result) : i < j => result[i].start < result[j].start

\* No record is put into a bucket that starts after it.
NotBeforeStart == \A b \in AllBuckets : \A i \in b.points : b.start <= raw[i]

\* The chart is drawn from left to right, and no record right of its time.
PointsInTime == InOrder /\ NotBeforeStart

\* db.ts:57 "Fetch points aggregated into buckets over a requested time window":
\* a record is averaged in the bucket whose time is its own.
InItsBucket == \A b \in AllBuckets : \A i \in b.points :
                   b.start <= raw[i] /\ raw[i] < b.start + Duration
=============================================================================
