--------------------------- MODULE CollectorProofs ---------------------------
(***************************************************************************)
(* The fan-in of CollectAll waits for every collector, for any set of      *)
(* collectors and callers.  The invariant says what the WaitGroup's        *)
(* counter counts.                                                         *)
(***************************************************************************)
EXTENDS Collector, FiniteSetTheorems, TLAPS

\* the goroutines of a call that have not called wg.Done
Pending(k) == {c \in Subsystems : work[k][c] # "done"}

\* the counter is the number of goroutines that are still to come to wg.Done
WaitCounts == \A k \in Callers : call[k] = "collecting" => wg[k] = Cardinality(Pending(k))

\* nothing of a call runs before it fans out or after its fan-in
NothingRunsOutside ==
    \A k \in Callers : call[k] # "collecting" =>
        \A c \in Subsystems : work[k][c] \in {"off", "done"}

IInv == TypeOK /\ WaitCounts /\ NothingRunsOutside

-----------------------------------------------------------------------------
\* No goroutine is left exactly when the counter says so.
LEMMA ZeroMeansNone ==
    ASSUME IInv, NEW k \in Callers, call[k] = "collecting", wg[k] = 0
    PROVE  \A c \in Subsystems : work[k][c] = "done"
<1>1. Pending(k) \subseteq Subsystems BY DEF Pending
<1>2. IsFiniteSet(Pending(k)) BY <1>1, FS_Subset, CollectorAssumption
<1>3. Cardinality(Pending(k)) = 0 BY DEF IInv, WaitCounts
<1>4. Pending(k) = {} BY <1>2, <1>3, FS_EmptySet
<1> QED BY <1>4 DEF Pending

\* wg.Done of one goroutine takes one from the number of those that are left.
LEMMA DoneCounts ==
    ASSUME IInv, NEW k \in Callers, NEW d \in Subsystems, Done(k, d)
    PROVE  /\ call[k] = "collecting"
           /\ wg[k] \in 1..Cardinality(Subsystems)
           /\ wg'[k] = Cardinality(Pending(k)')
<1>1. work[k][d] \notin {"off", "done"} BY DEF Done
<1>2. call[k] = "collecting" BY <1>1 DEF IInv, NothingRunsOutside
<1>3. /\ Pending(k) \subseteq Subsystems /\ d \in Pending(k)
  BY <1>1 DEF Pending
<1>4. IsFiniteSet(Pending(k)) BY <1>3, FS_Subset, CollectorAssumption
<1>5. wg[k] = Cardinality(Pending(k)) BY <1>2 DEF IInv, WaitCounts
<1>6. Cardinality(Pending(k)) \in Nat BY <1>4, FS_CardinalityType
<1>7. Pending(k) # {} BY <1>3
<1>8. Cardinality(Pending(k)) # 0 BY <1>4, <1>7, FS_EmptySet
<1>9. wg[k] \in 0..Cardinality(Subsystems) BY DEF IInv, TypeOK
<1>10. wg[k] \in 1..Cardinality(Subsystems)
  <2>1. Cardinality(Subsystems) \in Nat BY FS_CardinalityType, CollectorAssumption
  <2> QED BY <1>5, <1>6, <1>8, <1>9, <2>1
<1>11. Pending(k)' = Pending(k) \ {d}
  <2>1. work' = [work EXCEPT ![k][d] = "done"] BY DEF Done
  <2>2. work \in [Callers -> [Subsystems -> {"off", "running", "returned", "panicked", "done"}]]
    BY DEF IInv, TypeOK
  <2>3. \A c \in Subsystems : work'[k][c] = IF c = d THEN "done" ELSE work[k][c] BY <2>1, <2>2
  <2> QED BY <2>3 DEF Pending
<1>12. Cardinality(Pending(k) \ {d}) = Cardinality(Pending(k)) - 1
  BY <1>3, <1>4, FS_RemoveElement
<1>13. wg'[k] = wg[k] - 1 BY DEF Done, IInv, TypeOK
<1> QED BY <1>2, <1>5, <1>10, <1>11, <1>12, <1>13

-----------------------------------------------------------------------------
LEMMA InitIInv == Init => IInv
<1>1. Cardinality(Subsystems) \in Nat BY FS_CardinalityType, CollectorAssumption
<1> SUFFICES ASSUME Init PROVE IInv OBVIOUS
<1>2. 0 \in 0..Cardinality(Subsystems) BY <1>1
<1>3. TypeOK BY <1>2 DEF Init, TypeOK
<1>4. WaitCounts BY DEF Init, WaitCounts
<1>5. NothingRunsOutside BY DEF Init, NothingRunsOutside
<1> QED BY <1>3, <1>4, <1>5 DEF IInv

LEMMA NextTypeOK == IInv /\ [Next]_vars => TypeOK'
<1> SUFFICES ASSUME IInv, [Next]_vars PROVE TypeOK' OBVIOUS
<1>0. Cardinality(Subsystems) \in Nat /\ 0 \in 0..Cardinality(Subsystems)
      /\ Cardinality(Subsystems) \in 0..Cardinality(Subsystems)
  BY FS_CardinalityType, CollectorAssumption
<1>1. TypeOK BY DEF IInv
<1>2. ASSUME NEW k \in Callers, FanOut(k) PROVE
        /\ call' \in [Callers -> {"idle", "missed", "collecting", "returned", "stopped"}]
        /\ work' \in [Callers -> [Subsystems -> {"off", "running", "returned", "panicked", "done"}]]
        /\ wg' \in [Callers -> 0..Cardinality(Subsystems)]
        /\ section' \in [Callers -> SUBSET Subsystems]
        /\ expired' \subseteq Callers
  BY <1>0, <1>1, <1>2 DEF FanOut, TypeOK
<1>3. Poller \in Callers /\ Requests \subseteq Callers BY DEF Callers
<1>4. CASE Poll
  <2>3. FanOut(Poller) /\ tick' = FALSE BY <1>4 DEF Poll
  <2>4. hung' = hung /\ cached' = cached /\ stopping' = stopping BY <1>4 DEF Poll
  <2>5. {tick, cached, stopping}' \subseteq BOOLEAN BY <1>1, <2>3, <2>4 DEF TypeOK
  <2>7. hung' \subseteq Callers \X Subsystems BY <1>1, <2>4 DEF TypeOK
  <2> QED BY <1>2, <1>3, <2>3, <2>5, <2>7 DEF TypeOK
<1>5. CASE Deadline BY <1>1, <1>3, <1>5 DEF Deadline, TypeOK
<1>6. CASE Store BY <1>1, <1>3, <1>6 DEF Store, TypeOK
<1>7. CASE Tick \/ Cancel BY <1>1, <1>3, <1>7 DEF Tick, Cancel, TypeOK
<1>17. CASE StopPolling BY <1>1, <1>3, <1>17 DEF StopPolling, TypeOK
<1>8. ASSUME NEW r \in Requests, ReadCache(r) PROVE TypeOK' BY <1>1, <1>3, <1>8 DEF ReadCache, TypeOK
<1>9. ASSUME NEW r \in Requests, Request(r) PROVE TypeOK' BY <1>1, <1>2, <1>3, <1>9 DEF Request, TypeOK
<1>10. ASSUME NEW r \in Requests, Abandon(r) PROVE TypeOK' BY <1>1, <1>3, <1>10 DEF Abandon, TypeOK
<1>11. ASSUME NEW k \in Callers, FanIn(k) PROVE TypeOK' BY <1>1, <1>11 DEF FanIn, TypeOK
<1>12. ASSUME NEW k \in Callers, NEW c \in Subsystems, Succeed(k, c) PROVE TypeOK'
  BY <1>1, <1>12 DEF Succeed, Leaves, TypeOK
<1>13. ASSUME NEW k \in Callers, NEW c \in Subsystems, Fail(k, c) PROVE TypeOK'
  BY <1>1, <1>13 DEF Fail, Leaves, TypeOK
<1>14. ASSUME NEW k \in Callers, NEW c \in Subsystems, Done(k, c) PROVE TypeOK'
  <2>1. wg[k] \in 1..Cardinality(Subsystems) BY <1>14, DoneCounts
  <2>2. wg[k] - 1 \in 0..Cardinality(Subsystems) BY <2>1, <1>0
  <2> QED BY <1>1, <1>14, <2>2 DEF Done, TypeOK
<1>15. ASSUME NEW k \in Callers, NEW c \in Subsystems, Hang(k, c) PROVE TypeOK'
  BY <1>1, <1>15 DEF Hang, TypeOK
<1>16. CASE UNCHANGED vars BY <1>1, <1>16 DEF vars, TypeOK
<1> QED BY <1>4, <1>5, <1>6, <1>7, <1>8, <1>9, <1>10, <1>11, <1>12, <1>13, <1>14, <1>15, <1>16, <1>17 DEF Next

LEMMA NextRest == IInv /\ [Next]_vars => (WaitCounts /\ NothingRunsOutside)'
<1> SUFFICES ASSUME IInv, [Next]_vars PROVE (WaitCounts /\ NothingRunsOutside)' OBVIOUS
<1> DEFINE Good(k) == /\ call[k] = "collecting" => wg[k] = Cardinality(Pending(k))
                      /\ call[k] # "collecting" => \A c \in Subsystems : work[k][c] \in {"off", "done"}
           Kept(k) == call'[k] = call[k] /\ work'[k] = work[k] /\ wg'[k] = wg[k]
<1>1. TypeOK /\ \A k \in Callers : Good(k) BY DEF IInv, WaitCounts, NothingRunsOutside
<1>2. ASSUME NEW k \in Callers, Kept(k) PROVE Good(k)' BY <1>1, <1>2 DEF Pending
<1>3. SUFFICES \A k \in Callers : Good(k)' BY DEF WaitCounts, NothingRunsOutside
<1> HIDE DEF Good
<1>4. Poller \in Callers /\ Requests \subseteq Callers BY DEF Callers
<1>5. ASSUME NEW k \in Callers, FanOut(k) PROVE \A j \in Callers : Good(j)'
  <2>1. \A j \in Callers \ {k} : Kept(j) BY <1>1, <1>5 DEF FanOut, TypeOK
  <2>2. Pending(k)' = Subsystems BY <1>1, <1>5 DEF FanOut, TypeOK, Pending
  <2>3. call'[k] = "collecting" /\ wg'[k] = Cardinality(Subsystems) BY <1>1, <1>5 DEF FanOut, TypeOK
  <2>4. Good(k)' BY <2>2, <2>3 DEF Good
  <2> QED BY <1>2, <2>1, <2>4
<1>6. CASE Poll BY <1>4, <1>5, <1>6 DEF Poll
<1>7. CASE Deadline \/ Tick \/ Cancel \/ UNCHANGED vars
  <2>1. \A j \in Callers : Kept(j) BY <1>7 DEF Deadline, Tick, Cancel, vars
  <2> QED BY <1>2, <2>1
<1>8. CASE Store
  <2>1. \A j \in Callers \ {Poller} : Kept(j) BY <1>1, <1>4, <1>8 DEF Store, TypeOK
  <2>2. /\ call'[Poller] = "idle" /\ \A c \in Subsystems : work'[Poller][c] = "off"
    BY <1>1, <1>4, <1>8 DEF Store, TypeOK
  <2>3. Good(Poller)' BY <2>2 DEF Good
  <2> QED BY <1>2, <2>1, <2>3
<1>17. CASE StopPolling
  <2>1. \A j \in Callers \ {Poller} : Kept(j) BY <1>1, <1>4, <1>17 DEF StopPolling, TypeOK
  <2>2. call[Poller] = "idle" /\ call'[Poller] = "stopped" /\ work'[Poller] = work[Poller]
    BY <1>1, <1>4, <1>17 DEF StopPolling, TypeOK
  <2>3. Good(Poller)' BY <1>1, <1>4, <2>2 DEF Good
  <2> QED BY <1>2, <2>1, <2>3
<1>9. ASSUME NEW r \in Requests, ReadCache(r) PROVE \A j \in Callers : Good(j)'
  <2>1. \A j \in Callers \ {r} : Kept(j) BY <1>1, <1>4, <1>9 DEF ReadCache, TypeOK
  <2>2. call[r] = "idle" /\ call'[r] = "missed" /\ work'[r] = work[r]
    BY <1>1, <1>4, <1>9 DEF ReadCache, TypeOK
  <2>3. Good(r)' BY <1>1, <1>4, <2>2 DEF Good
  <2> QED BY <1>2, <2>1, <2>3
<1>10. ASSUME NEW r \in Requests, Request(r) PROVE \A j \in Callers : Good(j)'
  BY <1>4, <1>5, <1>10 DEF Request
<1>11. ASSUME NEW r \in Requests, Abandon(r) PROVE \A j \in Callers : Good(j)'
  <2>1. \A j \in Callers : Kept(j) BY <1>11 DEF Abandon
  <2> QED BY <1>2, <2>1
<1>12. ASSUME NEW k \in Callers, FanIn(k) PROVE \A j \in Callers : Good(j)'
  <2>1. \A j \in Callers \ {k} : Kept(j) BY <1>1, <1>12 DEF FanIn, TypeOK
  <2>2. call'[k] = "returned" /\ work'[k] = work[k] BY <1>1, <1>12 DEF FanIn, TypeOK
  <2>3. \A c \in Subsystems : work[k][c] = "done" BY <1>12, ZeroMeansNone DEF FanIn
  <2>4. Good(k)' BY <2>2, <2>3 DEF Good
  <2> QED BY <1>2, <2>1, <2>4
<1>13. ASSUME NEW k \in Callers, NEW d \in Subsystems, NEW how \in {"returned", "panicked"},
              Leaves(k, d, how), UNCHANGED <<call, wg>>
       PROVE \A j \in Callers : Good(j)'
  <2>1. \A j \in Callers \ {k} : Kept(j) BY <1>1, <1>13 DEF Leaves, TypeOK
  <2>2. work[k][d] = "running" BY <1>13 DEF Leaves
  <2>3. call[k] = "collecting" BY <2>2, <1>1 DEF Good
  <2>4. \A c \in Subsystems : work'[k][c] = IF c = d THEN how ELSE work[k][c]
    BY <1>1, <1>13 DEF Leaves, TypeOK
  <2>5. Pending(k)' = Pending(k) BY <2>2, <2>4 DEF Pending
  <2>6. Good(k)' BY <1>1, <1>13, <2>3, <2>5 DEF Good
  <2> QED BY <1>2, <2>1, <2>6
<1>14. ASSUME NEW k \in Callers, NEW d \in Subsystems, Succeed(k, d) \/ Fail(k, d)
       PROVE \A j \in Callers : Good(j)'
  BY <1>13, <1>14 DEF Succeed, Fail
<1>15. ASSUME NEW k \in Callers, NEW d \in Subsystems, Done(k, d) PROVE \A j \in Callers : Good(j)'
  <2>1. \A j \in Callers \ {k} : Kept(j) BY <1>1, <1>15 DEF Done, TypeOK
  <2>2. call[k] = "collecting" /\ wg'[k] = Cardinality(Pending(k)') BY <1>15, DoneCounts
  <2>3. call'[k] = call[k] BY <1>15 DEF Done
  <2>4. Good(k)' BY <2>2, <2>3 DEF Good
  <2> QED BY <1>2, <2>1, <2>4
<1>16. ASSUME NEW k \in Callers, NEW d \in Subsystems, Hang(k, d) PROVE \A j \in Callers : Good(j)'
  <2>1. \A j \in Callers : Kept(j) BY <1>16 DEF Hang
  <2> QED BY <1>2, <2>1
<1> QED BY <1>6, <1>7, <1>8, <1>9, <1>10, <1>11, <1>12, <1>14, <1>15, <1>16, <1>17 DEF Next

LEMMA Inductive == Spec => []IInv
<1>1. IInv /\ [Next]_vars => IInv' BY NextTypeOK, NextRest DEF IInv
<1> QED BY InitIInv, <1>1, PTL DEF Spec

-----------------------------------------------------------------------------
\* Type correctness; the WaitGroup's counter never goes below zero, which in Go is
\* a panic nothing recovers.
THEOREM CollectorTypeCorrect == Spec => []TypeOK
<1>1. IInv => TypeOK BY DEF IInv
<1> QED BY Inductive, <1>1, PTL

\* A snapshot that CollectAll has returned is never written again, for any number
\* of collectors and of overlapping calls.
THEOREM SnapshotFinal == Spec => ReturnedIsFinal
<1> DEFINE Final == \A k \in Callers : call[k] = "returned" => section'[k] = section[k]
<1>1. ASSUME IInv, [Next]_vars PROVE Final
  <2> SUFFICES ASSUME NEW k \in Callers, call[k] = "returned" PROVE section'[k] = section[k]
    OBVIOUS
  <2>1. TypeOK /\ \A c \in Subsystems : work[k][c] \in {"off", "done"}
    BY <1>1 DEF IInv, NothingRunsOutside
  <2>2. ASSUME NEW j \in Callers, call[j] # "returned", FanOut(j) PROVE section'[k] = section[k]
    BY <2>1, <2>2 DEF FanOut, TypeOK
  <2>3. CASE Poll BY <2>2, <2>3 DEF Poll, Callers
  <2>4. ASSUME NEW r \in Requests, Request(r) PROVE section'[k] = section[k]
    BY <2>2, <2>4 DEF Request, Callers
  <2>5. ASSUME NEW j \in Callers, NEW d \in Subsystems, Succeed(j, d) PROVE section'[k] = section[k]
    BY <2>1, <2>5 DEF Succeed, Leaves, TypeOK
  <2>6. CASE \/ Deadline \/ Store \/ Tick \/ Cancel \/ StopPolling \/ UNCHANGED vars
             \/ \E r \in Requests : ReadCache(r) \/ Abandon(r)
             \/ \E j \in Callers : FanIn(j)
             \/ \E j \in Callers, d \in Subsystems : Fail(j, d) \/ Done(j, d) \/ Hang(j, d)
    BY <2>6 DEF Deadline, Store, Tick, Cancel, StopPolling, vars, ReadCache, Abandon, FanIn, Fail, Done, Hang
  <2> QED BY <1>1, <2>3, <2>4, <2>5, <2>6 DEF Next
<1>2. IInv /\ [Next]_vars => [Final]_vars BY <1>1
<1> QED BY Inductive, <1>2, PTL DEF Spec, ReturnedIsFinal
=============================================================================
