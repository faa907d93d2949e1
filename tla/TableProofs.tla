----------------------------- MODULE TableProofs -----------------------------
(***************************************************************************)
(* The table of the page, for any columns, containers, sizes of a page and *)
(* whatever is searched for: that there is one order of every list that a  *)
(* sort gives (a recursive definition cannot be proved about, so the order *)
(* is told by what it is, in Ordering), then the columns and then the rows *)
(* of the table.                                                           *)
(***************************************************************************)
EXTENDS Page, Ordering, SequenceTheorems, FiniteSetTheorems, WellFoundedInduction, TLAPS

-----------------------------------------------------------------------------
(* Ordering: what the members of a set in order are.                       *)

\* R puts the members of S in an order
Orders(R, S) ==
    /\ \A c \in S : <<c, c>> \notin R
    /\ \A c, d \in S : c # d => <<c, d>> \in R \/ <<d, c>> \in R
    /\ \A c, d, e \in S : <<c, d>> \in R /\ <<d, e>> \in R => <<c, e>> \in R

\* q is S in the order R
IsOrder(q, S, R) ==
    /\ q \in [1..Cardinality(S) -> S]
    /\ \A i, j \in 1..Cardinality(S) : i < j => <<q[i], q[j]>> \in R
    /\ \A c \in S : \E i \in 1..Cardinality(S) : q[i] = c

\* those that R puts before c
Earlier(S, R, c) == {d \in S : <<d, c>> \in R}

\* There are fewer before the earlier one.
LEMMA FewerEarlier ==
    ASSUME NEW S, IsFiniteSet(S), NEW R, Orders(R, S)
    PROVE  /\ \A c \in S : /\ Cardinality(Earlier(S, R, c)) \in Nat
                           /\ Cardinality(Earlier(S, R, c)) < Cardinality(S)
           /\ \A c, d \in S : <<c, d>> \in R =>
                 Cardinality(Earlier(S, R, c)) < Cardinality(Earlier(S, R, d))
<1>1. \A c \in S : /\ IsFiniteSet(Earlier(S, R, c)) /\ Cardinality(Earlier(S, R, c)) \in Nat
                   /\ c \notin Earlier(S, R, c)
  <2> SUFFICES ASSUME NEW c \in S
               PROVE  /\ IsFiniteSet(Earlier(S, R, c)) /\ Cardinality(Earlier(S, R, c)) \in Nat
                      /\ c \notin Earlier(S, R, c)
    OBVIOUS
  <2>1. Earlier(S, R, c) \in SUBSET S /\ c \notin Earlier(S, R, c)
    BY DEF Earlier, Orders
  <2> QED BY <2>1, FS_Subset, FS_CardinalityType
<1>2. ASSUME NEW c \in S, NEW T, IsFiniteSet(T), Earlier(S, R, c) \subseteq T, c \in T
      PROVE  Cardinality(Earlier(S, R, c)) < Cardinality(T)
  <2>1. Cardinality(T) \in Nat /\ Cardinality(Earlier(S, R, c)) <= Cardinality(T)
    BY <1>2, FS_Subset, FS_CardinalityType
  <2>2. Cardinality(Earlier(S, R, c)) # Cardinality(T)
    BY <1>1, <1>2, FS_Subset
  <2> QED BY <1>1, <2>1, <2>2
<1>3. ASSUME NEW c \in S PROVE Cardinality(Earlier(S, R, c)) < Cardinality(S)
  <2>1. Earlier(S, R, c) \subseteq S
    BY DEF Earlier
  <2> QED BY <1>2, <2>1
<1>4. ASSUME NEW c \in S, NEW d \in S, <<c, d>> \in R
      PROVE  Cardinality(Earlier(S, R, c)) < Cardinality(Earlier(S, R, d))
  <2>1. Earlier(S, R, c) \subseteq Earlier(S, R, d) /\ c \in Earlier(S, R, d)
    BY <1>4 DEF Earlier, Orders
  <2> QED BY <1>1, <1>2, <2>1
<1> QED BY <1>1, <1>3, <1>4

\* Each member has its place.
LEMMA PlacesTaken ==
    ASSUME NEW S, IsFiniteSet(S), NEW R, Orders(R, S)
    PROVE  /\ \A c, d \in S : Cardinality(Earlier(S, R, c)) = Cardinality(Earlier(S, R, d)) => c = d
           /\ \A k \in 1..Cardinality(S) : \E c \in S : Cardinality(Earlier(S, R, c)) = k - 1
<1>1. PICK n \in Nat : n = Cardinality(S)
  BY FS_CardinalityType
<1> DEFINE f == [c \in S |-> Cardinality(Earlier(S, R, c))]
           P == {i \in Nat : i < n}
<1>2. f \in [S -> P]
  BY <1>1, FewerEarlier
<1>3. \A c, d \in S : f[c] = f[d] => c = d
  <2> SUFFICES ASSUME NEW c \in S, NEW d \in S, c # d PROVE f[c] # f[d]
    OBVIOUS
  <2>1. <<c, d>> \in R \/ <<d, c>> \in R
    BY DEF Orders
  <2>2. /\ <<c, d>> \in R => f[c] < f[d]
        /\ <<d, c>> \in R => f[d] < f[c]
    BY FewerEarlier
  <2>3. f[c] \in Nat /\ f[d] \in Nat
    BY <1>2
  <2> QED BY <2>1, <2>2, <2>3
<1>4. IsFiniteSet(P) /\ Cardinality(P) = n
  <2>1. PICK e \in Int : e = n - 1
    BY <1>1
  <2>2. P = 0..e
    BY <1>1, <2>1
  <2>3. IsFiniteSet(0..e) /\ Cardinality(0..e) = IF 0 > e THEN 0 ELSE e - 0 + 1
    BY FS_Interval
  <2>4. (IF 0 > e THEN 0 ELSE e - 0 + 1) = n
    BY <1>1, <2>1
  <2> HIDE DEF P
  <2> QED BY <2>2, <2>3, <2>4
<1>5. f \in Injection(S, P)
  BY <1>2, <1>3 DEF Injection, IsInjective
<1>6. f \in Surjection(S, P)
  BY <1>1, <1>4, <1>5, FS_Injection
<1>7. \A i \in P : \E c \in S : f[c] = i
  BY <1>6 DEF Surjection
<1>8. \A k \in 1..n : k - 1 \in P
  BY <1>1
<1> QED BY <1>1, <1>3, <1>7, <1>8

\* InOrder is the order.
LEMMA InOrderIs ==
    ASSUME NEW S, IsFiniteSet(S), NEW R, Orders(R, S)
    PROVE  IsOrder(InOrder(S, R), S, R)
<1> DEFINE q == InOrder(S, R)
           rank(c) == Cardinality(Earlier(S, R, c))
<1>1. PICK n \in Nat : n = Cardinality(S)
  BY FS_CardinalityType
<1>2. q = [k \in 1..n |-> CHOOSE c \in S : rank(c) = k - 1]
  BY <1>1 DEF InOrder, Earlier
<1>3. \A k \in 1..n : \E c \in S : rank(c) = k - 1
  BY <1>1, PlacesTaken
<1>4. \A c, d \in S : rank(c) = rank(d) => c = d
  BY PlacesTaken
<1>5. \A c \in S : rank(c) \in Nat /\ rank(c) < n
  BY <1>1, FewerEarlier
<1>6. \A c, d \in S : <<c, d>> \in R => rank(c) < rank(d)
  BY FewerEarlier
<1> HIDE DEF q, rank
<1>7. \A k \in 1..n : q[k] \in S /\ rank(q[k]) = k - 1
  BY <1>2, <1>3
<1>8. q \in [1..n -> S]
  BY <1>2, <1>7
<1>9. ASSUME NEW i \in 1..n, NEW j \in 1..n, i < j PROVE <<q[i], q[j]>> \in R
  <2>1. q[i] \in S /\ q[j] \in S /\ rank(q[i]) = i - 1 /\ rank(q[j]) = j - 1
    BY <1>7
  <2>2. q[i] # q[j] /\ ~(rank(q[j]) < rank(q[i]))
    BY <1>9, <2>1
  <2> QED BY <1>6, <2>1, <2>2 DEF Orders
<1>10. ASSUME NEW c \in S PROVE \E i \in 1..n : q[i] = c
  <2>1. PICK r \in Nat : r = rank(c) /\ r < n
    BY <1>5
  <2>2. r + 1 \in 1..n /\ (r + 1) - 1 = r
    BY <1>1, <2>1
  <2>3. q[r + 1] \in S /\ rank(q[r + 1]) = r
    BY <1>7, <2>2
  <2> QED BY <1>4, <2>1, <2>2, <2>3
<1> QED BY <1>1, <1>8, <1>9, <1>10 DEF q, IsOrder

\* Another sequence in this order has as many before a member.
LEMMA OnlyOrder ==
    ASSUME NEW S, IsFiniteSet(S), NEW R, Orders(R, S), NEW m \in Nat, NEW q \in [1..m -> S],
           \A i, j \in 1..m : i < j => <<q[i], q[j]>> \in R,
           \A c \in S : \E i \in 1..m : q[i] = c
    PROVE  Cardinality(S) = m /\ InOrder(S, R) = q
<1>1. \A i, j \in 1..m : q[i] = q[j] => i = j
  <2> SUFFICES ASSUME NEW i \in 1..m, NEW j \in 1..m, i # j PROVE q[i] # q[j]
    OBVIOUS
  <2>1. i < j \/ j < i
    OBVIOUS
  <2>2. <<q[i], q[j]>> \in R \/ <<q[j], q[i]>> \in R
    BY <2>1
  <2> QED BY <2>2 DEF Orders
<1>2. Cardinality(S) = m
  <2>1. q \in Injection(1..m, S) /\ q \in Surjection(1..m, S)
    BY <1>1 DEF Injection, IsInjective, Surjection
  <2>2. IsFiniteSet(1..m) /\ Cardinality(1..m) = m
    <3>1. Cardinality(1..m) = IF 1 > m THEN 0 ELSE m - 1 + 1
      BY FS_Interval
    <3> QED BY <3>1, FS_Interval
  <2> QED BY <2>1, <2>2, FS_Surjection
<1>3. ASSUME NEW k \in 1..m PROVE Cardinality(Earlier(S, R, q[k])) = k - 1
  <2> DEFINE before == [i \in 1..k - 1 |-> q[i]]
             E == Earlier(S, R, q[k])
  <2>1. \A i \in 1..k - 1 : i \in 1..m /\ i < k
    OBVIOUS
  <2>2. before \in [1..k - 1 -> E]
    BY <2>1, <1>3 DEF Earlier
  <2>3. before \in Injection(1..k - 1, E)
    BY <1>1, <2>1, <2>2 DEF Injection, IsInjective
  <2>4. ASSUME NEW c \in E PROVE \E i \in 1..k - 1 : before[i] = c
    <3>1. PICK i \in 1..m : q[i] = c
      BY DEF Earlier
    <3>2. <<q[i], q[k]>> \in R /\ q[i] \in S /\ q[k] \in S
      BY <3>1 DEF Earlier
    <3>3. i # k /\ ~(k < i)
      BY <3>2 DEF Orders
    <3> QED BY <3>1, <3>3
  <2>5. before \in Surjection(1..k - 1, E)
    BY <2>2, <2>4 DEF Surjection
  <2>6. IsFiniteSet(1..k - 1) /\ Cardinality(1..k - 1) = k - 1
    <3>1. k - 1 \in Int /\ k - 1 >= 0
      OBVIOUS
    <3>2. /\ IsFiniteSet(1..k - 1)
          /\ Cardinality(1..k - 1) = IF 1 > k - 1 THEN 0 ELSE (k - 1) - 1 + 1
      BY <3>1, FS_Interval
    <3> QED BY <3>1, <3>2
  <2> QED BY <2>3, <2>5, <2>6, FS_Surjection
<1>4. \A c, d \in S : Cardinality(Earlier(S, R, c)) = Cardinality(Earlier(S, R, d)) => c = d
  BY PlacesTaken
<1>5. \A k \in 1..m : (CHOOSE c \in S : Cardinality(Earlier(S, R, c)) = k - 1) = q[k]
  BY <1>3, <1>4
<1>6. InOrder(S, R) = [k \in 1..m |-> CHOOSE c \in S : Cardinality(Earlier(S, R, c)) = k - 1]
  BY <1>2 DEF InOrder, Earlier
<1> QED BY <1>2, <1>5, <1>6

\* the places of the entries of s that are in T, and their order
Places(s, T) == {i \in DOMAIN s : s[i] \in T}
Rising(P) == {p \in P \X P : p[1] < p[2]}

\* the places are numbers
LEMMA PlacesOrdered ==
    ASSUME NEW V, NEW s \in Seq(V), NEW T
    PROVE  /\ IsFiniteSet(Places(s, T)) /\ Places(s, T) \subseteq Nat
           /\ Orders(Rising(Places(s, T)), Places(s, T))
<1>1. PICK n \in Nat : n = Len(s) /\ DOMAIN s = 1..n
  OBVIOUS
<1>2. IsFiniteSet(1..n)
  BY FS_Interval
<1>3. Places(s, T) \in SUBSET (1..n)
  BY <1>1 DEF Places
<1>4. IsFiniteSet(Places(s, T)) /\ Places(s, T) \subseteq Nat
  BY <1>2, <1>3, FS_Subset
<1>5. ASSUME NEW P \in SUBSET Nat PROVE Orders(Rising(P), P)
  <2>1. \A c, d \in P : <<c, d>> \in Rising(P) <=> c < d
    BY DEF Rising
  <2>2. \A c, d, e \in Nat : ~(c < c) /\ (c # d => c < d \/ d < c) /\ (c < d /\ d < e => c < e)
    OBVIOUS
  <2> QED BY <2>1, <2>2 DEF Orders
<1> QED BY <1>4, <1>5

\* What is kept, by the places.
LEMMA KeptIs ==
    ASSUME NEW V, NEW s \in Seq(V), NEW T
    PROVE  \E q : /\ IsOrder(q, Places(s, T), Rising(Places(s, T)))
                  /\ q = InOrder(Places(s, T), Rising(Places(s, T)))
                  /\ Kept(s, T) = [k \in 1..Cardinality(Places(s, T)) |-> s[q[k]]]
<1> DEFINE P == Places(s, T)
           q == InOrder(P, Rising(P))
<1>1. IsOrder(q, P, Rising(P))
  BY PlacesOrdered, InOrderIs
<1>2. DOMAIN q = 1..Cardinality(P)
  BY <1>1 DEF IsOrder
<1>3. Kept(s, T) = [k \in DOMAIN q |-> s[q[k]]]
  BY DEF Kept, Places, Rising
<1> HIDE DEF q, P
<1>4. Kept(s, T) = [k \in 1..Cardinality(P) |-> s[q[k]]]
  BY <1>2, <1>3
<1> QED BY <1>1, <1>4 DEF q, P

\* q lists the m places
Lists(q, m, s, T) ==
    /\ q \in [1..m -> Places(s, T)]
    /\ \A i, j \in 1..m : i < j => q[i] < q[j]
    /\ \A c \in Places(s, T) : \E i \in 1..m : q[i] = c

\* It is told by any list of the places.
LEMMA KeptBy ==
    ASSUME NEW V, NEW s \in Seq(V), NEW T, NEW m \in Nat, NEW q, Lists(q, m, s, T)
    PROVE  Kept(s, T) = [k \in 1..m |-> s[q[k]]]
<1> DEFINE P == Places(s, T)
<1>1. IsFiniteSet(P) /\ Orders(Rising(P), P)
  BY PlacesOrdered
<1>2. /\ q \in [1..m -> P]
      /\ \A i, j \in 1..m : i < j => <<q[i], q[j]>> \in Rising(P)
      /\ \A c \in P : \E i \in 1..m : q[i] = c
  BY DEF Rising, Lists
<1> HIDE DEF P
<1>3. Cardinality(P) = m /\ InOrder(P, Rising(P)) = q
  BY <1>1, <1>2, OnlyOrder
<1>4. PICK r : r = InOrder(P, Rising(P)) /\ Kept(s, T) = [k \in 1..Cardinality(P) |-> s[r[k]]]
  BY KeptIs DEF P
<1> QED BY <1>3, <1>4 DEF P

\* Nothing is left out.
LEMMA KeptAll ==
    ASSUME NEW V, NEW s \in Seq(V), NEW T, \A i \in DOMAIN s : s[i] \in T
    PROVE  Kept(s, T) = s
<1>1. PICK n \in Nat : n = Len(s) /\ DOMAIN s = 1..n
  OBVIOUS
<1> DEFINE q == [i \in 1..n |-> i]
<1>2. Places(s, T) = 1..n
  BY <1>1 DEF Places
<1>3. q \in [1..n -> Places(s, T)]
  BY <1>2
<1>4. /\ \A i, j \in 1..n : i < j => q[i] < q[j]
      /\ \A c \in Places(s, T) : \E i \in 1..n : q[i] = c
  BY <1>2
<1> HIDE DEF q
<1>7. Lists(q, n, s, T)
  BY <1>3, <1>4 DEF Lists
<1>5. Kept(s, T) = [k \in 1..n |-> s[q[k]]]
  BY <1>7, KeptBy
<1>6. s = [k \in 1..n |-> s[k]]
  BY <1>1
<1> QED BY <1>5, <1>6 DEF q

\* Nothing is left.
LEMMA KeptNone ==
    ASSUME NEW V, NEW s \in Seq(V), NEW T, \A i \in DOMAIN s : s[i] \notin T
    PROVE  Kept(s, T) = <<>>
<1> DEFINE q == [i \in 1..0 |-> i]
<1>1. Places(s, T) = {}
  BY DEF Places
<1>2. q \in [1..0 -> Places(s, T)]
  BY <1>1
<1>3. /\ \A i, j \in 1..0 : i < j => q[i] < q[j]
      /\ \A c \in Places(s, T) : \E i \in 1..0 : q[i] = c
  BY <1>1
<1> HIDE DEF q
<1>5. Lists(q, 0, s, T)
  BY <1>2, <1>3 DEF Lists
<1>4. Kept(s, T) = [k \in 1..0 |-> s[q[k]]]
  BY <1>5, KeptBy
<1> QED BY <1>4

\* no entry of s is there twice
Distinct(s) == \A i, j \in DOMAIN s : s[i] = s[j] => i = j

\* the places before i
InFront(s, T, i) == {j \in Places(s, T) : j < i}

\* Where an entry is in what is kept.
LEMMA KeptAt ==
    ASSUME NEW V, NEW s \in Seq(V), NEW T, Distinct(s), NEW i \in Places(s, T)
    PROVE  /\ Kept(s, T) \in Seq(V) /\ Cardinality(InFront(s, T, i)) \in Nat
           /\ TablePart!IndexOf(Kept(s, T), s[i]) = Cardinality(InFront(s, T, i)) + 1
<1> DEFINE P == Places(s, T)
           R == Rising(P)
           kept == Kept(s, T)
<1>1. PICK q : /\ IsOrder(q, P, R) /\ q = InOrder(P, R)
               /\ kept = [k \in 1..Cardinality(P) |-> s[q[k]]]
  BY KeptIs
<1>2. IsFiniteSet(P) /\ Orders(R, P) /\ P \subseteq Nat
  BY PlacesOrdered
<1>3. PICK n \in Nat : n = Cardinality(P)
  BY <1>2, FS_CardinalityType
<1>4. P \subseteq DOMAIN s /\ i \in P
  BY DEF Places
<1>5. Earlier(P, R, i) = InFront(s, T, i)
  BY <1>4 DEF Earlier, InFront, Rising
<1>6. PICK r \in Nat : r = Cardinality(InFront(s, T, i)) /\ r < n
  BY <1>2, <1>3, <1>4, <1>5, FewerEarlier
<1>7. r + 1 \in 1..n /\ (r + 1) - 1 = r
  BY <1>6
<1> HIDE DEF P, R
<1>8. \E c \in P : Cardinality(Earlier(P, R, c)) = r
  BY <1>4, <1>5, <1>6
<1>9. q[r + 1] = i
  <2>1. q[r + 1] = CHOOSE c \in P : Cardinality(Earlier(P, R, c)) = (r + 1) - 1
    BY <1>1, <1>3, <1>7 DEF InOrder, Earlier
  <2>2. q[r + 1] \in P /\ Cardinality(Earlier(P, R, q[r + 1])) = r
    BY <1>7, <1>8, <2>1
  <2> QED BY <1>2, <1>4, <1>5, <1>6, <2>2, PlacesTaken
<1> HIDE DEF kept
<1>10. q \in [1..n -> P] /\ kept = [k \in 1..n |-> s[q[k]]]
  BY <1>1, <1>3 DEF IsOrder
<1>11. kept \in Seq(V) /\ Len(kept) = n
  <2>1. \A k \in 1..n : s[q[k]] \in V
    BY <1>4, <1>10
  <2> QED BY <1>10, <2>1
<1>12. \A k \in 1..n : kept[k] = s[i] => k = r + 1
  <2> SUFFICES ASSUME NEW k \in 1..n, kept[k] = s[i] PROVE k = r + 1
    OBVIOUS
  <2>1. q[k] = i
    BY <1>4, <1>10 DEF Distinct
  <2>2. \A a, b \in 1..n : a < b => q[a] < q[b]
    BY <1>1, <1>3, <1>10 DEF IsOrder, R, Rising
  <2>3. ~(k < r + 1) /\ ~(r + 1 < k)
    BY <1>2, <1>4, <1>7, <1>9, <2>1, <2>2
  <2> QED BY <1>6, <2>3
<1>13. kept[r + 1] = s[i]
  BY <1>7, <1>9, <1>10
<1>14. TablePart!IndexOf(kept, s[i]) = r + 1
  BY <1>7, <1>11, <1>12, <1>13 DEF TablePart!IndexOf
<1> QED BY <1>6, <1>11, <1>14 DEF kept

-----------------------------------------------------------------------------
(* Columns: the order is a permutation of the declared columns.            *)

\* The table's part filters and orders as is told above.
LEMMA SameKept ==
    /\ \A s, T : TablePart!Kept(s, T) = Kept(s, T)
    /\ \A f : TablePart!Range(f) = {f[x] : x \in DOMAIN f}
    /\ \A f : TablePart!IsInjective(f) <=> \A a, b \in DOMAIN f : f[a] = f[b] => a = b
<1>1. \A s, T : TablePart!Kept(s, T) = Kept(s, T)
  BY DEF TablePart!Kept, Kept, TablePart!InOrder, InOrder,
         TablePart!Cardinality, Cardinality, TablePart!IsFiniteSet, IsFiniteSet
<1> QED BY <1>1 DEF TablePart!Range, TablePart!IsInjective

\* the columns of the table
ColumnSet == TablePart!ColumnSet

\* s has every column once
Permutation(s) ==
    /\ s \in Seq(ColumnSet)
    /\ Distinct(s)
    /\ \A c \in ColumnSet : \E i \in DOMAIN s : s[i] = c

\* The columns that are declared.
LEMMA ColumnsGiven ==
    /\ Permutation(Columns) /\ None \notin ColumnSet
    /\ PinnedStart \subseteq ColumnSet /\ PinnedEnd \subseteq ColumnSet /\ CanHide \subseteq ColumnSet
<1>1. TablePart!ColumnsAssumption
  BY PartAssumptions
<1>2. Columns \in Seq(ColumnSet) /\ ColumnSet = {Columns[x] : x \in DOMAIN Columns}
  BY <1>1, SameKept DEF TablePart!ColumnsAssumption, ColumnSet, TablePart!ColumnSet
<1>3. Distinct(Columns)
  BY <1>1, SameKept DEF TablePart!ColumnsAssumption, Distinct
<1>4. /\ None \notin ColumnSet
      /\ PinnedStart \subseteq ColumnSet /\ PinnedEnd \subseteq ColumnSet /\ CanHide \subseteq ColumnSet
  BY <1>1 DEF TablePart!ColumnsAssumption, ColumnSet
<1> QED BY <1>2, <1>3, <1>4 DEF Permutation

\* none is ordered yet, or all are
Ordered(s) == s = <<>> \/ Permutation(s)

\* The library appends the columns that the order does not name.
LEMMA LeavesAre ==
    ASSUME NEW s, Ordered(s)
    PROVE  /\ TablePart!Leaves(s) = IF s = <<>> THEN Columns ELSE s
           /\ Permutation(TablePart!Leaves(s))
<1> DEFINE left == Kept(Columns, ColumnSet \ {s[x] : x \in DOMAIN s})
<1>1. Columns \in Seq(ColumnSet) /\ \A i \in DOMAIN Columns : Columns[i] \in ColumnSet
  BY ColumnsGiven DEF Permutation
<1>2. TablePart!Leaves(s) = s \o left
  BY SameKept DEF TablePart!Leaves, ColumnSet
<1>3. CASE s = <<>>
  <2>1. \A i \in DOMAIN Columns : Columns[i] \in ColumnSet \ {s[x] : x \in DOMAIN s}
    BY <1>1, <1>3
  <2>2. left = Columns
    BY <1>1, <2>1, KeptAll
  <2> HIDE DEF left
  <2>3. s \o left = Columns
    BY <1>1, <1>3, <2>2
  <2> QED BY <1>2, <1>3, <2>3, ColumnsGiven
<1>4. CASE s # <<>>
  <2>1. Permutation(s)
    BY <1>4 DEF Ordered
  <2>2. \A i \in DOMAIN Columns : Columns[i] \notin ColumnSet \ {s[x] : x \in DOMAIN s}
    BY <1>1, <2>1 DEF Permutation
  <2>3. left = <<>>
    BY <1>1, <2>2, KeptNone
  <2>4. s \in Seq(ColumnSet)
    BY <2>1 DEF Permutation
  <2> HIDE DEF left
  <2>5. s \o left = s
    BY <2>3, <2>4
  <2> QED BY <1>2, <1>4, <2>1, <2>5
<1> QED BY <1>3, <1>4

\* A column has a place in a permutation.
LEMMA PlaceOf ==
    ASSUME NEW s, Permutation(s), NEW c \in ColumnSet
    PROVE  /\ TablePart!IndexOf(s, c) \in DOMAIN s /\ s[TablePart!IndexOf(s, c)] = c
           /\ TablePart!IndexOf(s, c) \in Nat /\ Len(s) \in Nat /\ DOMAIN s = 1..Len(s)
           /\ TablePart!IndexOf(s, c) >= 1 /\ TablePart!IndexOf(s, c) <= Len(s)
<1>1. s \in Seq(ColumnSet)
  BY DEF Permutation
<1>2. Len(s) \in Nat /\ DOMAIN s = 1..Len(s)
  BY <1>1
<1>3. \E i \in 1..Len(s) : s[i] = c
  BY <1>2 DEF Permutation
<1>4. TablePart!IndexOf(s, c) \in 1..Len(s) /\ s[TablePart!IndexOf(s, c)] = c
  BY <1>3 DEF TablePart!IndexOf
<1> QED BY <1>2, <1>4

\* where the entry at place i was before the one at `from' was moved to `to'
Source(i, from, to) ==
    IF i = to THEN from
    ELSE IF from <= i /\ i < to THEN i + 1
    ELSE IF to < i /\ i <= from THEN i - 1 ELSE i

\* What splicing makes of a sequence.
LEMMA MovedIs ==
    ASSUME NEW V, NEW s \in Seq(V), NEW from \in Nat, NEW to \in Nat,
           from >= 1, from <= Len(s), to >= 1, to <= Len(s)
    PROVE  TablePart!Moved(s, from, to) = [i \in 1..Len(s) |-> s[Source(i, from, to)]]
<1>1. PICK n \in Nat : n = Len(s) /\ DOMAIN s = 1..n /\ n >= 1
  OBVIOUS
<1>2. PICK e \in Nat : e + 1 = n
  <2>1. n - 1 \in Nat /\ (n - 1) + 1 = n
    BY <1>1
  <2> QED BY <2>1
<1> DEFINE x == s[from]
           r == TablePart!RemoveAt(s, from)
           a == SubSeq(s, 1, from - 1)
           b == SubSeq(s, from + 1, n)
<1>3. a \in Seq(V) /\ Len(a) = from - 1 /\ \A i \in 1..from - 1 : a[i] = s[i]
  <2>1. from - 1 \in Nat /\ from - 1 <= n
    BY <1>1
  <2> QED BY <1>1, <2>1
<1>4. b \in Seq(V) /\ Len(b) = n - from /\ \A i \in 1..n - from : b[i] = s[from + i]
  <2>1. n - from \in Nat /\ \A i \in 1..n - from : (from + 1) + i - 1 = from + i
    BY <1>1
  <2> QED BY <1>1, <2>1
<1>5. r = a \o b
  BY <1>1 DEF TablePart!RemoveAt
<1> HIDE DEF r, a, b
<1>6. r \in Seq(V) /\ Len(r) = e
  <2>3. a \in Seq(V) /\ b \in Seq(V)
    BY <1>3, <1>4
  <2>4. r \in Seq(V) /\ Len(r) = Len(a) + Len(b)
    BY <1>5, <2>3
  <2>1. r \in Seq(V) /\ Len(r) = (from - 1) + (n - from)
    BY <1>3, <1>4, <2>4
  <2>2. (from - 1) + (n - from) = e
    BY <1>2
  <2> QED BY <2>1, <2>2
<1>7. \A i \in 1..e : r[i] = IF i < from THEN s[i] ELSE s[i + 1]
  <2> SUFFICES ASSUME NEW i \in 1..e PROVE r[i] = IF i < from THEN s[i] ELSE s[i + 1]
    OBVIOUS
  <2>1. CASE i < from
    <3>1. i \in 1..from - 1
      BY <2>1
    <3>2. r[i] = a[i]
      BY <1>3, <1>4, <1>5, <3>1
    <3> QED BY <1>3, <2>1, <3>1, <3>2
  <2>2. CASE ~(i < from)
    <3>1. PICK j \in Nat : j = i - (from - 1) /\ j >= 1 /\ j <= n - from
      BY <1>2, <2>2
    <3>2. r[i] = b[j]
      BY <1>1, <1>2, <1>3, <1>4, <1>5, <2>2, <3>1
    <3>3. j \in 1..n - from /\ from + j = i + 1
      BY <3>1
    <3> QED BY <1>4, <2>2, <3>2, <3>3
  <2> QED BY <2>1, <2>2
<1> DEFINE c == SubSeq(r, 1, to - 1)
           d == SubSeq(r, to, e)
<1>8. c \in Seq(V) /\ Len(c) = to - 1 /\ \A i \in 1..to - 1 : c[i] = r[i]
  <2>1. to - 1 \in Nat /\ to - 1 <= e
    BY <1>1, <1>2
  <2> QED BY <1>6, <2>1
<1>9. d \in Seq(V) /\ Len(d) = n - to /\ \A i \in 1..n - to : d[i] = r[to - 1 + i]
  <2>1. n - to \in Nat /\ n - to = e - to + 1 /\ \A i \in 1..n - to : to + i - 1 = to - 1 + i
    BY <1>1, <1>2
  <2> QED BY <1>1, <1>2, <1>6, <2>1
<1>10. TablePart!Moved(s, from, to) = (c \o <<x>>) \o d
  BY <1>6 DEF TablePart!Moved, TablePart!InsertAt, r
<1>11. x \in V
  BY <1>1
<1> HIDE DEF c, d, x
<1> DEFINE h == c \o <<x>>
<1>12. h \in Seq(V) /\ Len(h) = to /\ h[to] = x /\ \A i \in 1..to - 1 : h[i] = c[i]
  BY <1>8, <1>11
<1> HIDE DEF h
<1>13. PICK m : m = h \o d /\ m \in Seq(V) /\ Len(m) = n
  <2>1. h \o d \in Seq(V) /\ Len(h \o d) = to + (n - to)
    <3>1. h \o d \in Seq(V) /\ Len(h \o d) = Len(h) + Len(d)
      BY <1>9, <1>12
    <3> QED BY <1>9, <1>12, <3>1
  <2>2. to + (n - to) = n
    BY <1>1
  <2> QED BY <2>1, <2>2
<1>14. \A i \in 1..n : m[i] = s[Source(i, from, to)]
  <2> SUFFICES ASSUME NEW i \in 1..n PROVE m[i] = s[Source(i, from, to)]
    OBVIOUS
  <2>1. CASE i = to
    BY <1>9, <1>12, <1>13, <2>1 DEF Source, x
  <2>2. CASE i < to
    <3>1. i \in 1..to - 1 /\ i \in 1..e
      BY <1>1, <1>2, <2>2
    <3>2. m[i] = r[i]
      BY <1>8, <1>9, <1>12, <1>13, <3>1
    <3> QED BY <1>7, <2>2, <3>1, <3>2 DEF Source
  <2>3. CASE to < i
    <3>1. PICK j \in Nat : j = i - to /\ j >= 1 /\ j <= n - to
      BY <1>1, <2>3
    <3>2. m[i] = d[j]
      BY <1>1, <1>9, <1>12, <1>13, <2>3, <3>1
    <3>3. j \in 1..n - to /\ to - 1 + j = i - 1 /\ i - 1 \in 1..e
      BY <1>1, <1>2, <2>3, <3>1
    <3>4. m[i] = IF i - 1 < from THEN s[i - 1] ELSE s[(i - 1) + 1]
      BY <1>7, <1>9, <3>2, <3>3
    <3> QED BY <2>3, <3>4 DEF Source
  <2> QED BY <2>1, <2>2, <2>3
<1>15. m = [i \in 1..n |-> m[i]]
  <2>1. m \in [1..n -> V]
    BY <1>13, LenProperties
  <2> QED BY <2>1
<1> QED BY <1>1, <1>10, <1>13, <1>14, <1>15 DEF h

\* A moved column is at its new place, every column is still there once.
LEMMA MovedKeeps ==
    ASSUME NEW s, Permutation(s), NEW from \in Nat, NEW to \in Nat,
           from >= 1, from <= Len(s), to >= 1, to <= Len(s),
           NEW m, m = TablePart!Moved(s, from, to)
    PROVE  Permutation(m) /\ Len(m) = Len(s) /\ m[to] = s[from]
<1>1. s \in Seq(ColumnSet) /\ \A i, j \in DOMAIN s : s[i] = s[j] => i = j
  BY DEF Permutation, Distinct
<1>2. PICK n \in Nat : n = Len(s) /\ DOMAIN s = 1..n
  BY <1>1
<1>3. m = [i \in 1..n |-> s[Source(i, from, to)]]
  BY <1>1, <1>2, MovedIs
<1>4. \A i \in 1..n : Source(i, from, to) \in 1..n
  BY <1>2 DEF Source
<1>5. \A i, j \in 1..n : Source(i, from, to) = Source(j, from, to) => i = j
  BY <1>2 DEF Source
<1>6. \A i \in 1..n : \E j \in 1..n : Source(j, from, to) = i
  <2> SUFFICES ASSUME NEW i \in 1..n PROVE Source(Source(i, to, from), from, to) = i /\ Source(i, to, from) \in 1..n
    OBVIOUS
  <2> QED BY <1>2 DEF Source
<1>7. m \in Seq(ColumnSet) /\ Len(m) = n /\ DOMAIN m = 1..n
  <2>1. \A i \in 1..n : s[Source(i, from, to)] \in ColumnSet
    BY <1>1, <1>2, <1>4
  <2> HIDE DEF ColumnSet
  <2> QED BY <1>3, <2>1
<1>8. \A i, j \in DOMAIN m : m[i] = m[j] => i = j
  BY <1>1, <1>2, <1>3, <1>4, <1>5, <1>7
<1>9. \A c \in ColumnSet : \E i \in DOMAIN m : m[i] = c
  <2> SUFFICES ASSUME NEW c \in ColumnSet PROVE \E i \in DOMAIN m : m[i] = c
    OBVIOUS
  <2>1. PICK j \in 1..n : s[j] = c
    BY <1>2 DEF Permutation
  <2>2. PICK i \in 1..n : Source(i, from, to) = j
    BY <1>6
  <2> QED BY <1>3, <1>7, <2>1, <2>2
<1>10. m[to] = s[from]
  <2>1. to \in 1..n /\ Source(to, from, to) = from
    BY <1>2 DEF Source
  <2> QED BY <1>3, <2>1
<1> QED BY <1>2, <1>7, <1>8, <1>9, <1>10 DEF Permutation, Distinct

\* f lists the numbers up to n but x
AllBut(f, e, n, x) ==
    /\ f \in [1..e -> 1..n \ {x}]
    /\ \A i, j \in 1..e : i < j => f[i] < f[j]
    /\ \A d \in 1..n \ {x} : \E i \in 1..e : f[i] = d

\* Counting past x does.
LEMMA SkipsOne ==
    ASSUME NEW e \in Nat, NEW n \in Nat, e + 1 = n, NEW x \in Nat, x >= 1, x <= n,
           NEW f, f = [k \in 1..e |-> IF k < x THEN k ELSE k + 1]
    PROVE  AllBut(f, e, n, x)
<1>1. f \in [1..e -> 1..n \ {x}]
  OBVIOUS
<1>2. \A i, j \in 1..e : i < j => f[i] < f[j]
  OBVIOUS
<1>3. ASSUME NEW d \in 1..n \ {x} PROVE \E i \in 1..e : f[i] = d
  <2>1. CASE d < x
    <3>1. d \in 1..e /\ f[d] = d
      BY <2>1
    <3> QED BY <3>1
  <2>2. CASE x < d
    <3>1. d - 1 \in 1..e /\ ~(d - 1 < x) /\ (d - 1) + 1 = d
      BY <2>2
    <3> QED BY <3>1
  <2> QED BY <2>1, <2>2
<1> QED BY <1>1, <1>2, <1>3 DEF AllBut

\* The others are in the order that they were in.
LEMMA OthersStay ==
    ASSUME NEW s, Permutation(s), NEW from \in Nat, NEW to \in Nat,
           from >= 1, from <= Len(s), to >= 1, to <= Len(s),
           NEW m, m = TablePart!Moved(s, from, to), NEW c, c = s[from]
    PROVE  TablePart!Others(m, c) = TablePart!Others(s, c)
<1>1. s \in Seq(ColumnSet) /\ \A i, j \in DOMAIN s : s[i] = s[j] => i = j
  BY DEF Permutation, Distinct
<1>2. PICK n \in Nat : n = Len(s) /\ DOMAIN s = 1..n /\ n >= 1
  BY <1>1
<1>3. PICK e \in Nat : e + 1 = n
  <2>1. n - 1 \in Nat /\ (n - 1) + 1 = n
    BY <1>2
  <2> QED BY <2>1
<1>4. m = [i \in 1..n |-> s[Source(i, from, to)]]
  BY <1>1, <1>2, MovedIs
<1>6. Permutation(m) /\ m[to] = c
  BY MovedKeeps
<1>5. m \in Seq(ColumnSet) /\ DOMAIN m = 1..n /\ \A i, j \in 1..n : m[i] = m[j] => i = j
  BY <1>4, <1>6 DEF Permutation, Distinct
<1> DEFINE T == ColumnSet \ {c}
           q == [k \in 1..e |-> IF k < from THEN k ELSE k + 1]
           r == [k \in 1..e |-> IF k < to THEN k ELSE k + 1]
<1>7. Places(s, T) = 1..n \ {from}
  BY <1>1, <1>2 DEF Places
<1>8. Places(m, T) = 1..n \ {to}
  <2>1. to \in 1..n
    BY <1>2
  <2> QED BY <1>5, <1>6, <2>1 DEF Places
<1>10. Lists(q, e, s, T) /\ Lists(r, e, m, T)
  <2>1. AllBut(q, e, n, from)
    BY <1>2, <1>3, SkipsOne
  <2>2. AllBut(r, e, n, to)
    BY <1>2, <1>3, SkipsOne
  <2> HIDE DEF q, r, T
  <2>3. Lists(q, e, s, T)
    BY <1>7, <2>1 DEF Lists, AllBut
  <2>4. Lists(r, e, m, T)
    BY <1>8, <2>2 DEF Lists, AllBut
  <2> QED BY <2>3, <2>4
<1>11. \A k \in 1..e : m[r[k]] = s[q[k]]
  <2> SUFFICES ASSUME NEW k \in 1..e PROVE m[r[k]] = s[q[k]]
    OBVIOUS
  <2>1. r[k] \in 1..n /\ Source(r[k], from, to) = q[k]
    BY <1>2, <1>3 DEF Source
  <2> QED BY <1>4, <2>1
<1> HIDE DEF q, r, T
<1>12. Kept(s, T) = [k \in 1..e |-> s[q[k]]]
  BY <1>1, <1>10, KeptBy
<1>13. Kept(m, T) = [k \in 1..e |-> m[r[k]]]
  BY <1>5, <1>10, KeptBy
<1>14. Kept(m, T) = Kept(s, T)
  BY <1>11, <1>12, <1>13
<1> QED BY <1>14, SameKept DEF TablePart!Others, T, ColumnSet

\* The moved column is drawn where the one at its new place was drawn.
LEMMA LandsThere ==
    ASSUME NEW s, Permutation(s), NEW from \in Nat, NEW to \in Nat,
           from >= 1, from <= Len(s), to >= 1, to <= Len(s), from # to,
           NEW m, m = TablePart!Moved(s, from, to),
           NEW T, s[from] \in T, s[to] \in T
    PROVE  TablePart!IndexOf(Kept(m, T), s[from]) = TablePart!IndexOf(Kept(s, T), s[to])
<1>1. s \in Seq(ColumnSet) /\ \A i, j \in DOMAIN s : s[i] = s[j] => i = j
  BY DEF Permutation, Distinct
<1>2. PICK n \in Nat : n = Len(s) /\ DOMAIN s = 1..n /\ from \in 1..n /\ to \in 1..n
  BY <1>1
<1>3. m = [i \in 1..n |-> s[Source(i, from, to)]]
  BY <1>1, <1>2, MovedIs
<1>12. Permutation(m) /\ m[to] = s[from]
  BY MovedKeeps
<1>4. m \in Seq(ColumnSet) /\ DOMAIN m = 1..n /\ Distinct(m) /\ m[to] = s[from]
  BY <1>3, <1>12 DEF Permutation
<1>5. to \in Places(s, T) /\ to \in Places(m, T) /\ from \in Places(s, T)
  BY <1>2, <1>4 DEF Places
<1> DEFINE A == InFront(s, T, to)
           B == InFront(m, T, to)
<1>6. \A i \in Nat : /\ i \in A <=> i >= 1 /\ i < to /\ s[i] \in T
                     /\ i \in B <=> i >= 1 /\ i < to /\ s[Source(i, from, to)] \in T
  BY <1>2, <1>3, <1>4 DEF InFront, Places
<1>7. A \subseteq Nat /\ B \subseteq Nat
  BY <1>2, <1>4 DEF InFront, Places
<1>8. /\ TablePart!IndexOf(Kept(m, T), m[to]) = Cardinality(B) + 1
      /\ TablePart!IndexOf(Kept(s, T), s[to]) = Cardinality(A) + 1
  <2>1. s \in Seq(ColumnSet) /\ Distinct(s)
    BY DEF Permutation
  <2>2. TablePart!IndexOf(Kept(m, T), m[to]) = Cardinality(InFront(m, T, to)) + 1
    BY <1>4, <1>5, KeptAt
  <2>3. TablePart!IndexOf(Kept(s, T), s[to]) = Cardinality(InFront(s, T, to)) + 1
    BY <1>5, <2>1, KeptAt
  <2> QED BY <2>2, <2>3
<1>9. IsFiniteSet(A) /\ IsFiniteSet(B)
  <2>1. IsFiniteSet(Places(s, T)) /\ IsFiniteSet(Places(m, T))
    BY <1>1, <1>4, PlacesOrdered
  <2>2. A \in SUBSET Places(s, T) /\ B \in SUBSET Places(m, T)
    BY DEF InFront
  <2> QED BY <2>1, <2>2, FS_Subset
<1> HIDE DEF A, B
<1>10. CASE to < from
  <2>1. \A i \in Nat : i < to => Source(i, from, to) = i
    BY <1>10 DEF Source
  <2>2. A = B
    BY <1>6, <1>7, <2>1
  <2> QED BY <1>4, <1>8, <2>2
<1>11. CASE from < to
  <2> DEFINE C == (A \ {from}) \cup {to}
             f == [i \in B |-> IF i < from THEN i ELSE i + 1]
  <2>1. from \in A /\ to \notin A
    BY <1>5, <1>6, <1>7, <1>11 DEF Places
  <2>2. IsFiniteSet(C) /\ Cardinality(C) = Cardinality(A)
    <3>1. IsFiniteSet(A \ {from}) /\ Cardinality(A \ {from}) = Cardinality(A) - 1 /\ Cardinality(A) \in Nat
      BY <1>9, <2>1, FS_RemoveElement, FS_CardinalityType
    <3>2. to \notin A \ {from}
      BY <2>1
    <3>3. IsFiniteSet(C) /\ Cardinality(C) = Cardinality(A \ {from}) + 1
      BY <3>1, <3>2, FS_AddElement
    <3> QED BY <3>1, <3>3
  <2>3. \A i \in B : i \in Nat /\ i >= 1 /\ i < to /\ Source(i, from, to) = f[i] /\ s[f[i]] \in T
    BY <1>6, <1>7, <1>11 DEF Source
  <2>4. \A i \in Nat : i \in C <=> i >= 1 /\ i <= to /\ i # from /\ s[i] \in T
    BY <1>5, <1>6, <1>11 DEF Places
  <2>5. f \in [B -> C]
    <3> SUFFICES ASSUME NEW i \in B PROVE f[i] \in C
      OBVIOUS
    <3>1. f[i] \in Nat /\ f[i] >= 1 /\ f[i] <= to /\ f[i] # from
      BY <1>11, <2>3
    <3> HIDE DEF f
    <3> QED BY <2>3, <2>4, <3>1
  <2>6. \A i, j \in B : f[i] = f[j] => i = j
    BY <2>3
  <2>7. ASSUME NEW c \in C PROVE \E i \in B : f[i] = c
    <3>1. c \in Nat /\ c >= 1 /\ c <= to /\ c # from /\ s[c] \in T
      BY <1>7, <2>4
    <3>2. CASE c < from
      <4>1. Source(c, from, to) = c /\ c < to
        BY <1>11, <3>1, <3>2 DEF Source
      <4>2. c \in B
        BY <1>6, <3>1, <4>1
      <4> QED BY <3>2, <4>2
    <3>3. CASE from < c
      <4>1. PICK i \in Nat : i + 1 = c
        <5>1. c - 1 \in Nat /\ (c - 1) + 1 = c
          BY <3>1
        <5> QED BY <5>1
      <4>2. Source(i, from, to) = c /\ i >= 1 /\ i < to /\ ~(i < from)
        BY <3>1, <3>3, <4>1 DEF Source
      <4>3. i \in B
        BY <1>6, <3>1, <4>2
      <4> QED BY <4>1, <4>2, <4>3
    <3> QED BY <3>1, <3>2, <3>3
  <2> HIDE DEF f
  <2>8. f \in Injection(B, C) /\ f \in Surjection(B, C)
    BY <2>5, <2>6, <2>7 DEF Injection, IsInjective, Surjection
  <2>9. Cardinality(B) = Cardinality(C)
    BY <1>9, <2>8, FS_Surjection
  <2> QED BY <1>4, <1>8, <2>2, <2>9
<1> QED BY <1>10, <1>11

\* the inductive invariant: the order is one of every column, the pinned ones in their
\* places, and what is dragged and what it is over are two columns that can move
TableInv ==
    /\ Ordered(columnOrder) /\ hidden \subseteq ColumnSet
    /\ dragging \in ColumnSet \cup {None} /\ dropTarget \in ColumnSet \cup {None}
    /\ dragging # None => TablePart!Draggable(dragging)
    /\ dropTarget # None =>
          TablePart!Draggable(dropTarget) /\ dragging # None /\ dropTarget # dragging
    /\ TablePart!DropLands
    /\ last.kind \in {"drop", "end"} => dragging = None

\* Initially nothing is ordered, hidden or dragged.
LEMMA TableInit == TablePart!Init => TableInv
BY DEF TablePart!Init, TableInv, Ordered, TablePart!DropLands

\* A drop puts the column where the other one was.
LEMMA DropPuts ==
    ASSUME TableInv, NEW c \in ColumnSet, TablePart!Drop(c)
    PROVE  Ordered(columnOrder') /\ TablePart!DropLands'
<1>1. PICK x \in ColumnSet : x = dragging /\ x # c /\ c = dropTarget
  BY ColumnsGiven DEF TableInv, TablePart!Drop
<1>2. /\ x \notin hidden \cup PinnedStart \cup PinnedEnd
      /\ c \notin hidden \cup PinnedStart \cup PinnedEnd
  BY <1>1, ColumnsGiven DEF TableInv, TablePart!Draggable, TablePart!CanReorder
<1>3. PICK s : s = TablePart!Leaves(columnOrder) /\ Permutation(s)
  BY LeavesAre DEF TableInv
<1>4. PICK from \in Nat : from = TablePart!IndexOf(s, x) /\ from >= 1 /\ from <= Len(s) /\ s[from] = x
  BY <1>3, PlaceOf
<1>5. PICK to \in Nat : to = TablePart!IndexOf(s, c) /\ to >= 1 /\ to <= Len(s) /\ s[to] = c
  BY <1>3, PlaceOf
<1>6. from # to
  BY <1>1, <1>4, <1>5
<1>7. PICK m : m = TablePart!Moved(s, from, to)
  OBVIOUS
<1>8. columnOrder' = m
  BY <1>1, <1>3, <1>4, <1>5, <1>6, <1>7 DEF TablePart!Drop, TablePart!MoveColumn
<1>9. Permutation(m) /\ Len(m) = Len(s)
  BY <1>3, <1>4, <1>5, <1>7, MovedKeeps
<1>10. m # <<>>
  <2>1. s \in Seq(ColumnSet) /\ m \in Seq(ColumnSet) /\ Len(s) >= 1
    BY <1>3, <1>4, <1>9 DEF Permutation
  <2> QED BY <1>9, <2>1
<1>11. TablePart!Leaves(m) = m
  BY <1>9, <1>10, LeavesAre DEF Ordered
<1>12. PICK T : T = ColumnSet \ (hidden \cup PinnedStart \cup PinnedEnd)
  OBVIOUS
<1>13. TablePart!Drawn(columnOrder, hidden) = Kept(s, T) /\ TablePart!Drawn(m, hidden) = Kept(m, T)
  BY <1>3, <1>11, <1>12, SameKept DEF TablePart!Drawn, ColumnSet
<1>14. x \in T /\ c \in T
  BY <1>2, <1>12
<1>15. TablePart!IndexOf(Kept(m, T), x) = TablePart!IndexOf(Kept(s, T), c)
  BY <1>3, <1>4, <1>5, <1>6, <1>7, <1>14, LandsThere
<1>16. TablePart!Others(m, x) = TablePart!Others(s, x)
  BY <1>3, <1>4, <1>5, <1>7, OthersStay
<1>17. /\ last'.kind = "drop" /\ last'.column = x /\ last'.target = c
       /\ last'.drawn = Kept(s, T) /\ last'.leaves = s /\ hidden' = hidden
  BY <1>1, <1>3, <1>13 DEF TablePart!Drop, TablePart!Did
<1>18. TablePart!Order' = m /\ TablePart!OnScreen' = Kept(m, T)
  BY <1>8, <1>11, <1>13, <1>17 DEF TablePart!Order, TablePart!OnScreen
<1> QED BY <1>8, <1>9, <1>15, <1>16, <1>17, <1>18 DEF Ordered, TablePart!DropLands

\* A nudge moves by one slot or not at all.
LEMMA NudgeKeeps ==
    ASSUME TableInv, NEW c \in ColumnSet, NEW delta \in {-1, 1}, TablePart!ShiftColumn(c, delta)
    PROVE  Ordered(columnOrder')
<1>1. PICK s : s = TablePart!Leaves(columnOrder) /\ Permutation(s)
  BY LeavesAre DEF TableInv
<1>2. PICK from \in Nat : from = TablePart!IndexOf(s, c) /\ from >= 1 /\ from <= Len(s) /\ s[from] = c
                         /\ Len(s) \in Nat
  BY <1>1, PlaceOf
<1>3. PICK to \in Int : to = from + delta
  BY <1>2
<1>4. columnOrder' = IF to \in 1..Len(s) THEN TablePart!Moved(s, from, to) ELSE columnOrder
  BY <1>1, <1>2, <1>3 DEF TablePart!ShiftColumn
<1>5. CASE to \in 1..Len(s)
  <2>1. to \in Nat /\ to >= 1 /\ to <= Len(s)
    BY <1>2, <1>5
  <2>2. Permutation(TablePart!Moved(s, from, to))
    BY <1>1, <1>2, <2>1, MovedKeeps
  <2> QED BY <1>4, <1>5, <2>2 DEF Ordered
<1>6. CASE to \notin 1..Len(s)
  BY <1>4, <1>6 DEF TableInv
<1> QED BY <1>5, <1>6

\* Every action of the table keeps it.
LEMMA TableStep == TableInv /\ [TablePart!Next]_(TablePart!vars) => TableInv'
<1> SUFFICES ASSUME TableInv, [TablePart!Next]_(TablePart!vars) PROVE TableInv'
  OBVIOUS
<1> USE ColumnsGiven
<1>1. ASSUME NEW c \in ColumnSet, TablePart!DragStart(c) PROVE TableInv'
  BY <1>1 DEF TableInv, TablePart!DragStart, TablePart!Did, TablePart!DropLands, TablePart!Draggable
<1>2. ASSUME NEW c \in ColumnSet, TablePart!DragOver(c) PROVE TableInv'
  BY <1>2 DEF TableInv, TablePart!DragOver, TablePart!Did, TablePart!DropLands, TablePart!Draggable
<1>3. ASSUME NEW c \in ColumnSet, TablePart!DragLeave(c) PROVE TableInv'
  BY <1>3 DEF TableInv, TablePart!DragLeave, TablePart!Did, TablePart!DropLands, TablePart!Draggable
<1>4. ASSUME NEW c \in ColumnSet, TablePart!Drop(c) PROVE TableInv'
  <2>1. Ordered(columnOrder') /\ TablePart!DropLands'
    BY <1>4, DropPuts
  <2> QED BY <1>4, <2>1 DEF TableInv, TablePart!Drop, TablePart!Did
<1>5. CASE TablePart!DragEnd
  BY <1>5 DEF TableInv, TablePart!DragEnd, TablePart!Did, TablePart!DropLands
<1>6. ASSUME NEW c \in ColumnSet, NEW delta \in {-1, 1}, TablePart!ArrowKey(c, delta) PROVE TableInv'
  <2>1. Ordered(columnOrder')
    BY <1>6, NudgeKeeps DEF TablePart!ArrowKey
  <2>2. last'.kind \in {"left", "right"}
    BY <1>6 DEF TablePart!ArrowKey, TablePart!Did
  <2> QED BY <1>6, <2>1, <2>2 DEF TableInv, TablePart!ArrowKey, TablePart!DropLands, TablePart!Draggable
<1>7. ASSUME NEW c \in ColumnSet, TablePart!ToggleVisibility(c) PROVE TableInv'
  BY <1>7 DEF TableInv, TablePart!ToggleVisibility, TablePart!Did, TablePart!DropLands
<1>8. CASE TablePart!ResetColumnOrder
  BY <1>8 DEF TableInv, TablePart!ResetColumnOrder, TablePart!Did, TablePart!DropLands, Ordered
<1>9. CASE UNCHANGED TablePart!vars
  BY <1>9 DEF TableInv, TablePart!vars, TablePart!DropLands, TablePart!Draggable, TablePart!Order,
              TablePart!OnScreen
<1> QED BY <1>1, <1>2, <1>3, <1>4, <1>5, <1>6, <1>7, <1>8, <1>9 DEF TablePart!Next, ColumnSet

\* The columns are kept.
LEMMA TableKept == TableInv => TablePart!ColumnsKept
<1> SUFFICES ASSUME TableInv PROVE TablePart!ColumnsKept
  OBVIOUS
<1>1. TablePart!DropLands /\ TablePart!DragForgotten
  BY DEF TableInv, TablePart!DragForgotten
<1>2. PICK s : s = TablePart!Order /\ Permutation(s)
  BY LeavesAre DEF TableInv, TablePart!Order
<1>3. TablePart!IsInjective(s) /\ TablePart!Range(s) = ColumnSet
  <2>1. s \in Seq(ColumnSet) /\ \A i \in DOMAIN s : s[i] \in ColumnSet
    BY <1>2 DEF Permutation
  <2>2. TablePart!IsInjective(s)
    BY <1>2, SameKept DEF Permutation, Distinct
  <2>3. {s[x] : x \in DOMAIN s} = ColumnSet
    BY <1>2, <2>1 DEF Permutation
  <2>4. TablePart!Range(s) = {s[x] : x \in DOMAIN s}
    BY SameKept, Zenon
  <2> QED BY <2>2, <2>3, <2>4
<1>4. TablePart!IsInjective(columnOrder)
  BY SameKept DEF TableInv, Ordered, Permutation, Distinct
<1> QED BY <1>1, <1>2, <1>3, <1>4 DEF TablePart!ColumnsKept, TablePart!NoColumnLost, ColumnSet

-----------------------------------------------------------------------------
(* DataTable: the rows that are found, in their order, and their pages.    *)

\* the containers that there can be
Rows == RowsPart!Containers

\* The table orders and counts as is told above.
LEMMA SameOrder ==
    /\ \A S, R : RowsPart!InOrder(S, R) = InOrder(S, R)
    /\ \A S : RowsPart!Cardinality(S) = Cardinality(S)
BY DEF RowsPart!InOrder, InOrder, RowsPart!Cardinality, Cardinality, RowsPart!IsFiniteSet, IsFiniteSet

\* What the daemon lists, and the sizes of a page.
LEMMA RowsGiven ==
    /\ IsFiniteSet(Rows) /\ Names \in [Rows -> Nat] /\ Ranks \subseteq Int
    /\ \A c \in Rows : RowsPart!Place(c) \in Nat
    /\ \A c, d \in Rows : RowsPart!Place(c) = RowsPart!Place(d) => c = d
    /\ PageSizes \subseteq Nat \ {0} /\ InitialSize \in PageSizes
<1>1. RowsPart!DataTableAssumption
  BY PartAssumptions
<1>2. Rows = {Listing[x] : x \in DOMAIN Listing}
  BY DEF Rows, RowsPart!Containers, RowsPart!Range
<1>3. Listing \in Seq(Rows)
  BY <1>1 DEF RowsPart!DataTableAssumption, Rows
<1>4. PICK n \in Nat : n = Len(Listing) /\ DOMAIN Listing = 1..n
  BY <1>3
<1>5. IsFiniteSet(Rows)
  <2> DEFINE f == [i \in 1..n |-> Listing[i]]
  <2>1. f \in Surjection(1..n, Rows)
    BY <1>2, <1>4 DEF Surjection
  <2>2. IsFiniteSet(1..n)
    BY FS_Interval
  <2> HIDE DEF f
  <2> QED BY <2>1, <2>2, FS_Surjection
<1>6. \A c \in Rows : RowsPart!Place(c) \in DOMAIN Listing /\ Listing[RowsPart!Place(c)] = c
  BY <1>2 DEF RowsPart!Place
<1>7. \A c \in Rows : RowsPart!Place(c) \in Nat
  BY <1>4, <1>6
<1>8. \A c, d \in Rows : RowsPart!Place(c) = RowsPart!Place(d) => c = d
  BY <1>6
<1>9. /\ Names \in [Rows -> Nat] /\ Ranks \subseteq Int
      /\ PageSizes \subseteq Nat \ {0} /\ InitialSize \in PageSizes
  BY <1>1 DEF RowsPart!DataTableAssumption, Rows
<1> QED BY <1>5, <1>7, <1>8, <1>9

\* page i of size q begins with one of n rows, or is the first
Begins(i, q, n) == i = 0 \/ i * q < n

\* the inductive invariant: until the page is due to be reset, it begins with a row
RowsInv ==
    /\ DOMAIN containers \subseteq Rows /\ \A c \in DOMAIN containers : containers[c] \in Int
    /\ sorting \in [column : {"none", "name", "rank"}, desc : BOOLEAN]
    /\ sorting.column = "none" => sorting = RowsPart!Unsorted
    /\ pageIndex \in Nat /\ pageSize \in PageSizes
    /\ ~resetDue => Begins(pageIndex, pageSize, RowsPart!Total)

\* Those that are found are rows.
LEMMA FoundAre ==
    ASSUME RowsInv
    PROVE  \E F \in SUBSET Rows, n \in Nat :
              F = RowsPart!Filtered /\ IsFiniteSet(F) /\ n = Cardinality(F) /\ n = RowsPart!Total
<1>1. PICK F \in SUBSET Rows : F = RowsPart!Filtered
  BY DEF RowsInv, RowsPart!Filtered
<1>2. IsFiniteSet(F) /\ Cardinality(F) \in Nat
  BY <1>1, RowsGiven, FS_Subset, FS_CardinalityType
<1> QED BY <1>1, <1>2, SameOrder DEF RowsPart!Total

\* what the rows are sorted by
Precedes(F, k, pl, un, desc) ==
    {p \in F \X F :
        \/ ~un /\ IF desc THEN k[p[1]] > k[p[2]] ELSE k[p[1]] < k[p[2]]
        \/ (un \/ k[p[1]] = k[p[2]]) /\ pl[p[1]] < pl[p[2]]}

\* It is an order: the places tell rows with the same key apart.
LEMMA PrecedesOrders ==
    ASSUME NEW F, NEW k \in [F -> Int], NEW pl \in [F -> Nat], NEW un \in BOOLEAN, NEW desc \in BOOLEAN,
           \A c, d \in F : pl[c] = pl[d] => c = d
    PROVE  Orders(Precedes(F, k, pl, un, desc), F)
<1> DEFINE R == Precedes(F, k, pl, un, desc)
<1>1. \A c, d \in F : <<c, d>> \in R <=>
        \/ ~un /\ IF desc THEN k[c] > k[d] ELSE k[c] < k[d]
        \/ (un \/ k[c] = k[d]) /\ pl[c] < pl[d]
  BY DEF Precedes
<1>2. \A c \in F : k[c] \in Int /\ pl[c] \in Nat
  OBVIOUS
<1> HIDE DEF R
<1>3. \A c \in F : <<c, c>> \notin R
  BY <1>1, <1>2
<1>4. \A c, d \in F : c # d => <<c, d>> \in R \/ <<d, c>> \in R
  BY <1>1, <1>2
<1>5. \A c, d, e \in F : <<c, d>> \in R /\ <<d, e>> \in R => <<c, e>> \in R
  BY <1>1, <1>2
<1> QED BY <1>3, <1>4, <1>5 DEF Orders, R

\* the rows in their order: n of them, with these keys and places
SortedBy(q, n, k, pl) ==
    /\ q \in Seq(RowsPart!Filtered) /\ Len(q) = n /\ RowsPart!Sorted = q
    /\ \A c \in RowsPart!Filtered : \E i \in 1..n : q[i] = c
    /\ \A i, j \in 1..n : i # j => q[i] # q[j]
    /\ \A c \in RowsPart!Filtered : /\ RowsPart!Key(c) = k[c] /\ RowsPart!Place(c) = pl[c]
                                    /\ k[c] \in Int /\ pl[c] \in Nat
    /\ \A i, j \in 1..n : i < j =>
          \/ /\ sorting # RowsPart!Unsorted
             /\ IF sorting.desc THEN k[q[i]] > k[q[j]] ELSE k[q[i]] < k[q[j]]
          \/ (sorting = RowsPart!Unsorted \/ k[q[i]] = k[q[j]]) /\ pl[q[i]] < pl[q[j]]

\* All that are found are sorted.
LEMMA SortedIs ==
    ASSUME RowsInv
    PROVE  \E n \in Nat : n = RowsPart!Total /\ \E q, k, pl : SortedBy(q, n, k, pl)
<1>1. PICK F \in SUBSET Rows, n \in Nat :
         F = RowsPart!Filtered /\ IsFiniteSet(F) /\ n = Cardinality(F) /\ n = RowsPart!Total
  BY FoundAre
<1>2. PICK k : k = [c \in F |-> RowsPart!Key(c)]
  OBVIOUS
<1>3. PICK pl : pl = [c \in F |-> RowsPart!Place(c)]
  OBVIOUS
<1>4. k \in [F -> Int]
  <2> SUFFICES ASSUME NEW c \in F PROVE RowsPart!Key(c) \in Int
    BY <1>2
  <2>1. c \in Rows /\ c \in DOMAIN containers
    BY <1>1 DEF RowsPart!Filtered
  <2>2. Names[c] \in Int /\ containers[c] \in Int
    BY <2>1, RowsGiven DEF RowsInv
  <2> QED BY <2>2 DEF RowsPart!Key
<1>5. pl \in [F -> Nat] /\ \A c, d \in F : pl[c] = pl[d] => c = d
  BY <1>1, <1>3, RowsGiven
<1>6. PICK un \in BOOLEAN : un <=> sorting = RowsPart!Unsorted
  OBVIOUS
<1>7. PICK desc \in BOOLEAN : desc = sorting.desc
  BY DEF RowsInv
<1>8. PICK R : R = Precedes(F, k, pl, un, desc) /\ Orders(R, F)
  BY <1>4, <1>5, PrecedesOrders
<1>9. PICK q : q = InOrder(F, R) /\ IsOrder(q, F, R)
  BY <1>1, <1>8, InOrderIs
<1>10. RowsPart!Sorted = q
  <2>1. \A p \in F \X F : RowsPart!Before(p[1], p[2]) <=> p \in R
    <3> SUFFICES ASSUME NEW c \in F, NEW d \in F PROVE RowsPart!Before(c, d) <=> <<c, d>> \in R
      OBVIOUS
    <3>1. RowsPart!Key(c) = k[c] /\ RowsPart!Key(d) = k[d] /\ RowsPart!Place(c) = pl[c] /\ RowsPart!Place(d) = pl[d]
      BY <1>2, <1>3
    <3>2. <<c, d>> \in R <=> \/ ~un /\ IF desc THEN k[c] > k[d] ELSE k[c] < k[d]
                             \/ (un \/ k[c] = k[d]) /\ pl[c] < pl[d]
      BY <1>8 DEF Precedes
    <3> QED BY <1>6, <1>7, <3>1, <3>2 DEF RowsPart!Before
  <2>2. {p \in F \X F : RowsPart!Before(p[1], p[2])} = R
    BY <1>8, <2>1 DEF Precedes
  <2> QED BY <1>1, <1>9, <2>2, SameOrder DEF RowsPart!Sorted
<1>11. q \in [1..n -> F] /\ \A i, j \in 1..n : i < j => <<q[i], q[j]>> \in R
  BY <1>1, <1>9 DEF IsOrder
<1>12. \A c \in F : \E i \in 1..n : q[i] = c
  BY <1>1, <1>9 DEF IsOrder
<1>13. q \in Seq(F) /\ Len(q) = n
  BY <1>11
<1>14. \A i, j \in 1..n : i # j => q[i] # q[j]
  <2> SUFFICES ASSUME NEW i \in 1..n, NEW j \in 1..n, i # j PROVE q[i] # q[j]
    OBVIOUS
  <2>1. i < j \/ j < i
    OBVIOUS
  <2>2. <<q[i], q[j]>> \in R \/ <<q[j], q[i]>> \in R
    BY <1>11, <2>1
  <2> QED BY <1>8, <1>11, <2>2 DEF Orders
<1>15. \A i, j \in 1..n : i < j =>
          \/ ~un /\ IF desc THEN k[q[i]] > k[q[j]] ELSE k[q[i]] < k[q[j]]
          \/ (un \/ k[q[i]] = k[q[j]]) /\ pl[q[i]] < pl[q[j]]
  BY <1>8, <1>11 DEF Precedes
<1>16. \A c \in F : /\ RowsPart!Key(c) = k[c] /\ RowsPart!Place(c) = pl[c]
                    /\ k[c] \in Int /\ pl[c] \in Nat
  BY <1>2, <1>3, <1>4, <1>5
<1>17. SortedBy(q, n, k, pl)
  BY <1>1, <1>6, <1>7, <1>10, <1>12, <1>13, <1>14, <1>15, <1>16 DEF SortedBy
<1> QED BY <1>1, <1>17

\* A larger factor.
LEMMA Scaled ==
    ASSUME NEW i \in Nat, NEW j \in Nat, NEW q \in Nat, i <= j
    PROVE  i * q <= j * q /\ i * q \in Nat /\ j * q \in Nat
<1>1. PICK d \in Nat : j = i + d
  <2>1. j - i \in Nat /\ j = i + (j - i)
    OBVIOUS
  <2> QED BY <2>1
<1>2. j * q = i * q + d * q /\ i * q \in Nat /\ d * q \in Nat
  BY <1>1
<1> QED BY <1>2

\* The next multiple.
LEMMA OneMore == ASSUME NEW i \in Nat, NEW q \in Nat PROVE (i + 1) * q = i * q + q /\ i * q \in Nat
OBVIOUS

\* A page is counted if it begins with a row.
LEMMA CountedPages ==
    ASSUME NEW n \in Nat, NEW q \in Nat, q > 0
    PROVE  /\ (n + q - 1) \div q \in Nat
           /\ \A m \in Nat : m < (n + q - 1) \div q <=> m * q < n
<1>1. PICK a \in Nat : a = n + q - 1
  OBVIOUS
<1>2. PICK c \in Nat : c = a \div q
  OBVIOUS
<1>3. PICK b \in Nat : b = c * q /\ b <= a /\ a < b + q
  <2>1. q * c <= a /\ a < q * c + q
    BY <1>2
  <2>2. c * q = q * c /\ c * q \in Nat
    OBVIOUS
  <2> QED BY <2>1, <2>2
<1>4. ASSUME NEW m \in Nat PROVE m < c <=> m * q < n
  <2>1. PICK x \in Nat : x = m * q
    OBVIOUS
  <2>2. CASE m < c
    <3>1. (m + 1) * q <= c * q
      BY <2>2, Scaled
    <3>2. x + q <= b
      BY <1>3, <2>1, <3>1, OneMore
    <3> QED BY <1>1, <1>3, <2>1, <2>2, <3>2
  <2>3. CASE ~(m < c)
    <3>1. c * q <= m * q
      BY <2>3, Scaled
    <3> QED BY <1>1, <1>3, <2>1, <2>3, <3>1
  <2> QED BY <2>2, <2>3
<1> QED BY <1>1, <1>2, <1>4

\* where page x \div z of n rows ends
EndOf(x, z, n) == IF x + z < n THEN x + z ELSE n

\* What is on a page.
LEMMA PageIs ==
    ASSUME NEW n, NEW q, NEW k, NEW pl, SortedBy(q, n, k, pl), n = RowsPart!Total, n \in Nat,
           NEW z \in Nat, z = pageSize, NEW j \in Nat, NEW x \in Nat, x = j * z, x <= n
    PROVE  /\ RowsPart!Least((j + 1) * pageSize, RowsPart!Total) = EndOf(x, z, n)
           /\ RowsPart!Page(j) = SubSeq(q, x + 1, EndOf(x, z, n))
           /\ EndOf(x, z, n) \in Nat /\ x <= EndOf(x, z, n)
           /\ Len(RowsPart!Page(j)) = EndOf(x, z, n) - x
           /\ DOMAIN RowsPart!Page(j) = 1..EndOf(x, z, n) - x
           /\ \A i \in 1..EndOf(x, z, n) - x : RowsPart!Page(j)[i] = q[x + i]
<1>1. PICK e \in Nat : e = EndOf(x, z, n) /\ x <= e /\ e <= n
  BY DEF EndOf
<1>2. (j + 1) * z = x + z
  BY OneMore
<1>3. RowsPart!Least((j + 1) * pageSize, RowsPart!Total) = e
  BY <1>1, <1>2 DEF RowsPart!Least, EndOf
<1>4. RowsPart!Page(j) = SubSeq(q, x + 1, e)
  BY <1>3 DEF RowsPart!Page, SortedBy
<1>5. PICK F : q \in Seq(F) /\ Len(q) = n
  BY DEF SortedBy
<1>6. x + 1 \in 1..n + 1 /\ e \in x..n
  BY <1>1
<1>7. Len(SubSeq(q, x + 1, e)) = e - x /\ \A i \in 1..e - x : SubSeq(q, x + 1, e)[i] = q[x + i]
  <2>1. \A i \in 1..e - x : (x + 1) + i - 1 = x + i
    OBVIOUS
  <2> QED BY <1>1, <1>5, <2>1
<1>8. DOMAIN SubSeq(q, x + 1, e) = 1..e - x
  BY <1>1, <1>5
<1> QED BY <1>1, <1>3, <1>4, <1>7, <1>8

\* The footer is that of the rows on the page.
LEMMA FooterRight == RowsInv /\ ~resetDue => RowsPart!FooterCountsTheBody
<1> SUFFICES ASSUME RowsInv, ~resetDue PROVE RowsPart!FooterCountsTheBody
  OBVIOUS
<1>1. PICK n \in Nat : n = RowsPart!Total /\ \E q, k, pl : SortedBy(q, n, k, pl)
  BY SortedIs
<1>2. PICK q, k, pl : SortedBy(q, n, k, pl)
  BY <1>1
<1>3. PICK z \in Nat : z = pageSize /\ z > 0
  BY RowsGiven DEF RowsInv
<1>4. PICK j \in Nat : j = pageIndex
  BY DEF RowsInv
<1>5. PICK x \in Nat : x = j * z
  OBVIOUS
<1>6. x <= n /\ (n > 0 => x < n) /\ (n = 0 => x = 0)
  BY <1>1, <1>3, <1>4, <1>5 DEF RowsInv, Begins
<1>7. PICK e \in Nat : e = EndOf(x, z, n) /\ x <= e /\ e <= n
  BY <1>6 DEF EndOf
<1>8. /\ RowsPart!Least((j + 1) * pageSize, RowsPart!Total) = e
      /\ RowsPart!Page(j) = SubSeq(q, x + 1, e)
      /\ Len(RowsPart!Page(j)) = e - x
  <2>1. x <= n
    BY <1>6
  <2>2. n = RowsPart!Total /\ SortedBy(q, n, k, pl) /\ z = pageSize
    BY <1>1, <1>2, <1>3
  <2>3. /\ RowsPart!Least((j + 1) * pageSize, RowsPart!Total) = EndOf(x, z, n)
        /\ RowsPart!Page(j) = SubSeq(q, x + 1, EndOf(x, z, n))
        /\ Len(RowsPart!Page(j)) = EndOf(x, z, n) - x
    BY <1>5, <2>1, <2>2, PageIs
  <2> QED BY <1>7, <2>3
<1>9. /\ RowsPart!Footer.from = IF n = 0 THEN 0 ELSE x + 1
      /\ RowsPart!Footer.to = e /\ RowsPart!Footer.total = n
  <2>1. RowsPart!Least((pageIndex + 1) * pageSize, RowsPart!Total) = e
    BY <1>4, <1>8
  <2>2. pageIndex * pageSize = x
    BY <1>3, <1>4, <1>5
  <2> QED BY <1>1, <2>1, <2>2 DEF RowsPart!Footer
<1>10. RowsPart!Body = SubSeq(q, x + 1, e) /\ Len(RowsPart!Body) = e - x
  BY <1>4, <1>8 DEF RowsPart!Body
<1>11. RowsPart!Sorted = q
  BY <1>2 DEF SortedBy
<1>12. CASE n = 0
  <2>1. x = 0 /\ e = 0
    BY <1>6, <1>7, <1>12
  <2>2. SubSeq(q, x + 1, e) = <<>>
    BY <2>1
  <2> QED BY <1>1, <1>9, <1>10, <1>12, <2>1, <2>2 DEF RowsPart!FooterCountsTheBody
<1>13. CASE n > 0
  <2>1. x + 1 <= e /\ x + 1 \in 1..e /\ e - x > 0
    BY <1>3, <1>6, <1>7, <1>13 DEF EndOf
  <2>2. RowsPart!Body # <<>>
    <3>1. PICK b : b = RowsPart!Body
      OBVIOUS
    <3>2. Len(b) # 0
      BY <1>7, <1>10, <2>1, <3>1
    <3>3. b # <<>>
      BY <3>2
    <3> QED BY <3>1, <3>3
  <2>3. RowsPart!Footer.from \in 1..RowsPart!Footer.to /\ RowsPart!Footer.to <= RowsPart!Footer.total
    BY <1>7, <1>9, <1>13, <2>1
  <2>4. RowsPart!Body = SubSeq(RowsPart!Sorted, RowsPart!Footer.from, RowsPart!Footer.to)
    BY <1>9, <1>10, <1>11, <1>13
  <2> QED BY <2>2, <2>3, <2>4 DEF RowsPart!FooterCountsTheBody
<1> QED BY <1>12, <1>13

\* how many pages there are
LEMMA PagesCounted ==
    ASSUME RowsInv, NEW n \in Nat, n = RowsPart!Total
    PROVE  \E z, c \in Nat : /\ z = pageSize /\ z > 0 /\ c = RowsPart!PageCount
                            /\ \A m \in Nat : m < c <=> m * z < n
<1>1. PICK z \in Nat : z = pageSize /\ z > 0
  BY RowsGiven DEF RowsInv
<1>2. (n + z - 1) \div z \in Nat /\ \A m \in Nat : m < (n + z - 1) \div z <=> m * z < n
  BY <1>1, CountedPages
<1> QED BY <1>1, <1>2 DEF RowsPart!PageCount

\* The buttons lead to rows.
LEMMA ButtonsRight == RowsInv /\ ~resetDue => RowsPart!ButtonsLead
<1> SUFFICES ASSUME RowsInv, ~resetDue PROVE RowsPart!ButtonsLead
  OBVIOUS
<1>1. PICK n \in Nat : n = RowsPart!Total
  BY FoundAre
<1>2. PICK z, c \in Nat : /\ z = pageSize /\ z > 0 /\ c = RowsPart!PageCount
                          /\ \A m \in Nat : m < c <=> m * z < n
  BY <1>1, PagesCounted
<1>3. PICK j \in Nat : j = pageIndex
  BY DEF RowsInv
<1>4. PICK x \in Nat : x = j * z
  OBVIOUS
<1>5. (j + 1) * z = x + z
  BY <1>4, OneMore
<1>6. j = 0 \/ x < n
  BY <1>1, <1>2, <1>3, <1>4 DEF RowsInv, Begins
<1>7. j = 0 => x = 0
  BY <1>4
<1>8. j > 0 => x > 0
  <2> SUFFICES ASSUME j > 0 PROVE x > 0
    OBVIOUS
  <2>1. 1 * z <= j * z
    BY <1>2, Scaled
  <2> QED BY <1>2, <1>4, <2>1
<1>9. j < c <=> x < n
  BY <1>2, <1>4
<1>10. j + 1 < c <=> x + z < n
  BY <1>2, <1>5
<1>11. /\ RowsPart!Footer.from = IF n = 0 THEN 0 ELSE x + 1
       /\ RowsPart!Footer.to = EndOf(x, z, n) /\ RowsPart!Footer.total = n
       /\ RowsPart!Footer.page = j + 1 /\ RowsPart!Footer.pages = IF c > 1 THEN c ELSE 1
  BY <1>1, <1>2, <1>3, <1>4, <1>5 DEF RowsPart!Footer, RowsPart!Least, EndOf
<1>12. RowsPart!CanPreviousPage <=> RowsPart!Footer.from > 1
  BY <1>3, <1>6, <1>7, <1>8, <1>11 DEF RowsPart!CanPreviousPage
<1>13. RowsPart!CanNextPage <=> RowsPart!Footer.to < RowsPart!Footer.total
  <2>1. RowsPart!CanNextPage <=> j + 1 < c
    BY <1>2, <1>3 DEF RowsPart!CanNextPage
  <2> QED BY <1>10, <1>11, <2>1 DEF EndOf
<1>14. RowsPart!Footer.page \in 1..RowsPart!Footer.pages
  BY <1>6, <1>9, <1>11
<1> QED BY <1>12, <1>13, <1>14 DEF RowsPart!ButtonsLead

\* page j is rows x + 1 to e
PageHolds(j, q, x, e, z, n) ==
    /\ x = j * z /\ x < e /\ e <= n /\ e <= x + z /\ e = EndOf(x, z, n)
    /\ DOMAIN RowsPart!Page(j) = 1..e - x
    /\ \A i \in 1..e - x : RowsPart!Page(j)[i] = q[x + i]

\* every page that is counted holds rows
AllPagesHold(q, c, z, n) ==
    \A j \in Nat : j < c => \E x, e \in Nat : PageHolds(j, q, x, e, z, n)

\* the pages that are counted are those that begin with a row
Counts(c, z, n) == \A m \in Nat : m < c <=> m * z < n

\* Each of the pages that are counted holds the rows of its places.
LEMMA PagesHold ==
    ASSUME NEW n \in Nat, NEW q, NEW k, NEW pl, NEW z \in Nat, NEW c \in Nat,
           n = RowsPart!Total, SortedBy(q, n, k, pl), z > 0, z = pageSize, Counts(c, z, n)
    PROVE  AllPagesHold(q, c, z, n)
<1> SUFFICES ASSUME NEW j \in Nat, j < c
             PROVE  \E x, e \in Nat : PageHolds(j, q, x, e, z, n)
  BY DEF AllPagesHold
<1>1. PICK x \in Nat : x = j * z /\ x < n
  BY DEF Counts
<1>2. PICK e \in Nat : e = EndOf(x, z, n) /\ x < e /\ e <= n /\ e <= x + z
  BY <1>1 DEF EndOf
<1>3. /\ DOMAIN RowsPart!Page(j) = 1..EndOf(x, z, n) - x
      /\ \A i \in 1..EndOf(x, z, n) - x : RowsPart!Page(j)[i] = q[x + i]
  <2>1. x <= n
    BY <1>1
  <2> QED BY <1>1, <2>1, PageIs
<1> QED BY <1>1, <1>2, <1>3 DEF PageHolds

\* the places on the pages
PlacesOf(c) == UNION {{i} \X DOMAIN RowsPart!Page(i) : i \in 0..c - 1}

\* place p on a page is that of a row
IsPlace(p, q, z, n) ==
    /\ p[1] \in Nat /\ p[2] \in Nat /\ p = <<p[1], p[2]>>
    /\ p[1] * z + p[2] >= 1 /\ p[1] * z + p[2] <= n /\ p[2] >= 1 /\ p[2] <= z
    /\ RowsPart!Page(p[1])[p[2]] = q[p[1] * z + p[2]]

\* A place on a page is that of a row.
LEMMA PlaceIs ==
    ASSUME NEW n \in Nat, NEW q, NEW z \in Nat, NEW c \in Nat, NEW p \in PlacesOf(c),
           AllPagesHold(q, c, z, n)
    PROVE  IsPlace(p, q, z, n)
<1>1. PICK j \in 0..c - 1 : p \in {j} \X DOMAIN RowsPart!Page(j)
  BY DEF PlacesOf
<1>2. j \in Nat /\ j < c
  OBVIOUS
<1>3. PICK x, e \in Nat : PageHolds(j, q, x, e, z, n)
  BY <1>2 DEF AllPagesHold
<1>4. p = <<p[1], p[2]>> /\ p[1] = j /\ p[2] \in 1..e - x
  BY <1>1, <1>3 DEF PageHolds
<1>5. PICK i : i = p[2]
  OBVIOUS
<1>6. i \in Nat /\ i >= 1 /\ i <= z /\ x + i >= 1 /\ x + i <= n
  BY <1>3, <1>4, <1>5 DEF PageHolds
<1>7. RowsPart!Page(j)[i] = q[x + i] /\ x = j * z
  BY <1>3, <1>4, <1>5 DEF PageHolds
<1>8. p[1] * z + p[2] = x + i
  BY <1>4, <1>5, <1>7
<1> QED BY <1>2, <1>4, <1>5, <1>6, <1>7, <1>8 DEF IsPlace

\* Every row has its place.
LEMMA RowHasPlace ==
    ASSUME NEW n \in Nat, NEW q, NEW z \in Nat, NEW c \in Nat, NEW i \in Nat,
           z > 0, i >= 1, i <= n, AllPagesHold(q, c, z, n), Counts(c, z, n)
    PROVE  \E p \in PlacesOf(c) : p[1] * z + p[2] = i
<1>1. PICK a \in Nat : a = i - 1
  OBVIOUS
<1>2. PICK j \in Nat : j = a \div z
  OBVIOUS
<1>3. PICK x \in Nat : x = j * z /\ x <= a /\ a < x + z
  <2>1. z * j <= a /\ a < z * j + z
    BY <1>2
  <2>2. j * z = z * j /\ j * z \in Nat
    OBVIOUS
  <2> QED BY <2>1, <2>2
<1>4. j < c
  <2>1. x < n
    BY <1>1, <1>3
  <2> QED BY <1>3, <2>1 DEF Counts
<1>5. PICK y, e \in Nat : PageHolds(j, q, y, e, z, n)
  BY <1>4 DEF AllPagesHold
<1>6. y = x /\ e = EndOf(x, z, n) /\ DOMAIN RowsPart!Page(j) = 1..e - x
  BY <1>3, <1>5 DEF PageHolds
<1>7. PICK b : b = i - x
  OBVIOUS
<1>8. b \in 1..e - x /\ x + b = i
  BY <1>1, <1>3, <1>6, <1>7 DEF EndOf
<1>9. <<j, b>> \in PlacesOf(c)
  <2>1. j \in 0..c - 1
    BY <1>4
  <2> QED BY <1>6, <1>8, <2>1 DEF PlacesOf
<1>10. j * z + b = i
  BY <1>3, <1>8
<1> QED BY <1>9, <1>10

\* Places on the pages come as their rows do.
LEMMA LaterPlace ==
    ASSUME NEW i \in Nat, NEW a \in Nat, NEW j \in Nat, NEW b \in Nat, NEW z \in Nat,
           a >= 1, a <= z, b >= 1, b <= z, i < j \/ (i = j /\ a < b)
    PROVE  i * z + a < j * z + b
<1>1. PICK x \in Nat, y \in Nat : x = i * z /\ y = j * z
  OBVIOUS
<1>2. CASE i < j
  <2>1. (i + 1) * z <= j * z
    BY <1>2, Scaled
  <2>2. x + z <= y
    BY <1>1, <2>1, OneMore
  <2> QED BY <1>1, <2>2
<1>3. CASE i = j /\ a < b
  BY <1>1, <1>3
<1> QED BY <1>2, <1>3

\* from place p to place r the rows follow the arrow of the header
Follows(p, r) ==
    CASE RowsPart!Icon(sorting.column) = "up" /\ sorting # RowsPart!Unsorted ->
            RowsPart!Key(RowsPart!Page(p[1])[p[2]]) <= RowsPart!Key(RowsPart!Page(r[1])[r[2]])
      [] RowsPart!Icon(sorting.column) = "down" ->
            RowsPart!Key(RowsPart!Page(p[1])[p[2]]) >= RowsPart!Key(RowsPart!Page(r[1])[r[2]])
      [] OTHER ->
            RowsPart!Place(RowsPart!Page(p[1])[p[2]]) < RowsPart!Place(RowsPart!Page(r[1])[r[2]])

\* They do.
LEMMA RowsFollow ==
    ASSUME RowsInv, NEW n \in Nat, NEW q, NEW k, NEW pl, NEW z \in Nat, NEW p, NEW r,
           SortedBy(q, n, k, pl), IsPlace(p, q, z, n), IsPlace(r, q, z, n),
           p[1] < r[1] \/ (p[1] = r[1] /\ p[2] < r[2])
    PROVE  Follows(p, r)
<1>1. PICK m \in Nat, l \in Nat : m = p[1] * z + p[2] /\ l = r[1] * z + r[2]
  BY DEF IsPlace
<1>2. m < l
  BY <1>1, LaterPlace DEF IsPlace
<1>3. m \in 1..n /\ l \in 1..n
  BY <1>1 DEF IsPlace
<1>4. PICK c, d : c = q[m] /\ d = q[l]
  OBVIOUS
<1>5. RowsPart!Page(p[1])[p[2]] = c /\ RowsPart!Page(r[1])[r[2]] = d
  BY <1>1, <1>4 DEF IsPlace
<1>6. c \in RowsPart!Filtered /\ d \in RowsPart!Filtered
  <2>1. PICK F : F = RowsPart!Filtered
    OBVIOUS
  <2>2. q \in Seq(F) /\ Len(q) = n
    BY <2>1 DEF SortedBy
  <2>3. q[m] \in F /\ q[l] \in F
    BY <1>3, <2>2
  <2> QED BY <1>4, <2>1, <2>3
<1>7. /\ RowsPart!Key(c) = k[c] /\ RowsPart!Place(c) = pl[c] /\ k[c] \in Int /\ pl[c] \in Nat
      /\ RowsPart!Key(d) = k[d] /\ RowsPart!Place(d) = pl[d] /\ k[d] \in Int /\ pl[d] \in Nat
  BY <1>6 DEF SortedBy
<1>8. \/ /\ sorting # RowsPart!Unsorted
         /\ IF sorting.desc THEN k[c] > k[d] ELSE k[c] < k[d]
      \/ (sorting = RowsPart!Unsorted \/ k[c] = k[d]) /\ pl[c] < pl[d]
  BY <1>2, <1>3, <1>4 DEF SortedBy
<1>9. RowsPart!Icon(sorting.column) = IF sorting.desc THEN "down" ELSE "up"
  BY DEF RowsPart!Icon
<1>10. sorting = RowsPart!Unsorted => ~sorting.desc
  BY DEF RowsPart!Unsorted
<1>11. CASE sorting = RowsPart!Unsorted
  BY <1>5, <1>7, <1>8, <1>9, <1>10, <1>11 DEF Follows
<1>12. CASE sorting # RowsPart!Unsorted /\ ~sorting.desc
  <2>1. k[c] <= k[d]
    BY <1>7, <1>8, <1>12
  <2> QED BY <1>5, <1>7, <1>9, <1>12, <2>1 DEF Follows
<1>13. CASE sorting # RowsPart!Unsorted /\ sorting.desc
  <2>1. k[c] >= k[d]
    BY <1>7, <1>8, <1>13
  <2> QED BY <1>5, <1>7, <1>9, <1>13, <2>1 DEF Follows
<1> QED BY <1>11, <1>12, <1>13

\* Every row that is found is on one page.
LEMMA RowsOnce == RowsInv => RowsPart!EveryRowOnce
<1> SUFFICES ASSUME RowsInv PROVE RowsPart!EveryRowOnce
  OBVIOUS
<1>1. PICK n \in Nat : n = RowsPart!Total /\ \E q, k, pl : SortedBy(q, n, k, pl)
  BY SortedIs
<1>2. PICK q, k, pl : SortedBy(q, n, k, pl)
  BY <1>1
<1>3. PICK z, c \in Nat : z = pageSize /\ z > 0 /\ c = RowsPart!PageCount /\ Counts(c, z, n)
  BY <1>1, PagesCounted DEF Counts
<1>4. AllPagesHold(q, c, z, n)
  BY <1>1, <1>2, <1>3, PagesHold
<1>5. PICK W : W = PlacesOf(c)
  OBVIOUS
<1>6. \A p \in W : IsPlace(p, q, z, n)
  BY <1>4, <1>5, PlaceIs
<1>7. PICK F : F = RowsPart!Filtered
  OBVIOUS
<1>8. q \in Seq(F) /\ Len(q) = n /\ \A i \in 1..n : q[i] \in F
  BY <1>2, <1>7 DEF SortedBy
<1>9. {RowsPart!Page(p[1])[p[2]] : p \in W} = F
  <2>1. ASSUME NEW p \in W PROVE RowsPart!Page(p[1])[p[2]] \in F
    <3>1. PICK i \in Nat : i = p[1] * z + p[2]
      BY <1>6, <2>1 DEF IsPlace
    <3>2. i \in 1..n /\ RowsPart!Page(p[1])[p[2]] = q[i]
      BY <1>6, <3>1 DEF IsPlace
    <3> QED BY <1>8, <3>2
  <2>2. ASSUME NEW d \in F PROVE \E p \in W : RowsPart!Page(p[1])[p[2]] = d
    <3>1. PICK i \in 1..n : q[i] = d
      BY <1>2, <1>7 DEF SortedBy
    <3>2. i \in Nat /\ i >= 1 /\ i <= n
      OBVIOUS
    <3>3. PICK p \in PlacesOf(c) : p[1] * z + p[2] = i
      BY <1>3, <1>4, <3>2, RowHasPlace
    <3>4. RowsPart!Page(p[1])[p[2]] = q[i]
      BY <1>5, <1>6, <3>3 DEF IsPlace
    <3> QED BY <1>5, <3>1, <3>3, <3>4
  <2> QED BY <2>1, <2>2
<1>10. ASSUME NEW p \in W, NEW r \in W, p # r
       PROVE  RowsPart!Page(p[1])[p[2]] # RowsPart!Page(r[1])[r[2]]
  <2>1. IsPlace(p, q, z, n) /\ IsPlace(r, q, z, n)
    BY <1>6
  <2>2. PICK m \in Nat, l \in Nat : m = p[1] * z + p[2] /\ l = r[1] * z + r[2]
    BY <2>1 DEF IsPlace
  <2>3. m \in 1..n /\ l \in 1..n
    BY <2>1, <2>2 DEF IsPlace
  <2>4. m # l
    <3>1. p[1] # r[1] \/ p[2] # r[2]
      BY <1>10, <2>1 DEF IsPlace
    <3>2. PICK a, b, f, g \in Nat : a = p[1] /\ b = p[2] /\ f = r[1] /\ g = r[2]
      BY <2>1 DEF IsPlace
    <3>3. b >= 1 /\ b <= z /\ g >= 1 /\ g <= z
      BY <2>1, <3>2 DEF IsPlace
    <3>4. CASE a < f \/ (a = f /\ b < g)
      <4>1. a * z + b < f * z + g
        BY <3>3, <3>4, LaterPlace
      <4> QED BY <2>2, <3>2, <4>1
    <3>5. CASE f < a \/ (f = a /\ g < b)
      <4>1. f * z + g < a * z + b
        BY <3>3, <3>5, LaterPlace
      <4> QED BY <2>2, <3>2, <4>1
    <3> QED BY <3>1, <3>2, <3>4, <3>5
  <2>5. q[m] # q[l]
    BY <1>2, <2>3, <2>4 DEF SortedBy
  <2> QED BY <2>1, <2>2, <2>5 DEF IsPlace
<1>11. \A p, r \in W : p[1] < r[1] \/ (p[1] = r[1] /\ p[2] < r[2]) => Follows(p, r)
  BY <1>2, <1>6, RowsFollow
<1>12. /\ W = UNION {{i} \X DOMAIN RowsPart!Page(i) : i \in 0..RowsPart!PageCount - 1}
       /\ F = {d \in DOMAIN containers : query = NoQuery \/ d \in Matching[query]}
  BY <1>3, <1>5, <1>7 DEF PlacesOf, RowsPart!Filtered
<1> QED BY <1>9, <1>10, <1>11, <1>12 DEF RowsPart!EveryRowOnce, Follows

\* What is drawn tells of the rows.
LEMMA RowsTell == RowsInv => RowsPart!TableTellsTheRows
BY FooterRight, ButtonsRight, RowsOnce DEF RowsPart!TableTellsTheRows, RowsPart!OnPage

\* At first there are none.
LEMMA RowsInit == RowsPart!Init => RowsInv
<1> SUFFICES ASSUME RowsPart!Init PROVE RowsInv
  OBVIOUS
<1>1. DOMAIN containers = {}
  BY DEF RowsPart!Init
<1>2. sorting = RowsPart!Unsorted /\ pageIndex = 0 /\ pageSize = InitialSize
  BY DEF RowsPart!Init, RowsPart!FreshTable
<1> QED BY <1>1, <1>2, RowsGiven DEF RowsInv, Begins, RowsPart!Unsorted

\* The rows that are found stay the same while the page is turned.
LEMMA TotalStays == UNCHANGED <<containers, query>> => UNCHANGED RowsPart!Total
BY DEF RowsPart!Total, RowsPart!Filtered

\* Turned to a page that begins with a row.
LEMMA TurnKeeps ==
    ASSUME RowsInv, ~resetDue, NEW m \in Nat, RowsPart!Turn(m), Begins(m, pageSize, RowsPart!Total)
    PROVE  RowsInv'
<1>1. UNCHANGED RowsPart!Total
  BY TotalStays DEF RowsPart!Turn
<1>2. pageIndex' = m /\ UNCHANGED <<containers, sorting, pageSize, resetDue>>
  BY DEF RowsPart!Turn
<1>3. Begins(m, pageSize, RowsPart!Total)'
  BY <1>1, <1>2 DEF Begins
<1> QED BY <1>1, <1>2, <1>3 DEF RowsInv, RowsPart!Unsorted, Begins

\* Each step keeps the invariant.
LEMMA RowsStep == RowsInv /\ [RowsPart!Next]_rowsVars => RowsInv'
<1> SUFFICES ASSUME RowsInv, [RowsPart!Next]_rowsVars PROVE RowsInv'
  OBVIOUS
<1>1. PICK n \in Nat : n = RowsPart!Total
  BY FoundAre
<1>2. PICK z, c \in Nat : z = pageSize /\ z > 0 /\ c = RowsPart!PageCount /\ Counts(c, z, n)
  BY <1>1, PagesCounted DEF Counts
<1>3. PICK j \in Nat : j = pageIndex
  BY DEF RowsInv
<1>4. ~resetDue => j = 0 \/ j * z < n
  BY <1>1, <1>2, <1>3 DEF RowsInv, Begins
<1>5. ASSUME NEW S \in SUBSET Rows, NEW data \in [S -> Ranks], RowsPart!SnapshotRendered(data)
      PROVE  RowsInv'
  <2>1. DOMAIN containers' \subseteq Rows /\ \A d \in DOMAIN containers' : containers'[d] \in Int
    <3>1. containers' = data
      BY <1>5 DEF RowsPart!SnapshotRendered
    <3> QED BY <3>1, RowsGiven
  <2>2. CASE dockerError
    <3>1. sorting' = RowsPart!Unsorted /\ pageIndex' = 0 /\ pageSize' = InitialSize
      BY <1>5, <2>2 DEF RowsPart!SnapshotRendered, RowsPart!FreshTable
    <3> QED BY <2>1, <3>1, RowsGiven DEF RowsInv, Begins, RowsPart!Unsorted
  <2>3. CASE ~dockerError
    <3>1. resetDue' /\ UNCHANGED <<sorting, pageIndex, pageSize>>
      BY <1>5, <2>3 DEF RowsPart!SnapshotRendered
    <3> QED BY <2>1, <3>1 DEF RowsInv, RowsPart!Unsorted
  <2> QED BY <2>2, <2>3
<1>6. CASE RowsPart!DockerErrorRendered
  <2>1. DOMAIN containers' = {}
    BY <1>6 DEF RowsPart!DockerErrorRendered
  <2>2. sorting' = RowsPart!Unsorted /\ pageIndex' = 0 /\ pageSize' = InitialSize
    BY <1>6 DEF RowsPart!DockerErrorRendered, RowsPart!FreshTable
  <2> QED BY <2>1, <2>2, RowsGiven DEF RowsInv, Begins, RowsPart!Unsorted
<1>7. CASE RowsPart!ResetPage
  BY <1>7 DEF RowsInv, RowsPart!ResetPage, RowsPart!Unsorted, Begins
<1>8. ASSUME NEW q, RowsPart!Search(q) PROVE RowsInv'
  BY <1>8 DEF RowsInv, RowsPart!Search, RowsPart!Unsorted
<1>9. ASSUME NEW column \in RowsPart!SortColumns, RowsPart!ToggleSorting(column) PROVE RowsInv'
  <2>1. /\ sorting' = [column |-> column, desc |-> RowsPart!Icon(column) = "up"] /\ resetDue'
        /\ UNCHANGED <<containers, pageIndex, pageSize>>
    BY <1>9 DEF RowsPart!ToggleSorting
  <2>2. column \in {"name", "rank"}
    BY DEF RowsPart!SortColumns
  <2> QED BY <2>1, <2>2 DEF RowsInv, RowsPart!Unsorted
<1>10. CASE RowsPart!FirstPage
  <2>1. ~resetDue /\ RowsPart!Turn(0)
    BY <1>10 DEF RowsPart!FirstPage, RowsPart!OnPage
  <2> QED BY <2>1, TurnKeeps DEF Begins
<1>11. CASE RowsPart!PreviousPage
  <2>1. ~resetDue /\ j > 0 /\ RowsPart!Turn(j - 1)
    BY <1>3, <1>11 DEF RowsPart!PreviousPage, RowsPart!OnPage, RowsPart!CanPreviousPage
  <2>2. PICK i \in Nat : i = j - 1 /\ i <= j
    BY <2>1
  <2>3. i * z <= j * z /\ i * z \in Nat /\ j * z \in Nat
    BY <2>2, Scaled
  <2>4. i * z < n
    BY <1>4, <2>1, <2>3
  <2>5. Begins(i, pageSize, RowsPart!Total)
    BY <1>1, <1>2, <2>4 DEF Begins
  <2> QED BY <2>1, <2>2, <2>5, TurnKeeps
<1>12. CASE RowsPart!NextPage
  <2>1. ~resetDue /\ j < c - 1 /\ RowsPart!Turn(j + 1)
    BY <1>2, <1>3, <1>12 DEF RowsPart!NextPage, RowsPart!OnPage, RowsPart!CanNextPage
  <2>2. j + 1 \in Nat /\ j + 1 < c
    BY <2>1
  <2>3. (j + 1) * z < n
    BY <1>2, <2>2 DEF Counts
  <2>4. Begins(j + 1, pageSize, RowsPart!Total)
    BY <1>1, <1>2, <2>3 DEF Begins
  <2> QED BY <2>1, <2>2, <2>4, TurnKeeps
<1>13. CASE RowsPart!LastPage
  <2>1. ~resetDue /\ c > 0 /\ RowsPart!Turn(c - 1)
    BY <1>2, <1>13 DEF RowsPart!LastPage, RowsPart!OnPage, RowsPart!CanNextPage
  <2>2. PICK i \in Nat : i = c - 1 /\ i < c
    BY <2>1
  <2>3. i * z < n
    BY <1>2, <2>2 DEF Counts
  <2>4. Begins(i, pageSize, RowsPart!Total)
    BY <1>1, <1>2, <2>3 DEF Begins
  <2> QED BY <2>1, <2>2, <2>4, TurnKeeps
<1>14. ASSUME NEW m \in PageSizes, RowsPart!SetPageSize(m) PROVE RowsInv'
  <2>1. ~resetDue /\ pageSize' = m /\ pageIndex' = (j * z) \div m
    BY <1>2, <1>3, <1>14 DEF RowsPart!SetPageSize, RowsPart!OnPage
  <2>2. UNCHANGED <<containers, sorting, query, resetDue>>
    BY <1>14 DEF RowsPart!SetPageSize
  <2>3. m \in Nat /\ m > 0
    BY RowsGiven
  <2>4. PICK x \in Nat : x = j * z
    OBVIOUS
  <2>5. PICK i \in Nat : i = x \div m
    BY <2>3
  <2>6. i * m <= x
    <3>1. m * i <= x
      BY <2>3, <2>5
    <3>2. i * m = m * i
      BY <2>3
    <3> QED BY <3>1, <3>2
  <2>7. j = 0 => i = 0
    <3> SUFFICES ASSUME j = 0 PROVE i = 0
      OBVIOUS
    <3>1. x = 0
      BY <2>4
    <3> QED BY <2>3, <2>5, <3>1
  <2>8. Begins(i, m, n)
    <3>1. PICK y \in Nat : y = i * m
      BY <2>3
    <3> QED BY <1>4, <2>1, <2>4, <2>6, <2>7, <3>1 DEF Begins
  <2>9. RowsPart!Total' = n
    BY <1>1, <2>2, TotalStays
  <2>10. Begins(pageIndex', pageSize', RowsPart!Total')
    BY <2>1, <2>4, <2>5, <2>8, <2>9
  <2> QED BY <2>1, <2>2, <2>4, <2>5, <2>10 DEF RowsInv, RowsPart!Unsorted
<1>15. CASE UNCHANGED rowsVars
  <2>1. UNCHANGED RowsPart!Total
    BY <1>15, TotalStays DEF rowsVars
  <2> QED BY <1>15, <2>1 DEF RowsInv, rowsVars, RowsPart!Unsorted, Begins
<1>16. CASE RowsPart!Next
  BY <1>5, <1>6, <1>7, <1>8, <1>9, <1>10, <1>11, <1>12, <1>13, <1>14, <1>16
     DEF RowsPart!Next, Rows
<1> QED BY <1>15, <1>16

-----------------------------------------------------------------------------
(* The table's parts of the bench.                                         *)

\* Of the columns and of the rows.
LEMMA TablesAlone ==
    /\ PageInit => TablePart!Init /\ RowsPart!Init
    /\ [PageNext]_<<part, others, vars, tableVars, scales, badgeVars, linkVars>>
          => [TablePart!Next]_(TablePart!vars) /\ [RowsPart!Next]_rowsVars
<1> USE DEF others, tableVars, rowsVars, TablePart!vars
<1>1. PageInit => TablePart!Init /\ RowsPart!Init
  BY DEF PageInit
<1>2. ASSUME [PageNext]_<<part, others, vars, tableVars, scales, badgeVars, linkVars>>
      PROVE  [TablePart!Next]_(TablePart!vars)
  BY <1>2 DEF PageNext
<1>3. ASSUME [PageNext]_<<part, others, vars, tableVars, scales, badgeVars, linkVars>>
      PROVE  [RowsPart!Next]_rowsVars
  BY <1>3 DEF PageNext
<1> QED BY <1>1, <1>2, <1>3

\* Whatever the columns, and however they are hidden, dragged and nudged
\* (useColumnReorder): none is lost or drawn twice, a dropped one takes the place of the
\* one that it was dropped on, and a drag that is over is forgotten.
THEOREM ColumnsAlwaysKept == PageSpec => []ColumnsKept
<1>1. PageInit => TableInv
  BY TableInit, TablesAlone
<1>2. TableInv /\ [PageNext]_<<part, others, vars, tableVars, scales, badgeVars, linkVars>> => TableInv'
  BY TableStep, TablesAlone
<1>3. TableInv => ColumnsKept
  BY TableKept DEF ColumnsKept
<1> QED BY <1>1, <1>2, <1>3, PTL DEF PageSpec

\* Whatever the containers, the sizes of a page and what is searched for: once the page
\* has been reset, the footer counts the rows above it, its buttons lead to rows, and
\* every row that is found is on one page, in the order that the header shows.
THEOREM RowsAlwaysTold == PageSpec => []TableTellsTheRows
<1>1. PageInit => RowsInv
  BY RowsInit, TablesAlone
<1>2. RowsInv /\ [PageNext]_<<part, others, vars, tableVars, scales, badgeVars, linkVars>> => RowsInv'
  BY RowsStep, TablesAlone
<1>3. RowsInv => TableTellsTheRows
  BY RowsTell DEF TableTellsTheRows
<1> QED BY <1>1, <1>2, <1>3, PTL DEF PageSpec
=============================================================================
