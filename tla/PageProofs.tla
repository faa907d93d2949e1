------------------------------ MODULE PageProofs ------------------------------
(***************************************************************************)
(* What the page draws, for any number of snapshots, connections, rows and *)
(* amounts, and for any readings and labels.                               *)
(*                                                                         *)
(* View.  FewStepsBack: a step back that is yet to come is one of the      *)
(* answer to the fetch, or one that can be told from what the page is sent *)
(* next: the first snapshot of it may be older than the one of the page,   *)
(* and the second, when the first is the greeting, older than the first.   *)
(* The rest of it only goes forward.  Each step back that is made was one  *)
(* to come before, and only a new connection brings another (Credit).      *)
(* RendersAreTold: what the cards tell of the renders whose effect has     *)
(* run (Telling); the effect that is due has only the last of the renders. *)
(*                                                                         *)
(* Then the parts of the bench, one after the other: links, badges, meters *)
(* and gauges, amounts, the chart's points, and the sections with all that *)
(* a snapshot may leave out.  Its table is in TableProofs.                 *)
(***************************************************************************)
EXTENDS Page, SequenceTheorems, FiniteSetTheorems, WellFoundedInduction, TLAPS

\* what the page is sent if nothing is lost, in this order
Ahead == wire \o queue

StepHere == IF Len(Ahead) > 0 /\ Ahead[1] < snapshot THEN 1 ELSE 0
StepNext == IF Len(Ahead) > 1 /\ Ahead[2] < Ahead[1] THEN 1 ELSE 0
StepOfRest == IF rest.at = "done" THEN 0 ELSE 1

Credit == backs + StepHere + StepNext + StepOfRest <= connects + 1

Counted ==
    /\ collected \in Nat /\ cached \in Nat /\ snapshot \in Nat
    /\ connects \in Nat /\ backs \in Nat
    /\ wire \in Seq(Nat) /\ queue \in Seq(Nat)
    /\ rest \in [at : {"asked", "answered", "done"}, number : Nat]

\* the cache is behind nothing but an answer that was collected before the first poll
Bounded ==
    /\ cached <= collected /\ snapshot <= collected /\ rest.number <= collected
    /\ cached > 0 => snapshot <= cached /\ rest.number <= cached
    /\ \A i \in 1..Len(Ahead) : Ahead[i] <= cached
    /\ stream = "down" => wire = <<>>

\* only the first that is on its way may be a greeting
Forward ==
    \A i, j \in 1..Len(Ahead) : i < j /\ (i > 1 \/ wire = <<>>) => Ahead[i] < Ahead[j]

VInv == Counted /\ Bounded /\ Forward /\ Credit

-----------------------------------------------------------------------------
\* A concatenation of sequences of numbers, by its length and its elements.
LEMMA Concatenation ==
    ASSUME NEW s \in Seq(Nat), NEW t \in Seq(Nat)
    PROVE  /\ Len(s) \in Nat /\ Len(t) \in Nat
           /\ s \o t \in Seq(Nat) /\ Len(s \o t) = Len(s) + Len(t)
           /\ \A i \in 1..Len(s) + Len(t) :
                 /\ (s \o t)[i] \in Nat
                 /\ (s \o t)[i] = IF i <= Len(s) THEN s[i] ELSE t[i - Len(s)]
OBVIOUS

\* The first of the queue put at the end of the wire.
LEMMA MovedAcross ==
    ASSUME NEW w \in Seq(Nat), NEW q \in Seq(Nat), q # <<>>
    PROVE  Append(w, Head(q)) \in Seq(Nat) /\ Append(w, Head(q)) \o Tail(q) = w \o q
<1> DEFINE v == Append(w, Head(q))
           r == Tail(q)
<1>1. /\ Len(w) \in Nat /\ Len(q) \in Nat /\ Len(q) > 0 /\ Head(q) = q[1] /\ q[1] \in Nat
      /\ r \in Seq(Nat) /\ Len(r) = Len(q) - 1
      /\ \A i \in 1..Len(q) - 1 : r[i] = q[i + 1]
  OBVIOUS
<1>2. /\ v \in Seq(Nat) /\ Len(v) = Len(w) + 1 /\ v[Len(w) + 1] = q[1]
      /\ \A i \in 1..Len(w) : v[i] = w[i]
  BY <1>1
<1> HIDE DEF v, r
<1>3. /\ v \o r \in Seq(Nat) /\ Len(v \o r) = Len(v) + Len(r)
      /\ \A i \in 1..Len(v) + Len(r) : (v \o r)[i] = IF i <= Len(v) THEN v[i] ELSE r[i - Len(v)]
  BY <1>1, <1>2, Concatenation
<1>4. /\ w \o q \in Seq(Nat) /\ Len(w \o q) = Len(w) + Len(q)
      /\ \A i \in 1..Len(w) + Len(q) : (w \o q)[i] = IF i <= Len(w) THEN w[i] ELSE q[i - Len(w)]
  BY Concatenation
<1>5. Len(v) + Len(r) = Len(w) + Len(q)
  BY <1>1, <1>2
<1>6. ASSUME NEW i \in 1..Len(w) + Len(q) PROVE (v \o r)[i] = (w \o q)[i]
  <2>1. i \in Nat /\ i >= 1 /\ i <= Len(w) + Len(q)
    BY <1>1
  <2>2. CASE i <= Len(w)
    <3>1. i <= Len(v) /\ i \in 1..Len(w)
      BY <1>1, <1>2, <2>1, <2>2
    <3> QED BY <1>2, <1>3, <1>4, <1>5, <2>2, <3>1
  <2>3. CASE i = Len(w) + 1
    <3>1. i <= Len(v) /\ ~(i <= Len(w)) /\ i - Len(w) = 1
      BY <1>1, <1>2, <2>3
    <3> QED BY <1>2, <1>3, <1>4, <1>5, <2>3, <3>1
  <2>4. CASE i > Len(w) + 1
    <3>1. /\ ~(i <= Len(v)) /\ ~(i <= Len(w)) /\ i - Len(v) \in 1..Len(q) - 1
          /\ (i - Len(v)) + 1 = i - Len(w)
      BY <1>1, <1>2, <2>1, <2>4
    <3>2. r[i - Len(v)] = q[i - Len(w)]
      BY <1>1, <3>1
    <3> QED BY <1>3, <1>4, <1>5, <3>1, <3>2
  <2>5. i <= Len(w) \/ i = Len(w) + 1 \/ i > Len(w) + 1
    <3>1. Len(w) \in Nat
      OBVIOUS
    <3> QED BY <2>1, <3>1
  <2> QED BY <2>2, <2>3, <2>4, <2>5
<1>7. v \o r = w \o q
  BY <1>3, <1>4, <1>5, <1>6, SeqEqual
<1> QED BY <1>2, <1>7 DEF v, r

\* The first of the queue passed over: each other one is where it was, or one before.
LEMMA PassedOver ==
    ASSUME NEW w \in Seq(Nat), NEW q \in Seq(Nat), q # <<>>
    PROVE  /\ Len(w \o Tail(q)) = Len(w \o q) - 1
           /\ \A i \in 1..Len(w \o Tail(q)) :
                 /\ (IF i <= Len(w) THEN i ELSE i + 1) \in 1..Len(w \o q)
                 /\ (w \o Tail(q))[i] = (w \o q)[IF i <= Len(w) THEN i ELSE i + 1]
<1> DEFINE r == Tail(q)
<1>1. /\ Len(w) \in Nat /\ Len(q) \in Nat /\ Len(q) > 0
      /\ r \in Seq(Nat) /\ Len(r) = Len(q) - 1
      /\ \A i \in 1..Len(q) - 1 : r[i] = q[i + 1]
  OBVIOUS
<1> HIDE DEF r
<1>2. /\ w \o r \in Seq(Nat) /\ Len(w \o r) = Len(w) + Len(r)
      /\ \A i \in 1..Len(w) + Len(r) : (w \o r)[i] = IF i <= Len(w) THEN w[i] ELSE r[i - Len(w)]
  BY <1>1, Concatenation
<1>3. /\ w \o q \in Seq(Nat) /\ Len(w \o q) = Len(w) + Len(q)
      /\ \A i \in 1..Len(w) + Len(q) : (w \o q)[i] = IF i <= Len(w) THEN w[i] ELSE q[i - Len(w)]
  BY Concatenation
<1>4. ASSUME NEW i \in 1..Len(w \o r)
      PROVE  /\ (IF i <= Len(w) THEN i ELSE i + 1) \in 1..Len(w \o q)
             /\ (w \o r)[i] = (w \o q)[IF i <= Len(w) THEN i ELSE i + 1]
  <2>1. i \in Nat /\ i >= 1 /\ i <= Len(w) + (Len(q) - 1) /\ i \in 1..Len(w) + Len(r)
    BY <1>1, <1>2
  <2>2. CASE i <= Len(w)
    <3>1. i \in 1..Len(w) + Len(q)
      BY <1>1, <2>1, <2>2
    <3> QED BY <1>2, <1>3, <2>1, <2>2, <3>1
  <2>3. CASE i > Len(w)
    <3>1. /\ ~(i <= Len(w)) /\ ~(i + 1 <= Len(w)) /\ i + 1 \in 1..Len(w) + Len(q)
          /\ i - Len(w) \in 1..Len(q) - 1 /\ (i - Len(w)) + 1 = (i + 1) - Len(w)
      BY <1>1, <2>1, <2>3
    <3>2. r[i - Len(w)] = q[(i + 1) - Len(w)]
      BY <1>1, <3>1
    <3> QED BY <1>2, <1>3, <2>1, <3>1, <3>2
  <2>4. i <= Len(w) \/ i > Len(w)
    <3>1. Len(w) \in Nat
      OBVIOUS
    <3> QED BY <2>1, <3>1
  <2> QED BY <2>2, <2>3, <2>4
<1>5. Len(w \o r) = Len(w \o q) - 1
  BY <1>1, <1>2, <1>3
<1> QED BY <1>4, <1>5 DEF r

\* What is ahead: the wire before the queue.
LEMMA AheadIs ==
    ASSUME Counted
    PROVE  /\ Ahead \in Seq(Nat) /\ Len(Ahead) = Len(wire) + Len(queue) /\ Len(Ahead) \in Nat
           /\ Len(wire) \in Nat /\ Len(queue) \in Nat
           /\ \A i \in 1..Len(Ahead) :
                 /\ Ahead[i] \in Nat
                 /\ Ahead[i] = IF i <= Len(wire) THEN wire[i] ELSE queue[i - Len(wire)]
BY Concatenation DEF Counted, Ahead

\* Credit in terms of its parts, each of them none or one step.
LEMMA StepsAre ==
    /\ StepHere \in 0..1 /\ StepNext \in 0..1 /\ StepOfRest \in 0..1
    /\ StepHere' \in 0..1 /\ StepNext' \in 0..1 /\ StepOfRest' \in 0..1
BY DEF StepHere, StepNext, StepOfRest

\* Steps that are made or come within sight are no more than those that no longer are
\* to come and those of a new connection.
LEMMA CreditKept ==
    ASSUME Counted, Counted', Credit,
           NEW here \in 0..1, NEW then \in 0..1, NEW ofRest \in 0..1, NEW new \in 0..1,
           NEW back \in 0..1, back + here + then + ofRest <= new + StepHere + StepNext + StepOfRest,
           StepHere' = here, StepNext' = then, StepOfRest' = ofRest,
           backs' = backs + back, connects' = connects + new
    PROVE  Credit'
BY StepsAre DEF Counted, Credit

\* Nothing is ahead at the start, and the fetch is on its way.
LEMMA InitCredit == Init => VInv
<1> SUFFICES ASSUME Init PROVE VInv
  OBVIOUS
<1>1. Counted
  BY DEF Init, Counted
<1>2. Len(Ahead) = 0
  BY DEF Init, Ahead
<1>3. Bounded /\ Forward
  BY <1>1, <1>2 DEF Init, Bounded, Forward
<1>4. Credit
  BY <1>2 DEF Init, Credit, StepHere, StepNext, StepOfRest
<1> QED BY <1>1, <1>3, <1>4 DEF VInv

\* A poll is newer than all there is, and the last that is ahead.
LEMMA PollKeeps == VInv /\ Poll => VInv'
<1> SUFFICES ASSUME VInv, Poll PROVE VInv'
  OBVIOUS
<1>1. Counted /\ Bounded /\ Forward /\ Credit
  BY DEF VInv
<1>2. /\ collected' = collected + 1 /\ cached' = collected + 1
      /\ queue' = Append(queue, collected + 1)
      /\ UNCHANGED <<stream, wire, rest, snapshot, connects, backs>>
  BY DEF Poll, Collects, network, page, counts
<1>3. Counted'
  BY <1>1, <1>2 DEF Counted
<1>4. /\ Len(Ahead') = Len(Ahead) + 1 /\ Ahead'[Len(Ahead) + 1] = collected + 1
      /\ \A i \in 1..Len(Ahead) : Ahead'[i] = Ahead[i]
  <2>1. wire \in Seq(Nat) /\ queue \in Seq(Nat) /\ queue' \in Seq(Nat) /\ wire' = wire
    BY <1>1, <1>2, <1>3 DEF Counted
  <2>2. /\ Len(queue') = Len(queue) + 1 /\ queue'[Len(queue) + 1] = collected + 1
        /\ \A i \in 1..Len(queue) : queue'[i] = queue[i]
    BY <1>1, <1>2, <2>1 DEF Counted
  <2>3. /\ Len(Ahead') = Len(wire) + Len(queue')
        /\ \A i \in 1..Len(Ahead') : Ahead'[i] = IF i <= Len(wire) THEN wire[i]
                                                 ELSE queue'[i - Len(wire)]
    BY <2>1, Concatenation DEF Ahead
  <2>4. /\ Len(Ahead) = Len(wire) + Len(queue) /\ Len(wire) \in Nat /\ Len(queue) \in Nat
        /\ \A i \in 1..Len(Ahead) : Ahead[i] = IF i <= Len(wire) THEN wire[i]
                                                ELSE queue[i - Len(wire)]
    BY <1>1, AheadIs
  <2>5. Ahead'[Len(Ahead) + 1] = collected + 1
    BY <2>2, <2>3, <2>4
  <2>6. ASSUME NEW i \in 1..Len(Ahead) PROVE Ahead'[i] = Ahead[i]
    <3>1. i \in 1..Len(Ahead')
      BY <2>2, <2>3, <2>4
    <3>2. CASE i <= Len(wire)
      BY <2>3, <2>4, <3>1, <3>2
    <3>3. CASE i > Len(wire)
      <4>1. i - Len(wire) \in 1..Len(queue) /\ ~(i <= Len(wire))
        BY <2>4, <3>3
      <4>2. queue'[i - Len(wire)] = queue[i - Len(wire)]
        BY <2>2, <4>1
      <4> QED BY <2>3, <2>4, <3>1, <4>1, <4>2
    <3> QED BY <2>4, <3>2, <3>3
  <2> QED BY <2>2, <2>3, <2>4, <2>5, <2>6
<1>5. Len(Ahead) \in Nat /\ \A i \in 1..Len(Ahead) : Ahead[i] <= cached /\ Ahead[i] \in Nat
  BY <1>1, AheadIs DEF Bounded
<1>6. collected \in Nat /\ cached <= collected /\ cached \in Nat /\ snapshot <= collected
      /\ snapshot \in Nat /\ rest.number <= collected /\ rest.number \in Nat
  BY <1>1 DEF Bounded, Counted
<1>7. Bounded'
  <2>1. \A i \in 1..Len(Ahead') : Ahead'[i] <= cached'
    BY <1>2, <1>4, <1>5, <1>6
  <2>2. cached' <= collected' /\ snapshot' <= collected' /\ rest'.number <= collected'
        /\ snapshot' <= cached' /\ rest'.number <= cached'
    BY <1>2, <1>6
  <2> QED BY <1>1, <1>2, <2>1, <2>2 DEF Bounded
<1>8. Forward'
  <2>1. ASSUME NEW i \in 1..Len(Ahead'), NEW j \in 1..Len(Ahead'), i < j, i > 1 \/ wire' = <<>>
        PROVE  Ahead'[i] < Ahead'[j]
    <3>1. i \in 1..Len(Ahead)
      BY <1>4, <1>5, <2>1
    <3>2. CASE j = Len(Ahead) + 1
      BY <1>4, <1>5, <1>6, <3>1, <3>2
    <3>3. CASE j # Len(Ahead) + 1
      <4>1. j \in 1..Len(Ahead)
        BY <1>4, <1>5, <3>3
      <4> QED BY <1>1, <1>2, <1>4, <2>1, <3>1, <4>1 DEF Forward
    <3> QED BY <3>2, <3>3
  <2> QED BY <2>1 DEF Forward
<1>9. PICK here \in 0..1, then \in 0..1 :
          StepHere' = here /\ here <= StepHere /\ StepNext' = then /\ then <= StepNext
  <2>1. StepHere' = 0 \/ StepHere' = StepHere
    <3>1. CASE Len(Ahead) = 0
      BY <1>2, <1>4, <1>6, <3>1 DEF StepHere
    <3>2. CASE Len(Ahead) > 0
      BY <1>2, <1>4, <1>5, <3>2 DEF StepHere
    <3> QED BY <1>5, <3>1, <3>2
  <2>2. StepNext' = 0 \/ StepNext' = StepNext
    <3>1. CASE Len(Ahead) = 0
      BY <1>4, <3>1 DEF StepNext
    <3>2. CASE Len(Ahead) = 1
      <4>1. Ahead'[1] = Ahead[1] /\ Ahead'[2] = collected + 1 /\ Ahead[1] <= cached
        BY <1>4, <1>5, <3>2
      <4>2. Ahead[1] \in Nat
        BY <1>5, <3>2
      <4> QED BY <1>6, <4>1, <4>2 DEF StepNext
    <3>3. CASE Len(Ahead) > 1
      BY <1>4, <1>5, <3>3 DEF StepNext
    <3>4. Len(Ahead) = 0 \/ Len(Ahead) = 1 \/ Len(Ahead) > 1
      <4>1. \A n \in Nat : n = 0 \/ n = 1 \/ n > 1
        OBVIOUS
      <4> QED BY <1>5, <4>1
    <3> QED BY <3>1, <3>2, <3>3, <3>4
  <2> QED BY <2>1, <2>2, StepsAre
<1>10. StepOfRest' = StepOfRest /\ backs' = backs + 0 /\ connects' = connects + 0
  BY <1>1, <1>2 DEF StepOfRest, Counted
<1>11. 0 + here + then + StepOfRest <= 0 + StepHere + StepNext + StepOfRest
  BY <1>9, StepsAre
<1>12. Credit'
  BY <1>1, <1>3, <1>9, <1>10, <1>11, StepsAre, CreditKept
<1> QED BY <1>3, <1>7, <1>8, <1>12 DEF VInv

\* A connection brings the greeting, as new as the page is or newer, and with it at
\* most one step back.
LEMMA ConnectedKeeps == VInv /\ Connected => VInv'
<1> SUFFICES ASSUME VInv, Connected PROVE VInv'
  OBVIOUS
<1>1. Counted /\ Bounded /\ Forward /\ Credit
  BY DEF VInv
<1>2. /\ connects' = connects + 1 /\ stream = "down" /\ stream' = "greeted"
      /\ wire' = IF cached > 0 THEN <<cached>> ELSE <<>>
      /\ UNCHANGED <<collected, cached, queue, rest, snapshot, backs>>
  BY DEF Connected, server, page
<1>3. Counted'
  BY <1>1, <1>2 DEF Counted
<1>4. wire = <<>> /\ Ahead = queue /\ queue \in Seq(Nat) /\ Len(queue) \in Nat
  BY <1>1, <1>2 DEF Counted, Bounded, Ahead
<1>5. \A i \in 1..Len(queue) : queue[i] <= cached /\ queue[i] \in Nat
  BY <1>1, <1>4 DEF Bounded
<1>6. \A i, j \in 1..Len(queue) : i < j => queue[i] < queue[j]
  BY <1>1, <1>4 DEF Forward
<1>7. cached \in Nat /\ snapshot \in Nat
  BY <1>1 DEF Counted
<1>8. CASE cached = 0
  <2>1. wire' = <<>> /\ Ahead' = Ahead
    BY <1>2, <1>4, <1>7, <1>8 DEF Ahead
  <2>2. Bounded' /\ Forward'
    BY <1>1, <1>2, <1>4, <2>1 DEF Bounded, Forward
  <2>3. StepHere' = StepHere /\ StepNext' = StepNext /\ StepOfRest' = StepOfRest
    BY <1>2, <2>1 DEF StepHere, StepNext, StepOfRest
  <2>4. backs' = backs + 0
    BY <1>1, <1>2 DEF Counted
  <2>5. 0 + StepHere + StepNext + StepOfRest <= 1 + StepHere + StepNext + StepOfRest
    BY StepsAre
  <2>6. Credit'
    BY <1>1, <1>2, <1>3, <2>3, <2>4, <2>5, StepsAre, CreditKept
  <2> QED BY <1>3, <2>2, <2>6 DEF VInv
<1>9. CASE cached > 0
  <2>1. wire' = <<cached>> /\ wire' # <<>> /\ wire' \in Seq(Nat) /\ Len(wire') = 1 /\ wire'[1] = cached
    BY <1>2, <1>7, <1>9
  <2>2. /\ Len(Ahead') = Len(queue) + 1 /\ Ahead'[1] = cached
        /\ \A i \in 1..Len(Ahead') : i > 1 => Ahead'[i] = queue[i - 1]
    <3>1. Ahead' = wire' \o queue
      BY <1>2 DEF Ahead
    <3> QED BY <1>4, <2>1, <3>1, Concatenation
  <2>3. snapshot <= cached /\ rest.number <= cached
    BY <1>1, <1>9 DEF Bounded
  <2>4. Bounded'
    <3>1. ASSUME NEW i \in 1..Len(Ahead') PROVE Ahead'[i] <= cached
      <4>1. CASE i = 1
        BY <1>7, <2>2, <4>1
      <4>2. CASE i # 1
        <5>1. i > 1 /\ i - 1 \in 1..Len(queue)
          BY <1>4, <2>2, <4>2
        <5> QED BY <1>5, <2>2, <5>1
      <4> QED BY <4>1, <4>2
    <3> QED BY <1>1, <1>2, <2>3, <3>1 DEF Bounded
  <2>5. Forward'
    <3>1. ASSUME NEW i \in 1..Len(Ahead'), NEW j \in 1..Len(Ahead'), i < j, i > 1
          PROVE  Ahead'[i] < Ahead'[j]
      <4>1. j > 1 /\ i - 1 \in 1..Len(queue) /\ j - 1 \in 1..Len(queue) /\ i - 1 < j - 1
        BY <1>4, <2>2, <3>1
      <4> QED BY <1>6, <2>2, <3>1, <4>1
    <3> QED BY <2>1, <3>1 DEF Forward
  <2>6. StepHere' = 0 /\ StepOfRest' = StepOfRest
    BY <1>2, <1>7, <2>2, <2>3 DEF StepHere, StepOfRest
  <2>7. PICK then \in 0..1 : StepNext' = then
    BY StepsAre
  <2>8. backs' = backs + 0
    BY <1>1, <1>2 DEF Counted
  <2>9. 0 + 0 + then + StepOfRest <= 1 + StepHere + StepNext + StepOfRest
    BY StepsAre
  <2>10. Credit'
    BY <1>1, <1>2, <1>3, <2>6, <2>7, <2>8, <2>9, StepsAre, CreditKept
  <2> QED BY <1>3, <2>4, <2>5, <2>10 DEF VInv
<1> QED BY <1>7, <1>8, <1>9

\* The page takes the first that is ahead: if that is a step back, it was to come.
LEMMA ListenKeeps == VInv /\ Listen => VInv'
<1> SUFFICES ASSUME VInv, Listen PROVE VInv'
  OBVIOUS
<1>1. Counted /\ Bounded /\ Forward /\ Credit
  BY DEF VInv
<1>2. /\ wire # <<>> /\ wire' = Tail(wire) /\ snapshot' = wire[1] /\ stream' = "up"
      /\ backs' = IF wire[1] < snapshot THEN backs + 1 ELSE backs
      /\ UNCHANGED <<collected, cached, queue, rest, connects>>
  BY <1>1 DEF Listen, SetSnapshot, server, Counted
<1>3. /\ wire \in Seq(Nat) /\ queue \in Seq(Nat) /\ Len(wire) \in Nat /\ Len(wire) > 0
      /\ wire' \in Seq(Nat) /\ Len(wire') = Len(wire) - 1
      /\ \A i \in 1..Len(wire') : wire'[i] = wire[i + 1]
      /\ wire[1] \in Nat
  BY <1>1, <1>2 DEF Counted
<1>4. Counted'
  BY <1>1, <1>2, <1>3 DEF Counted
<1>5. /\ Len(Ahead) \in Nat /\ Len(Ahead) > 0 /\ Ahead[1] = wire[1]
      /\ Len(Ahead) = Len(wire) + Len(queue) /\ Len(queue) \in Nat
      /\ \A i \in 1..Len(Ahead) : /\ Ahead[i] \in Nat /\ Ahead[i] <= cached
                                  /\ Ahead[i] = IF i <= Len(wire) THEN wire[i]
                                                ELSE queue[i - Len(wire)]
  <2>1. /\ Len(Ahead) = Len(wire) + Len(queue) /\ Len(Ahead) \in Nat /\ Len(queue) \in Nat
        /\ \A i \in 1..Len(Ahead) : /\ Ahead[i] \in Nat
                                    /\ Ahead[i] = IF i <= Len(wire) THEN wire[i]
                                                  ELSE queue[i - Len(wire)]
    BY <1>1, AheadIs
  <2>2. Len(Ahead) > 0 /\ 1 \in 1..Len(Ahead) /\ 1 <= Len(wire)
    BY <1>3, <2>1
  <2>3. \A i \in 1..Len(Ahead) : Ahead[i] <= cached
    BY <1>1 DEF Bounded
  <2> QED BY <2>1, <2>2, <2>3
<1>6. Len(Ahead') = Len(Ahead) - 1 /\ \A i \in 1..Len(Ahead') : Ahead'[i] = Ahead[i + 1]
  <2>1. Ahead' = wire' \o queue
    BY <1>2 DEF Ahead
  <2>2. /\ Len(Ahead') = Len(wire') + Len(queue)
        /\ \A i \in 1..Len(Ahead') : Ahead'[i] = IF i <= Len(wire') THEN wire'[i]
                                                 ELSE queue[i - Len(wire')]
    BY <1>3, <2>1, Concatenation
  <2>3. ASSUME NEW i \in 1..Len(Ahead') PROVE Ahead'[i] = Ahead[i + 1]
    <3>1. i \in Nat /\ i >= 1 /\ i + 1 \in 1..Len(Ahead)
      BY <1>3, <1>5, <2>2
    <3>2. CASE i <= Len(wire) - 1
      BY <1>3, <1>5, <2>2, <3>1, <3>2
    <3>3. CASE i > Len(wire) - 1
      <4>1. Ahead'[i] = queue[i - (Len(wire) - 1)]
        BY <1>3, <2>2, <3>1, <3>3
      <4>2. Ahead[i + 1] = queue[(i + 1) - Len(wire)]
        BY <1>3, <1>5, <3>1, <3>3
      <4>3. (i + 1) - Len(wire) = i - (Len(wire) - 1)
        BY <1>3, <3>1
      <4> QED BY <4>1, <4>2, <4>3
    <3> QED BY <1>3, <3>1, <3>2, <3>3
  <2> QED BY <1>3, <1>5, <2>2, <2>3
<1>7. Bounded'
  <2>1. \A i \in 1..Len(Ahead') : Ahead'[i] <= cached
    BY <1>5, <1>6
  <2>2. wire[1] <= cached /\ wire[1] <= collected /\ (cached > 0 => rest.number <= cached)
    BY <1>1, <1>3, <1>5 DEF Bounded, Counted
  <2> QED BY <1>1, <1>2, <2>1, <2>2 DEF Bounded
<1>8. \A i, j \in 1..Len(Ahead) : i < j /\ i > 1 => Ahead[i] < Ahead[j]
  BY <1>1 DEF Forward
<1>9. Forward'
  BY <1>5, <1>6, <1>8 DEF Forward
<1>10. StepHere' = StepNext /\ StepNext' = 0 /\ StepOfRest' = StepOfRest
  <2>1. StepHere' = StepNext
    BY <1>2, <1>5, <1>6 DEF StepHere, StepNext
  <2>2. StepNext' = 0
    <3>1. Len(Ahead') > 1 => /\ Ahead'[1] = Ahead[2] /\ Ahead'[2] = Ahead[3]
                             /\ Ahead[2] < Ahead[3] /\ Ahead[2] \in Nat /\ Ahead[3] \in Nat
      BY <1>5, <1>6, <1>8
    <3> QED BY <3>1 DEF StepNext
  <2> QED BY <1>2, <2>1, <2>2 DEF StepOfRest
<1>11. backs' = backs + StepHere /\ connects' = connects + 0
  BY <1>1, <1>2, <1>5 DEF StepHere, Counted
<1>12. StepHere + StepNext + 0 + StepOfRest <= 0 + StepHere + StepNext + StepOfRest
  BY StepsAre
<1>13. Credit'
  BY <1>1, <1>4, <1>10, <1>11, <1>12, StepsAre, CreditKept
<1> QED BY <1>4, <1>7, <1>9, <1>13 DEF VInv

\* A connection that is lost takes what is on its way with it; the queue has no step
\* back in it, and none to it that was not one to come.
LEMMA LostKeeps == VInv /\ Lost => VInv'
<1> SUFFICES ASSUME VInv, Lost PROVE VInv'
  OBVIOUS
<1>1. Counted /\ Bounded /\ Forward /\ Credit
  BY DEF VInv
<1>2. wire' = <<>> /\ UNCHANGED <<collected, cached, queue, rest, snapshot, backs, connects>>
  BY DEF Lost, server, page, counts
<1>3. Counted'
  BY <1>1, <1>2 DEF Counted
<1>4. /\ wire \in Seq(Nat) /\ queue \in Seq(Nat) /\ Len(wire) \in Nat /\ Len(queue) \in Nat
      /\ Len(Ahead) = Len(wire) + Len(queue)
      /\ \A i \in 1..Len(Ahead) : Ahead[i] \in Nat /\ Ahead[i] <= cached
  BY <1>1, AheadIs DEF Counted, Bounded
<1>5. Len(Ahead') = Len(queue) /\ \A i \in 1..Len(queue) : Ahead'[i] = Ahead[Len(wire) + i]
  <2>1. Ahead' = queue
    BY <1>2, <1>4 DEF Ahead
  <2>2. ASSUME NEW i \in 1..Len(queue) PROVE queue[i] = Ahead[Len(wire) + i]
    <3>1. /\ Len(wire) + i \in 1..Len(wire) + Len(queue) /\ ~(Len(wire) + i <= Len(wire))
          /\ (Len(wire) + i) - Len(wire) = i
      BY <1>4
    <3> QED BY <1>4, <3>1, Concatenation DEF Ahead
  <2> QED BY <2>1, <2>2
<1>6. \A i, j \in 1..Len(queue) : i < j => Ahead[Len(wire) + i] < Ahead[Len(wire) + j]
  <2>1. ASSUME NEW i \in 1..Len(queue), NEW j \in 1..Len(queue), i < j
        PROVE  Ahead[Len(wire) + i] < Ahead[Len(wire) + j]
    <3>1. /\ Len(wire) + i \in 1..Len(Ahead) /\ Len(wire) + j \in 1..Len(Ahead)
          /\ Len(wire) + i < Len(wire) + j
      BY <1>4, <2>1
    <3>2. wire = <<>> \/ Len(wire) + i > 1
      BY <1>4
    <3> QED BY <1>1, <3>1, <3>2 DEF Forward
  <2> QED BY <2>1
<1>7. Bounded'
  <2>1. \A i \in 1..Len(Ahead') : Ahead'[i] <= cached
    BY <1>4, <1>5
  <2> QED BY <1>1, <1>2, <2>1 DEF Bounded
<1>8. Forward'
  BY <1>5, <1>6 DEF Forward
<1>9. StepNext' = 0
  <2>1. Len(queue) > 1 => /\ Ahead'[1] = Ahead[Len(wire) + 1] /\ Ahead'[2] = Ahead[Len(wire) + 2]
                          /\ Ahead[Len(wire) + 1] < Ahead[Len(wire) + 2]
                          /\ Ahead[Len(wire) + 1] \in Nat /\ Ahead[Len(wire) + 2] \in Nat
    BY <1>4, <1>5, <1>6
  <2> QED BY <1>5, <2>1 DEF StepNext
<1>10. StepHere' = 0 \/ (StepHere' = 1 /\ (StepHere = 1 \/ StepNext = 1))
  <2>1. ASSUME Len(queue) > 0, Ahead[Len(wire) + 1] < snapshot, ~(Ahead[1] < snapshot)
        PROVE  Len(Ahead) > 1 /\ Ahead[2] < Ahead[1]
    <3>1. Len(wire) > 0
      BY <1>4, <2>1
    <3>2. /\ Len(Ahead) > 1 /\ Ahead[1] \in Nat /\ Ahead[2] \in Nat
          /\ Len(wire) + 1 \in 1..Len(Ahead) /\ 2 \in 1..Len(Ahead)
      BY <1>4, <2>1, <3>1
    <3>3. Ahead[Len(wire) + 1] < Ahead[1] /\ Ahead[Len(wire) + 1] \in Nat
      BY <1>1, <1>4, <2>1, <3>2 DEF Counted
    <3>4. Len(wire) + 1 = 2 \/ Ahead[2] < Ahead[Len(wire) + 1]
      BY <1>1, <1>4, <3>1, <3>2 DEF Forward
    <3> QED BY <3>2, <3>3, <3>4
  <2>2. Len(queue) > 0 => Ahead'[1] = Ahead[Len(wire) + 1] /\ Len(Ahead) > 0
    BY <1>4, <1>5
  <2> QED BY <1>2, <1>5, <2>1, <2>2 DEF StepHere, StepNext
<1>11. PICK here \in 0..1 : StepHere' = here /\ here <= StepHere + StepNext
  BY <1>10, StepsAre
<1>12. backs' = backs + 0 /\ connects' = connects + 0 /\ StepOfRest' = StepOfRest
  BY <1>1, <1>2 DEF Counted, StepOfRest
<1>13. 0 + here + 0 + StepOfRest <= 0 + StepHere + StepNext + StepOfRest
  BY <1>11, StepsAre
<1>14. Credit'
  BY <1>1, <1>3, <1>9, <1>11, <1>12, <1>13, StepsAre, CreditKept
<1> QED BY <1>3, <1>7, <1>8, <1>14 DEF VInv

\* The answer to the fetch is a step back itself, or makes what follows one: not both.
LEMMA AnswerKeeps == VInv /\ RestAnswer => VInv'
<1> SUFFICES ASSUME VInv, RestAnswer PROVE VInv'
  OBVIOUS
<1>1. Counted /\ Bounded /\ Forward /\ Credit
  BY DEF VInv
<1>2. /\ rest.at = "answered" /\ rest' = [at |-> "done", number |-> 0]
      /\ snapshot' = rest.number
      /\ backs' = IF rest.number < snapshot THEN backs + 1 ELSE backs
      /\ UNCHANGED <<collected, cached, queue, stream, wire, connects>>
  BY DEF RestAnswer, SetSnapshot, server
<1>3. Ahead' = Ahead
  BY <1>2 DEF Ahead
<1>4. Counted'
  BY <1>1, <1>2 DEF Counted
<1>5. Bounded' /\ Forward'
  BY <1>1, <1>2, <1>3 DEF Bounded, Forward, Counted
<1>6. StepNext' = StepNext /\ StepOfRest = 1 /\ StepOfRest' = 0 /\ connects' = connects + 0
  BY <1>1, <1>2, <1>3 DEF StepNext, StepOfRest, Counted
<1>7. CASE rest.number < snapshot
  <2>1. StepHere' = 0 \/ (StepHere' = 1 /\ StepHere = 1)
    <3>1. Len(Ahead) > 0 => Ahead[1] \in Nat
      BY <1>1, AheadIs
    <3>2. Len(Ahead) > 0 /\ Ahead[1] < rest.number => Ahead[1] < snapshot
      BY <1>1, <1>7, <3>1 DEF Counted
    <3> QED BY <1>2, <1>3, <3>2 DEF StepHere
  <2>2. PICK here \in 0..1 : StepHere' = here /\ here <= StepHere
    BY <2>1, StepsAre
  <2>3. 1 + here + StepNext + 0 <= 0 + StepHere + StepNext + StepOfRest
    BY <1>6, <2>2, StepsAre
  <2>4. backs' = backs + 1
    BY <1>2, <1>7
  <2>5. Credit'
    BY <1>1, <1>4, <1>6, <2>2, <2>3, <2>4, StepsAre, CreditKept
  <2> QED BY <1>4, <1>5, <2>5 DEF VInv
<1>8. CASE ~(rest.number < snapshot)
  <2>1. PICK here \in 0..1 : StepHere' = here
    BY StepsAre
  <2>2. 0 + here + StepNext + 0 <= 0 + StepHere + StepNext + StepOfRest
    BY <1>6, <2>1, StepsAre
  <2>3. backs' = backs + 0
    BY <1>1, <1>2, <1>8 DEF Counted
  <2>4. Credit'
    BY <1>1, <1>4, <1>6, <2>1, <2>2, <2>3, StepsAre, CreditKept
  <2> QED BY <1>4, <1>5, <2>4 DEF VInv
<1> QED BY <1>7, <1>8

\* What the hub sends moves from the queue to the wire and stays where it is in what is
\* ahead; what the page misses is passed over by going forward.
LEMMA SendKeeps == VInv /\ Send => VInv'
<1> SUFFICES ASSUME VInv, Send PROVE VInv'
  OBVIOUS
<1>1. Counted /\ Bounded /\ Forward /\ Credit
  BY DEF VInv
<1>2. /\ queue # <<>> /\ queue' = Tail(queue)
      /\ (stream # "down" /\ wire' = Append(wire, Head(queue))) \/ wire' = wire
      /\ UNCHANGED <<collected, cached, stream, rest, snapshot, connects, backs>>
  BY DEF Send, page, counts
<1>3. /\ wire \in Seq(Nat) /\ queue \in Seq(Nat) /\ Len(wire) \in Nat /\ Len(queue) \in Nat
      /\ Len(queue) > 0 /\ Head(queue) \in Nat /\ queue' \in Seq(Nat)
      /\ Len(queue') = Len(queue) - 1
      /\ \A i \in 1..Len(queue) - 1 : queue'[i] = queue[i + 1]
  BY <1>1, <1>2 DEF Counted
<1>4. Counted'
  <2>1. wire' \in Seq(Nat)
    BY <1>2, <1>3, MovedAcross
  <2> QED BY <1>1, <1>2, <1>3, <2>1 DEF Counted
<1>5. /\ Ahead \in Seq(Nat) /\ Len(Ahead) = Len(wire) + Len(queue) /\ Len(Ahead) \in Nat
      /\ \A i \in 1..Len(Ahead) : /\ Ahead[i] \in Nat
                                  /\ Ahead[i] = IF i <= Len(wire) THEN wire[i]
                                                ELSE queue[i - Len(wire)]
  BY <1>1, AheadIs
<1>6. StepOfRest' = StepOfRest /\ backs' = backs + 0 /\ connects' = connects + 0
  BY <1>1, <1>2 DEF StepOfRest, Counted
<1>7. ASSUME stream # "down", wire' = Append(wire, Head(queue)) PROVE VInv'
  <2>5. Ahead' = Ahead
    BY <1>2, <1>3, <1>7, MovedAcross DEF Ahead
  <2>6. wire' # <<>>
    BY <1>3, <1>7
  <2>7. Bounded' /\ Forward'
    BY <1>1, <1>2, <1>7, <2>5, <2>6 DEF Bounded, Forward
  <2>8. StepHere' = StepHere /\ StepNext' = StepNext
    BY <1>2, <2>5 DEF StepHere, StepNext
  <2>9. 0 + StepHere + StepNext + StepOfRest <= 0 + StepHere + StepNext + StepOfRest
    BY StepsAre
  <2>10. Credit'
    BY <1>1, <1>4, <1>6, <2>8, <2>9, StepsAre, CreditKept
  <2> QED BY <1>4, <2>7, <2>10 DEF VInv
<1>8. ASSUME wire' = wire PROVE VInv'
  <2> DEFINE from(i) == IF i <= Len(wire) THEN i ELSE i + 1
  <2>1. Len(Ahead') = Len(Ahead) - 1
    BY <1>2, <1>3, <1>8, PassedOver DEF Ahead
  <2>2. Len(Ahead') \in Nat
    BY <1>3, <1>5, <2>1
  <2>3. \A i \in 1..Len(Ahead') : from(i) \in 1..Len(Ahead) /\ Ahead'[i] = Ahead[from(i)]
    BY <1>2, <1>3, <1>8, PassedOver DEF Ahead
  <2>4. Bounded'
    <3>1. \A i \in 1..Len(Ahead') : Ahead'[i] <= cached
      BY <1>1, <2>3 DEF Bounded
    <3> QED BY <1>1, <1>2, <1>8, <3>1 DEF Bounded
  <2>5. Forward'
    <3>1. ASSUME NEW i \in 1..Len(Ahead'), NEW j \in 1..Len(Ahead'), i < j, i > 1 \/ wire = <<>>
          PROVE  Ahead'[i] < Ahead'[j]
      <4>1. from(i) < from(j) /\ (from(i) > 1 \/ wire = <<>>)
        BY <1>3, <2>2, <3>1
      <4>2. from(i) \in 1..Len(Ahead) /\ from(j) \in 1..Len(Ahead)
        BY <2>3
      <4>3. Ahead[from(i)] < Ahead[from(j)]
        <5> HIDE DEF from
        <5> QED BY <1>1, <4>1, <4>2 DEF Forward
      <4> QED BY <2>3, <4>3
    <3> QED BY <1>8, <3>1 DEF Forward
  <2>6. PICK here \in 0..1, then \in 0..1 :
            /\ StepHere' = here /\ StepNext' = then
            /\ here + then <= StepHere + StepNext
    <3>1. CASE Len(wire) = 0
      <4>1. StepNext' = 0
        <5>1. wire' = <<>> /\ (Len(Ahead') > 1 => 1 \in 1..Len(Ahead') /\ 2 \in 1..Len(Ahead'))
          BY <1>3, <1>8, <2>2, <3>1
        <5>2. Len(Ahead') > 1 => Ahead'[1] < Ahead'[2]
          BY <2>5, <5>1 DEF Forward
        <5>3. Len(Ahead') > 1 => Ahead'[1] \in Nat /\ Ahead'[2] \in Nat
          BY <1>5, <2>3, <5>1
        <5> QED BY <5>2, <5>3 DEF StepNext
      <4>2. StepHere' = 0 \/ (StepHere' = 1 /\ StepHere = 1)
        <5>1. Len(Ahead') > 0 => /\ Ahead'[1] = Ahead[2] /\ Ahead[1] < Ahead[2]
                                 /\ Ahead[1] \in Nat /\ Ahead[2] \in Nat /\ Len(Ahead) > 0
          <6>0. Len(Ahead) - 1 > 0 => /\ 1 \in 1..Len(Ahead) - 1 /\ from(1) = 2
                                      /\ 1 \in 1..Len(Ahead) /\ 2 \in 1..Len(Ahead)
                                      /\ Len(Ahead) > 0 /\ wire = <<>>
            BY <1>3, <1>5, <3>1
          <6>1. Len(Ahead') > 0 => /\ 1 \in 1..Len(Ahead') /\ from(1) = 2
                                   /\ 1 \in 1..Len(Ahead) /\ 2 \in 1..Len(Ahead)
                                   /\ Len(Ahead) > 0 /\ wire = <<>>
            <7> HIDE DEF from
            <7> QED BY <2>1, <6>0
          <6>2. Len(Ahead') > 0 => Ahead'[1] = Ahead[from(1)]
            BY <2>3, <6>1
          <6> QED BY <1>1, <1>5, <6>1, <6>2 DEF Forward
        <5>2. Len(Ahead') > 0 /\ Ahead[2] < snapshot => Ahead[1] < snapshot
          BY <1>1, <5>1 DEF Counted
        <5> QED BY <1>2, <5>1, <5>2 DEF StepHere
      <4>3. PICK here \in 0..1 : StepHere' = here /\ here <= StepHere
        BY <4>2, StepsAre
      <4>4. here + 0 <= StepHere + StepNext
        BY <4>3, StepsAre
      <4> QED BY <4>1, <4>3, <4>4
    <3>2. CASE Len(wire) > 0
      <4>1. Len(Ahead) > 0 /\ Len(Ahead') > 0 /\ Ahead'[1] = Ahead[1] /\ Ahead[1] \in Nat
        <5>1. 1 \in 1..Len(Ahead') /\ 1 \in 1..Len(Ahead) /\ from(1) = 1
          BY <1>3, <1>5, <2>1, <2>2, <3>2
        <5>2. Ahead'[1] = Ahead[from(1)]
          BY <2>3, <5>1
        <5> QED BY <1>5, <2>2, <5>1, <5>2
      <4>2. StepHere' = StepHere
        BY <1>2, <4>1 DEF StepHere
      <4>3. StepNext' = 0 \/ (StepNext' = 1 /\ StepNext = 1)
        <5>1. ASSUME Len(Ahead') > 1, Ahead'[2] < Ahead[1] PROVE Len(Ahead) > 1 /\ Ahead[2] < Ahead[1]
          <6>0. Len(Ahead) - 1 > 1
            BY <2>1, <5>1
          <6>1. 2 \in 1..Len(Ahead') /\ 2 \in 1..Len(Ahead) /\ Len(Ahead) > 1
            <7>1. 2 \in 1..Len(Ahead) - 1 /\ 2 \in 1..Len(Ahead) /\ Len(Ahead) > 1
              BY <1>5, <6>0
            <7> QED BY <2>1, <7>1
          <6>2. Ahead'[2] = Ahead[from(2)] /\ from(2) \in 1..Len(Ahead) /\ from(2) \in {2, 3}
            BY <1>3, <2>3, <6>1
          <6>3. from(2) = 2 \/ Ahead[2] < Ahead[from(2)]
            <7>1. from(2) = 2 \/ 2 < from(2)
              BY <6>2
            <7> HIDE DEF from
            <7> QED BY <1>1, <6>1, <6>2, <7>1 DEF Forward
          <6>4. Ahead[from(2)] \in Nat /\ Ahead[2] \in Nat /\ Ahead[from(2)] < Ahead[1]
            BY <1>5, <5>1, <6>1, <6>2
          <6> HIDE DEF from
          <6> QED BY <4>1, <6>1, <6>3, <6>4
        <5> QED BY <4>1, <5>1 DEF StepNext
      <4>4. PICK then \in 0..1 : StepNext' = then /\ then <= StepNext
        BY <4>3, StepsAre
      <4>5. StepHere + then <= StepHere + StepNext
        BY <4>4, StepsAre
      <4> QED BY <4>2, <4>4, <4>5, StepsAre
    <3> QED BY <1>3, <3>1, <3>2
  <2>7. 0 + here + then + StepOfRest <= 0 + StepHere + StepNext + StepOfRest
    BY <2>6, StepsAre
  <2>8. Credit'
    BY <1>1, <1>4, <1>6, <2>6, <2>7, StepsAre, CreditKept
  <2> QED BY <1>4, <2>4, <2>5, <2>8 DEF VInv
<1> QED BY <1>2, <1>7, <1>8

\* Every step.
LEMMA NextKeeps == VInv /\ [Next]_vars => VInv'
<1> SUFFICES ASSUME VInv, [Next]_vars PROVE VInv'
  OBVIOUS
<1>1. Counted /\ Bounded /\ Forward /\ Credit
  BY DEF VInv
<1>2. CASE ServeCurrent
  <2>1. /\ rest.at = "asked" /\ rest'.at = "answered"
        /\ rest'.number = IF cached > 0 THEN cached ELSE collected + 1
        /\ rest' \in [at : {"asked", "answered", "done"}, number : Nat]
        /\ collected' = IF cached > 0 THEN collected ELSE collected + 1
        /\ UNCHANGED <<cached, queue, stream, wire, snapshot, connects, backs>>
    BY <1>1, <1>2 DEF ServeCurrent, Collects, page, counts, Counted
  <2>2. Counted'
    BY <1>1, <2>1 DEF Counted
  <2>3. Ahead' = Ahead
    BY <2>1 DEF Ahead
  <2>4. Bounded' /\ Forward'
    <3>1. CASE cached > 0
      BY <1>1, <2>1, <2>3, <3>1 DEF Bounded, Forward, Counted
    <3>2. CASE ~(cached > 0)
      BY <1>1, <2>1, <2>3, <3>2 DEF Bounded, Forward, Counted
    <3> QED BY <3>1, <3>2
  <2>5. Credit'
    BY <1>1, <2>1, <2>3 DEF Credit, StepHere, StepNext, StepOfRest
  <2> QED BY <2>2, <2>4, <2>5 DEF VInv
<1>3. CASE RestFails
  <2>1. /\ rest.at # "done" /\ rest' = [at |-> "done", number |-> 0]
        /\ UNCHANGED <<collected, cached, queue, stream, wire, snapshot, connects, backs>>
    BY <1>3 DEF RestFails, server, page, counts
  <2>2. Counted'
    BY <1>1, <2>1 DEF Counted
  <2>3. Ahead' = Ahead
    BY <2>1 DEF Ahead
  <2>4. Bounded' /\ Forward'
    BY <1>1, <2>1, <2>3 DEF Bounded, Forward, Counted
  <2>5. /\ StepHere' = StepHere /\ StepNext' = StepNext /\ StepOfRest' = 0 /\ StepOfRest = 1
        /\ backs' = backs + 0 /\ connects' = connects + 0
    BY <1>1, <2>1, <2>3 DEF StepHere, StepNext, StepOfRest, Counted
  <2>6. 0 + StepHere + StepNext + 0 <= 0 + StepHere + StepNext + StepOfRest
    BY <2>5, StepsAre
  <2>7. Credit'
    BY <1>1, <2>2, <2>5, <2>6, StepsAre, CreditKept
  <2> QED BY <2>2, <2>4, <2>7 DEF VInv
<1>4. CASE OtherState \/ Render \/ Effect \/ UNCHANGED vars
  <2>1. UNCHANGED <<collected, cached, queue, stream, wire, rest, snapshot, connects, backs>>
    BY <1>4 DEF OtherState, Render, Effect, vars, server, network, page, counts
  <2>2. Ahead' = Ahead
    BY <2>1 DEF Ahead
  <2> QED BY <1>1, <2>1, <2>2
      DEF VInv, Counted, Bounded, Forward, Credit, StepHere, StepNext, StepOfRest
<1> QED BY <1>2, <1>3, <1>4, PollKeeps, SendKeeps, ConnectedKeeps, LostKeeps, ListenKeeps,
           AnswerKeeps DEF Next

\* The dashboard steps back to an older snapshot at most once for the fetch, when it is
\* answered, and once for each connection (App.tsx, the effect that fetches and
\* subscribes): for any number of polls and connections, whatever is lost and however the
\* two overtake each other.
THEOREM FewStepsBackAlways == Spec => []FewStepsBack
<1>1. VInv => FewStepsBack
  <2> SUFFICES ASSUME VInv PROVE FewStepsBack
    OBVIOUS
  <2>1. backs \in Nat /\ connects \in Nat /\ backs + StepHere + StepNext + StepOfRest <= connects + 1
    BY DEF VInv, Counted, Credit
  <2>2. backs + StepOfRest <= connects + 1
    BY <2>1, StepsAre
  <2> QED BY <2>1, <2>2 DEF StepOfRest, FewStepsBack
<1> QED BY <1>1, InitCredit, NextKeeps, PTL DEF Spec


-----------------------------------------------------------------------------
(* What the cards tell.  The effect tells of one more render, the one that *)
(* was drawn last, and a later collection says nothing of them: it is      *)
(* newer than they are.  The reference of a delta is the latest of them in *)
(* which its metric was positive, and zero only if there is none, as no    *)
(* snapshot has number 0.                                                  *)

\* the renders whose effect has run
Renders == Told("cpu")

Seen(m) == {i \in 1..Len(Renders) : Renders[i] \in positive[m]}

References ==
    \A m \in Metrics :
       \/ Seen(m) = {} /\ prevRef[m] = 0
       \/ \E i \in Seen(m) : prevRef[m] = Renders[i] /\ \A j \in Seen(m) : j <= i

\* the snapshot of the effect that is due is the last point that was drawn
DrawnTypes ==
    /\ collected \in Nat /\ collected <= MaxSnapshots
    /\ shown \in Nat /\ shown <= collected
    /\ {renderDue, fresh, effectDue} \subseteq BOOLEAN
    /\ stream \in {"down", "greeted", "up"}
    /\ has \in [Optional -> SUBSET Nat] /\ \A t \in Optional : \A x \in has[t] : x <= collected
    /\ drawn \in [Trends -> Seq(Nat)]
    /\ \A t \in Trends : \A i \in 1..Len(drawn[t]) : drawn[t][i] <= collected
    /\ effectDue => \A t \in Trends :
          HasPoint(t, shown) => Len(drawn[t]) > 0 /\ drawn[t][Len(drawn[t])] = shown

CardTypes ==
    /\ positive \in [Metrics -> SUBSET Nat]
    /\ \A m \in Metrics : \A x \in positive[m] : x > 0 /\ x <= collected
    /\ prevRef \in [Metrics -> Nat]
    /\ deltas \in [Metrics -> [of : Nat, against : Nat]]
    /\ \A m \in Metrics : deltas[m].of <= collected /\ deltas[m].against <= collected

Telling == DrawnTypes /\ CardTypes /\ References /\ TrendIsTheLastRenders /\ DeltasAreOfRenders

RInv == VInv /\ Telling

Zeros == [i \in 1..MadeUp |-> 0]

\* The last n of a sequence, by their number and their places.
LEMMA LastNIs ==
    ASSUME NEW s \in Seq(Nat), NEW n \in Nat, n > 0
    PROVE  /\ Len(s) \in Nat /\ LastN(s, n) \in Seq(Nat)
           /\ Len(s) > n => /\ Len(LastN(s, n)) = n
                            /\ \A i \in 1..n : LastN(s, n)[i] = s[i + (Len(s) - n)]
           /\ Len(s) <= n => /\ Len(LastN(s, n)) = Len(s)
                             /\ \A i \in 1..Len(s) : LastN(s, n)[i] = s[i]
<1>1. Len(s) \in Nat /\ \A i \in 1..Len(s) : s[i] \in Nat
  OBVIOUS
<1>2. CASE Len(s) > n
  <2>1. LastN(s, n) = SubSeq(s, Len(s) - n + 1, Len(s))
    BY <1>2 DEF LastN
  <2>2. /\ Len(s) - n + 1 \in 1..Len(s) + 1 /\ Len(s) \in Len(s) - n..Len(s)
    BY <1>1, <1>2
  <2>3. /\ SubSeq(s, Len(s) - n + 1, Len(s)) \in Seq(Nat)
        /\ Len(SubSeq(s, Len(s) - n + 1, Len(s))) = n
        /\ \A i \in 1..n : SubSeq(s, Len(s) - n + 1, Len(s))[i] = s[(Len(s) - n + 1) + i - 1]
    BY <1>1, <1>2, <2>2
  <2>4. \A i \in 1..n : (Len(s) - n + 1) + i - 1 = i + (Len(s) - n)
    BY <1>1
  <2>5. ~(Len(s) <= n)
    BY <1>1, <1>2
  <2> QED BY <1>1, <2>1, <2>3, <2>4, <2>5
<1>3. CASE ~(Len(s) > n)
  <2>1. LastN(s, n) = SubSeq(s, 1, Len(s))
    BY <1>3 DEF LastN
  <2>2. SubSeq(s, 1, Len(s)) = s
    BY <1>1
  <2> QED BY <1>1, <1>3, <2>1, <2>2
<1> QED BY <1>2, <1>3

\* To keep all but the first of the last, and add one, is to add one and keep the last.
LEMMA RollIs ==
    ASSUME NEW s \in Seq(Nat), NEW x \in Nat
    PROVE  Roll(LastN(s, HistorySize), x) = LastN(Append(s, x), HistorySize)
<1> DEFINE H == HistorySize
           a == Append(s, x)
           l == LastN(s, H)
           k == LastN(l, H - 1)
           r == LastN(a, H)
<1>1. H \in Nat /\ H > 0 /\ H > 1 /\ H - 1 \in Nat /\ H - 1 > 0
  BY ViewAssumption
<1>2. /\ Len(s) \in Nat /\ a \in Seq(Nat) /\ Len(a) = Len(s) + 1
      /\ a[Len(s) + 1] = x /\ \A i \in 1..Len(s) : a[i] = s[i]
  OBVIOUS
<1> HIDE DEF H, a, k, r
<1>3. /\ l \in Seq(Nat)
      /\ Len(s) > H => /\ Len(l) = H
                       /\ \A i \in 1..H : l[i] = s[i + (Len(s) - H)]
      /\ Len(s) <= H => Len(l) = Len(s) /\ \A i \in 1..Len(s) : l[i] = s[i]
  BY <1>1, LastNIs
<1> HIDE DEF l
<1>4. /\ k \in Seq(Nat) /\ Len(l) \in Nat
      /\ Len(l) > H - 1 => /\ Len(k) = H - 1
                           /\ \A i \in 1..H - 1 : k[i] = l[i + (Len(l) - (H - 1))]
      /\ Len(l) <= H - 1 => Len(k) = Len(l) /\ \A i \in 1..Len(l) : k[i] = l[i]
  BY <1>1, <1>3, LastNIs DEF k
<1>5. /\ r \in Seq(Nat)
      /\ Len(a) > H => /\ Len(r) = H
                       /\ \A i \in 1..H : r[i] = a[i + (Len(a) - H)]
      /\ Len(a) <= H => Len(r) = Len(a) /\ \A i \in 1..Len(a) : r[i] = a[i]
  BY <1>1, <1>2, LastNIs DEF r
<1> DEFINE p == Append(k, x)
<1>6. /\ Len(k) \in Nat /\ p \in Seq(Nat) /\ Len(p) = Len(k) + 1
      /\ p[Len(k) + 1] = x /\ \A i \in 1..Len(k) : p[i] = k[i]
  BY <1>4
<1> HIDE DEF p
<1> DEFINE lengths ==
        /\ Len(l) = IF Len(s) > H THEN H ELSE Len(s)
        /\ Len(k) = IF Len(l) > H - 1 THEN H - 1 ELSE Len(l)
        /\ Len(r) = IF Len(s) + 1 > H THEN H ELSE Len(s) + 1
        /\ Len(p) = Len(k) + 1 /\ Len(a) = Len(s) + 1 /\ Len(s) \in Nat
<1>10. lengths
  <2>1. Len(l) = IF Len(s) > H THEN H ELSE Len(s)
    BY <1>1, <1>2, <1>3
  <2>2. Len(k) = IF Len(l) > H - 1 THEN H - 1 ELSE Len(l)
    BY <1>1, <1>4
  <2>3. Len(r) = IF Len(s) + 1 > H THEN H ELSE Len(s) + 1
    BY <1>1, <1>2, <1>5
  <2> QED BY <1>2, <1>6, <2>1, <2>2, <2>3
<1>7. CASE Len(s) > H
  <2>1. /\ Len(l) = H /\ Len(k) = H - 1 /\ Len(p) = H /\ Len(r) = H /\ Len(l) - (H - 1) = 1
        /\ Len(a) - H = Len(s) - H + 1
    BY <1>1, <1>7, <1>10
  <2>2. ASSUME NEW i \in 1..H - 1 PROVE p[i] = r[i]
    <3>1. /\ i \in 1..H /\ i + 1 \in 1..H /\ i + (Len(s) - H + 1) = (i + 1) + (Len(s) - H)
          /\ (i + 1) + (Len(s) - H) \in 1..Len(s)
      BY <1>1, <1>2, <1>7
    <3>2. p[i] = l[i + 1]
      BY <1>1, <1>4, <1>6, <2>1
    <3>3. r[i] = a[i + (Len(s) - H + 1)]
      <4>1. Len(a) > H
        BY <1>1, <1>2, <1>7
      <4>2. r[i] = a[i + (Len(a) - H)]
        BY <1>5, <3>1, <4>1
      <4> QED BY <2>1, <4>2
    <3> QED BY <1>2, <1>3, <1>7, <3>1, <3>2, <3>3
  <2>3. p[H] = r[H]
    <3>1. H \in 1..H /\ H + (Len(a) - H) = Len(s) + 1 /\ Len(a) > H /\ Len(k) + 1 = H
      BY <1>1, <1>2, <1>7, <2>1
    <3> QED BY <1>2, <1>5, <1>6, <3>1
  <2>4. \A i \in 1..H : i \in 1..H - 1 \/ i = H
    BY <1>1
  <2>5. \A i \in 1..H : p[i] = r[i]
    BY <2>2, <2>3, <2>4
  <2> QED BY <1>5, <1>6, <2>1, <2>5, SeqEqual DEF Roll, p, k, l, r, a, H
<1>8. CASE Len(s) = H
  <2>1. /\ Len(l) = H /\ Len(k) = H - 1 /\ Len(p) = H /\ Len(r) = H /\ Len(l) - (H - 1) = 1
        /\ Len(a) - H = 1 /\ Len(a) > H
    BY <1>1, <1>8, <1>10
  <2>2. ASSUME NEW i \in 1..H - 1 PROVE p[i] = r[i]
    <3>1. i \in 1..H /\ i + 1 \in 1..H /\ i + 1 \in 1..Len(s) /\ Len(s) <= H
      BY <1>1, <1>2, <1>8
    <3>2. p[i] = l[i + 1]
      BY <1>1, <1>4, <1>6, <2>1
    <3>3. r[i] = a[i + 1]
      BY <1>5, <2>1, <3>1
    <3> QED BY <1>2, <1>3, <3>1, <3>2, <3>3
  <2>3. p[H] = r[H]
    <3>1. H \in 1..H /\ H + (Len(a) - H) = Len(s) + 1 /\ Len(k) + 1 = H
      BY <1>1, <1>2, <1>8, <2>1
    <3> QED BY <1>2, <1>5, <1>6, <2>1, <3>1
  <2>4. \A i \in 1..H : i \in 1..H - 1 \/ i = H
    BY <1>1
  <2>5. \A i \in 1..H : p[i] = r[i]
    BY <2>2, <2>3, <2>4
  <2> QED BY <1>5, <1>6, <2>1, <2>5, SeqEqual DEF Roll, p, k, l, r, a, H
<1>9. CASE Len(s) < H
  <2>1. /\ Len(l) = Len(s) /\ Len(k) = Len(s) /\ Len(p) = Len(s) + 1 /\ Len(r) = Len(s) + 1
        /\ Len(a) <= H /\ Len(l) <= H - 1 /\ Len(s) <= H
    BY <1>1, <1>9, <1>10
  <2>2. ASSUME NEW i \in 1..Len(s) PROVE p[i] = r[i]
    <3>1. i \in 1..Len(a) /\ i \in 1..Len(k) /\ i \in 1..Len(l)
      BY <1>2, <2>1
    <3>2. p[i] = k[i] /\ k[i] = l[i] /\ l[i] = s[i] /\ r[i] = a[i] /\ a[i] = s[i]
      BY <1>2, <1>3, <1>4, <1>5, <1>6, <2>1, <3>1
    <3> QED BY <3>2
  <2>3. p[Len(s) + 1] = r[Len(s) + 1]
    <3>1. Len(s) + 1 \in 1..Len(a)
      BY <1>2
    <3> QED BY <1>2, <1>5, <1>6, <2>1, <3>1
  <2>4. \A i \in 1..Len(s) + 1 : i \in 1..Len(s) \/ i = Len(s) + 1
    BY <1>2
  <2>5. \A i \in 1..Len(s) + 1 : p[i] = r[i]
    BY <2>2, <2>3, <2>4
  <2> QED BY <1>5, <1>6, <2>1, <2>5, SeqEqual DEF Roll, p, k, l, r, a, H
<1> QED BY <1>1, <1>2, <1>7, <1>8, <1>9

\* The renders that are told of, and the one whose effect is due.
LEMMA ToldIs ==
    ASSUME DrawnTypes, NEW t \in Trends
    PROVE  /\ Told(t) \in Seq(Nat) /\ Len(Told(t)) \in Nat
           /\ \A i \in 1..Len(Told(t)) : Told(t)[i] \in Nat /\ Told(t)[i] <= collected
           /\ drawn[t] = IF effectDue /\ HasPoint(t, shown) THEN Append(Told(t), shown) ELSE Told(t)
<1>1. PICK d \in Seq(Nat) : d = drawn[t] /\ \A i \in 1..Len(d) : d[i] <= collected
  BY DEF DrawnTypes
<1>2. CASE effectDue /\ HasPoint(t, shown)
  <2>1. Len(d) > 0 /\ d[Len(d)] = shown /\ Len(d) \in Nat
    BY <1>1, <1>2 DEF DrawnTypes
  <2>2. PICK s \in Seq(Nat) : /\ s = SubSeq(d, 1, Len(d) - 1) /\ Len(s) = Len(d) - 1
                              /\ \A i \in 1..Len(s) : s[i] = d[i]
    <3>1. /\ SubSeq(d, 1, Len(d) - 1) \in Seq(Nat)
          /\ Len(SubSeq(d, 1, Len(d) - 1)) = Len(d) - 1
          /\ \A i \in 1..Len(d) - 1 : SubSeq(d, 1, Len(d) - 1)[i] = d[i]
      <4>1. PICK k \in Nat : k = Len(d) - 1 /\ k + 1 = Len(d)
        BY <2>1
      <4>2. /\ SubSeq(d, 1, k) \in Seq(Nat) /\ Len(SubSeq(d, 1, k)) = k
            /\ \A i \in 1..k : SubSeq(d, 1, k)[i] = d[i]
        BY <4>1
      <4> QED BY <4>1, <4>2
    <3> QED BY <3>1
  <2>3. Told(t) = s
    BY <1>1, <1>2, <2>2 DEF Told
  <2>4. Append(s, shown) = d
    <3>1. /\ Append(s, shown) \in Seq(Nat) /\ Len(Append(s, shown)) = Len(d)
          /\ \A i \in 1..Len(d) : Append(s, shown)[i] = d[i]
      BY <2>1, <2>2 DEF DrawnTypes
    <3> QED BY <3>1, SeqEqual
  <2>5. \A i \in 1..Len(s) : s[i] \in Nat /\ s[i] <= collected
    BY <1>1, <2>1, <2>2
  <2> QED BY <1>1, <1>2, <2>2, <2>3, <2>4, <2>5
<1>3. CASE ~(effectDue /\ HasPoint(t, shown))
  <2>1. Told(t) = d
    BY <1>1, <1>3 DEF Told
  <2> QED BY <1>1, <1>3, <2>1
<1> QED BY <1>2, <1>3

\* The renders that are told of have a point of their own in every snapshot.
LEMMA RendersAre ==
    ASSUME DrawnTypes
    PROVE  /\ "cpu" \in Trends /\ Renders \in Seq(Nat) /\ Len(Renders) \in Nat
           /\ \A i \in 1..Len(Renders) : Renders[i] \in Nat /\ Renders[i] <= collected
BY ToldIs DEF Renders, Trends

\* the renders before the last in which a metric was positive
Before(m) == {i \in 1..Len(Renders) - 1 : Renders[i] \in positive[m]}

\* what is said of one delta
DeltaTells(m) ==
    /\ deltas[m] # Undefined <=>
          Before(m) # {} /\ (m \in ZeroShows \/ Renders[Len(Renders)] \in positive[m])
    /\ deltas[m] # Undefined =>
          /\ deltas[m].of = Renders[Len(Renders)]
          /\ \E i \in Before(m) : deltas[m].against = Renders[i] /\ \A j \in Before(m) : j <= i

\* What the deltas tell, card by card, before a step and after it.
LEMMA DeltasTell ==
    /\ DeltasAreOfRenders <=> \A m \in Metrics : DeltaTells(m)
    /\ DeltasAreOfRenders' <=> \A m \in Metrics : DeltaTells(m)'
BY DEF DeltasAreOfRenders, DeltaTells, Before, Renders

\* Nothing was collected, nothing drawn.
LEMMA InitTold == Init => RInv
<1> SUFFICES ASSUME Init PROVE RInv
  OBVIOUS
<1>1. VInv
  BY InitCredit
<1>2. /\ collected = 0 /\ shown = 0 /\ stream = "down"
      /\ renderDue = FALSE /\ fresh = FALSE /\ effectDue = FALSE
      /\ positive = [m \in Metrics |-> {}] /\ prevRef = [m \in Metrics |-> 0]
      /\ has = [t \in Optional |-> {}] /\ deltas = [m \in Metrics |-> Undefined]
      /\ drawn = [t \in Trends |-> <<>>] /\ trend = [t \in Trends |-> Zeros]
  BY DEF Init, Zeros
<1>3. /\ \A t \in Trends : drawn[t] = <<>> /\ Told(t) = <<>> /\ trend[t] = Zeros
      /\ drawn \in [Trends -> Seq(Nat)]
  BY <1>2 DEF Told
<1>4. Undefined \in [of : Nat, against : Nat] /\ Undefined.of = 0 /\ Undefined.against = 0
  BY DEF Undefined
<1>5. Renders = <<>> /\ Len(Renders) = 0
  <2>1. Renders = <<>>
    BY <1>3 DEF Renders, Trends
  <2> QED BY <2>1
<1>6. DrawnTypes
  <2>1. MaxSnapshots \in Nat
    BY ViewAssumption
  <2>2. has \in [Optional -> SUBSET Nat] /\ \A t \in Optional : has[t] = {}
    BY <1>2
  <2>3. \A t \in Trends : Len(drawn[t]) = 0
    BY <1>3
  <2>4. \A t \in Trends : \A i \in 1..Len(drawn[t]) : drawn[t][i] <= collected
    BY <2>3
  <2>5. \A t \in Optional : \A x \in has[t] : x <= collected
    BY <2>2
  <2>6. collected \in Nat /\ collected <= MaxSnapshots /\ shown \in Nat /\ shown <= collected
    BY <1>2, <2>1
  <2> QED BY <1>2, <1>3, <2>2, <2>4, <2>5, <2>6 DEF DrawnTypes
<1>7. CardTypes
  <2>1. positive \in [Metrics -> SUBSET Nat] /\ \A m \in Metrics : positive[m] = {}
    BY <1>2
  <2>2. prevRef \in [Metrics -> Nat] /\ deltas \in [Metrics -> [of : Nat, against : Nat]]
    BY <1>2, <1>4
  <2>3. \A m \in Metrics : deltas[m].of <= collected /\ deltas[m].against <= collected
    BY <1>2, <1>4
  <2>4. \A m \in Metrics : \A x \in positive[m] : x > 0 /\ x <= collected
    BY <2>1
  <2> QED BY <2>1, <2>2, <2>3, <2>4 DEF CardTypes
<1>8. References
  BY <1>2, <1>5 DEF References, Seen
<1>9. DeltasAreOfRenders
  <2>1. \A m \in Metrics : deltas[m] = Undefined /\ Before(m) = {}
    BY <1>2, <1>5 DEF Before
  <2> QED BY <2>1, DeltasTell DEF DeltaTells
<1>10. TrendIsTheLastRenders
  <2>1. /\ Zeros \in Seq(Nat) /\ Len(Zeros) = MadeUp /\ MadeUp \in Nat /\ MadeUp <= HistorySize
        /\ HistorySize \in Nat /\ HistorySize > 0
    BY ViewAssumption DEF Zeros
  <2>2. Zeros \o <<>> = Zeros
    BY <2>1
  <2>3. /\ LastN(Zeros, HistorySize) \in Seq(Nat) /\ Len(LastN(Zeros, HistorySize)) = Len(Zeros)
        /\ \A i \in 1..Len(Zeros) : LastN(Zeros, HistorySize)[i] = Zeros[i]
    BY <2>1, LastNIs
  <2>4. LastN(Zeros, HistorySize) = Zeros
    BY <2>1, <2>3, SeqEqual
  <2>5. ASSUME NEW t \in Trends PROVE trend[t] = LastN(Zeros \o Told(t), HistorySize)
    <3>1. Told(t) = <<>> /\ trend[t] = Zeros
      BY <1>3
    <3> QED BY <2>2, <2>4, <3>1
  <2> QED BY <2>5 DEF TrendIsTheLastRenders, Zeros
<1> QED BY <1>1, <1>6, <1>7, <1>8, <1>9, <1>10 DEF RInv, Telling

\* What is told stays true of the same renders, if they are as positive as before.
LEMMA SameTold ==
    ASSUME Telling, DrawnTypes', CardTypes',
           \A t \in Trends : Told(t)' = Told(t),
           UNCHANGED <<trend, prevRef, deltas>>,
           \A m \in Metrics : \A x \in Nat :
              x <= collected => (x \in positive'[m] <=> x \in positive[m])
    PROVE  Telling'
<1>1. DrawnTypes /\ References /\ TrendIsTheLastRenders /\ DeltasAreOfRenders
  BY DEF Telling
<1>2. /\ Renders' = Renders /\ Renders \in Seq(Nat) /\ Len(Renders) \in Nat
      /\ \A i \in 1..Len(Renders) : Renders[i] \in Nat /\ Renders[i] <= collected
  <2>1. "cpu" \in Trends
    BY DEF Trends
  <2>2. Renders' = Renders
    BY <2>1 DEF Renders
  <2> QED BY <1>1, <2>2, RendersAre
<1>3. PICK s \in Seq(Nat) : s = Renders /\ Renders' = s
  BY <1>2
<1>4. \A m \in Metrics : \A i \in 1..Len(s) : s[i] \in positive'[m] <=> s[i] \in positive[m]
  BY <1>2, <1>3
<1>5. \A m \in Metrics : Seen(m)' = Seen(m) /\ Before(m)' = Before(m)
  <2>1. Len(s) \in Nat /\ 1..Len(s) - 1 \subseteq 1..Len(s)
    BY <1>3
  <2>2. \A m \in Metrics : \A i \in 1..Len(s) - 1 : s[i] \in positive'[m] <=> s[i] \in positive[m]
    BY <1>4, <2>1
  <2> QED BY <1>3, <1>4, <2>2 DEF Seen, Before
<1>6. References'
  BY <1>1, <1>3, <1>5 DEF References
<1>7. DeltasAreOfRenders'
  <2>1. ASSUME NEW m \in Metrics PROVE DeltaTells(m)'
    <3>1. DeltaTells(m) /\ Before(m)' = Before(m)
      BY <1>1, <1>5, DeltasTell
    <3>2. Before(m) # {} => (s[Len(s)] \in positive'[m] <=> s[Len(s)] \in positive[m])
      <4>1. Before(m) # {} => Len(s) \in 1..Len(s)
        <5>1. Len(s) \in Nat /\ Before(m) \subseteq 1..Len(s) - 1
          BY <1>3 DEF Before
        <5> QED BY <5>1
      <4> QED BY <1>4, <4>1
    <3> QED BY <1>3, <3>1, <3>2 DEF DeltaTells
  <2> QED BY <2>1, DeltasTell
<1>8. TrendIsTheLastRenders'
  BY <1>1 DEF TrendIsTheLastRenders
<1> QED BY <1>6, <1>7, <1>8 DEF Telling

\* A snapshot that was drawn is as positive after a collection as it was before, and has
\* the points that it had.
LEMMA CollectTells ==
    ASSUME Telling, Collects, UNCHANGED <<shown, cards, drawn, fresh, effectDue>>,
           renderDue' \in BOOLEAN, stream' \in {"down", "greeted", "up"}
    PROVE  Telling'
<1>1. DrawnTypes /\ CardTypes
  BY DEF Telling
<1>2. /\ shown' = shown /\ drawn' = drawn /\ trend' = trend /\ prevRef' = prevRef
      /\ deltas' = deltas /\ effectDue' = effectDue /\ fresh' = fresh
  BY DEF cards
<1>3. PICK c \in Nat : collected' = c /\ c = collected + 1 /\ c <= MaxSnapshots
  BY <1>1, ViewAssumption DEF Collects, DrawnTypes
<1>4. PICK M \in SUBSET Metrics :
          positive' = [m \in Metrics |-> positive[m] \cup (IF m \in M THEN {c} ELSE {})]
  BY <1>3 DEF Collects
<1>5. PICK T \in SUBSET Optional :
          has' = [t \in Optional |-> has[t] \cup (IF t \in T THEN {c} ELSE {})]
  BY <1>3 DEF Collects
<1>6. collected \in Nat /\ \A x \in Nat : x <= collected => x <= c /\ x # c
  BY <1>1, <1>3 DEF DrawnTypes
<1>7. ASSUME NEW m \in Metrics
      PROVE  /\ positive'[m] \in SUBSET Nat /\ \A x \in positive'[m] : x > 0 /\ x <= c
             /\ \A x \in Nat : x <= collected => (x \in positive'[m] <=> x \in positive[m])
  <2>1. positive'[m] = positive[m] \/ positive'[m] = positive[m] \cup {c}
    BY <1>4
  <2>2. positive[m] \in SUBSET Nat /\ \A x \in positive[m] : x > 0 /\ x <= collected
    BY <1>1 DEF CardTypes
  <2>3. c > 0
    BY <1>3, <1>6
  <2> QED BY <1>6, <2>1, <2>2, <2>3
<1>8. ASSUME NEW t \in Optional
      PROVE  /\ has'[t] \in SUBSET Nat /\ \A x \in has'[t] : x <= c
             /\ \A x \in Nat : x <= collected => (x \in has'[t] <=> x \in has[t])
  <2>1. has'[t] = has[t] \/ has'[t] = has[t] \cup {c}
    BY <1>5
  <2>2. has[t] \in SUBSET Nat /\ \A x \in has[t] : x <= collected
    BY <1>1 DEF DrawnTypes
  <2> QED BY <1>6, <2>1, <2>2
<1>9. ASSUME NEW t \in Trends PROVE HasPoint(t, shown)' <=> HasPoint(t, shown)
  BY <1>1, <1>2, <1>8 DEF HasPoint, DrawnTypes
<1>10. \A t \in Trends : Told(t)' = Told(t)
  BY <1>2, <1>9 DEF Told
<1>11. DrawnTypes'
  <2>1. has' \in [Optional -> SUBSET Nat] /\ \A t \in Optional : \A x \in has'[t] : x <= collected'
    BY <1>3, <1>5, <1>8
  <2>2. shown' \in Nat /\ shown' <= collected'
    BY <1>1, <1>2, <1>3, <1>6 DEF DrawnTypes
  <2>3. \A t \in Trends : \A i \in 1..Len(drawn'[t]) : drawn'[t][i] <= collected'
    <3>1. ASSUME NEW t \in Trends, NEW i \in 1..Len(drawn[t]) PROVE drawn[t][i] <= c
      <4>1. drawn[t] \in Seq(Nat) /\ drawn[t][i] <= collected
        BY <1>1 DEF DrawnTypes
      <4>2. drawn[t][i] \in Nat
        BY <4>1
      <4> QED BY <1>6, <4>1, <4>2
    <3> QED BY <1>2, <1>3, <3>1
  <2>4. effectDue' => \A t \in Trends :
           HasPoint(t, shown)' => Len(drawn'[t]) > 0 /\ drawn'[t][Len(drawn'[t])] = shown'
    BY <1>1, <1>2, <1>9 DEF DrawnTypes
  <2>5. /\ {renderDue, fresh, effectDue}' \subseteq BOOLEAN /\ drawn' \in [Trends -> Seq(Nat)]
        /\ collected' \in Nat /\ collected' <= MaxSnapshots
    BY <1>1, <1>2, <1>3 DEF DrawnTypes
  <2> QED BY <2>1, <2>2, <2>3, <2>4, <2>5 DEF DrawnTypes
<1>12. CardTypes'
  <2>1. positive' \in [Metrics -> SUBSET Nat]
    BY <1>4, <1>7
  <2>2. \A m \in Metrics : deltas[m].of <= c /\ deltas[m].against <= c
    <3>1. ASSUME NEW m \in Metrics PROVE deltas[m].of <= c /\ deltas[m].against <= c
      <4>1. /\ deltas[m] \in [of : Nat, against : Nat]
            /\ deltas[m].of <= collected /\ deltas[m].against <= collected
        BY <1>1 DEF CardTypes
      <4>2. deltas[m].of \in Nat /\ deltas[m].against \in Nat
        BY <4>1
      <4> QED BY <1>6, <4>1, <4>2
    <3> QED BY <3>1
  <2> QED BY <1>1, <1>2, <1>3, <1>7, <2>1, <2>2 DEF CardTypes
<1> QED BY <1>2, <1>7, <1>10, <1>11, <1>12, SameTold

\* A render of a snapshot that was set since draws its points, of which the effect that
\* is then due is still to tell.
LEMMA RenderTells ==
    ASSUME Telling, Render, snapshot \in Nat, snapshot <= collected
    PROVE  Telling'
<1>1. DrawnTypes /\ CardTypes
  BY DEF Telling
<1>2. /\ shown' = snapshot /\ renderDue' = FALSE /\ fresh' = FALSE /\ effectDue' = fresh
      /\ ~effectDue /\ collected' = collected /\ positive' = positive /\ has' = has
      /\ stream' = stream /\ UNCHANGED <<trend, prevRef, deltas>>
      /\ drawn' = [t \in Trends |-> IF fresh /\ HasPoint(t, snapshot)
                                    THEN Append(drawn[t], snapshot) ELSE drawn[t]]
  BY DEF Render, server, network, cards
<1>3. fresh \in BOOLEAN /\ collected \in Nat
  BY <1>1 DEF DrawnTypes
<1>4. ASSUME NEW t \in Trends
      PROVE  /\ Told(t) = drawn[t] /\ drawn[t] \in Seq(Nat) /\ Len(drawn[t]) \in Nat
             /\ \A i \in 1..Len(drawn[t]) : drawn[t][i] <= collected
             /\ HasPoint(t, shown)' <=> HasPoint(t, snapshot)
             /\ drawn'[t] = IF fresh /\ HasPoint(t, snapshot)
                            THEN Append(drawn[t], snapshot) ELSE drawn[t]
  BY <1>1, <1>2 DEF Told, HasPoint, DrawnTypes
<1>5. ASSUME NEW t \in Trends
      PROVE  /\ drawn'[t] \in Seq(Nat) /\ \A i \in 1..Len(drawn'[t]) : drawn'[t][i] <= collected
             /\ fresh /\ HasPoint(t, snapshot) =>
                   Len(drawn'[t]) > 0 /\ drawn'[t][Len(drawn'[t])] = snapshot
             /\ Told(t)' = Told(t)
  <2>1. PICK d \in Seq(Nat) : d = drawn[t] /\ \A i \in 1..Len(d) : d[i] <= collected
    BY <1>4
  <2>2. CASE fresh /\ HasPoint(t, snapshot)
    <3>0. Append(d, snapshot) \in Seq(Nat)
      BY <2>1
    <3>1. PICK e \in Seq(Nat) : e = Append(d, snapshot)
      BY <3>0
    <3>2. /\ Len(e) = Len(d) + 1 /\ e[Len(d) + 1] = snapshot /\ Len(d) \in Nat
          /\ \A i \in 1..Len(d) : e[i] = d[i]
      BY <3>1
    <3>3. \A i \in 1..Len(e) : e[i] <= collected
      <4>1. \A i \in 1..Len(d) + 1 : i \in 1..Len(d) \/ i = Len(d) + 1
        BY <3>2
      <4> QED BY <2>1, <3>2, <4>1
    <3>4. SubSeq(e, 1, Len(e) - 1) = d
      <4>1. /\ SubSeq(e, 1, Len(e) - 1) \in Seq(Nat) /\ Len(SubSeq(e, 1, Len(e) - 1)) = Len(d)
            /\ \A i \in 1..Len(d) : SubSeq(e, 1, Len(e) - 1)[i] = d[i]
        BY <3>2
      <4> QED BY <4>1, SeqEqual
    <3>5. drawn'[t] = e
      BY <1>4, <2>1, <2>2, <3>1
    <3>6. Told(t)' = SubSeq(e, 1, Len(e) - 1)
      BY <1>2, <1>4, <2>2, <3>5 DEF Told
    <3>7. e[Len(e)] = snapshot /\ Len(e) > 0
      BY <3>2
    <3> QED BY <1>4, <2>1, <3>3, <3>4, <3>5, <3>6, <3>7
  <2>3. CASE ~(fresh /\ HasPoint(t, snapshot))
    <3>1. drawn'[t] = d
      BY <1>4, <2>1, <2>3
    <3>2. Told(t)' = d
      BY <1>2, <1>4, <2>3, <3>1 DEF Told
    <3> QED BY <1>4, <2>1, <2>3, <3>1, <3>2
  <2> QED BY <2>2, <2>3
<1>6. DrawnTypes'
  <2>1. drawn' \in [Trends -> Seq(Nat)]
    BY <1>2, <1>5
  <2>2. effectDue' => \A t \in Trends :
           HasPoint(t, shown)' => Len(drawn'[t]) > 0 /\ drawn'[t][Len(drawn'[t])] = shown'
    BY <1>2, <1>4, <1>5
  <2> QED BY <1>1, <1>2, <1>3, <1>5, <2>1, <2>2 DEF DrawnTypes
<1>7. CardTypes'
  BY <1>1, <1>2 DEF CardTypes
<1> QED BY <1>2, <1>5, <1>6, <1>7, SameTold

\* The effect tells of one more render: the trends that have a point of it roll on, the
\* delta of a metric looks back to its reference, and the reference follows if the metric
\* is positive.
LEMMA EffectTells ==
    ASSUME Telling, Effect
    PROVE  Telling'
<1>1. DrawnTypes /\ CardTypes /\ References /\ TrendIsTheLastRenders /\ DeltasAreOfRenders
  BY DEF Telling
<1>2. /\ collected' = collected /\ positive' = positive /\ stream' = stream /\ has' = has
      /\ renderDue' = TRUE /\ effectDue' = FALSE /\ effectDue = TRUE /\ shown' = shown
      /\ fresh' = fresh /\ drawn' = drawn
      /\ trend' = [t \in Trends |-> IF HasPoint(t, shown) THEN Roll(trend[t], shown) ELSE trend[t]]
  BY <1>1 DEF Effect, server, network, DrawnTypes
<1>3. shown \in Nat /\ shown <= collected /\ collected \in Nat
  BY <1>1 DEF DrawnTypes
<1>4. ASSUME NEW t \in Trends
      PROVE  /\ Told(t) \in Seq(Nat)
             /\ Told(t)' = IF HasPoint(t, shown) THEN Append(Told(t), shown) ELSE Told(t)
  <2>1. Told(t)' = drawn[t]
    BY <1>2 DEF Told
  <2> QED BY <1>1, <1>2, <2>1, ToldIs
<1>5. PICK s \in Seq(Nat), n \in Nat :
          /\ s = Renders /\ n = Len(s) /\ Renders' = Append(s, shown)
          /\ \A i \in 1..n : s[i] \in Nat /\ s[i] <= collected
  <2>1. "cpu" \in Trends
    BY DEF Trends
  <2>2. HasPoint("cpu", shown)
    BY ViewAssumption DEF HasPoint
  <2> QED BY <1>1, <1>4, <2>1, <2>2, RendersAre DEF Renders
<1>6. PICK r \in Seq(Nat) :
          /\ Renders' = r /\ Len(r) = n + 1 /\ r[n + 1] = shown /\ \A i \in 1..n : r[i] = s[i]
  BY <1>3, <1>5
<1>7. ASSUME NEW m \in Metrics
      PROVE  /\ Before(m)' = Seen(m) /\ Seen(m) \subseteq 1..n
             /\ shown \in positive[m] => Seen(m)' = Seen(m) \cup {n + 1}
             /\ shown \notin positive[m] => Seen(m)' = Seen(m)
  <2>1. \A i \in 1..n + 1 : i \in 1..n \/ i = n + 1
    OBVIOUS
  <2>2. 1..n \subseteq 1..n + 1 /\ n + 1 \in 1..n + 1 /\ (n + 1) - 1 = n
    OBVIOUS
  <2>3. Before(m)' = Seen(m) /\ Seen(m) \subseteq 1..n
    BY <1>2, <1>5, <1>6, <2>2 DEF Before, Seen
  <2>4. Seen(m)' = {i \in 1..n + 1 : r[i] \in positive[m]}
    BY <1>2, <1>6 DEF Seen
  <2>5. Seen(m) = {i \in 1..n : r[i] \in positive[m]}
    BY <1>5, <1>6 DEF Seen
  <2> QED BY <1>6, <2>1, <2>2, <2>3, <2>4, <2>5
<1>8. ASSUME NEW m \in Metrics
      PROVE  /\ prevRef[m] \in Nat
             /\ Seen(m) # {} <=> prevRef[m] > 0
             /\ Seen(m) # {} => \E i \in Seen(m) : prevRef[m] = s[i] /\ \A j \in Seen(m) : j <= i
             /\ prevRef[m] <= collected
  <2>1. prevRef[m] \in Nat /\ \A i \in Seen(m) : s[i] \in Nat /\ s[i] > 0 /\ s[i] <= collected
    BY <1>1, <1>5 DEF CardTypes, Seen
  <2>2. CASE Seen(m) = {} /\ prevRef[m] = 0
    BY <1>3, <2>1, <2>2
  <2>3. CASE \E i \in Seen(m) : prevRef[m] = s[i] /\ \A j \in Seen(m) : j <= i
    BY <2>1, <2>3
  <2> QED BY <1>1, <1>5, <2>2, <2>3 DEF References
<1>9. ASSUME NEW m \in Metrics
      PROVE  /\ deltas'[m] = IF prevRef[m] > 0 /\ (m \in ZeroShows \/ shown \in positive[m])
                             THEN [of |-> shown, against |-> prevRef[m]] ELSE Undefined
             /\ prevRef'[m] = IF shown \in positive[m] THEN shown ELSE prevRef[m]
  BY DEF Effect, DeltaAndRef
<1>10. References'
  <2>1. ASSUME NEW m \in Metrics
        PROVE  \/ Seen(m)' = {} /\ prevRef'[m] = 0
               \/ \E i \in Seen(m)' : prevRef'[m] = r[i] /\ \A j \in Seen(m)' : j <= i
    <3>1. CASE shown \in positive[m]
      <4>1. \A j \in Seen(m)' : j <= n + 1
        BY <1>7, <3>1
      <4>2. n + 1 \in Seen(m)' /\ prevRef'[m] = r[n + 1]
        BY <1>6, <1>7, <1>9, <3>1
      <4> QED BY <4>1, <4>2
    <3>2. CASE shown \notin positive[m]
      <4>1. Seen(m)' = Seen(m) /\ prevRef'[m] = prevRef[m] /\ \A i \in Seen(m) : r[i] = s[i]
        BY <1>6, <1>7, <1>9, <3>2
      <4>2. \/ Seen(m) = {} /\ prevRef[m] = 0
            \/ \E i \in Seen(m) : prevRef[m] = s[i] /\ \A j \in Seen(m) : j <= i
        BY <1>1, <1>5 DEF References
      <4> QED BY <4>1, <4>2
    <3> QED BY <3>1, <3>2
  <2> QED BY <1>6, <2>1 DEF References
<1>11. DeltasAreOfRenders'
  <2>1. ASSUME NEW m \in Metrics PROVE DeltaTells(m)'
    <3>1. Before(m)' = Seen(m) /\ \A i \in Seen(m) : r[i] = s[i]
      BY <1>6, <1>7
    <3>2. Undefined = [of |-> 0, against |-> 0]
      BY DEF Undefined
    <3>3. prevRef[m] > 0 => [of |-> shown, against |-> prevRef[m]] # Undefined
      BY <1>8, <3>2
    <3>4. deltas'[m] # Undefined <=> prevRef[m] > 0 /\ (m \in ZeroShows \/ shown \in positive[m])
      BY <1>9, <3>3
    <3>5. deltas'[m] # Undefined => deltas'[m].of = shown /\ deltas'[m].against = prevRef[m]
      <4>1. deltas'[m] # Undefined => deltas'[m] = [of |-> shown, against |-> prevRef[m]]
        BY <1>9
      <4> QED BY <4>1
    <3>6. deltas'[m] # Undefined <=> Seen(m) # {} /\ (m \in ZeroShows \/ shown \in positive[m])
      BY <1>8, <3>4
    <3>7. deltas'[m] # Undefined =>
             \E i \in Seen(m) : deltas'[m].against = r[i] /\ \A j \in Seen(m) : j <= i
      BY <1>8, <3>1, <3>4, <3>5
    <3> QED BY <1>2, <1>6, <3>1, <3>5, <3>6, <3>7 DEF DeltaTells
  <2> QED BY <2>1, DeltasTell
<1>12. TrendIsTheLastRenders'
  <2>1. Zeros \in Seq(Nat)
    BY ViewAssumption DEF Zeros
  <2>2. ASSUME NEW t \in Trends PROVE trend'[t] = LastN(Zeros \o Told(t)', HistorySize)
    <3>1. PICK d \in Seq(Nat) :
              /\ d = Told(t) /\ Told(t)' = IF HasPoint(t, shown) THEN Append(d, shown) ELSE d
      BY <1>4
    <3>2. trend[t] = LastN(Zeros \o d, HistorySize)
      BY <1>1, <3>1 DEF TrendIsTheLastRenders, Zeros
    <3>3. Zeros \o d \in Seq(Nat) /\ Zeros \o Append(d, shown) = Append(Zeros \o d, shown)
      BY <1>3, <2>1
    <3>4. Roll(LastN(Zeros \o d, HistorySize), shown) = LastN(Append(Zeros \o d, shown), HistorySize)
      BY <1>3, <3>3, RollIs
    <3>5. trend'[t] = IF HasPoint(t, shown) THEN Roll(trend[t], shown) ELSE trend[t]
      BY <1>2
    <3> QED BY <3>1, <3>2, <3>3, <3>4, <3>5
  <2> QED BY <2>2 DEF TrendIsTheLastRenders, Zeros
<1>13. DrawnTypes'
  BY <1>1, <1>2 DEF DrawnTypes
<1>14. CardTypes'
  <2>1. prevRef' \in [Metrics -> Nat]
    <3>1. prevRef' = [m \in Metrics |-> IF shown \in positive[m] THEN shown ELSE prevRef[m]]
      BY DEF Effect, DeltaAndRef
    <3> QED BY <1>1, <1>3, <3>1 DEF CardTypes
  <2>2. deltas' \in [Metrics -> [of : Nat, against : Nat]]
        /\ \A m \in Metrics : deltas'[m].of <= collected /\ deltas'[m].against <= collected
    <3>1. /\ Undefined \in [of : Nat, against : Nat]
          /\ Undefined.of <= collected /\ Undefined.against <= collected
      BY <1>3 DEF Undefined
    <3>2. ASSUME NEW m \in Metrics
          PROVE  /\ deltas'[m] \in [of : Nat, against : Nat]
                 /\ deltas'[m].of <= collected /\ deltas'[m].against <= collected
      <4>1. CASE prevRef[m] > 0 /\ (m \in ZeroShows \/ shown \in positive[m])
        <5>1. deltas'[m] = [of |-> shown, against |-> prevRef[m]]
          BY <1>9, <4>1
        <5>2. deltas'[m].of = shown /\ deltas'[m].against = prevRef[m]
          BY <5>1
        <5> QED BY <1>3, <1>8, <5>1, <5>2
      <4>2. CASE ~(prevRef[m] > 0 /\ (m \in ZeroShows \/ shown \in positive[m]))
        BY <1>9, <3>1, <4>2
      <4> QED BY <4>1, <4>2
    <3>3. \E f : deltas' = [m \in Metrics |-> f[m]]
      <4>1. deltas' = [m \in Metrics |->
                     IF prevRef[m] > 0 /\ (m \in ZeroShows \/ shown \in positive[m])
                     THEN [of |-> shown, against |-> prevRef[m]] ELSE Undefined]
        BY DEF Effect, DeltaAndRef
      <4>2. deltas' = [m \in Metrics |-> deltas'[m]]
        BY <4>1
      <4> QED BY <4>2
    <3> QED BY <3>2, <3>3
  <2> QED BY <1>1, <1>2, <2>1, <2>2 DEF CardTypes
<1> QED BY <1>10, <1>11, <1>12, <1>13, <1>14 DEF Telling

\* Every step: one that is not of the above changes nothing that is told.
LEMMA NextTells == RInv /\ [Next]_vars => RInv'
<1> SUFFICES ASSUME RInv, [Next]_vars PROVE RInv'
  OBVIOUS
<1>1. VInv' /\ Telling
  BY NextKeeps DEF RInv
<1>2. /\ snapshot \in Nat /\ snapshot <= collected /\ DrawnTypes /\ CardTypes
      /\ stream \in {"down", "greeted", "up"} /\ renderDue \in BOOLEAN /\ fresh \in BOOLEAN
  BY DEF RInv, VInv, Counted, Bounded, Telling, DrawnTypes
<1>3. ASSUME UNCHANGED <<collected, positive, has, effectDue, shown, drawn, cards>>,
             stream' \in {"down", "greeted", "up"}, renderDue' \in BOOLEAN, fresh' \in BOOLEAN
      PROVE  Telling'
  <2>1. /\ collected' = collected /\ positive' = positive /\ effectDue' = effectDue /\ has' = has
        /\ shown' = shown /\ trend' = trend /\ prevRef' = prevRef /\ deltas' = deltas /\ drawn' = drawn
    BY <1>3 DEF cards
  <2>2. \A t \in Trends : (HasPoint(t, shown)' <=> HasPoint(t, shown)) /\ Told(t)' = Told(t)
    BY <2>1 DEF Told, HasPoint
  <2>3. DrawnTypes' /\ CardTypes'
    BY <1>2, <1>3, <2>1, <2>2 DEF DrawnTypes, CardTypes
  <2> QED BY <1>1, <2>1, <2>2, <2>3, SameTold
<1>4. CASE Poll
  <2>1. Collects /\ UNCHANGED <<shown, cards, drawn, fresh, effectDue, renderDue, stream>>
    BY <1>4 DEF Poll, network, page
  <2> QED BY <1>1, <1>2, <2>1, CollectTells DEF RInv
<1>5. CASE ServeCurrent
  <2>1. UNCHANGED <<shown, cards, drawn, fresh, effectDue, renderDue, stream>>
    BY <1>5 DEF ServeCurrent, page
  <2>2. CASE cached > 0
    <3>1. UNCHANGED <<collected, positive, has>>
      BY <1>5, <2>2 DEF ServeCurrent
    <3> QED BY <1>1, <1>2, <1>3, <2>1, <3>1 DEF RInv
  <2>3. CASE ~(cached > 0)
    <3>1. Collects
      BY <1>5, <2>3 DEF ServeCurrent
    <3> QED BY <1>1, <1>2, <2>1, <3>1, CollectTells DEF RInv
  <2> QED BY <2>2, <2>3
<1>6. CASE Effect
  BY <1>1, <1>6, EffectTells DEF RInv
<1>7. CASE Render
  BY <1>1, <1>2, <1>7, RenderTells DEF RInv
<1>8. CASE \/ Send \/ Connected \/ Lost \/ Listen \/ RestAnswer \/ RestFails \/ OtherState
           \/ UNCHANGED vars
  <2>1. UNCHANGED <<collected, positive, has, effectDue, shown, drawn, cards>>
    BY <1>8 DEF Send, Connected, Lost, Listen, RestAnswer, RestFails, OtherState, SetSnapshot,
                vars, server, page
  <2>2. stream' \in {"down", "greeted", "up"} /\ renderDue' \in BOOLEAN /\ fresh' \in BOOLEAN
    BY <1>2, <1>8 DEF Send, Connected, Lost, Listen, RestAnswer, RestFails, OtherState,
                      SetSnapshot, vars, network, page
  <2> QED BY <1>1, <1>3, <2>1, <2>2 DEF RInv
<1> QED BY <1>4, <1>5, <1>6, <1>7, <1>8 DEF Next

\* Numbers up to a bound that are natural, in a sequence or by themselves.
LEMMA InNumbers ==
    /\ \A n \in Nat : n <= MaxSnapshots => n \in Numbers
    /\ \A s \in Seq(Nat) : (\A i \in 1..Len(s) : s[i] <= MaxSnapshots) => s \in Seq(Numbers)
<1>1. \A n \in Nat : n <= MaxSnapshots => n \in Numbers
  BY ViewAssumption DEF Numbers
<1>2. ASSUME NEW s \in Seq(Nat), \A i \in 1..Len(s) : s[i] <= MaxSnapshots
      PROVE  s \in Seq(Numbers)
  <2>1. \A i \in 1..Len(s) : s[i] \in Numbers
    BY <1>1, <1>2
  <2> QED BY <2>1
<1> QED BY <1>1, <1>2

\* The types are a part of it: whatever the page or its cards name was collected.
LEMMA RTypes == RInv => TypeOK
<1> SUFFICES ASSUME RInv PROVE TypeOK
  OBVIOUS
<1>1. Counted /\ Bounded /\ DrawnTypes /\ CardTypes /\ TrendIsTheLastRenders
  BY DEF RInv, VInv, Telling
<1>2. collected \in Nat /\ collected <= MaxSnapshots /\ MaxSnapshots \in Nat
  BY <1>1, ViewAssumption DEF DrawnTypes
<1>3. \A n \in Nat : n <= collected => n <= MaxSnapshots
  BY <1>2
<1>4. cached \in Numbers /\ snapshot \in Numbers /\ shown \in Numbers /\ collected \in Numbers
  <2>1. /\ cached \in Nat /\ cached <= collected /\ snapshot \in Nat /\ snapshot <= collected
        /\ shown \in Nat /\ shown <= collected
    BY <1>1 DEF Counted, Bounded, DrawnTypes
  <2> QED BY <1>2, <1>3, <2>1, InNumbers
<1>5. queue \in Seq(Numbers) /\ wire \in Seq(Numbers)
  <2>1. /\ wire \in Seq(Nat) /\ queue \in Seq(Nat) /\ Len(wire) \in Nat /\ Len(queue) \in Nat
        /\ Len(Ahead) = Len(wire) + Len(queue)
        /\ \A i \in 1..Len(Ahead) : Ahead[i] = IF i <= Len(wire) THEN wire[i]
                                                ELSE queue[i - Len(wire)]
    BY <1>1, AheadIs DEF Counted
  <2>2. \A i \in 1..Len(Ahead) : Ahead[i] <= MaxSnapshots
    <3>1. \A i \in 1..Len(Ahead) : Ahead[i] \in Nat /\ Ahead[i] <= cached
      BY <1>1, AheadIs DEF Bounded
    <3>2. cached \in Nat /\ cached <= collected
      BY <1>1 DEF Counted, Bounded
    <3> QED BY <1>2, <3>1, <3>2
  <2>3. ASSUME NEW i \in 1..Len(wire) PROVE wire[i] <= MaxSnapshots
    <3>1. i \in 1..Len(Ahead) /\ i <= Len(wire)
      BY <2>1
    <3> QED BY <2>1, <2>2, <3>1
  <2>4. ASSUME NEW i \in 1..Len(queue) PROVE queue[i] <= MaxSnapshots
    <3>1. /\ Len(wire) + i \in 1..Len(wire) + Len(queue) /\ ~(Len(wire) + i <= Len(wire))
          /\ (Len(wire) + i) - Len(wire) = i
      BY <2>1
    <3> QED BY <2>1, <2>2, <3>1
  <2> QED BY <2>1, <2>3, <2>4, InNumbers
<1>6. rest.at \in {"asked", "answered", "done"} /\ rest.number \in Numbers
  <2>1. /\ rest.at \in {"asked", "answered", "done"} /\ rest.number \in Nat
        /\ rest.number <= collected
    BY <1>1 DEF Counted, Bounded
  <2> QED BY <1>2, <1>3, <2>1, InNumbers
<1>7. positive \in [Metrics -> SUBSET Numbers]
  <2>1. \A m \in Metrics : positive[m] \in SUBSET Numbers
    BY <1>1, <1>2, <1>3, InNumbers DEF CardTypes
  <2> QED BY <1>1, <2>1 DEF CardTypes
<1>8. \A t \in Trends : \A i \in 1..Len(Told(t)) : Told(t)[i] \in Numbers
  <2>1. \A t \in Trends : \A i \in 1..Len(Told(t)) : Told(t)[i] \in Nat /\ Told(t)[i] <= collected
    BY <1>1, ToldIs
  <2> QED BY <1>2, <1>3, <2>1, InNumbers
<1>9. ASSUME NEW t \in Trends PROVE trend[t] \in Seq(Numbers) /\ Len(trend[t]) <= HistorySize
  <2>0. PICK d \in Seq(Nat) : d = Told(t)
    BY <1>1, ToldIs
  <2> DEFINE s == Zeros \o d
  <2>1. HistorySize \in Nat /\ HistorySize > 0 /\ MadeUp \in Nat
    BY ViewAssumption
  <2>2. Zeros \in Seq(Nat) /\ Len(Zeros) = MadeUp /\ \A i \in 1..MadeUp : Zeros[i] = 0
    BY <2>1 DEF Zeros
  <2>3. d \in Seq(Nat) /\ Len(d) \in Nat
    BY <2>0
  <2>4. /\ s \in Seq(Nat) /\ Len(s) = MadeUp + Len(d)
        /\ \A i \in 1..MadeUp + Len(d) : s[i] = IF i <= MadeUp THEN Zeros[i] ELSE d[i - MadeUp]
    BY <2>2, <2>3, Concatenation
  <2>5. \A i \in 1..Len(s) : s[i] <= MaxSnapshots
    <3>1. ASSUME NEW i \in 1..Len(s) PROVE s[i] <= MaxSnapshots
      <4>1. CASE i <= MadeUp
        <5>1. i \in 1..MadeUp /\ i \in 1..MadeUp + Len(d)
          BY <2>1, <2>3, <2>4, <4>1
        <5> QED BY <1>2, <2>2, <2>4, <4>1, <5>1
      <4>2. CASE ~(i <= MadeUp)
        <5>1. i - MadeUp \in 1..Len(d) /\ i \in 1..MadeUp + Len(d)
          BY <2>1, <2>3, <2>4, <4>2
        <5>2. s[i] \in Numbers
          BY <1>8, <2>0, <2>4, <4>2, <5>1
        <5> QED BY <1>2, <5>2 DEF Numbers
      <4> QED BY <4>1, <4>2
    <3> QED BY <3>1
  <2> HIDE DEF s
  <2>6. /\ LastN(s, HistorySize) \in Seq(Nat) /\ Len(LastN(s, HistorySize)) <= HistorySize
        /\ \A i \in 1..Len(LastN(s, HistorySize)) : LastN(s, HistorySize)[i] <= MaxSnapshots
    <3>1. Len(s) \in Nat
      BY <2>1, <2>3, <2>4
    <3>2. CASE Len(s) > HistorySize
      <4>1. /\ LastN(s, HistorySize) \in Seq(Nat) /\ Len(LastN(s, HistorySize)) = HistorySize
            /\ \A i \in 1..HistorySize : LastN(s, HistorySize)[i] = s[i + (Len(s) - HistorySize)]
        BY <2>1, <2>4, <3>2, LastNIs
      <4>2. \A i \in 1..HistorySize : i + (Len(s) - HistorySize) \in 1..Len(s)
        BY <2>1, <3>1, <3>2
      <4>3. \A i \in 1..HistorySize : s[i + (Len(s) - HistorySize)] <= MaxSnapshots
        BY <2>5, <4>2
      <4>4. \A i \in 1..HistorySize : LastN(s, HistorySize)[i] <= MaxSnapshots
        BY <4>1, <4>3
      <4> QED BY <2>1, <4>1, <4>4
    <3>3. CASE Len(s) <= HistorySize
      <4>1. /\ LastN(s, HistorySize) \in Seq(Nat) /\ Len(LastN(s, HistorySize)) = Len(s)
            /\ \A i \in 1..Len(s) : LastN(s, HistorySize)[i] = s[i]
        BY <2>1, <2>4, <3>3, LastNIs
      <4> QED BY <2>5, <3>3, <4>1
    <3> QED BY <2>1, <3>1, <3>2, <3>3
  <2>7. trend[t] = LastN(s, HistorySize)
    BY <1>1, <2>0 DEF TrendIsTheLastRenders, s, Zeros
  <2> QED BY <2>6, <2>7, InNumbers
<1>10. prevRef \in [Metrics -> Numbers]
  <2>1. \A m \in Metrics : prevRef[m] \in Numbers
    <3>1. ASSUME NEW m \in Metrics PROVE prevRef[m] \in Numbers
      <4>1. CASE prevRef[m] = 0
        BY <1>2, <4>1 DEF Numbers
      <4>2. CASE \E i \in Seen(m) : prevRef[m] = Renders[i]
        <5>1. \A i \in 1..Len(Renders) : Renders[i] \in Numbers
          BY <1>8 DEF Renders, Trends
        <5> QED BY <4>2, <5>1 DEF Seen
      <4> QED BY <4>1, <4>2 DEF RInv, Telling, References
    <3> QED BY <3>1
  <2> QED BY <1>1, <2>1 DEF CardTypes
<1>11. deltas \in [Metrics -> [of : Numbers, against : Numbers]]
  <2>1. ASSUME NEW m \in Metrics PROVE deltas[m] \in [of : Numbers, against : Numbers]
    <3>1. deltas[m] \in [of : Nat, against : Nat] /\ deltas[m].of <= collected /\ deltas[m].against <= collected
      BY <1>1 DEF CardTypes
    <3>2. deltas[m].of \in Nat /\ deltas[m].against \in Nat
      BY <3>1
    <3>3. deltas[m].of \in Numbers /\ deltas[m].against \in Numbers
      BY <1>2, <1>3, <3>1, <3>2, InNumbers
    <3> QED BY <3>1, <3>3
  <2> QED BY <1>1, <2>1 DEF CardTypes
<1>12. stream \in {"down", "greeted", "up"} /\ {renderDue, fresh, effectDue} \subseteq BOOLEAN
  BY <1>1 DEF DrawnTypes
<1>13. has \in [Optional -> SUBSET Numbers]
  <2>1. \A t \in Optional : has[t] \in SUBSET Numbers
    BY <1>1, <1>2, <1>3, InNumbers DEF DrawnTypes
  <2> QED BY <1>1, <2>1 DEF DrawnTypes
<1> QED BY <1>4, <1>5, <1>6, <1>7, <1>9, <1>10, <1>11, <1>12, <1>13 DEF TypeOK

\* What the overview cards tell of the past was rendered (OverviewCards, the effect on the
\* snapshot): each trend is the last snapshots that were rendered with a point for it, in
\* their order and once each, whatever else makes the page render and whichever snapshots
\* lack a disk or a GPU; a delta compares the render with the latest one before it in
\* which the metric was positive.
THEOREM RendersAlwaysTold == Spec => []RendersAreTold
<1>1. RInv => RendersAreTold
  BY RTypes DEF RInv, Telling, RendersAreTold
<1> QED BY <1>1, InitTold, NextTells, PTL DEF Spec

-----------------------------------------------------------------------------
(* Links: by the beginning of the label.                                   *)

\* a label and a location of the bench
LinkInv == label \in LinkPart!Labels /\ location \in LinkPart!Locations

\* The labels and locations are those of the bench.
LEMMA LinkTypes ==
    /\ LinkPart!Init => LinkInv
    /\ LinkInv /\ [LinkPart!Next]_(LinkPart!vars) => LinkInv'
BY DEF LinkPart!Init, LinkPart!Next, LinkPart!vars, LinkInv

\* What a label begins with decides the test that takes it, and so the address.
LEMMA LinkLeads == LinkInv => LinkPart!LeadsWhereItSays
<1> SUFFICES ASSUME LinkInv, LinkPart!Linked PROVE LinkPart!LeadsWhereItSays
  BY DEF LinkPart!LeadsWhereItSays
<1> DEFINE t == [label EXCEPT !.blanks = FALSE]
<1>1. /\ label.start \in LinkPart!Starts /\ location.host = PageHost
      /\ DOMAIN label = {"start", "blanks", "scheme", "port"}
  BY DEF LinkInv, LinkPart!Labels, LinkPart!Locations
<1>2. label.start \notin {"none", "empty"}
  BY <1>1 DEF LinkPart!Linked, LinkPart!ExtractContainerURL, LinkPart!Trim
<1>3. LinkPart!ExtractContainerURL = t
  BY <1>2 DEF LinkPart!ExtractContainerURL, LinkPart!Trim
<1>4. /\ LinkPart!Trim(t) = t /\ ~t.blanks
      /\ t.start = label.start /\ t.scheme = label.scheme /\ t.port = label.port
  BY <1>1 DEF LinkPart!Trim
<1> HIDE DEF t
<1>5. \A p : LinkPart!StartsWith(t, p) <=> t.start = p \/ (p = "/" /\ t.start = "//")
  BY <1>4 DEF LinkPart!StartsWith
<1>6. LinkPart!Link = LinkPart!FormatContainerUrl(t)
  BY <1>3 DEF LinkPart!Link
<1> USE DEF LinkPart!LeadsWhereItSays, LinkPart!URL
<1>7. CASE label.start = "scheme"
  <2>1. LinkPart!Link = LinkPart!URL(t.scheme, Host, t.port, Path)
    BY <1>4, <1>5, <1>6, <1>7 DEF LinkPart!FormatContainerUrl
  <2> QED BY <1>4, <1>7, <2>1
<1>8. CASE label.start = "//"
  <2>1. LinkPart!Link = LinkPart!URL(location.scheme, Host, t.port, Path)
    BY <1>4, <1>5, <1>6, <1>8 DEF LinkPart!FormatContainerUrl
  <2> QED BY <1>4, <1>8, <2>1
<1>9. CASE label.start = ":"
  <2>1. LinkPart!Link = LinkPart!URL(location.scheme, location.host, t.port, Path)
    BY <1>4, <1>5, <1>6, <1>9 DEF LinkPart!FormatContainerUrl
  <2> QED BY <1>1, <1>4, <1>9, <2>1
<1>10. CASE label.start = "/"
  <2>1. LinkPart!Link = LinkPart!AtOrigin(t)
    BY <1>4, <1>5, <1>6, <1>10 DEF LinkPart!FormatContainerUrl
  <2> QED BY <1>1, <1>4, <1>10, <2>1 DEF LinkPart!AtOrigin
<1>11. CASE label.start = "host"
  <2>1. LinkPart!Link = LinkPart!URL("http", Host, t.port, Path)
    BY <1>4, <1>5, <1>6, <1>11 DEF LinkPart!FormatContainerUrl
  <2> QED BY <1>4, <1>11, <2>1
<1> QED BY <1>1, <1>2, <1>7, <1>8, <1>9, <1>10, <1>11 DEF LinkPart!Starts

\* Of the links' part.
LEMMA LinksAlone ==
    /\ PageInit => LinkPart!Init
    /\ [PageNext]_<<part, others, vars, tableVars, scales, badgeVars, linkVars>>
          => [LinkPart!Next]_(LinkPart!vars)
BY DEF PageInit, PageNext, linkVars, LinkPart!vars

\* Whatever form a label has, its link leads where the label says.
THEOREM LinksAlwaysLead == PageSpec => []LeadsWhereItSays
<1>1. PageInit => LinkInv
  BY LinkTypes, LinksAlone
<1>2. LinkInv /\ [PageNext]_<<part, others, vars, tableVars, scales, badgeVars, linkVars>> => LinkInv'
  BY LinkTypes, LinksAlone
<1>3. LinkInv => LeadsWhereItSays
  BY LinkLeads DEF LeadsWhereItSays
<1> QED BY <1>1, <1>2, <1>3, PTL DEF PageSpec

-----------------------------------------------------------------------------
(* Delta: a change is between two readings, the first one positive.        *)

\* the cards with a badge
Cards == {"cpu", "net"}

\* what a change is, of a reading against one before
ChangeOf(m) ==
    /\ value[m] \in Nat /\ deltaRef[m] \in Nat /\ against[m] \in Nat
    /\ change[m] # BadgePart!Undefined =>
          /\ against[m] > 0
          /\ change[m] = [num |-> value[m] - against[m],
                          den |-> IF m = "cpu" THEN 1000 ELSE against[m]]

\* each change is one of two readings
BadgeInv ==
    /\ {value, deltaRef, against} \subseteq [Cards -> Nat]
    /\ \A m \in Cards : ChangeOf(m)

\* Before the first render there is no change.
LEMMA BadgeInit == BadgePart!Init => BadgeInv
BY DEF BadgePart!Init, BadgePart!Shown, BadgePart!Undefined, BadgeInv, Cards, ChangeOf

\* A change of two numbers is none, or has the first one's as its share.
LEMMA ChangeIs ==
    ASSUME NEW m \in Cards, NEW new \in Nat, NEW old \in Nat,
           BadgePart!Change(m, new, old) # BadgePart!Undefined
    PROVE  /\ old > 0
           /\ BadgePart!Change(m, new, old) =
                 [num |-> new - old, den |-> IF m = "cpu" THEN 1000 ELSE old]
<1>1. old # 0
  BY DEF BadgePart!Change, BadgePart!Undefined
<1>2. old > 0 /\ (m = "cpu" \/ m = "net")
  BY <1>1 DEF Cards
<1>3. CASE m = "cpu"
  BY <1>1, <1>2, <1>3 DEF BadgePart!Change
<1>4. CASE m = "net"
  BY <1>1, <1>2, <1>4 DEF BadgePart!Change, BadgePart!Undefined
<1> QED BY <1>2, <1>3, <1>4

\* Each render.
LEMMA BadgeStep == BadgeInv /\ [BadgePart!Next]_(BadgePart!vars) => BadgeInv'
<1> SUFFICES ASSUME BadgeInv, [BadgePart!Next]_(BadgePart!vars) PROVE BadgeInv'
  OBVIOUS
<1>1. CASE UNCHANGED BadgePart!vars
  BY <1>1 DEF BadgePart!vars, BadgeInv, ChangeOf
<1>2. ASSUME NEW cpu \in Percents, NEW net \in Rates, BadgePart!Show(cpu, net) PROVE BadgeInv'
  <2>1. cpu \in Nat /\ net \in Nat
    BY PartAssumptions DEF BadgePart!DeltaAssumption
  <2> DEFINE new == [m \in Cards |-> IF m = "cpu" THEN cpu ELSE net]
  <2>2. new \in [Cards -> Nat]
    BY <2>1
  <2>3. /\ value' = new /\ against' = deltaRef
        /\ change' = [m \in Cards |-> BadgePart!Change(m, new[m], deltaRef[m])]
        /\ deltaRef' = [m \in Cards |-> IF new[m] > 0 THEN new[m] ELSE deltaRef[m]]
    BY <1>2 DEF BadgePart!Show, BadgePart!Shown, Cards
  <2> HIDE DEF new
  <2>4. {value', deltaRef', against'} \subseteq [Cards -> Nat]
    BY <2>2, <2>3 DEF BadgeInv
  <2>5. ASSUME NEW m \in Cards PROVE ChangeOf(m)'
    <3>1. value'[m] = new[m] /\ against'[m] = deltaRef[m] /\ new[m] \in Nat /\ deltaRef[m] \in Nat
      BY <2>2, <2>3 DEF BadgeInv
    <3>2. change'[m] = BadgePart!Change(m, new[m], deltaRef[m])
      BY <2>3
    <3> QED BY <2>4, <3>1, <3>2, ChangeIs DEF ChangeOf
  <2> QED BY <2>4, <2>5 DEF BadgeInv
<1> QED BY <1>1, <1>2 DEF BadgePart!Next

\* Rounding a share to the nearest.
LEMMA NearestShare ==
    ASSUME NEW n \in Nat, NEW d \in Nat, d > 0,
           NEW q \in Int, q = (2000 * n + d) \div (2 * d)
    PROVE  /\ q \in Nat /\ q * d \in Nat /\ 2 * (q * d) <= 2000 * n + d /\ 2000 * n < 2 * (q * d) + d
           /\ q > 0 => n > 0
<1>1. PICK a \in Nat : a = 2000 * n + d
  OBVIOUS
<1>2. PICK b \in Nat : b = 2 * d
  OBVIOUS
<1>3. q = a \div b /\ b > 0
  BY <1>1, <1>2
<1>4. q \in Nat /\ b * q <= a /\ a < b * q + b
  BY <1>3
<1>5. PICK c \in Int : c = q * d
  BY <1>4
<1>6. b * q = 2 * c
  BY <1>2, <1>4, <1>5
<1>7. c \in Nat /\ (q > 0 => c >= d)
  BY <1>4, <1>5
<1> QED BY <1>1, <1>2, <1>4, <1>5, <1>6, <1>7

\* What a badge writes of a change.
LEMMA WrittenIs ==
    ASSUME NEW n \in Int, NEW d \in Nat, d > 0,
           NEW w \in Int, w = BadgePart!Written([num |-> n, den |-> d])
    PROVE  /\ 2 * (w * d - 1000 * n) <= d /\ -2 * (w * d - 1000 * n) <= d
           /\ w > 0 => n > 0
           /\ w < 0 => n < 0
<1>1. CASE n >= 0
  <2>1. w = (2000 * n + d) \div (2 * d)
    BY <1>1 DEF BadgePart!Written
  <2>2. n \in Nat
    BY <1>1
  <2>3. w \in Nat /\ w * d \in Nat /\ 2 * (w * d) <= 2000 * n + d /\ 2000 * n < 2 * (w * d) + d /\ (w > 0 => n > 0)
    BY <2>1, <2>2, NearestShare
  <2>4. PICK c \in Nat : c = w * d
    BY <2>3
  <2>5. 2 * c <= 2000 * n + d /\ 2000 * n < 2 * c + d
    BY <2>3, <2>4
  <2>6. 2 * (c - 1000 * n) <= d /\ -2 * (c - 1000 * n) <= d
    BY <2>5
  <2>7. ~(w < 0)
    BY <2>3
  <2> QED BY <2>3, <2>4, <2>6, <2>7
<1>2. CASE n < 0
  <2> DEFINE q == (2000 * (-n) + d) \div (2 * d)
  <2>1. w = -q /\ -n \in Nat
    BY <1>2 DEF BadgePart!Written
  <2>2. 2 * d \in Nat /\ 2 * d > 0 /\ 2000 * (-n) + d \in Int
    OBVIOUS
  <2>3. q \in Int
    BY <2>2
  <2> HIDE DEF q
  <2>4. q = (2000 * (-n) + d) \div (2 * d)
    BY DEF q
  <2>5. q \in Nat /\ q * d \in Nat /\ 2 * (q * d) <= 2000 * (-n) + d /\ 2000 * (-n) < 2 * (q * d) + d /\ (q > 0 => -n > 0)
    BY <2>1, <2>3, <2>4, NearestShare
  <2>6. PICK c \in Nat : c = q * d
    BY <2>5
  <2>7. w * d = -c
    BY <2>1, <2>5, <2>6
  <2> QED BY <1>2, <2>1, <2>5, <2>6, <2>7
<1> QED BY <1>1, <1>2

\* It is a number.
LEMMA WrittenIsNumber ==
    ASSUME NEW n \in Int, NEW d \in Nat, d > 0
    PROVE  BadgePart!Written([num |-> n, den |-> d]) \in Int
<1>1. 2 * d \in Nat /\ 2 * d > 0 /\ 2000 * (-n) + d \in Int /\ 2000 * n + d \in Int
  OBVIOUS
<1>2. (2000 * (-n) + d) \div (2 * d) \in Int /\ (2000 * n + d) \div (2 * d) \in Int
  BY <1>1
<1> QED BY <1>2 DEF BadgePart!Written

\* what a badge shows of the change of a card
BadgeRight(m, d) ==
    LET off == BadgePart!Written(d) * d.den - 1000 * d.num
    IN  /\ 2 * off <= d.den /\ -2 * off <= d.den
        /\ BadgePart!Written(d) > 0 => BadgePart!Direction(d) = "up"
        /\ BadgePart!Written(d) < 0 => BadgePart!Direction(d) = "down"
        /\ BadgePart!BadgeColour(m, d) = "muted" <=> BadgePart!LineColour(m, d) = "primary"
        /\ BadgePart!LineColour(m, d) \in {"primary", BadgePart!BadgeColour(m, d)}
        /\ BadgePart!BadgeColour(m, d) = "red" <=>
              IF BadgePart!Inverted(m) THEN value[m] > against[m] ELSE value[m] < against[m]

\* The badge of each card.
LEMMA BadgeOfCard ==
    ASSUME BadgeInv, NEW m \in Cards, change[m] # BadgePart!Undefined
    PROVE  BadgeRight(m, change[m])
<1>0. ChangeOf(m) /\ change[m] # BadgePart!Undefined
  BY DEF BadgeInv
<1>1. PICK v \in Nat : v = value[m]
  BY <1>0 DEF ChangeOf
<1>2. PICK a \in Nat : a = against[m] /\ a > 0
  <2>1. against[m] \in Nat /\ against[m] > 0
    BY <1>0 DEF ChangeOf
  <2> QED BY <2>1
<1>3. PICK n \in Int : n = v - a
  OBVIOUS
<1>4. PICK den \in Nat : den > 0 /\ den = IF m = "cpu" THEN 1000 ELSE a
  BY <1>2
<1>5. change[m] = [num |-> n, den |-> den]
  BY <1>0, <1>1, <1>2, <1>3, <1>4 DEF ChangeOf
<1>6. PICK w \in Int : w = BadgePart!Written(change[m])
  BY <1>4, <1>5, WrittenIsNumber
<1>7. /\ 2 * (w * den - 1000 * n) <= den /\ -2 * (w * den - 1000 * n) <= den
      /\ w > 0 => n > 0
      /\ w < 0 => n < 0
  BY <1>4, <1>5, <1>6, WrittenIs
<1>8. PICK dir \in {"flat", "up", "down"} :
          /\ dir = BadgePart!Direction(change[m])
          /\ (dir = "flat" <=> v = a) /\ (dir = "up" <=> v > a) /\ (dir = "down" <=> v < a)
          /\ (n > 0 => dir = "up") /\ (n < 0 => dir = "down")
  <2>1. BadgePart!Direction(change[m]) = IF n = 0 THEN "flat" ELSE IF n > 0 THEN "up" ELSE "down"
    BY <1>5 DEF BadgePart!Direction
  <2>2. (n = 0 <=> v = a) /\ (n > 0 <=> v > a) /\ (n < 0 <=> v < a) /\ (n = 0 \/ n > 0 \/ n < 0)
    BY <1>3
  <2> QED BY <2>1, <2>2
<1>9. BadgePart!BadgeColour(m, change[m]) =
          IF dir = "flat" THEN "muted" ELSE IF (dir = "up") # (m = "cpu") THEN "green" ELSE "red"
  BY <1>8 DEF BadgePart!BadgeColour, BadgePart!Inverted
<1>10. BadgePart!LineColour(m, change[m]) =
          IF dir = "flat" THEN "primary" ELSE IF (dir = "up") # (m = "cpu") THEN "green" ELSE "red"
  BY <1>8 DEF BadgePart!LineColour, BadgePart!Inverted
<1>11. change[m].den = den /\ change[m].num = n
  BY <1>5
<1>12. /\ w > 0 => dir = "up"
       /\ w < 0 => dir = "down"
  BY <1>7, <1>8
<1>13. BadgePart!BadgeColour(m, change[m]) = "muted" <=> BadgePart!LineColour(m, change[m]) = "primary"
  BY <1>9, <1>10
<1>14. BadgePart!LineColour(m, change[m]) \in {"primary", BadgePart!BadgeColour(m, change[m])}
  BY <1>9, <1>10
<1>15. BadgePart!BadgeColour(m, change[m]) = "red" <=>
          IF m = "cpu" THEN v > a ELSE v < a
  BY <1>1, <1>2, <1>8, <1>9 DEF Cards
<1> QED BY <1>1, <1>2, <1>6, <1>7, <1>8, <1>11, <1>12, <1>13, <1>14, <1>15 DEF BadgeRight, BadgePart!Inverted

\* The badges of all cards.
LEMMA BadgeTells == BadgeInv => BadgePart!BadgeTellsTheChange
BY BadgeOfCard
   DEF BadgeRight, BadgePart!BadgeTellsTheChange, BadgePart!WritesTheChange, BadgePart!ColoursAgree,
       BadgePart!Shown, Cards

-----------------------------------------------------------------------------
(* Meters: the zones are three, their boundaries known.                    *)

\* a percentage is in tenths, and may be negative
MeterInv == percent \in Int

\* It is a number in tenths.
LEMMA MeterTypes ==
    /\ MeterPart!Init => MeterInv
    /\ MeterInv /\ [MeterPart!Next]_percent => MeterInv'
BY PartAssumptions DEF MeterPart!Init, MeterPart!Next, MeterInv, MeterPart!MetersAssumption

\* the widths of those of the first two zones that are in a set
Widths(b, I) == (IF 1 \in I THEN b[2] - b[1] ELSE 0) + (IF 2 \in I THEN b[3] - b[2] ELSE 0)

\* A sum of widths is a recursive function of the set; there is one such function.
LEMMA SumOfWidths ==
    ASSUME NEW b \in [1..4 -> Int], NEW S \in SUBSET {1, 2}
    PROVE  MeterPart!MapThenSumSet(LAMBDA j : MeterPart!Width(b, j), S) = Widths(b, S)
<1> DEFINE w(j) == b[j + 1] - b[j]
           c(I) == CHOOSE x \in I : TRUE
           Step(g) == [I \in SUBSET S |-> IF I = {} THEN 0 ELSE w(c(I)) + g[I \ {c(I)}]]
           h == [I \in SUBSET S |-> Widths(b, I)]
<1>1. MeterPart!MapThenSumSet(LAMBDA j : MeterPart!Width(b, j), S) = (CHOOSE g : g = Step(g))[S]
  BY DEF MeterPart!MapThenSumSet, MeterPart!MapThenFoldSet, MeterPart!Width
<1>2. w(1) \in Int /\ w(2) \in Int
  OBVIOUS
<1>3. \A I \in SUBSET S : I # {} => c(I) \in I
  OBVIOUS
<1>4. \A I : Widths(b, I) = (IF 1 \in I THEN w(1) ELSE 0) + (IF 2 \in I THEN w(2) ELSE 0)
  BY DEF Widths
<1> HIDE DEF w, c
<1>5. ASSUME NEW I \in SUBSET S
      PROVE  Widths(b, I) = IF I = {} THEN 0 ELSE w(c(I)) + Widths(b, I \ {c(I)})
  <2>1. CASE I = {}
    BY <1>4, <2>1
  <2>2. CASE I # {}
    <3>1. c(I) \in I /\ c(I) \in {1, 2} /\ I \subseteq {1, 2}
      BY <1>3, <2>2
    <3>2. CASE c(I) = 1
      <4>1. 1 \in I /\ 1 \notin I \ {c(I)} /\ (2 \in I \ {c(I)} <=> 2 \in I)
        BY <3>1, <3>2
      <4> QED BY <1>2, <1>4, <2>2, <3>2, <4>1
    <3>3. CASE c(I) = 2
      <4>1. 2 \in I /\ 2 \notin I \ {c(I)} /\ (1 \in I \ {c(I)} <=> 1 \in I)
        BY <3>1, <3>3
      <4> QED BY <1>2, <1>4, <2>2, <3>3, <4>1
    <3> QED BY <3>1, <3>2, <3>3
  <2> QED BY <2>1, <2>2
<1>6. \A I \in SUBSET S : h[I] = Widths(b, I) /\ I \ {c(I)} \in SUBSET S
  OBVIOUS
<1>7. h = Step(h)
  <2>1. \A I \in SUBSET S : h[I] = IF I = {} THEN 0 ELSE w(c(I)) + h[I \ {c(I)}]
    BY <1>5, <1>6
  <2>2. h = [I \in SUBSET S |-> h[I]]
    OBVIOUS
  <2> HIDE DEF h
  <2> QED BY <2>1, <2>2
<1> DEFINE g == CHOOSE g : g = Step(g)
<1>8. g = Step(g)
  <2> HIDE DEF h
  <2> QED BY <1>7
<1> HIDE DEF g, h
<1>9. \A I \in SUBSET S : g[I] = IF I = {} THEN 0 ELSE w(c(I)) + g[I \ {c(I)}]
  BY <1>8
<1>10. g[{}] = 0
  BY <1>9
<1>11. \A x \in S : g[{x}] = w(x)
  <2> SUFFICES ASSUME NEW x \in S PROVE g[{x}] = w(x)
    OBVIOUS
  <2>1. {x} \in SUBSET S /\ {x} # {}
    OBVIOUS
  <2>2. c({x}) = x
    BY <1>3, <2>1
  <2>3. {x} \ {c({x})} = {} /\ (x = 1 \/ x = 2)
    BY <2>2
  <2> QED BY <1>2, <1>9, <1>10, <2>1, <2>2, <2>3
<1>12. g[S] = Widths(b, S)
  <2>1. CASE S = {}
    BY <1>4, <1>10, <2>1
  <2>2. CASE S = {1} \/ S = {2}
    BY <1>2, <1>4, <1>11, <2>2
  <2>3. CASE S = {1, 2}
    <3>1. c(S) = 1 \/ c(S) = 2
      BY <1>3, <2>3
    <3>2. g[S] = w(c(S)) + g[S \ {c(S)}]
      BY <1>9, <2>3
    <3>3. S \ {1} = {2} /\ S \ {2} = {1}
      BY <2>3
    <3>4. g[{1}] = w(1) /\ g[{2}] = w(2)
      BY <1>11, <2>3
    <3> QED BY <1>2, <1>4, <2>3, <3>1, <3>2, <3>3, <3>4
  <2>4. S = {} \/ S = {1} \/ S = {2} \/ S = {1, 2}
    OBVIOUS
  <2> QED BY <2>1, <2>2, <2>3, <2>4
<1> QED BY <1>1, <1>12 DEF g

\* The left edges of three zones are the widths before them.
LEMMA LeftEdges ==
    ASSUME NEW b \in [1..4 -> Int]
    PROVE  /\ MeterPart!LeftEdge(b, 1) = 0
           /\ MeterPart!LeftEdge(b, 2) = b[2] - b[1]
           /\ MeterPart!LeftEdge(b, 3) = b[3] - b[1]
<1>1. 1..1 - 1 = {} /\ 1..2 - 1 = {1} /\ 1..3 - 1 = {1, 2}
  OBVIOUS
<1>2. \A S \in SUBSET {1, 2} : MeterPart!MapThenSumSet(LAMBDA j : MeterPart!Width(b, j), S) = Widths(b, S)
  BY SumOfWidths
<1>3. \A i \in 1..3 : 1..i - 1 \in SUBSET {1, 2}
  BY <1>1
<1>4. \A i \in 1..3 : MeterPart!LeftEdge(b, i) = Widths(b, 1..i - 1)
  BY <1>2, <1>3 DEF MeterPart!LeftEdge
<1> QED BY <1>1, <1>4 DEF Widths

\* the boundaries of three zones from 0 to 1000
Thirds == {b \in [1..4 -> Int] : b[1] = 0 /\ b[1] < b[2] /\ b[2] < b[3] /\ b[3] < b[4] /\ b[4] = 1000}

\* The boundaries that the sections give to the meters.
LEMMA ZonesAreThirds == {MeterPart!StorageZones, MeterPart!DiskZones, MeterPart!LoadZones} \subseteq Thirds
BY DEF MeterPart!StorageZones, MeterPart!DiskZones, MeterPart!LoadZones, Thirds

\* The zone that is lit is the one that has the value.
LEMMA LitZone ==
    ASSUME NEW b \in Thirds, NEW v \in Nat, v <= 1000, Len(b) = 4
    PROVE  MeterPart!ActiveIndex(b, v) = IF v < b[2] THEN 1 ELSE IF v < b[3] THEN 2 ELSE 3
<1> DEFINE found == {i \in 1..3 : MeterPart!Contains(b, i, v)}
           z == IF v < b[2] THEN 1 ELSE IF v < b[3] THEN 2 ELSE 3
<1>1. b \in [1..4 -> Int] /\ b[1] = 0 /\ b[1] < b[2] /\ b[2] < b[3] /\ b[3] < b[4] /\ b[4] = 1000
  BY DEF Thirds
<1>2. MeterPart!Zones(b) = 1..3
  BY DEF MeterPart!Zones
<1>3. \A i \in 1..3 : MeterPart!Contains(b, i, v) <=> i = z
  <2>1. MeterPart!Contains(b, 1, v) <=> v >= b[1] /\ v < b[2]
    BY DEF MeterPart!Contains
  <2>2. MeterPart!Contains(b, 2, v) <=> v >= b[2] /\ v < b[3]
    BY DEF MeterPart!Contains
  <2>3. MeterPart!Contains(b, 3, v) <=> v >= b[3] /\ (v < b[4] \/ v <= b[4])
    BY DEF MeterPart!Contains
  <2> QED BY <1>1, <2>1, <2>2, <2>3
<1>4. z \in 1..3
  OBVIOUS
<1> HIDE DEF z
<1>5. found = {z}
  BY <1>3, <1>4
<1>6. MeterPart!ActiveIndex(b, v) = MeterPart!Min({z})
  BY <1>2, <1>5 DEF MeterPart!ActiveIndex
<1>7. MeterPart!Min({z}) = z
  BY <1>4 DEF MeterPart!Min
<1> QED BY <1>6, <1>7 DEF z

\* one zone is lit, and the marker stands on it
MarkerOn(bounds, v) ==
    LET i == MeterPart!ActiveIndex(bounds, v)
    IN  /\ i # 0
        /\ MeterPart!Position(bounds, v) >= MeterPart!LeftEdge(bounds, i)
        /\ MeterPart!Position(bounds, v) <= MeterPart!LeftEdge(bounds, i) + MeterPart!Width(bounds, i)

\* The marker of any value within the span.
LEMMA OnItsZone ==
    ASSUME NEW b \in Thirds, NEW v \in Nat, v <= 1000, Len(b) = 4
    PROVE  MarkerOn(b, v)
<1>1. b \in [1..4 -> Int] /\ b[1] = 0 /\ b[1] < b[2] /\ b[2] < b[3] /\ b[3] < b[4] /\ b[4] = 1000
  BY DEF Thirds
<1>3. MeterPart!Position(b, v) = v
  BY <1>1 DEF MeterPart!Position, MeterPart!Span, MeterPart!Clamp
<1> DEFINE i == MeterPart!ActiveIndex(b, v)
<1>4. i = IF v < b[2] THEN 1 ELSE IF v < b[3] THEN 2 ELSE 3
  BY LitZone
<1> HIDE DEF i
<1>5. i \in 1..3
  BY <1>4
<1>6. MeterPart!LeftEdge(b, i) = b[i]
  BY <1>1, <1>5, LeftEdges
<1>7. MeterPart!Width(b, i) = b[i + 1] - b[i]
  BY DEF MeterPart!Width
<1>8. b[i] <= v /\ v <= b[i] + (b[i + 1] - b[i])
  <2>1. v \in Int /\ v <= 1000 /\ 0 <= v /\ b[1] \in Int /\ b[2] \in Int /\ b[3] \in Int /\ b[4] \in Int
    BY <1>1
  <2>2. CASE v < b[2]
    <3>1. i = 1
      BY <1>4, <2>2
    <3> QED BY <1>1, <2>1, <2>2, <3>1
  <2>3. CASE ~(v < b[2]) /\ v < b[3]
    <3>1. i = 2
      BY <1>4, <2>3
    <3> QED BY <1>1, <2>1, <2>3, <3>1
  <2>4. CASE ~(v < b[2]) /\ ~(v < b[3])
    <3>1. i = 3
      BY <1>4, <2>4
    <3> QED BY <1>1, <2>1, <2>4, <3>1
  <2> QED BY <2>2, <2>3, <2>4
<1> QED BY <1>3, <1>5, <1>6, <1>7, <1>8 DEF MarkerOn, i

\* The values passed to the meters are within the span.
LEMMA Clamped == ASSUME NEW x \in Int PROVE MeterPart!Clamp(0, 1000, x) \in Nat /\ MeterPart!Clamp(0, 1000, x) <= 1000
BY DEF MeterPart!Clamp

\* So is a load, of any number of cores.
LEMMA LoadClamped ==
    ASSUME NEW x \in Nat, NEW cores \in Nat
    PROVE  MeterPart!LoadRatio(x, cores) \in Nat /\ MeterPart!LoadRatio(x, cores) <= 1000
<1>1. PICK n \in Nat : n > 0 /\ n = IF cores = 0 THEN 1 ELSE cores
  OBVIOUS
<1>2. PICK a \in Nat : a = 2 * x + n
  OBVIOUS
<1>3. PICK d \in Nat : d = 2 * n /\ d > 0
  BY <1>1
<1>4. PICK q \in Nat : q = a \div d
  BY <1>2, <1>3
<1>5. MeterPart!LoadRatio(x, cores) = MeterPart!Min({1000, 10 * q})
  BY <1>1, <1>2, <1>3, <1>4 DEF MeterPart!LoadRatio
<1>6. PICK m \in {1000, 10 * q} : \A y \in {1000, 10 * q} : m <= y
  OBVIOUS
<1>7. MeterPart!Min({1000, 10 * q}) \in {1000, 10 * q} /\ MeterPart!Min({1000, 10 * q}) <= 1000
  BY <1>6 DEF MeterPart!Min
<1> QED BY <1>5, <1>7

\* The meters that the sections draw.
LEMMA OnTheirZones ==
    ASSUME NEW v \in Nat, v <= 1000
    PROVE  /\ MarkerOn(MeterPart!StorageZones, v)
           /\ MarkerOn(MeterPart!DiskZones, v)
           /\ MarkerOn(MeterPart!LoadZones, v)
<1>1. Len(MeterPart!StorageZones) = 4 /\ Len(MeterPart!DiskZones) = 4 /\ Len(MeterPart!LoadZones) = 4
  BY DEF MeterPart!StorageZones, MeterPart!DiskZones, MeterPart!LoadZones
<1>2. MeterPart!StorageZones \in Thirds /\ MeterPart!DiskZones \in Thirds /\ MeterPart!LoadZones \in Thirds
  BY ZonesAreThirds
<1> QED BY <1>1, <1>2, OnItsZone

\* Every meter of the dashboard.
LEMMA MarkersStand == MeterInv => MeterPart!MarkerOnZone
<1> SUFFICES ASSUME MeterInv PROVE MeterPart!MarkerOnZone
  OBVIOUS
<1>1. /\ MarkerOn(MeterPart!StorageZones, MeterPart!Clamp(0, 1000, percent))
      /\ MarkerOn(MeterPart!DiskZones, MeterPart!Clamp(0, 1000, percent))
  <2>1. PICK v \in Nat : v = MeterPart!Clamp(0, 1000, percent) /\ v <= 1000
    BY Clamped DEF MeterInv
  <2> QED BY <2>1, OnTheirZones
<1>2. ASSUME percent >= 0, NEW cores \in Cores
      PROVE  MarkerOn(MeterPart!LoadZones, MeterPart!LoadRatio(percent, cores))
  <2>1. PICK x \in Nat : x = percent
    BY <1>2 DEF MeterInv
  <2>2. PICK n \in Nat : n = cores
    BY PartAssumptions DEF MeterPart!MetersAssumption
  <2>3. MeterPart!LoadRatio(x, n) \in Nat /\ MeterPart!LoadRatio(x, n) <= 1000
    BY LoadClamped
  <2>4. MarkerOn(MeterPart!LoadZones, MeterPart!LoadRatio(x, n))
    BY <2>3, OnTheirZones
  <2> QED BY <2>1, <2>2, <2>4
<1> QED BY <1>1, <1>2 DEF MeterPart!MarkerOnZone, MarkerOn

\* A share of the whole.
LEMMA ShareOfAll ==
    ASSUME NEW n \in Nat, NEW p \in Nat, p <= 1000
    PROVE  n * p \in Nat /\ n * p <= 1000 * n
<1>1. PICK r \in Nat : 1000 = p + r
  <2>1. 1000 - p \in Nat
    OBVIOUS
  <2> QED BY <2>1
<1>2. n * (p + r) = n * p + n * r /\ n * p \in Nat /\ n * r \in Nat
  OBVIOUS
<1>3. n * (p + r) = 1000 * n
  BY <1>1
<1> QED BY <1>2, <1>3

\* A segment is filled exactly if it is one of the first, as many as the rounded share.
LEMMA FilledAre == MeterInv => MeterPart!FilledIsTheShare
<1> SUFFICES ASSUME MeterInv PROVE MeterPart!FilledIsTheShare
  OBVIOUS
<1> DEFINE filled == {i \in 0..Segments - 1 : MeterPart!Filled(i)}
<1>1. PICK p \in Nat : p = MeterPart!Clamp(0, 1000, percent) /\ p <= 1000
  BY Clamped DEF MeterInv
<1>2. Segments \in Nat /\ Segments > 0
  BY PartAssumptions DEF MeterPart!MetersAssumption
<1>3. PICK x \in Nat : x = 2 * Segments * p /\ x <= 2000 * Segments
  <2>1. PICK a \in Nat : a = Segments * p /\ a <= 1000 * Segments
    BY <1>1, <1>2, ShareOfAll
  <2>2. 2 * Segments * p = 2 * a
    BY <1>1, <1>2, <2>1
  <2>3. 2 * a \in Nat /\ 2 * a <= 2000 * Segments
    BY <1>2, <2>1
  <2> QED BY <2>2, <2>3
<1>4. PICK n \in Nat : n = (x + 1000) \div 2000
  OBVIOUS
<1>5. 2000 * n <= x + 1000 /\ x + 1000 < 2000 * n + 2000
  BY <1>4
<1>6. n <= Segments
  BY <1>2, <1>3, <1>5
<1>7. \A i \in 0..Segments - 1 : MeterPart!Filled(i) <=> i < n
  <2> SUFFICES ASSUME NEW i \in 0..Segments - 1 PROVE MeterPart!Filled(i) <=> i < n
    OBVIOUS
  <2>1. MeterPart!Filled(i) <=> (2 * i + 1) * 1000 <= x
    BY <1>1, <1>3 DEF MeterPart!Filled
  <2>2. i \in Nat
    BY <1>2
  <2> QED BY <1>5, <2>1, <2>2
<1>8. MeterPart!FilledCount = IF n > 1 THEN n ELSE 1
  BY <1>1, <1>3, <1>4 DEF MeterPart!FilledCount
<1>9. CASE n = 0
  <2>1. filled = {} /\ x < 1000
    BY <1>5, <1>7, <1>9
  <2> QED BY <1>1, <1>3, <2>1 DEF MeterPart!FilledIsTheShare
<1>10. CASE n > 0
  <2>1. filled = 0..n - 1 /\ 0 \in filled /\ ~(x < 1000)
    BY <1>2, <1>5, <1>6, <1>7, <1>10
  <2>2. MeterPart!FilledCount = n
    BY <1>8, <1>10
  <2> QED BY <1>1, <1>3, <2>1, <2>2 DEF MeterPart!FilledIsTheShare
<1> QED BY <1>9, <1>10

-----------------------------------------------------------------------------
(* Induction over the numbers, as the principle of the least one, and the  *)
(* sequence of values that a rule makes from the first.                    *)

\* the lesser of two numbers and the greater
Below == {ss \in Nat \X Nat : ss[1] < ss[2]}

\* The numbers have no infinite descent.
LEMMA BelowWellFounded == IsWellFoundedOn(Below, Nat)
<1>1. OpToRel(<, Nat) = Below
  BY Zenon DEF OpToRel, Below
<1> QED BY Zenon, NatLessThanWellFounded, <1>1

\* A set of numbers that has no least one has none.
LEMMA Lowermost ==
    ASSUME NEW T \in SUBSET Nat, T # {}
    PROVE  \E n \in T : \A m \in Nat : m < n => m \notin T
<1>1. PICK n \in T : \A m \in T : ~(<<m, n>> \in Below)
  BY BelowWellFounded, WFMin
<1> QED BY <1>1 DEF Below

\* A set of numbers that has 0, and with a number the next one, has them all.
LEMMA Induction ==
    ASSUME NEW T \in SUBSET Nat, 0 \in T, \A n \in T : n + 1 \in T
    PROVE  T = Nat
<1>1. SUFFICES ASSUME Nat \ T # {} PROVE FALSE
  OBVIOUS
<1>2. PICK n \in Nat \ T : \A m \in Nat : m < n => m \notin Nat \ T
  BY <1>1, Lowermost
<1>3. n # 0 /\ n - 1 \in Nat /\ n - 1 < n /\ (n - 1) + 1 = n
  BY <1>2
<1>4. n - 1 \in T
  BY <1>2, <1>3
<1> QED BY <1>2, <1>3, <1>4

\* h begins with base and goes on by F.
GoesOn(h, base, F) == h[0] = base /\ \A n \in Nat : h[n + 1] = F[<<n, h[n]>>]

\* it does so as far as n
GoesOnTo(n, h, base, F) == h[0] = base /\ \A i \in Nat : i < n => h[i + 1] = F[<<i, h[i]>>]

\* There is such a sequence.
LEMMA Sequence ==
    ASSUME NEW V, NEW base \in V, NEW F \in [Nat \X V -> V]
    PROVE  \E h \in [Nat -> V] : GoesOn(h, base, F)
<1> DEFINE Is(n, v) == \E h \in [Nat -> V] : GoesOnTo(n, h, base, F) /\ h[n] = v
           T == {n \in Nat : (\E v \in V : Is(n, v)) /\ \A v, w \in V : Is(n, v) /\ Is(n, w) => v = w}
<1>1. 0 \in T
  <2>1. [i \in Nat |-> base] \in [Nat -> V] /\ GoesOnTo(0, [i \in Nat |-> base], base, F)
    BY DEF GoesOnTo
  <2>2. Is(0, base)
    BY <2>1
  <2>3. \A v \in V : Is(0, v) => v = base
    BY DEF GoesOnTo
  <2> HIDE DEF Is
  <2> QED BY <2>2, <2>3
<1>2. ASSUME NEW n \in Nat, NEW v \in V, Is(n, v) PROVE Is(n + 1, F[<<n, v>>])
  <2>1. PICK h \in [Nat -> V] : GoesOnTo(n, h, base, F) /\ h[n] = v
    BY <1>2
  <2> DEFINE g == [h EXCEPT ![n + 1] = F[<<n, v>>]]
  <2>2. F[<<n, v>>] \in V /\ n + 1 \in Nat
    OBVIOUS
  <2>3. g \in [Nat -> V] /\ g[n + 1] = F[<<n, v>>] /\ \A i \in Nat : i # n + 1 => g[i] = h[i]
    BY <2>2
  <2> HIDE DEF g
  <2>4. g[0] = base
    BY <2>1, <2>3 DEF GoesOnTo
  <2>5. ASSUME NEW i \in Nat, i < n + 1 PROVE g[i + 1] = F[<<i, g[i]>>]
    <3>1. g[i] = h[i]
      BY <2>3, <2>5
    <3>2. CASE i = n
      BY <2>1, <2>3, <3>1, <3>2
    <3>3. CASE i < n
      BY <2>1, <2>3, <3>1, <3>3 DEF GoesOnTo
    <3> QED BY <2>5, <3>2, <3>3
  <2> QED BY <2>3, <2>4, <2>5 DEF GoesOnTo
<1>3. ASSUME NEW n \in Nat, NEW w \in V, Is(n + 1, w) PROVE \E v \in V : Is(n, v) /\ w = F[<<n, v>>]
  <2>1. PICK h \in [Nat -> V] : GoesOnTo(n + 1, h, base, F) /\ h[n + 1] = w
    BY <1>3
  <2>2. GoesOnTo(n, h, base, F) /\ w = F[<<n, h[n]>>]
    BY <2>1 DEF GoesOnTo
  <2> QED BY <2>2
<1> HIDE DEF Is
<1>4. ASSUME NEW n \in T PROVE n + 1 \in T
  <2>1. PICK v \in V : Is(n, v)
    OBVIOUS
  <2>2. n \in Nat /\ n + 1 \in Nat /\ \A x, y \in V : Is(n, x) /\ Is(n, y) => x = y
    OBVIOUS
  <2>3. Is(n + 1, F[<<n, v>>]) /\ F[<<n, v>>] \in V
    BY <1>2, <2>1, <2>2
  <2>4. ASSUME NEW w \in V, Is(n + 1, w) PROVE w = F[<<n, v>>]
    <3>1. PICK x \in V : Is(n, x) /\ w = F[<<n, x>>]
      BY <1>3, <2>2, <2>4
    <3> QED BY <2>1, <2>2, <3>1
  <2> QED BY <2>2, <2>3, <2>4
<1>5. T = Nat
  <2>1. T \in SUBSET Nat
    OBVIOUS
  <2> HIDE DEF T
  <2> QED BY <1>1, <1>4, <2>1, Induction
<1> DEFINE h == [n \in Nat |-> CHOOSE v \in V : Is(n, v)]
<1>6. \A n \in Nat : h[n] \in V /\ Is(n, h[n])
  BY <1>5
<1>7. h \in [Nat -> V]
  BY <1>6
<1> HIDE DEF h
<1>8. h[0] = base
  <2>1. Is(0, h[0])
    BY <1>6
  <2> QED BY <2>1 DEF Is, GoesOnTo
<1>9. ASSUME NEW n \in Nat PROVE h[n + 1] = F[<<n, h[n]>>]
  <2>1. n + 1 \in Nat /\ h[n] \in V /\ h[n + 1] \in V /\ Is(n, h[n]) /\ Is(n + 1, h[n + 1])
    BY <1>6
  <2>2. F[<<n, h[n]>>] \in V
    BY <2>1
  <2>3. Is(n + 1, F[<<n, h[n]>>])
    BY <1>2, <2>1
  <2>4. n + 1 \in T
    BY <1>5, <2>1
  <2> QED BY <2>1, <2>2, <2>3, <2>4
<1> QED BY <1>7, <1>8, <1>9 DEF GoesOn

-----------------------------------------------------------------------------
(* Format: the powers of K, and the unit in which an amount is written.    *)

\* The constants of the units.
LEMMA UnitsGiven == K \in Nat /\ K >= 10 /\ Len(Units) \in Nat /\ Len(Units) > 0
BY PartAssumptions DEF AmountPart!FormatAssumption

\* p has the powers of K
Powers(p) ==
    /\ p \in [Nat -> Nat] /\ p[0] = 1
    /\ \A i \in Nat : p[i + 1] = K * p[i] /\ p[i] > 0

\* Power is what its recursion says.
LEMMA PowerIs == Powers(AmountPart!Power)
<1> DEFINE Step(p) == [i \in Nat |-> IF i = 0 THEN 1 ELSE K * p[i - 1]]
           F == [x \in Nat \X Nat |-> K * x[2]]
<1>1. K \in Nat /\ K > 1
  BY UnitsGiven
<1>2. F \in [Nat \X Nat -> Nat] /\ \A n, v \in Nat : F[<<n, v>>] = K * v
  BY <1>1
<1> HIDE DEF F
<1>3. PICK h \in [Nat -> Nat] : GoesOn(h, 1, F)
  BY <1>2, Sequence
<1>4. h = Step(h)
  <2>1. \A i \in Nat : h[i] = IF i = 0 THEN 1 ELSE K * h[i - 1]
    <3> SUFFICES ASSUME NEW i \in Nat, i # 0 PROVE h[i] = K * h[i - 1]
      BY <1>3 DEF GoesOn
    <3>1. i - 1 \in Nat /\ (i - 1) + 1 = i
      OBVIOUS
    <3>2. h[(i - 1) + 1] = F[<<i - 1, h[i - 1]>>]
      BY <1>3, <3>1 DEF GoesOn
    <3> QED BY <1>2, <1>3, <3>1, <3>2
  <2>2. h = [i \in Nat |-> h[i]]
    OBVIOUS
  <2> QED BY <2>1, <2>2
<1> DEFINE p == CHOOSE p : p = Step(p)
<1>5. AmountPart!Power = p
  BY DEF AmountPart!Power
<1>6. p = Step(p)
  BY <1>4
<1> HIDE DEF p
<1>7. DOMAIN p = Nat /\ \A i \in Nat : p[i] = IF i = 0 THEN 1 ELSE K * p[i - 1]
  BY <1>6
<1>8. p[0] = 1 /\ \A i \in Nat : p[i + 1] = K * p[i]
  BY <1>7
<1> DEFINE T == {i \in Nat : p[i] \in Nat /\ p[i] > 0}
<1>9. T = Nat
  <2>1. 0 \in T
    BY <1>8
  <2>2. ASSUME NEW i \in T PROVE i + 1 \in T
    <3>1. PICK v \in Nat : v = p[i] /\ v > 0
      OBVIOUS
    <3>2. K * v \in Nat /\ K * v > 0
      BY <1>1, <3>1
    <3> QED BY <1>8, <3>1, <3>2
  <2> HIDE DEF T
  <2>3. T \in SUBSET Nat
    BY DEF T
  <2> QED BY <2>1, <2>2, <2>3, Induction
<1>10. \A i \in Nat : p[i] \in Nat /\ p[i] > 0
  BY <1>9
<1>11. p \in [Nat -> Nat]
  <2>1. p = [i \in Nat |-> p[i]]
    BY <1>6, <1>7
  <2> QED BY <1>10, <2>1
<1> QED BY <1>5, <1>8, <1>10, <1>11 DEF Powers

\* Higher powers are larger.
LEMMA PowersRise ==
    ASSUME NEW p, Powers(p), NEW i \in Nat, NEW j \in Nat, i <= j
    PROVE  p[i] <= p[j]
<1> DEFINE T == {d \in Nat : p[i] <= p[i + d]}
<1>1. 0 \in T
  BY DEF Powers
<1>2. ASSUME NEW d \in T PROVE d + 1 \in T
  <2>1. PICK v \in Nat : v = p[i + d] /\ p[i] <= v /\ i + d \in Nat
    BY DEF Powers
  <2>2. p[(i + d) + 1] = K * v /\ p[i] \in Nat
    BY <2>1 DEF Powers
  <2>3. K * v >= v
    BY UnitsGiven
  <2>4. i + (d + 1) = (i + d) + 1 /\ K * v \in Nat
    BY UnitsGiven
  <2> QED BY <2>1, <2>2, <2>3, <2>4
<1>3. T = Nat
  <2>1. T \in SUBSET Nat
    OBVIOUS
  <2> HIDE DEF T
  <2> QED BY <1>1, <1>2, <2>1, Induction
<1>4. j - i \in Nat /\ i + (j - i) = j
  OBVIOUS
<1> QED BY <1>3, <1>4

\* A power is at least ten times the one before.
LEMMA TenTimes == \A x \in Nat : K * x \in Nat /\ 10 * x <= K * x
<1> SUFFICES ASSUME NEW x \in Nat PROVE K * x \in Nat /\ 10 * x <= K * x
  OBVIOUS
<1>1. PICK j \in Nat : K = 10 + j
  <2>1. K - 10 \in Nat /\ K = 10 + (K - 10)
    BY UnitsGiven
  <2> QED BY <2>1
<1>2. K * x = 10 * x + j * x /\ j * x \in Nat
  BY <1>1
<1> QED BY <1>2

\* what an amount may lack of a power before it is taken for it, twice
Lack(p, u) == IF u = 0 THEN 0 ELSE p[u - 1]

\* The highest power that an amount has in it.
LEMMA FilledIs ==
    ASSUME NEW p, p = AmountPart!Power, NEW t \in Nat, t >= 10
    PROVE  \E e \in Nat :
              /\ AmountPart!Filled(t) = e /\ e <= Len(Units) /\ 10 * p[e] <= t
              /\ e < Len(Units) => t < 10 * p[e + 1]
<1>1. Powers(p)
  BY PowerIs
<1>2. PICK l \in Nat : l = Len(Units) /\ l > 0
  BY UnitsGiven
<1> DEFINE S == {i \in 0..l : 10 * p[i] <= t}
           N == {i \in Nat : i \notin S}
<1>3. l + 1 \in N
  BY <1>2
<1>4. PICK m \in N : \A i \in Nat : i < m => i \notin N
  BY <1>3, Lowermost
<1>5. 0 \in S
  <2>1. p[0] = 1 /\ 10 * p[0] <= t
    BY <1>1 DEF Powers
  <2>2. 0 \in 0..l
    BY <1>2
  <2> QED BY <2>1, <2>2
<1>6. m \in Nat /\ m > 0 /\ m \notin S
  BY <1>4, <1>5
<1>7. PICK e \in Nat : e + 1 = m
  <2>1. m - 1 \in Nat /\ (m - 1) + 1 = m
    BY <1>6
  <2> QED BY <2>1
<1>8. e \in S /\ e <= l
  BY <1>4, <1>7
<1>9. ASSUME NEW j \in S PROVE j <= e
  <2>1. SUFFICES ASSUME m <= j PROVE FALSE
    BY <1>2, <1>7
  <2>2. p[m] <= p[j] /\ p[m] \in Nat /\ p[j] \in Nat
    <3>1. j \in Nat /\ m \in Nat
      BY <1>2, <1>6
    <3>2. p[m] <= p[j]
      BY <1>1, <2>1, <3>1, PowersRise
    <3> QED BY <1>1, <3>1, <3>2 DEF Powers
  <2>3. m \in 0..l /\ 10 * p[m] <= t
    BY <1>2, <1>6, <2>1, <2>2
  <2> QED BY <1>6, <2>3
<1>10. AmountPart!Filled(t) = e
  <2>1. AmountPart!Filled(t) = AmountPart!Max(S)
    BY <1>2 DEF AmountPart!Filled
  <2>2. AmountPart!Max(S) \in S /\ \A j \in S : AmountPart!Max(S) >= j
    BY <1>8, <1>9 DEF AmountPart!Max
  <2>3. AmountPart!Max(S) <= e /\ AmountPart!Max(S) >= e
    BY <1>8, <1>9, <2>2
  <2> QED BY <1>2, <2>1, <2>2, <2>3
<1>11. 10 * p[e] <= t /\ (e < l => t < 10 * p[e + 1])
  <2>1. p[e + 1] \in Nat
    BY <1>1 DEF Powers
  <2> QED BY <1>2, <1>6, <1>7, <1>8, <2>1
<1> QED BY <1>2, <1>8, <1>10, <1>11

\* The unit of an amount is the largest that it fills, or all but fills, or the last one.
LEMMA UnitIs ==
    ASSUME NEW p, p = AmountPart!Power, NEW t \in Nat, t >= 10,
           NEW x \in AmountPart!Exponents(t)
    PROVE  \E u \in Nat :
              /\ AmountPart!UnitIndex(x) = u /\ u < Len(Units)
              /\ 20 * p[u] <= 2 * t + Lack(p, u)
              /\ u < Len(Units) - 1 => t < 10 * p[u + 1]
<1>1. Powers(p)
  BY PowerIs
<1>2. PICK l \in Nat : l = Len(Units) /\ l > 0
  BY UnitsGiven
<1>3. PICK e \in Nat : /\ AmountPart!Filled(t) = e /\ e <= l /\ 10 * p[e] <= t
                       /\ e < l => t < 10 * p[e + 1]
  BY <1>2, FilledIs
<1>4. \A i \in Nat : p[i] \in Nat /\ Lack(p, i) \in Nat
  BY <1>1 DEF Powers, Lack
<1>5. /\ x = e \/ x = e + 1
      /\ x > e => x <= l /\ 10 * p[x] - Slip[x] <= t
  BY <1>2, <1>3 DEF AmountPart!Exponents
<1>6. x \in Nat /\ 20 * p[x] <= 2 * t + Lack(p, x) /\ (x < l => t < 10 * p[x + 1])
  <2>1. CASE x = e
    <3>1. p[e] \in Nat /\ Lack(p, e) \in Nat
      BY <1>4
    <3> QED BY <1>3, <2>1, <3>1
  <2>2. CASE x = e + 1
    <3>1. x \in 1..l /\ 10 * p[x] - Slip[x] <= t /\ x - 1 = e /\ x # 0
      BY <1>5, <1>3, <2>2
    <3>2. Slip[x] \in Nat /\ 2 * Slip[x] <= p[x - 1]
      BY <1>2, <3>1, PartAssumptions DEF AmountPart!FormatAssumption
    <3>3. Lack(p, x) = p[x - 1] /\ p[x - 1] \in Nat /\ p[x] \in Nat
      BY <1>4, <3>1 DEF Lack
    <3>4. 20 * p[x] <= 2 * t + Lack(p, x)
      BY <3>1, <3>2, <3>3
    <3>5. x < l => t < 10 * p[x + 1]
      <4>1. p[x] <= p[x + 1] /\ p[x + 1] \in Nat
        BY <1>1, <1>4, <3>1, PowersRise
      <4>2. e < l /\ t < 10 * p[x]
        BY <1>3, <2>2, <3>1
      <4> QED BY <3>3, <4>1, <4>2
    <3> QED BY <3>1, <3>4, <3>5
  <2> QED BY <1>5, <2>1, <2>2
<1>7. CASE x < l
  BY <1>2, <1>6, <1>7 DEF AmountPart!UnitIndex
<1>8. CASE ~(x < l)
  <2>1. PICK u \in Nat : AmountPart!UnitIndex(x) = u /\ u = l - 1 /\ u + 1 = l /\ u < x
    BY <1>2, <1>6, <1>8 DEF AmountPart!UnitIndex
  <2>2. p[u + 1] <= p[x] /\ p[u + 1] = K * p[u] /\ p[u] \in Nat /\ p[x] \in Nat
    <3>1. u + 1 \in Nat /\ x \in Nat /\ u + 1 <= x
      BY <1>6, <2>1
    <3>2. p[u + 1] <= p[x]
      BY <1>1, <3>1, PowersRise
    <3> QED BY <1>1, <1>4, <3>1, <3>2 DEF Powers
  <2>3. 20 * p[u] <= 2 * t + Lack(p, u)
    <3>1. CASE x = l
      <4>1. Lack(p, x) = p[u]
        BY <2>1, <3>1, <1>2 DEF Lack
      <4>2. K * p[u] >= 10 * p[u]
        BY <2>2, TenTimes
      <4>3. K * p[u] \in Nat /\ Lack(p, u) \in Nat
        BY <1>4, <2>2, TenTimes
      <4>4. 20 * (K * p[u]) <= 2 * t + p[u]
        BY <1>6, <2>1, <2>2, <3>1, <4>1
      <4>5. PICK y \in Nat : y = p[u]
        BY <2>2
      <4>6. PICK z \in Nat : z = K * p[u]
        BY <4>3
      <4>7. PICK w \in Nat : w = Lack(p, u)
        BY <4>3
      <4>8. z >= 10 * y /\ 20 * z <= 2 * t + y
        BY <4>2, <4>4, <4>5, <4>6
      <4>9. 20 * y <= 2 * t + w
        BY <4>8
      <4> QED BY <4>5, <4>7, <4>9
    <3>2. CASE x # l
      <4>1. x <= l
        BY <1>3, <1>5
      <4> QED BY <1>2, <1>6, <1>8, <3>2, <4>1
    <3> QED BY <3>1, <3>2
  <2> QED BY <1>2, <2>1, <2>3
<1> QED BY <1>7, <1>8

\* the amount t is written as n of the units with the power q
NearestTo(n, q, t) == 2 * (n * q) <= 2 * t + q /\ 2 * t < 2 * (n * q) + q

\* Rounding to the nearest.
LEMMA Nearest ==
    ASSUME NEW t \in Nat, NEW q \in Nat, q > 0
    PROVE  (2 * t + q) \div (2 * q) \in Nat /\ NearestTo((2 * t + q) \div (2 * q), q, t)
<1>1. PICK a \in Nat : a = 2 * t + q
  OBVIOUS
<1>2. PICK b \in Nat : b = 2 * q /\ b > 0
  OBVIOUS
<1>3. PICK n \in Nat : n = a \div b
  BY <1>2
<1>4. b * n <= a /\ a < b * n + b
  BY <1>2, <1>3
<1>5. PICK c \in Nat : c = n * q
  OBVIOUS
<1>6. b * n = 2 * c
  BY <1>2, <1>5
<1>7. 2 * c <= 2 * t + q /\ 2 * t < 2 * c + q
  BY <1>1, <1>2, <1>4, <1>6
<1> QED BY <1>1, <1>2, <1>3, <1>5, <1>7 DEF NearestTo

\* n of the unit u is what an amount may be written as
Form(t, u, n) ==
    /\ u < Len(Units)
    /\ 20 * AmountPart!Power[u] <= 2 * t + Lack(AmountPart!Power, u)
    /\ u < Len(Units) - 1 => t < 10 * AmountPart!Power[u + 1]
    /\ n = (2 * t + AmountPart!Power[u]) \div (2 * AmountPart!Power[u])
    /\ NearestTo(n, AmountPart!Power[u], t)

\* An amount of a byte or more.
LEMMA FormIs ==
    ASSUME NEW t \in Nat, t >= 10, NEW f \in AmountPart!FormatBytes(t)
    PROVE  \E u, n \in Nat : f = [number |-> n, unit |-> u] /\ Form(t, u, n)
<1>1. PICK p : p = AmountPart!Power
  OBVIOUS
<1>2. PICK x \in AmountPart!Exponents(t) :
          f = [number |-> AmountPart!InUnit(t, AmountPart!UnitIndex(x)), unit |-> AmountPart!UnitIndex(x)]
  <2>1. t # 0
    OBVIOUS
  <2> QED BY <2>1 DEF AmountPart!FormatBytes
<1>3. PICK u \in Nat : /\ AmountPart!UnitIndex(x) = u /\ u < Len(Units)
                       /\ 20 * p[u] <= 2 * t + Lack(p, u)
                       /\ u < Len(Units) - 1 => t < 10 * p[u + 1]
  BY <1>1, UnitIs
<1>4. p[u] \in Nat /\ p[u] > 0
  BY <1>1, PowerIs DEF Powers
<1>5. PICK n \in Nat : n = (2 * t + p[u]) \div (2 * p[u]) /\ NearestTo(n, p[u], t)
  BY <1>4, Nearest
<1>6. AmountPart!InUnit(t, u) = n
  <2>1. ~(u < 0)
    OBVIOUS
  <2> QED BY <1>1, <1>5, <2>1 DEF AmountPart!InUnit
<1> QED BY <1>1, <1>2, <1>3, <1>5, <1>6 DEF Form

\* Below a byte there is no unit, and nothing is written as nothing.
LEMMA NoUnit ==
    /\ \A t \in 1..9 : \A f \in AmountPart!FormatBytes(t) : ~AmountPart!Named(f)
    /\ \A f \in AmountPart!FormatBytes(0) : f = [number |-> 0, unit |-> 0] /\ AmountPart!Named(f)
<1>1. ASSUME NEW t \in 1..9, NEW f \in AmountPart!FormatBytes(t) PROVE ~AmountPart!Named(f)
  <2>1. t # 0 /\ t < 10
    OBVIOUS
  <2>2. AmountPart!Exponents(t) = {-1}
    BY <2>1 DEF AmountPart!Exponents
  <2>3. f.unit = AmountPart!UnitIndex(-1)
    BY <2>1, <2>2 DEF AmountPart!FormatBytes
  <2>4. f.unit = -1
    BY <2>3, UnitsGiven DEF AmountPart!UnitIndex
  <2> QED BY <2>4 DEF AmountPart!Named
<1>2. ASSUME NEW f \in AmountPart!FormatBytes(0)
      PROVE  f = [number |-> 0, unit |-> 0] /\ AmountPart!Named(f)
  <2>1. f = [number |-> 0, unit |-> 0]
    BY DEF AmountPart!FormatBytes
  <2>2. f.unit = 0 /\ 0 \in 0..Len(Units) - 1
    BY <2>1, UnitsGiven
  <2> QED BY <2>1, <2>2 DEF AmountPart!Named
<1> QED BY <1>1, <1>2

\* The power that an amount may lack half of is not larger than the unit's.
LEMMA LackIs ==
    ASSUME NEW u \in Nat
    PROVE  /\ AmountPart!Power[u] \in Nat /\ AmountPart!Power[u] > 0
           /\ Lack(AmountPart!Power, u) \in Nat
           /\ Lack(AmountPart!Power, u) <= AmountPart!Power[u]
           /\ u = 0 => Lack(AmountPart!Power, u) = 0
           /\ u > 0 => Lack(AmountPart!Power, u) = AmountPart!Power[u - 1]
<1>1. PICK p : p = AmountPart!Power /\ Powers(p)
  BY PowerIs
<1>2. CASE u = 0
  BY <1>1, <1>2 DEF Lack, Powers
<1>3. CASE u > 0
  <2>1. u - 1 \in Nat /\ u # 0
    BY <1>3
  <2>2. p[u - 1] <= p[u] /\ p[u - 1] \in Nat /\ p[u] \in Nat /\ p[u] > 0
    <3>1. u - 1 <= u
      OBVIOUS
    <3>2. p[u - 1] <= p[u]
      BY <1>1, <2>1, <3>1, PowersRise
    <3> QED BY <1>1, <2>1, <3>2 DEF Powers
  <2> QED BY <1>1, <2>1, <2>2 DEF Lack
<1> QED BY <1>2, <1>3

\* What is written has at least two digits, and as many as the next unit allows.
LEMMA Digits ==
    ASSUME NEW t \in Nat, NEW u \in Nat, NEW n \in Nat, Form(t, u, n)
    PROVE  /\ n >= 10
           /\ u < Len(Units) - 1 => n <= 10 * K
<1>1. PICK q \in Nat : q = AmountPart!Power[u] /\ q > 0
  BY PowerIs DEF Powers
<1>2. PICK c \in Nat : c = n * q
  OBVIOUS
<1>3. 19 * q <= 2 * t /\ 2 * c <= 2 * t + q /\ 2 * t < 2 * c + q
  <2>1. PICK k \in Nat : k = Lack(AmountPart!Power, u) /\ k <= q
    BY <1>1, LackIs
  <2>2. 20 * q <= 2 * t + k
    BY <1>1, <2>1 DEF Form
  <2>3. 2 * c <= 2 * t + q /\ 2 * t < 2 * c + q
    BY <1>1, <1>2 DEF Form, NearestTo
  <2>4. 19 * q <= 2 * t
    BY <2>1, <2>2
  <2> QED BY <2>3, <2>4
<1>4. n >= 10
  <2>1. SUFFICES ASSUME n <= 9 PROVE FALSE
    OBVIOUS
  <2>2. c <= 9 * q
    BY <1>2, <2>1
  <2> QED BY <1>1, <1>3, <2>2
<1>5. ASSUME u < Len(Units) - 1 PROVE n <= 10 * K
  <2>1. PICK k \in Nat : k = 10 * K
    BY UnitsGiven
  <2>2. SUFFICES ASSUME n >= k + 1 PROVE FALSE
    BY <2>1
  <2>3. t < 10 * (K * q)
    BY <1>1, <1>5, PowerIs DEF Form, Powers
  <2>4. PICK d \in Nat : d = k * q
    OBVIOUS
  <2>5. 10 * (K * q) = d
    BY <2>1, <2>4, UnitsGiven
  <2>6. PICK r \in Nat : n = (k + 1) + r
    <3>1. n - (k + 1) \in Nat
      BY <2>2
    <3> QED BY <3>1
  <2>7. c = (d + q) + r * q /\ r * q \in Nat
    BY <1>2, <2>4, <2>6
  <2>8. c >= d + q
    BY <2>7
  <2> QED BY <1>1, <1>3, <2>3, <2>5, <2>8
<1> QED BY <1>4, <1>5

\* What is written is the amount, to half of the last digit.
LEMMA WrittenAccurate ==
    ASSUME NEW t \in Nat, NEW u \in Nat, NEW n \in Nat, Form(t, u, n)
    PROVE  /\ n * AmountPart!Power[u] \in Nat
           /\ 2 * (n * AmountPart!Power[u] - t) <= AmountPart!Power[u]
           /\ -2 * (n * AmountPart!Power[u] - t) <= AmountPart!Power[u]
<1>1. PICK q \in Nat : q = AmountPart!Power[u] /\ q > 0
  BY PowerIs DEF Powers
<1>2. PICK c \in Nat : c = n * q
  OBVIOUS
<1>3. 2 * c <= 2 * t + q /\ 2 * t < 2 * c + q
  BY <1>1, <1>2 DEF Form, NearestTo
<1>4. 2 * (c - t) <= q /\ -2 * (c - t) <= q
  BY <1>3
<1> QED BY <1>1, <1>2, <1>4

\* A tenth more is not written as less.
LEMMA NoneLess ==
    ASSUME NEW t \in Nat, NEW u \in Nat, NEW n \in Nat, Form(t, u, n),
           NEW v \in Nat, NEW m \in Nat, Form(t + 1, v, m)
    PROVE  n * AmountPart!Power[u] <= m * AmountPart!Power[v]
<1>1. PICK q \in Nat : q = AmountPart!Power[u] /\ q > 0
  BY PowerIs DEF Powers
<1>2. PICK r \in Nat : r = AmountPart!Power[v] /\ r > 0
  BY PowerIs DEF Powers
<1>3. CASE u = v
  <2>1. n = (2 * t + q) \div (2 * q) /\ m = (2 * (t + 1) + q) \div (2 * q)
    BY <1>1, <1>3 DEF Form
  <2>2. PICK b \in Nat : b = 2 * q /\ b > 0
    BY <1>1
  <2>3. PICK a \in Nat : a = 2 * t + q
    OBVIOUS
  <2>4. n = a \div b /\ m = (a + 2) \div b
    BY <2>1, <2>2, <2>3
  <2>5. b * n <= a /\ a < b * n + b /\ b * m <= a + 2 /\ a + 2 < b * m + b
    BY <2>2, <2>3, <2>4
  <2>6. n <= m
    <3>1. SUFFICES ASSUME m + 1 <= n PROVE FALSE
      OBVIOUS
    <3>2. b * (m + 1) <= b * n
      BY <3>1
    <3>3. b * (m + 1) = b * m + b
      OBVIOUS
    <3> QED BY <2>5, <3>2, <3>3
  <2>7. n * q <= m * q
    BY <2>6
  <2> QED BY <1>1, <1>3, <2>7
<1>4. CASE u < v
  <2>1. u < Len(Units) - 1 /\ v < Len(Units) /\ n <= 10 * K /\ m >= 10
    BY <1>4, UnitsGiven, Digits DEF Form
  <2>2. AmountPart!Power[u + 1] = K * q /\ K * q <= r /\ K * q \in Nat
    <3>1. u + 1 <= v /\ u + 1 \in Nat
      BY <1>4
    <3>2. AmountPart!Power[u + 1] = K * q /\ AmountPart!Power[u + 1] \in Nat
      BY <1>1, PowerIs DEF Powers
    <3> QED BY <1>2, <3>1, <3>2, PowerIs, PowersRise
  <2>3. n * q <= (10 * K) * q
    BY <2>1, UnitsGiven
  <2>4. (10 * K) * q = 10 * (K * q)
    BY UnitsGiven
  <2>5. 10 * r <= m * r
    BY <2>1
  <2>6. n * q \in Nat /\ m * r \in Nat
    OBVIOUS
  <2> QED BY <1>1, <1>2, <2>2, <2>3, <2>4, <2>5, <2>6
<1>5. CASE v < u
  <2>1. v < Len(Units) - 1 /\ u > 0 /\ u - 1 \in Nat
    BY <1>5, UnitsGiven DEF Form
  <2>2. PICK k \in Nat : k = AmountPart!Power[u - 1] /\ k > 0 /\ q = K * k /\ r <= k
    <3>1. AmountPart!Power[u - 1] \in Nat /\ AmountPart!Power[u - 1] > 0 /\ q = K * AmountPart!Power[u - 1]
      <4>1. (u - 1) + 1 = u
        OBVIOUS
      <4> QED BY <1>1, <2>1, <4>1, PowerIs DEF Powers
    <3>2. r <= AmountPart!Power[u - 1]
      BY <1>2, <1>5, <2>1, PowerIs, PowersRise
    <3> QED BY <3>1, <3>2
  <2>3. 20 * q <= 2 * t + k
    BY <1>1, <2>1, <2>2, LackIs DEF Form
  <2>4. K * r \in Nat /\ t + 1 < 10 * (K * r)
    <3>1. AmountPart!Power[v + 1] = K * r
      BY <1>2, PowerIs DEF Powers
    <3>2. t + 1 < 10 * AmountPart!Power[v + 1]
      BY <2>1 DEF Form
    <3> QED BY <3>1, <3>2, TenTimes
  <2>5. v = u - 1
    <3>1. SUFFICES ASSUME v + 1 <= u - 1 PROVE FALSE
      BY <1>5
    <3>2. AmountPart!Power[v + 1] <= k /\ AmountPart!Power[v + 1] = K * r
      <4>1. AmountPart!Power[v + 1] <= AmountPart!Power[u - 1]
        BY <2>1, <3>1, PowerIs, PowersRise
      <4> QED BY <1>2, <2>2, <4>1, PowerIs DEF Powers
    <3>3. 10 * k <= K * k /\ K * k \in Nat
      BY TenTimes
    <3> QED BY <2>2, <2>3, <2>4, <3>2, <3>3
  <2>6. r = k /\ q = K * r
    BY <1>2, <2>2, <2>5
  <2>7. n <= 10
    <3>1. SUFFICES ASSUME n >= 11 PROVE FALSE
      OBVIOUS
    <3>2. PICK c \in Nat : c = n * q
      OBVIOUS
    <3>3. 2 * c <= 2 * t + q
      BY <1>1, <3>2 DEF Form, NearestTo
    <3>4. c >= 11 * q
      BY <3>1, <3>2
    <3> QED BY <1>1, <2>4, <2>6, <3>3, <3>4
  <2>8. m >= 10 * K
    <3>1. PICK g \in Nat : g = 10 * K /\ g > 0
      BY UnitsGiven
    <3>2. SUFFICES ASSUME m <= g - 1 PROVE FALSE
      BY <3>1
    <3>3. PICK d \in Nat : d = m * r
      OBVIOUS
    <3>4. 2 * (t + 1) < 2 * d + r
      BY <1>2, <3>3 DEF Form, NearestTo
    <3>5. PICK h \in Nat : h = g * r
      OBVIOUS
    <3>6. 10 * q = h
      BY <2>6, <3>1, <3>5, UnitsGiven
    <3>7. d <= h - r
      <4>1. PICK j \in Nat : g = m + 1 + j
        <5>1. g - (m + 1) \in Nat /\ g = m + 1 + (g - (m + 1))
          BY <3>2
        <5> QED BY <5>1
      <4>2. h = d + r + j * r /\ j * r \in Nat
        BY <3>3, <3>5, <4>1
      <4> QED BY <4>2
    <3> QED BY <1>2, <2>3, <2>6, <3>4, <3>6, <3>7
  <2>9. n * q <= 10 * q
    BY <2>7
  <2>10. (10 * K) * r <= m * r
    BY <2>8, UnitsGiven
  <2>11. (10 * K) * r = 10 * q
    BY <2>6, UnitsGiven
  <2>12. n * q \in Nat /\ m * r \in Nat
    OBVIOUS
  <2> QED BY <1>1, <1>2, <2>9, <2>10, <2>11, <2>12
<1> QED BY <1>3, <1>4, <1>5

\* amounts are of tenths
AmountInv == amount \in Nat

\* An amount is a number of tenths.
LEMMA AmountTypes ==
    /\ AmountPart!Init => AmountInv
    /\ AmountInv /\ [AmountPart!Next]_amount => AmountInv'
BY DEF AmountPart!Init, AmountPart!Next, AmountInv

\* Every amount and every uptime.
LEMMA AmountWritten == AmountInv => AmountPart!WrittenRight
<1> SUFFICES ASSUME AmountInv PROVE AmountPart!WrittenRight
  OBVIOUS
<1>1. PICK t \in Nat : t = amount
  BY DEF AmountInv
<1>2. AmountPart!HasAUnit
  <2>1. ASSUME t = 0 \/ t >= 10, NEW f \in AmountPart!FormatBytes(t) PROVE AmountPart!Named(f)
    <3>1. CASE t = 0
      BY <2>1, <3>1, NoUnit
    <3>2. CASE t >= 10
      <4>1. PICK u, n \in Nat : f = [number |-> n, unit |-> u] /\ Form(t, u, n)
        BY <2>1, <3>2, FormIs
      <4>2. f.unit = u /\ u \in 0..Len(Units) - 1
        BY <4>1, UnitsGiven DEF Form
      <4> QED BY <4>2 DEF AmountPart!Named
    <3> QED BY <2>1, <3>1, <3>2
  <2> QED BY <1>1, <2>1 DEF AmountPart!HasAUnit
<1>3. AmountPart!NeverLess
  <2>1. ASSUME NEW f \in AmountPart!FormatBytes(t), NEW g \in AmountPart!FormatBytes(t + 1),
               AmountPart!Named(f), AmountPart!Named(g)
        PROVE  AmountPart!Worth(f) <= AmountPart!Worth(g)
    <3>1. t + 1 \in Nat /\ t + 1 \notin 1..9
      <4>1. t + 1 \in 1..9 => ~AmountPart!Named(g)
        BY <2>1, NoUnit
      <4> QED BY <2>1, <4>1
    <3>2. t >= 10
      <4>1. t # 9
        BY <2>1, NoUnit
      <4> QED BY <3>1, <4>1
    <3>3. PICK u, n \in Nat : f = [number |-> n, unit |-> u] /\ Form(t, u, n)
      BY <2>1, <3>2, FormIs
    <3>4. PICK v, m \in Nat : g = [number |-> m, unit |-> v] /\ Form(t + 1, v, m)
      BY <2>1, <3>1, <3>2, FormIs
    <3>5. n * AmountPart!Power[u] <= m * AmountPart!Power[v]
      BY <3>3, <3>4, NoneLess
    <3> QED BY <3>3, <3>4, <3>5 DEF AmountPart!Worth
  <2> QED BY <1>1, <2>1 DEF AmountPart!NeverLess
<1>5. AmountPart!Accurate
  <2>1. ASSUME NEW f \in AmountPart!FormatBytes(t), AmountPart!Named(f)
        PROVE  LET off == AmountPart!Worth(f) - t
               IN  /\ 2 * off <= AmountPart!Power[f.unit] /\ -2 * off <= AmountPart!Power[f.unit]
                   /\ t > 0 /\ f.unit < Len(Units) - 1 => f.number \in 10..10 * K
    <3>1. CASE t >= 10
      <4>1. PICK u, n \in Nat : f = [number |-> n, unit |-> u] /\ Form(t, u, n)
        BY <2>1, <3>1, FormIs
      <4>2. n >= 10 /\ (u < Len(Units) - 1 => n <= 10 * K)
        BY <4>1, Digits
      <4>3. u < Len(Units) - 1 => n \in 10..10 * K
        BY <4>2, UnitsGiven
      <4>4. AmountPart!Worth(f) = n * AmountPart!Power[u] /\ f.unit = u /\ f.number = n
        BY <4>1 DEF AmountPart!Worth
      <4> QED BY <4>1, <4>3, <4>4, WrittenAccurate
    <3>2. CASE ~(t >= 10)
      <4>1. t = 0
        <5>1. t \in 1..9 \/ t = 0
          BY <3>2
        <5> QED BY <2>1, <5>1, NoUnit
      <4>2. f.number = 0 /\ f.unit = 0
        <5>1. f = [number |-> 0, unit |-> 0]
          BY <2>1, <4>1, NoUnit
        <5> QED BY <5>1
      <4>3. AmountPart!Power[0] = 1
        BY PowerIs DEF Powers
      <4>4. AmountPart!Worth(f) = 0
        BY <4>2, <4>3 DEF AmountPart!Worth
      <4> QED BY <4>1, <4>2, <4>3, <4>4
    <3> QED BY <3>1, <3>2
  <2> QED BY <1>1, <2>1 DEF AmountPart!Accurate
<1>4. AmountPart!UptimeOfAClock
  <2>1. PICK d \in Nat : d = t \div 86400
    OBVIOUS
  <2>2. PICK r \in Nat : r = t % 86400 /\ t = 86400 * d + r /\ r < 86400
    BY <2>1
  <2>3. PICK h \in Nat : h = r \div 3600
    OBVIOUS
  <2>4. PICK x \in Nat : x = r % 3600 /\ r = 3600 * h + x /\ x < 3600
    BY <2>3
  <2>5. t % 3600 = x
    <3>1. t = 3600 * (24 * d + h) + x
      BY <2>2, <2>4
    <3> QED BY <2>4, <3>1
  <2>6. PICK m \in Nat : m = x \div 60 /\ x < 60 * m + 60 /\ 60 * m <= x
    OBVIOUS
  <2>7. h < 24 /\ m < 60
    BY <2>2, <2>4, <2>6
  <2>8. AmountPart!FormatUptime(amount) = [days |-> d, hours |-> h, minutes |-> m]
    BY <1>1, <2>1, <2>2, <2>3, <2>4, <2>5, <2>6 DEF AmountPart!FormatUptime
  <2>9. 86400 * d + 3600 * h + 60 * m \in t - 59..t
    BY <2>2, <2>4, <2>6
  <2> QED BY <1>1, <2>7, <2>8, <2>9 DEF AmountPart!UptimeOfAClock
<1> QED BY <1>2, <1>3, <1>4, <1>5 DEF AmountPart!WrittenRight

-----------------------------------------------------------------------------
(* Picture: what the chart draws, its legend and its tooltip.              *)

\* the point has readings of the category
PictureInv ==
    /\ category \in {"system", "network", "disk"} /\ chartType \in {"area", "line"}
    /\ point \in [1..2 -> PicturePart!Readings(category)]

\* A point has two readings of its category.
LEMMA PictureTypes ==
    /\ PicturePart!Init => PictureInv
    /\ PictureInv /\ [PicturePart!Next]_(PicturePart!vars) => PictureInv'
<1>1. PicturePart!Init => PictureInv
  BY DEF PicturePart!Init, PictureInv
<1> SUFFICES ASSUME PictureInv, [PicturePart!Next]_(PicturePart!vars) PROVE PictureInv'
  BY <1>1
<1>2. CASE \E c \in {"system", "network", "disk"} : PicturePart!SetCategory(c)
  BY <1>2 DEF PicturePart!SetCategory, PictureInv, PicturePart!Readings
<1>3. CASE \E t \in {"area", "line"} : PicturePart!SetChartType(t)
  BY <1>3 DEF PicturePart!SetChartType, PictureInv, PicturePart!Readings
<1>4. CASE PicturePart!Hover
  BY <1>4 DEF PicturePart!Hover, PictureInv, PicturePart!Readings
<1>5. CASE UNCHANGED PicturePart!vars
  BY <1>5 DEF PicturePart!vars, PictureInv, PicturePart!Readings
<1> QED BY <1>2, <1>3, <1>4, <1>5 DEF PicturePart!Next

\* the fields by which the library looks a label up, and the time of a point
FieldNames == {"dataKey", "name", "color", "time", "12:00:00"}

\* two series that are told apart
TwoSeries(k, m, l, r, c, d) ==
    /\ PicturePart!Series = <<[key |-> k, label |-> l, color |-> c], [key |-> m, label |-> r, color |-> d]>>
    /\ k # m /\ l # r /\ c # d
    /\ k \notin FieldNames /\ m \notin FieldNames

\* Every category has two series.
LEMMA SeriesAre == PictureInv => \E k, m, l, r, c, d : TwoSeries(k, m, l, r, c, d)
<1> SUFFICES ASSUME PictureInv PROVE \E k, m, l, r, c, d : TwoSeries(k, m, l, r, c, d)
  OBVIOUS
<1>1. CASE category = "system"
  <2>1. TwoSeries("cpu", "memory", "CPU Usage (%)", "Memory Usage (%)", "chart-1", "chart-2")
    BY <1>1 DEF TwoSeries, FieldNames, PicturePart!Series
  <2> QED BY <2>1
<1>2. CASE category = "network"
  <2>1. TwoSeries("rx", "tx", "Download (KB/s)", "Upload (KB/s)", "chart-1", "chart-4")
    BY <1>2 DEF TwoSeries, FieldNames, PicturePart!Series
  <2> QED BY <2>1
<1>3. CASE category = "disk"
  <2>1. TwoSeries("read", "write", "Disk Read (KB/s)", "Disk Write (KB/s)", "chart-2", "chart-3")
    BY <1>3 DEF TwoSeries, FieldNames, PicturePart!Series
  <2> QED BY <2>1
<1> QED BY <1>1, <1>2, <1>3 DEF PictureInv

\* the chart's configuration of them
Configured(k, m, l, r, c, d) ==
    /\ DOMAIN PicturePart!Series = 1..2 /\ DOMAIN PicturePart!Config = {k, m}
    /\ PicturePart!Config[k] = [label |-> l, color |-> c]
    /\ PicturePart!Config[m] = [label |-> r, color |-> d]

\* The configuration has an entry for each.
LEMMA ConfigIs ==
    ASSUME NEW k, NEW m, NEW l, NEW r, NEW c, NEW d, TwoSeries(k, m, l, r, c, d)
    PROVE  Configured(k, m, l, r, c, d)
<1> DEFINE a == [key |-> k, label |-> l, color |-> c]
           b == [key |-> m, label |-> r, color |-> d]
<1>1. PicturePart!Series = <<a, b>> /\ k # m
  BY DEF TwoSeries
<1>2. a.key = k /\ b.key = m /\ a.label = l /\ b.label = r /\ a.color = c /\ b.color = d
  OBVIOUS
<1> HIDE DEF a, b
<1>3. DOMAIN PicturePart!Series = 1..2 /\ PicturePart!Series[1] = a /\ PicturePart!Series[2] = b
  BY <1>1
<1>4. PicturePart!Range(PicturePart!Series) = {a, b} /\ PicturePart!Keys = {k, m}
  BY <1>2, <1>3 DEF PicturePart!Range, PicturePart!Keys
<1>5. PicturePart!SeriesOf(k) = a /\ PicturePart!SeriesOf(m) = b
  BY <1>1, <1>2, <1>4 DEF PicturePart!SeriesOf
<1> QED BY <1>2, <1>3, <1>4, <1>5 DEF PicturePart!Config, Configured

\* what is drawn, named and shown of the two
Shows(i, k, l, c) ==
    /\ PicturePart!Series[i] = [key |-> k, label |-> l, color |-> c]
    /\ PicturePart!Stroke(k) = c
    /\ PicturePart!Drawn[i].value = PicturePart!Value(point[i])
    /\ PicturePart!Legend[i] = [label |-> l, color |-> c]
    /\ PicturePart!Heading = "12:00:00"
    /\ PicturePart!Tooltip[i] =
          [label |-> l, written |-> PicturePart!YFormatter(PicturePart!Value(point[i]))]

\* They are drawn as they are named.
LEMMA ShownAs ==
    ASSUME NEW k, NEW m, NEW l, NEW r, NEW c, NEW d, TwoSeries(k, m, l, r, c, d)
    PROVE  Shows(1, k, l, c) /\ Shows(2, m, r, d)
<1>1. /\ PicturePart!Series[1] = [key |-> k, label |-> l, color |-> c]
      /\ PicturePart!Series[2] = [key |-> m, label |-> r, color |-> d]
      /\ k \notin FieldNames /\ m \notin FieldNames
  BY DEF TwoSeries
<1>2. /\ DOMAIN PicturePart!Series = 1..2 /\ DOMAIN PicturePart!Config = {k, m}
      /\ PicturePart!Config[k] = [label |-> l, color |-> c]
      /\ PicturePart!Config[m] = [label |-> r, color |-> d]
  <2>1. Configured(k, m, l, r, c, d)
    BY ConfigIs
  <2> QED BY <2>1 DEF Configured
<1>3. PicturePart!Stroke(k) = c /\ PicturePart!Stroke(m) = d
  BY <1>2 DEF PicturePart!Stroke
<1>4. /\ PicturePart!Drawn[1] = [mark |-> chartType, dataKey |-> k, stroke |-> c, value |-> PicturePart!Value(point[1])]
      /\ PicturePart!Drawn[2] = [mark |-> chartType, dataKey |-> m, stroke |-> d, value |-> PicturePart!Value(point[2])]
  BY <1>1, <1>2, <1>3 DEF PicturePart!Drawn
<1>5. /\ PicturePart!Item(1) = [dataKey |-> k, name |-> k, value |-> PicturePart!Value(point[1]),
                                color |-> c, payload |-> [time |-> "12:00:00"]]
      /\ PicturePart!Item(2) = [dataKey |-> m, name |-> m, value |-> PicturePart!Value(point[2]),
                                color |-> d, payload |-> [time |-> "12:00:00"]]
  BY <1>4 DEF PicturePart!Item
<1>6. /\ PicturePart!ConfigOf(PicturePart!Item(1), k) = [label |-> l, color |-> c]
      /\ PicturePart!ConfigOf(PicturePart!Item(2), m) = [label |-> r, color |-> d]
  BY <1>1, <1>2 DEF PicturePart!ConfigOf, PicturePart!TextFields, FieldNames
<1>7. /\ PicturePart!Legend[1] = [label |-> l, color |-> c]
      /\ PicturePart!Legend[2] = [label |-> r, color |-> d]
  BY <1>2, <1>5, <1>6 DEF PicturePart!Legend
<1>8. PicturePart!Heading = "12:00:00"
  BY <1>1, <1>2, <1>5 DEF PicturePart!Heading, FieldNames
<1>9. /\ PicturePart!Tooltip[1] = [label |-> l, written |-> PicturePart!YFormatter(PicturePart!Value(point[1]))]
      /\ PicturePart!Tooltip[2] = [label |-> r, written |-> PicturePart!YFormatter(PicturePart!Value(point[2]))]
  BY <1>2, <1>5 DEF PicturePart!Tooltip, PicturePart!Formatter
<1> QED BY <1>1, <1>3, <1>4, <1>7, <1>8, <1>9 DEF Shows

\* Two series of a category are told apart.
LEMMA SeriesApart == PictureInv => PicturePart!ToldApart
<1> SUFFICES ASSUME PictureInv PROVE PicturePart!ToldApart
  OBVIOUS
<1>1. PICK k, m, l, r, c, d : TwoSeries(k, m, l, r, c, d)
  BY SeriesAre
<1>2. DOMAIN PicturePart!Series = 1..2 /\ l # r /\ c # d
  BY <1>1 DEF TwoSeries
<1>3. /\ PicturePart!Legend[1] = [label |-> l, color |-> c]
      /\ PicturePart!Legend[2] = [label |-> r, color |-> d]
  <2>1. Shows(1, k, l, c) /\ Shows(2, m, r, d)
    BY <1>1, ShownAs, Zenon
  <2> QED BY <2>1 DEF Shows
<1> QED BY <1>2, <1>3 DEF PicturePart!ToldApart

\* The powers and the written amounts of the chart are those of Format.
LEMMA SameBytes ==
    /\ PicturePart!Bytes!Power = AmountPart!Power
    /\ \A t : PicturePart!Bytes!FormatSpeed(t) = AmountPart!FormatBytes(t)
BY DEF PicturePart!Bytes!Power, AmountPart!Power, PicturePart!Bytes!FormatSpeed,
       PicturePart!Bytes!FormatBytes, AmountPart!FormatBytes, PicturePart!Bytes!InUnit,
       AmountPart!InUnit, PicturePart!Bytes!UnitIndex, AmountPart!UnitIndex,
       PicturePart!Bytes!Exponents, AmountPart!Exponents, PicturePart!Bytes!Filled,
       AmountPart!Filled, PicturePart!Bytes!Max, AmountPart!Max

\* what is written of a reading is right
IsClose(written, reading) ==
    LET off == IF category = "system" THEN 10 * written.number - reading
               ELSE PicturePart!Bytes!Worth(written) - 10 * reading
        bound == IF category = "system" THEN 10
                 ELSE 10 * K + PicturePart!Bytes!Power[written.unit]
    IN  2 * off <= bound /\ -2 * off <= bound

Close(reading) ==
    \A written \in PicturePart!YFormatter(PicturePart!Value(reading)) : IsClose(written, reading)

\* A percentage is drawn as it is and written to half a percent.
LEMMA PercentClose ==
    ASSUME category = "system", NEW reading \in Nat
    PROVE  Close(reading) /\ PicturePart!Value(reading) = reading
<1>1. PicturePart!Value(reading) = reading
  BY DEF PicturePart!Value
<1>2. PICK n \in Nat : n = (2 * reading + 10) \div 20
  OBVIOUS
<1>3. PicturePart!YFormatter(reading) = {[number |-> n, unit |-> 0]}
  BY <1>2 DEF PicturePart!YFormatter, PicturePart!Round
<1>4. 20 * n <= 2 * reading + 10 /\ 2 * reading + 10 < 20 * n + 20
  BY <1>2
<1>5. 2 * (10 * n - reading) <= 10 /\ -2 * (10 * n - reading) <= 10
  BY <1>4
<1>6. IsClose([number |-> n, unit |-> 0], reading)
  BY <1>5 DEF IsClose
<1> QED BY <1>1, <1>3, <1>6 DEF Close

\* A rate is drawn in whole KB/s and written to half a KB/s and half of the last digit.
LEMMA RateClose ==
    ASSUME category # "system", NEW reading \in Nat
    PROVE  Close(reading) /\ PicturePart!Value(reading) \in Nat
<1>1. K \in Nat /\ K > 1
  BY UnitsGiven
<1>2. PICK v : v = PicturePart!Value(reading)
  OBVIOUS
<1>3. v = (2 * reading + K) \div (2 * K)
  BY <1>2 DEF PicturePart!Value, PicturePart!Round
<1>4. v \in Nat /\ NearestTo(v, K, reading)
  BY <1>1, <1>3, Nearest
<1>5. PICK c \in Nat : c = v * K
  BY <1>1, <1>4
<1>6. 2 * c <= 2 * reading + K /\ 2 * reading < 2 * c + K
  BY <1>4, <1>5 DEF NearestTo
<1>7. PICK t \in Nat : t = 10 * c
  OBVIOUS
<1>8. 10 * K * v = t
  BY <1>1, <1>4, <1>5, <1>7
<1>9. PicturePart!YFormatter(v) = AmountPart!FormatBytes(t)
  BY <1>8, SameBytes DEF PicturePart!YFormatter
<1>10. ASSUME NEW f \in AmountPart!FormatBytes(t) PROVE IsClose(f, reading)
  <2>1. CASE v = 0
    <3>1. c = 0 /\ t = 0
      BY <1>1, <1>5, <1>7, <2>1
    <3>2. f = [number |-> 0, unit |-> 0]
      BY <1>10, <3>1, NoUnit
    <3>3. PicturePart!Bytes!Power[0] = 1 /\ f.unit = 0 /\ f.number = 0
      BY <3>2, SameBytes, PowerIs DEF Powers
    <3>4. PicturePart!Bytes!Worth(f) = 0
      BY <3>3 DEF PicturePart!Bytes!Worth
    <3>5. 2 * (0 - 10 * reading) <= 10 * K + 1 /\ -2 * (0 - 10 * reading) <= 10 * K + 1
      BY <1>1, <1>6, <3>1
    <3> QED BY <3>3, <3>4, <3>5 DEF IsClose
  <2>2. CASE v # 0
    <3>1. t >= 10
      <4>1. c >= K
        BY <1>1, <1>4, <1>5, <2>2
      <4> QED BY <1>1, <1>7, <4>1
    <3>2. PICK u, n \in Nat : f = [number |-> n, unit |-> u] /\ Form(t, u, n)
      BY <1>10, <3>1, FormIs
    <3>3. PICK q \in Nat : q = AmountPart!Power[u]
      BY PowerIs DEF Powers
    <3>4. f.number = n /\ f.unit = u
      BY <3>2
    <3>5. PICK w \in Nat : w = n * q
      OBVIOUS
    <3>6. 2 * (w - t) <= q /\ -2 * (w - t) <= q
      BY <3>2, <3>3, <3>5, WrittenAccurate
    <3>7. PicturePart!Bytes!Worth(f) = w /\ PicturePart!Bytes!Power[f.unit] = q
      BY <3>3, <3>4, <3>5, SameBytes DEF PicturePart!Bytes!Worth
    <3>8. 2 * (w - 10 * reading) <= 10 * K + q /\ -2 * (w - 10 * reading) <= 10 * K + q
      BY <1>1, <1>6, <1>7, <3>6
    <3> QED BY <3>7, <3>8 DEF IsClose
  <2> QED BY <2>1, <2>2
<1> QED BY <1>2, <1>4, <1>9, <1>10 DEF Close

\* The readings of a point.
LEMMA ReadingsAre ==
    ASSUME PictureInv, NEW i \in 1..2
    PROVE  point[i] \in Nat /\ (category = "system" => point[i] <= 1000)
<1>1. PointPercents \subseteq 0..1000 /\ PointRates \subseteq Nat
  BY PartAssumptions DEF PicturePart!PictureAssumption
<1>2. point[i] \in PicturePart!Readings(category)
  BY DEF PictureInv
<1>3. CASE category = "system"
  <2>1. PICK x \in PointPercents : x = point[i]
    BY <1>2, <1>3 DEF PicturePart!Readings
  <2>2. x \in Nat /\ x <= 1000
    BY <1>1
  <2> QED BY <2>1, <2>2
<1>4. CASE category # "system"
  <2>1. point[i] \in PointRates
    BY <1>2, <1>4 DEF PicturePart!Readings
  <2> QED BY <1>1, <1>4, <2>1
<1> QED BY <1>3, <1>4

\* What is drawn is within the axis.
LEMMA WithinAxis ==
    ASSUME PictureInv, NEW i \in 1..2
    PROVE  /\ PicturePart!Drawn[i].value \in PicturePart!Domain.from..PicturePart!Domain.to
           /\ ~PicturePart!HasNegative
           /\ Close(point[i])
<1>1. PICK k, m, l, r, c, d : TwoSeries(k, m, l, r, c, d)
  BY SeriesAre
<1>2. /\ PicturePart!Drawn[1].value = PicturePart!Value(point[1])
      /\ PicturePart!Drawn[2].value = PicturePart!Value(point[2])
  <2>1. Shows(1, k, l, c) /\ Shows(2, m, r, d)
    BY <1>1, ShownAs, Zenon
  <2> QED BY <2>1 DEF Shows
<1>3. \A j \in 1..2 : /\ PicturePart!Value(point[j]) \in Nat /\ Close(point[j])
                      /\ category = "system" => PicturePart!Value(point[j]) <= 1000
  <2> SUFFICES ASSUME NEW j \in 1..2
               PROVE  /\ PicturePart!Value(point[j]) \in Nat /\ Close(point[j])
                      /\ category = "system" => PicturePart!Value(point[j]) <= 1000
    OBVIOUS
  <2>1. PICK x \in Nat : x = point[j] /\ (category = "system" => x <= 1000)
    BY ReadingsAre
  <2> QED BY <2>1, PercentClose, RateClose
<1>4. PICK v \in Nat : v = PicturePart!Value(point[1])
  BY <1>3
<1>5. PICK w \in Nat : w = PicturePart!Value(point[2])
  BY <1>3
<1>6. DOMAIN PicturePart!Drawn = 1..2
  <2>1. DOMAIN PicturePart!Series = 1..2
    BY <1>1 DEF TwoSeries
  <2> QED BY <2>1 DEF PicturePart!Drawn
<1>7. ~PicturePart!HasNegative
  BY <1>2, <1>4, <1>5, <1>6 DEF PicturePart!HasNegative
<1>8. PicturePart!Domain.from = 0
  BY DEF PicturePart!Domain
<1>9. CASE category = "system"
  BY <1>2, <1>3, <1>7, <1>8, <1>9 DEF PicturePart!Domain
<1>10. CASE category # "system"
  <2>1. {PicturePart!Drawn[j].value : j \in 1..2} = {v, w}
    BY <1>2, <1>4, <1>5
  <2>2. PicturePart!Domain.to = PicturePart!Max({v, w})
    BY <1>10, <2>1 DEF PicturePart!Domain
  <2>3. \E x \in {v, w} : \A y \in {v, w} : x >= y
    OBVIOUS
  <2>4. PicturePart!Max({v, w}) \in {v, w} /\ \A y \in {v, w} : PicturePart!Max({v, w}) >= y
    BY <2>3 DEF PicturePart!Max
  <2>5. PICK z \in Nat : z = PicturePart!Domain.to /\ v <= z /\ w <= z
    BY <2>2, <2>4
  <2> QED BY <1>2, <1>3, <1>4, <1>5, <1>7, <1>8, <2>5
<1> QED BY <1>9, <1>10

\* The legend and the tooltip tell the point.
LEMMA PointTold == PictureInv => PicturePart!TellsThePoint
<1> SUFFICES ASSUME PictureInv PROVE PicturePart!TellsThePoint
  OBVIOUS
<1>1. PICK k, m, l, r, c, d : TwoSeries(k, m, l, r, c, d)
  BY SeriesAre
<1>2. Shows(1, k, l, c) /\ Shows(2, m, r, d)
  BY <1>1, ShownAs, Zenon
<1>3. DOMAIN PicturePart!Series = 1..2
  BY <1>1 DEF TwoSeries
<1>4. \A i \in 1..2 : PicturePart!Item(i).payload.time = "12:00:00"
  BY DEF PicturePart!Item
<1> SUFFICES ASSUME NEW i \in 1..2
             PROVE  /\ PicturePart!Legend[i] = [label |-> PicturePart!Series[i].label,
                                                color |-> PicturePart!Stroke(PicturePart!Series[i].key)]
                    /\ PicturePart!Tooltip[i].label = PicturePart!Series[i].label
                    /\ PicturePart!Heading = "12:00:00"
                    /\ PicturePart!Tooltip[i].written = PicturePart!YFormatter(PicturePart!Value(point[i]))
  BY <1>3, <1>4, WithinAxis DEF PicturePart!TellsThePoint, Close, IsClose
<1> QED BY <1>2 DEF Shows

\* The corners of a stack are rounded once each.
LEMMA CornersOnce == PicturePart!RoundOutside
<1> SUFFICES ASSUME NEW h \in BOOLEAN, NEW n \in 2..4
             PROVE  LET corners(i) == PicturePart!BarCorners(TRUE, FALSE, h, i, n)
                    IN  /\ UNION {corners(i) : i \in 0..n - 1} = PicturePart!All
                        /\ \A i, j \in 0..n - 1 : i # j => corners(i) \cap corners(j) = {}
                        /\ \A i \in 1..n - 2 : corners(i) = {}
                        /\ \A i \in 0..n - 1 : PicturePart!BarCorners(TRUE, TRUE, h, i, n) = {}
  BY DEF PicturePart!RoundOutside
<1> DEFINE corners(i) == PicturePart!BarCorners(TRUE, FALSE, h, i, n)
           upper == IF h THEN {"top right", "bottom right"} ELSE {"top left", "top right"}
           lower == IF h THEN {"top left", "bottom left"} ELSE {"bottom right", "bottom left"}
<1>9. n \in Nat /\ n >= 2 /\ n # 1 /\ n - 1 \in Nat /\ n - 1 # 0
  OBVIOUS
<1>1. corners(n - 1) = upper
  BY <1>9 DEF PicturePart!BarCorners
<1>2. corners(0) = lower
  BY <1>9 DEF PicturePart!BarCorners
<1>3. \A i \in 1..n - 2 : corners(i) = {}
  <2> SUFFICES ASSUME NEW i \in 1..n - 2 PROVE corners(i) = {}
    OBVIOUS
  <2>1. i # 0 /\ i # n - 1
    BY <1>9
  <2> QED BY <1>9, <2>1 DEF PicturePart!BarCorners
<1>4. \A i \in 0..n - 1 : PicturePart!BarCorners(TRUE, TRUE, h, i, n) = {}
  BY DEF PicturePart!BarCorners
<1>5. upper \cup lower = PicturePart!All /\ upper \cap lower = {}
  BY DEF PicturePart!All
<1> HIDE DEF corners, upper, lower
<1>6. \A i \in 0..n - 1 : i = 0 \/ i = n - 1 \/ i \in 1..n - 2
  OBVIOUS
<1>7. UNION {corners(i) : i \in 0..n - 1} = PicturePart!All
  <2>1. 0 \in 0..n - 1 /\ n - 1 \in 0..n - 1
    OBVIOUS
  <2>2. ASSUME NEW x PROVE (\E i \in 0..n - 1 : x \in corners(i)) <=> x \in upper \cup lower
    BY <1>1, <1>2, <1>3, <1>6, <2>1
  <2> QED BY <1>5, <2>2
<1>8. \A i, j \in 0..n - 1 : i # j => corners(i) \cap corners(j) = {}
  BY <1>1, <1>2, <1>3, <1>5, <1>6
<1> QED BY <1>3, <1>4, <1>7, <1>8 DEF corners

\* The chart's part of the page.
LEMMA PictureShown == PictureInv => PicturePart!PictureTells
BY SeriesApart, PointTold, CornersOnce DEF PicturePart!PictureTells

-----------------------------------------------------------------------------
(* The parts of the bench, which share no state.                           *)

pageVars == <<part, others, vars, tableVars, scales, badgeVars, linkVars>>

\* What is shown of a value, an amount, a change and a point is as of their invariants.
NumbersInv == AmountInv /\ BadgeInv /\ MeterInv /\ PictureInv

\* Initially.
LEMMA NumbersInit == PageInit => NumbersInv
BY AmountTypes, BadgeInit, MeterTypes, PictureTypes DEF PageInit, NumbersInv

\* A step of the page is one of each part, or leaves the part as it is.
LEMMA NumbersAlone ==
    [PageNext]_pageVars =>
       /\ [AmountPart!Next]_amount /\ [MeterPart!Next]_percent
       /\ [BadgePart!Next]_(BadgePart!vars) /\ [PicturePart!Next]_(PicturePart!vars)
<1> SUFFICES ASSUME [PageNext]_pageVars
             PROVE  /\ [AmountPart!Next]_amount /\ [MeterPart!Next]_percent
                    /\ [BadgePart!Next]_(BadgePart!vars) /\ [PicturePart!Next]_(PicturePart!vars)
  OBVIOUS
<1> USE DEF pageVars, scales, badgeVars, others, pictureVars, BadgePart!vars, PicturePart!vars
<1>1. [AmountPart!Next]_amount
  BY DEF PageNext
<1>2. [MeterPart!Next]_percent
  BY DEF PageNext
<1>3. [BadgePart!Next]_(BadgePart!vars)
  BY DEF PageNext
<1>4. [PicturePart!Next]_(PicturePart!vars)
  BY DEF PageNext
<1> QED BY <1>1, <1>2, <1>3, <1>4

\* It keeps their invariants.
LEMMA NumbersStep == NumbersInv /\ [PageNext]_pageVars => NumbersInv'
BY NumbersAlone, AmountTypes, BadgeStep, MeterTypes, PictureTypes DEF NumbersInv

\* Whatever the change, and for every amount that is written with a unit (lib/utils.ts,
\* lib/format.ts, DeltaBadge): what is written is off by half of its last digit at most, of
\* two such amounts the larger is never written as less, and a badge's sign, arrow and
\* colour are those of the change.  Zero and every amount of a byte or more have a unit,
\* whichever one the logarithm finds just below a power; an amount between zero and one
\* byte has none (sizes[-1]), and nothing is said of it.
THEOREM NumbersWrittenRight == PageSpec => []WrittenRight
<1>1. NumbersInv => WrittenRight
  BY AmountWritten, BadgeTells DEF NumbersInv, WrittenRight
<1> QED BY <1>1, NumbersInit, NumbersStep, PTL DEF PageSpec, pageVars

\* Whatever the value, the number of segments and of cores and the readings of the point:
\* the marker stands on the zone that is lit, the segments are the value's share, and the
\* legend and the tooltip name the series and write the reading.
THEOREM ValuesAlwaysShown == PageSpec => []ShowsTheValue
<1>1. NumbersInv => ShowsTheValue
  BY MarkersStand, FilledAre, PictureShown DEF NumbersInv, ShowsTheValue, MeterPart!ShowsTheValue
<1> QED BY <1>1, NumbersInit, NumbersStep, PTL DEF PageSpec, pageVars

-----------------------------------------------------------------------------
(* Sections: what the daemon writes is what they read.                     *)

\* the two lists of fields
Tags == SectionsPart!Tags
Types == SectionsPart!Types

\* the types of what a snapshot consists of
Objects == {"HostInfo", "CPUStats", "MemoryStats", "DiskMetric", "NetworkMetric", "GPUStats",
            "ContainerMetric"}

\* The two lists of fields agree.
LEMMA ListsAgree ==
    ASSUME NEW type \in Objects \cup {"SystemSnapshot"}
    PROVE  /\ Types[type].required = Tags[type].always
           /\ Types[type].optional = Tags[type].omitempty
           /\ Tags[type].always \cap Tags[type].omitempty = {}
<1> USE DEF Types, Tags, SectionsPart!Types, SectionsPart!Tags
<1>1. CASE type = "HostInfo"
  BY <1>1
<1>2. CASE type = "CPUStats"
  BY <1>2
<1>3. CASE type = "MemoryStats"
  BY <1>3
<1>4. CASE type = "DiskMetric"
  BY <1>4
<1>5. CASE type = "NetworkMetric"
  BY <1>5
<1>6. CASE type = "GPUStats"
  BY <1>6
<1>7. CASE type = "ContainerMetric"
  BY <1>7
<1>8. CASE type = "SystemSnapshot"
  BY <1>8
<1> QED BY <1>1, <1>2, <1>3, <1>4, <1>5, <1>6, <1>7, <1>8 DEF Objects

\* what is there to be read, and not thrown
Good(x) == x \notin {Missing, Null, Crash}

\* x may be read as the type says
IsObject(type, x) ==
    /\ Good(x)
    /\ Types[type].required \subseteq DOMAIN x
    /\ DOMAIN x \subseteq Types[type].required \cup Types[type].optional
    /\ \A f \in DOMAIN x : Good(x[f])

\* The marks are told apart, and from anything else.
LEMMA MarksApart ==
    /\ Crash \notin {Missing, Null, NoText, Text} /\ Missing \notin {Null, NoText, Text}
    /\ Null \notin {NoText, Text} /\ NoText # Text
    /\ Good(NoText) /\ Good(Text) /\ Good(<<>>)
    /\ \A x \in Int : Good(x)
    /\ \A x \in BOOLEAN : Good(x)
    /\ \A x \in SectionsPart!Words : Good(x)
    /\ \A x : x \notin SectionsPart!Marks => Good(x)
BY PartAssumptions DEF SectionsPart!SectionsAssumption, SectionsPart!Marks, Good

\* A struct is written as an object of its type, with its fields.
LEMMA MarshalIs ==
    ASSUME NEW type \in Objects, NEW s, SectionsPart!IsStruct(type, s)
    PROVE  /\ IsObject(type, SectionsPart!Marshal(type, s))
           /\ \A f \in Types[type].required : SectionsPart!Marshal(type, s)[f] = s[f]
<1>1. PICK A, O : /\ A = Types[type].required /\ O = Types[type].optional
                  /\ A = Tags[type].always /\ O = Tags[type].omitempty /\ A \cap O = {}
  BY ListsAgree
<1>2. PICK x : x = SectionsPart!Marshal(type, s)
  OBVIOUS
<1>3. DOMAIN s = A \cup O /\ \A f \in DOMAIN s : Good(s[f])
  BY <1>1 DEF SectionsPart!IsStruct, Tags, Good
<1>4. Good(x)
  BY <1>2, MarksApart DEF SectionsPart!IsStruct
<1>5. x = [f \in {g \in DOMAIN s : g \in O => ~SectionsPart!IsEmpty(g, s[g])} |-> s[f]]
  BY <1>1, <1>2 DEF SectionsPart!Marshal, Tags
<1>6. A \subseteq DOMAIN x /\ DOMAIN x \subseteq A \cup O /\ \A f \in DOMAIN x : x[f] = s[f]
  BY <1>1, <1>3, <1>5
<1> QED BY <1>1, <1>2, <1>3, <1>4, <1>6 DEF IsObject

\* a list of what may be read as the type says
IsObjects(type, xs) ==
    /\ Good(xs) /\ xs # <<>> /\ \E n \in Nat \ {0} : DOMAIN xs = 1..n
    /\ \A i \in DOMAIN xs : IsObject(type, xs[i])

\* So is a list of structs.
LEMMA MarshalListIs ==
    ASSUME NEW type \in Objects, NEW s, s # Null, SectionsPart!IsList(type, s), s # <<>>
    PROVE  /\ IsObjects(type, SectionsPart!MarshalList(type, s))
           /\ DOMAIN SectionsPart!MarshalList(type, s) = DOMAIN s
           /\ \A i \in DOMAIN s : \A f \in Types[type].required :
                 SectionsPart!MarshalList(type, s)[i][f] = s[i][f]
<1>1. PICK xs : xs = SectionsPart!MarshalList(type, s)
  OBVIOUS
<1>2. xs = [i \in DOMAIN s |-> SectionsPart!Marshal(type, s[i])]
  BY <1>1 DEF SectionsPart!MarshalList
<1>3. PICK n \in Nat : DOMAIN s = 1..n /\ n # 0
  <2>1. PICK R : s \in Seq(R)
    BY DEF SectionsPart!IsList
  <2>2. Len(s) \in Nat /\ DOMAIN s = 1..Len(s) /\ Len(s) # 0
    BY <2>1
  <2> QED BY <2>2
<1>4. xs # <<>>
  <2>1. 1 \in DOMAIN xs
    BY <1>2, <1>3
  <2>2. DOMAIN <<>> = {}
    OBVIOUS
  <2> QED BY <2>1, <2>2
<1>5. Good(xs)
  BY <1>1, MarksApart DEF SectionsPart!IsList
<1>6. \A i \in DOMAIN s : SectionsPart!IsStruct(type, s[i])
  BY DEF SectionsPart!IsList
<1>7. ASSUME NEW i \in DOMAIN s
      PROVE  IsObject(type, xs[i]) /\ \A f \in Types[type].required : xs[i][f] = s[i][f]
  BY <1>2, <1>6, MarshalIs
<1> QED BY <1>1, <1>2, <1>3, <1>4, <1>5, <1>7 DEF IsObjects

\* nothing has come yet, or what the daemon writes of something that the collectors brought
SnapshotInv ==
    content = Null \/ \E h \in Hosts, c \in CPUs, m \in Memories, d \in Disks, n \in Networks,
                         g \in GPUs, k \in Dockers :
                         content = SectionsPart!Written(h, c, m, d, n, g, k)

\* what each field of a snapshot holds
Holds(f, x) ==
    CASE f = "host" -> IsObject("HostInfo", x) /\ x.load_avg_1 \in Nat
      [] f = "cpu" -> /\ IsObject("CPUStats", x)
                      /\ x.core_count \in Nat /\ x.per_core_percent \in Seq(Int)
      [] f = "memory" -> IsObject("MemoryStats", x)
      [] f = "disks" -> /\ IsObjects("DiskMetric", x)
                        /\ \A i \in DOMAIN x : /\ x[i].used_percent \in Int
                                               /\ x[i].read_ops_per_sec \in Int
                                               /\ x[i].write_ops_per_sec \in Int
      [] f = "networks" -> IsObjects("NetworkMetric", x)
      [] f = "gpu" -> IsObject("GPUStats", x)
      [] f = "containers" -> IsObjects("ContainerMetric", x)
      [] f = "docker_error" -> x = Text
      [] OTHER -> TRUE

\* A pointer that is written is one to a struct.
LEMMA PointerIs ==
    ASSUME NEW type \in Objects, NEW f \in {"host", "cpu", "memory", "gpu"}, NEW s,
           s # Null => SectionsPart!IsStruct(type, s),
           ~SectionsPart!IsEmpty(f, SectionsPart!MarshalPointer(type, s))
    PROVE  /\ s # Null /\ SectionsPart!MarshalPointer(type, s) = SectionsPart!Marshal(type, s)
           /\ IsObject(type, SectionsPart!Marshal(type, s))
           /\ \A g \in Types[type].required : SectionsPart!Marshal(type, s)[g] = s[g]
<1>1. s # Null
  BY DEF SectionsPart!IsEmpty, SectionsPart!MarshalPointer, SectionsPart!Lists, SectionsPart!Numbers
<1>2. SectionsPart!IsStruct(type, s)
  BY <1>1
<1> QED BY <1>1, <1>2, MarshalIs DEF SectionsPart!MarshalPointer

\* A list that is written is one of structs.
LEMMA ListIs ==
    ASSUME NEW type \in Objects, NEW f \in {"disks", "networks", "containers"}, NEW s,
           s # Null => SectionsPart!IsList(type, s),
           ~SectionsPart!IsEmpty(f, SectionsPart!MarshalList(type, s))
    PROVE  /\ s # Null /\ IsObjects(type, SectionsPart!MarshalList(type, s))
           /\ DOMAIN SectionsPart!MarshalList(type, s) = DOMAIN s
           /\ \A i \in DOMAIN s : \A g \in Types[type].required :
                 SectionsPart!MarshalList(type, s)[i][g] = s[i][g]
<1>1. SectionsPart!MarshalList(type, s) # Null /\ SectionsPart!MarshalList(type, s) # <<>>
  BY DEF SectionsPart!IsEmpty, SectionsPart!Lists, SectionsPart!Numbers
<1>2. s # Null
  BY <1>1 DEF SectionsPart!MarshalList
<1>3. s # <<>>
  <2> SUFFICES ASSUME s = <<>> PROVE FALSE
    OBVIOUS
  <2>1. SectionsPart!MarshalList(type, s) = [i \in DOMAIN s |-> SectionsPart!Marshal(type, s[i])]
    BY <1>2 DEF SectionsPart!MarshalList
  <2>2. SectionsPart!MarshalList(type, s) = <<>>
    BY <2>1
  <2> QED BY <1>1, <2>2
<1> QED BY <1>2, <1>3, MarshalListIs

\* Whatever the collectors bring, what is written is as the types say.
LEMMA Arrives ==
    ASSUME SnapshotInv, content # Null
    PROVE  /\ Good(content) /\ SectionsPart!HasType("SystemSnapshot", content)
           /\ \A f \in DOMAIN content : Holds(f, content[f])
<1>1. PICK h \in Hosts, c \in CPUs, m \in Memories, d \in Disks, n \in Networks,
           g \in GPUs, k \in Dockers : content = SectionsPart!Written(h, c, m, d, n, g, k)
  BY DEF SnapshotInv
<1>2. PICK o : o = content
  OBVIOUS
<1>3. PICK s : s = [timestamp |-> Text,
         host |-> SectionsPart!MarshalPointer("HostInfo", h),
         cpu |-> SectionsPart!MarshalPointer("CPUStats", c),
         memory |-> SectionsPart!MarshalPointer("MemoryStats", m),
         disks |-> SectionsPart!MarshalList("DiskMetric", d),
         networks |-> SectionsPart!MarshalList("NetworkMetric", n),
         gpu |-> SectionsPart!MarshalPointer("GPUStats", g),
         containers |-> SectionsPart!MarshalList("ContainerMetric", k.containers),
         docker_error |-> k.error]
  OBVIOUS
<1>4. o = SectionsPart!Marshal("SystemSnapshot", s)
  BY <1>1, <1>2, <1>3 DEF SectionsPart!Written, SectionsPart!MarshalSnapshot
<1>5. Good(o)
  <2>1. SectionsPart!Written(h, c, m, d, n, g, k) \notin SectionsPart!Marks
    BY PartAssumptions DEF SectionsPart!SectionsAssumption
  <2> QED BY <1>1, <1>2, <2>1, MarksApart
<1>6. PICK O : /\ O = {"host", "cpu", "memory", "disks", "networks", "gpu", "containers", "docker_error"}
               /\ O = Tags["SystemSnapshot"].omitempty /\ O = Types["SystemSnapshot"].optional
               /\ Types["SystemSnapshot"].required = {"timestamp"}
               /\ Tags["SystemSnapshot"].always = {"timestamp"}
  BY DEF Tags, Types, SectionsPart!Tags, SectionsPart!Types
<1>7. DOMAIN s = {"timestamp"} \cup O
  BY <1>3, <1>6
<1>8. o = [f \in {x \in DOMAIN s : x \in O => ~SectionsPart!IsEmpty(x, s[x])} |-> s[f]]
  BY <1>4, <1>6 DEF SectionsPart!Marshal, Tags
<1>9. "timestamp" \in DOMAIN o /\ DOMAIN o \subseteq {"timestamp"} \cup O
  <2>1. "timestamp" \notin O
    BY <1>6
  <2> QED BY <1>7, <1>8, <2>1
<1>10. SectionsPart!HasType("SystemSnapshot", o)
  BY <1>6, <1>9 DEF SectionsPart!HasType, Types
<1>11. \A f \in DOMAIN o : o[f] = s[f] /\ (f \in O => ~SectionsPart!IsEmpty(f, s[f]))
  BY <1>8
<1> USE DEF Objects, SectionsPart!SectionsAssumption
<1>12. "host" \in DOMAIN o => Holds("host", o["host"])
  <2> SUFFICES ASSUME "host" \in DOMAIN o PROVE Holds("host", o["host"])
    OBVIOUS
  <2>1. h # Null => SectionsPart!IsStruct("HostInfo", h) /\ h.load_avg_1 \in Nat
    BY PartAssumptions
  <2>2. s["host"] = SectionsPart!MarshalPointer("HostInfo", h) /\ o["host"] = s["host"]
    BY <1>3, <1>11
  <2>3. ~SectionsPart!IsEmpty("host", SectionsPart!MarshalPointer("HostInfo", h))
    BY <1>6, <1>11, <2>2
  <2>4. /\ h # Null /\ o["host"] = SectionsPart!Marshal("HostInfo", h)
        /\ IsObject("HostInfo", o["host"])
        /\ \A x \in Types["HostInfo"].required : o["host"][x] = h[x]
    BY <2>1, <2>2, <2>3, PointerIs
  <2>5. "load_avg_1" \in Types["HostInfo"].required
    BY DEF Types, SectionsPart!Types
  <2> QED BY <2>1, <2>4, <2>5 DEF Holds
<1>13. "cpu" \in DOMAIN o => Holds("cpu", o["cpu"])
  <2> SUFFICES ASSUME "cpu" \in DOMAIN o PROVE Holds("cpu", o["cpu"])
    OBVIOUS
  <2>1. c # Null => /\ SectionsPart!IsStruct("CPUStats", c)
                    /\ c.core_count \in Nat /\ c.per_core_percent \in Seq(Int)
    BY PartAssumptions
  <2>2. s["cpu"] = SectionsPart!MarshalPointer("CPUStats", c) /\ o["cpu"] = s["cpu"]
    BY <1>3, <1>11
  <2>3. ~SectionsPart!IsEmpty("cpu", SectionsPart!MarshalPointer("CPUStats", c))
    BY <1>6, <1>11, <2>2
  <2>4. /\ c # Null /\ o["cpu"] = SectionsPart!Marshal("CPUStats", c)
        /\ IsObject("CPUStats", o["cpu"])
        /\ \A x \in Types["CPUStats"].required : o["cpu"][x] = c[x]
    BY <2>1, <2>2, <2>3, PointerIs
  <2>5. {"core_count", "per_core_percent"} \subseteq Types["CPUStats"].required
    BY DEF Types, SectionsPart!Types
  <2> QED BY <2>1, <2>4, <2>5 DEF Holds
<1>14. "memory" \in DOMAIN o => Holds("memory", o["memory"])
  <2> SUFFICES ASSUME "memory" \in DOMAIN o PROVE Holds("memory", o["memory"])
    OBVIOUS
  <2>1. m # Null => SectionsPart!IsStruct("MemoryStats", m)
    BY PartAssumptions
  <2>2. s["memory"] = SectionsPart!MarshalPointer("MemoryStats", m) /\ o["memory"] = s["memory"]
    BY <1>3, <1>11
  <2>3. ~SectionsPart!IsEmpty("memory", SectionsPart!MarshalPointer("MemoryStats", m))
    BY <1>6, <1>11, <2>2
  <2>4. IsObject("MemoryStats", o["memory"])
    BY <2>1, <2>2, <2>3, PointerIs
  <2> QED BY <2>4 DEF Holds
<1>15. "gpu" \in DOMAIN o => Holds("gpu", o["gpu"])
  <2> SUFFICES ASSUME "gpu" \in DOMAIN o PROVE Holds("gpu", o["gpu"])
    OBVIOUS
  <2>1. g # Null => SectionsPart!IsStruct("GPUStats", g)
    BY PartAssumptions
  <2>2. s["gpu"] = SectionsPart!MarshalPointer("GPUStats", g) /\ o["gpu"] = s["gpu"]
    BY <1>3, <1>11
  <2>3. ~SectionsPart!IsEmpty("gpu", SectionsPart!MarshalPointer("GPUStats", g))
    BY <1>6, <1>11, <2>2
  <2>4. IsObject("GPUStats", o["gpu"])
    BY <2>1, <2>2, <2>3, PointerIs
  <2> QED BY <2>4 DEF Holds
<1>16. "disks" \in DOMAIN o => Holds("disks", o["disks"])
  <2> SUFFICES ASSUME "disks" \in DOMAIN o PROVE Holds("disks", o["disks"])
    OBVIOUS
  <2>1. d # Null => SectionsPart!IsList("DiskMetric", d)
    BY PartAssumptions
  <2>2. s["disks"] = SectionsPart!MarshalList("DiskMetric", d) /\ o["disks"] = s["disks"]
    BY <1>3, <1>11
  <2>3. ~SectionsPart!IsEmpty("disks", SectionsPart!MarshalList("DiskMetric", d))
    BY <1>6, <1>11, <2>2
  <2>4. /\ d # Null /\ IsObjects("DiskMetric", o["disks"]) /\ DOMAIN o["disks"] = DOMAIN d
        /\ \A i \in DOMAIN d : \A x \in Types["DiskMetric"].required : o["disks"][i][x] = d[i][x]
    BY <2>1, <2>2, <2>3, ListIs
  <2>5. {"used_percent", "read_ops_per_sec", "write_ops_per_sec"} \subseteq Types["DiskMetric"].required
    BY DEF Types, SectionsPart!Types
  <2>6. \A i \in DOMAIN d : {d[i].used_percent, d[i].read_ops_per_sec, d[i].write_ops_per_sec} \subseteq Int
    BY <2>4, PartAssumptions
  <2> QED BY <2>4, <2>5, <2>6 DEF Holds
<1>17. "networks" \in DOMAIN o => Holds("networks", o["networks"])
  <2> SUFFICES ASSUME "networks" \in DOMAIN o PROVE Holds("networks", o["networks"])
    OBVIOUS
  <2>1. n # Null => SectionsPart!IsList("NetworkMetric", n)
    BY PartAssumptions
  <2>2. s["networks"] = SectionsPart!MarshalList("NetworkMetric", n) /\ o["networks"] = s["networks"]
    BY <1>3, <1>11
  <2>3. ~SectionsPart!IsEmpty("networks", SectionsPart!MarshalList("NetworkMetric", n))
    BY <1>6, <1>11, <2>2
  <2>4. IsObjects("NetworkMetric", o["networks"])
    BY <2>1, <2>2, <2>3, ListIs
  <2> QED BY <2>4 DEF Holds
<1>18. "containers" \in DOMAIN o => Holds("containers", o["containers"])
  <2> SUFFICES ASSUME "containers" \in DOMAIN o PROVE Holds("containers", o["containers"])
    OBVIOUS
  <2>1. PICK l : l = k.containers
    OBVIOUS
  <2>2. l # Null => SectionsPart!IsList("ContainerMetric", l)
    BY <2>1, PartAssumptions
  <2>3. s["containers"] = SectionsPart!MarshalList("ContainerMetric", l) /\ o["containers"] = s["containers"]
    BY <1>3, <1>11, <2>1
  <2>4. ~SectionsPart!IsEmpty("containers", SectionsPart!MarshalList("ContainerMetric", l))
    BY <1>6, <1>11, <2>3
  <2>5. IsObjects("ContainerMetric", o["containers"])
    BY <2>2, <2>3, <2>4, ListIs
  <2> QED BY <2>5 DEF Holds
<1>19. "docker_error" \in DOMAIN o => Holds("docker_error", o["docker_error"])
  <2> SUFFICES ASSUME "docker_error" \in DOMAIN o PROVE Holds("docker_error", o["docker_error"])
    OBVIOUS
  <2>1. k.error \in {NoText, Text}
    BY PartAssumptions
  <2>2. s["docker_error"] = k.error /\ o["docker_error"] = s["docker_error"]
    BY <1>3, <1>11
  <2>3. ~SectionsPart!IsEmpty("docker_error", k.error)
    BY <1>6, <1>11, <2>2
  <2>4. k.error # NoText
    BY <2>3 DEF SectionsPart!IsEmpty, SectionsPart!Lists, SectionsPart!Numbers
  <2> QED BY <2>1, <2>2, <2>4 DEF Holds
<1>20. "timestamp" \in DOMAIN o => Holds("timestamp", o["timestamp"])
  BY DEF Holds
<1>21. \A f \in DOMAIN o : Holds(f, o[f])
  <2> SUFFICES ASSUME NEW f \in DOMAIN o PROVE Holds(f, o[f])
    OBVIOUS
  <2>1. f \in {"timestamp", "host", "cpu", "memory", "disks", "networks", "gpu", "containers", "docker_error"}
    BY <1>6, <1>9
  <2> QED BY <2>1, <1>12, <1>13, <1>14, <1>15, <1>16, <1>17, <1>18, <1>19, <1>20
<1> QED BY <1>2, <1>5, <1>10, <1>21

\* What is read of an object.
LEMMA GetIs ==
    ASSUME NEW type, NEW x, NEW f, IsObject(type, x)
    PROVE  /\ SectionsPart!Get(x, f) \notin {Null, Crash}
           /\ f \in Types[type].required => /\ Good(SectionsPart!Get(x, f))
                                           /\ SectionsPart!Get(x, f) = x[f]
BY MarksApart DEF IsObject, Good, SectionsPart!Get, SectionsPart!Nothing

\* x may be read as the type says, or is not there
MayBe(type, x) == x = Missing \/ IsObject(type, x)

\* What is read of an object that may not be there.
LEMMA OptIs ==
    ASSUME NEW type, NEW x, NEW f, MayBe(type, x)
    PROVE  /\ SectionsPart!Opt(x, f) \notin {Null, Crash}
           /\ x = Missing => SectionsPart!Opt(x, f) = Missing
           /\ x # Missing => IsObject(type, x) /\ SectionsPart!Opt(x, f) = SectionsPart!Get(x, f)
<1>1. CASE x = Missing
  BY <1>1, MarksApart DEF SectionsPart!Opt, SectionsPart!Nothing
<1>2. CASE x # Missing
  <2>1. IsObject(type, x)
    BY <1>2 DEF MayBe
  <2>2. x # Null
    BY <2>1 DEF IsObject, Good
  <2> QED BY <1>2, <2>1, <2>2, GetIs DEF SectionsPart!Opt, SectionsPart!Nothing
<1> QED BY <1>1, <1>2

\* What stands in for what is not there.
LEMMA OrIs ==
    ASSUME NEW x, NEW d, x # Crash, d # Crash
    PROVE  /\ SectionsPart!Or(x, d) # Crash /\ SectionsPart!OrElse(x, d) # Crash
           /\ SectionsPart!Default(x, d) # Crash
           /\ Good(d) => Good(SectionsPart!Or(x, d)) /\ Good(SectionsPart!OrElse(x, d))
BY DEF SectionsPart!Or, SectionsPart!OrElse, SectionsPart!Default, SectionsPart!Nothing, Good

\* What is there can be written, drawn and coloured.
LEMMA FixedIs ==
    ASSUME NEW x
    PROVE  /\ Good(x) => SectionsPart!Fixed(x) = x /\ Good(SectionsPart!Percent(x))
           /\ \A a, b : SectionsPart!Colour(x, a, b) \in {"red", "amber", "calm"}
<1>1. Good(x) => SectionsPart!Fixed(x) = x
  BY DEF Good, SectionsPart!Fixed, SectionsPart!Nothing
<1>2. Good(x) => SectionsPart!Percent(x) \in {0, 1000, x}
  BY DEF Good, SectionsPart!Percent, SectionsPart!Nothing, SectionsPart!Meter!Clamp
<1>3. Good(0) /\ Good(1000)
  BY MarksApart
<1>4. \A a, b : SectionsPart!Colour(x, a, b) \in {"red", "amber", "calm"}
  BY DEF SectionsPart!Colour
<1> QED BY <1>1, <1>2, <1>3, <1>4

\* a list that may be read
IsRead(xs) == Good(xs) /\ \E n \in Nat : DOMAIN xs = 1..n

\* An empty one is.
LEMMA NoneIsRead == IsRead(<<>>)
<1>1. DOMAIN <<>> = 1..0
  OBVIOUS
<1> QED BY <1>1, MarksApart DEF IsRead

\* The number of those that run is one.
LEMMA CountIs ==
    ASSUME NEW xs, IsRead(xs)
    PROVE  /\ SectionsPart!Count(xs, SectionsPart!IsRunning)
                 = Cardinality({i \in DOMAIN xs : SectionsPart!IsRunning(xs[i])})
           /\ SectionsPart!Count(xs, LAMBDA c : TRUE) = Cardinality(DOMAIN xs)
           /\ Good(SectionsPart!Count(xs, SectionsPart!IsRunning))
           /\ Good(SectionsPart!Count(xs, LAMBDA c : TRUE))
<1>1. PICK n \in Nat : DOMAIN xs = 1..n
  BY DEF IsRead
<1>2. IsFiniteSet(1..n)
  BY FS_Interval
<1>3. PICK R : R = {i \in DOMAIN xs : SectionsPart!IsRunning(xs[i])}
  OBVIOUS
<1>4. \A T : SectionsPart!Cardinality(T) = Cardinality(T)
  BY DEF SectionsPart!Cardinality, Cardinality, SectionsPart!IsFiniteSet, IsFiniteSet
<1>5. SectionsPart!Count(xs, SectionsPart!IsRunning) = SectionsPart!Cardinality(R)
  BY <1>3 DEF SectionsPart!Count, IsRead, Good, SectionsPart!Nothing
<1>6. SectionsPart!Count(xs, LAMBDA c : TRUE) = SectionsPart!Cardinality(DOMAIN xs)
  <2>1. {i \in DOMAIN xs : TRUE} = DOMAIN xs
    OBVIOUS
  <2> QED BY <2>1 DEF SectionsPart!Count, IsRead, Good, SectionsPart!Nothing
<1>7. Cardinality(R) \in Nat /\ Cardinality(DOMAIN xs) \in Nat
  BY <1>1, <1>2, <1>3, FS_Subset, FS_CardinalityType
<1>8. Good(Cardinality(R)) /\ Good(Cardinality(DOMAIN xs))
  BY <1>7, MarksApart
<1> QED BY <1>3, <1>4, <1>5, <1>6, <1>8

\* What there is of a snapshot.
LEMMA PartIs ==
    ASSUME SnapshotInv, NEW f
    PROVE  \E x : /\ x = SectionsPart!Opt(content, f)
                  /\ x = Missing \/ (Good(content) /\ f \in DOMAIN content /\ Holds(f, x))
<1>1. CASE content = Null
  BY <1>1 DEF SectionsPart!Opt, SectionsPart!Nothing
<1>2. CASE content # Null
  <2>1. Good(content) /\ \A g \in DOMAIN content : Holds(g, content[g])
    BY <1>2, Arrives
  <2>2. SectionsPart!Opt(content, f) = IF f \in DOMAIN content THEN content[f] ELSE Missing
    BY <2>1 DEF SectionsPart!Opt, SectionsPart!Get, SectionsPart!Nothing, Good
  <2> QED BY <2>1, <2>2
<1> QED BY <1>1, <1>2

\* The parts that are objects, and the lists.
LEMMA PartsAre ==
    ASSUME SnapshotInv
    PROVE  /\ MayBe("HostInfo", SectionsPart!Opt(content, "host"))
           /\ MayBe("CPUStats", SectionsPart!Opt(content, "cpu"))
           /\ MayBe("MemoryStats", SectionsPart!Opt(content, "memory"))
           /\ MayBe("GPUStats", SectionsPart!Opt(content, "gpu"))
           /\ SectionsPart!Opt(content, "docker_error") \in {Missing, Text}
BY PartIs DEF Holds, MayBe

\* a list of objects, or none
ObjectList(type, xs) == IsRead(xs) /\ \A i \in DOMAIN xs : IsObject(type, xs[i])

\* The lists, which are empty where there is none.
LEMMA ListsAre ==
    ASSUME SnapshotInv, NEW p \in {<<"disks", "DiskMetric">>, <<"networks", "NetworkMetric">>,
                                   <<"containers", "ContainerMetric">>}
    PROVE  /\ ObjectList(p[2], SectionsPart!Or(SectionsPart!Opt(content, p[1]), <<>>))
           /\ SectionsPart!Default(SectionsPart!Opt(content, p[1]), <<>>)
                 = SectionsPart!Or(SectionsPart!Opt(content, p[1]), <<>>)
<1>1. PICK x : /\ x = SectionsPart!Opt(content, p[1])
               /\ x = Missing \/ Holds(p[1], x)
  BY PartIs
<1>2. CASE x = Missing
  <2>1. SectionsPart!Or(x, <<>>) = <<>> /\ SectionsPart!Default(x, <<>>) = <<>>
    BY <1>2 DEF SectionsPart!Or, SectionsPart!Default, SectionsPart!Nothing
  <2>2. ObjectList(p[2], <<>>)
    BY NoneIsRead DEF ObjectList
  <2> QED BY <1>1, <2>1, <2>2
<1>3. CASE x # Missing
  <2>1. IsObjects(p[2], x)
    BY <1>1, <1>3 DEF Holds
  <2>2. Good(x)
    BY <2>1 DEF IsObjects
  <2>3. SectionsPart!Or(x, <<>>) = x /\ SectionsPart!Default(x, <<>>) = x
    BY <2>2 DEF SectionsPart!Or, SectionsPart!Default, SectionsPart!Nothing, Good
  <2> QED BY <1>1, <2>1, <2>2, <2>3 DEF ObjectList, IsRead, IsObjects
<1> QED BY <1>2, <1>3

\* A section without a list throws only if a cell does.
LEMMA NoThrow ==
    ASSUME NEW r, "rows" \notin DOMAIN r, \A f \in DOMAIN r : r[f] # Crash
    PROVE  ~SectionsPart!Throws(r)
BY DEF SectionsPart!Throws

\* none of the rows throws
RowsFine(rows) == \A i \in DOMAIN rows : \A g \in DOMAIN rows[i] : rows[i][g] # Crash

\* A section with a list throws only if a cell or a row does.
LEMMA NoRowThrows ==
    ASSUME NEW r, \A f \in DOMAIN r \ {"rows"} : r[f] # Crash, RowsFine(r.rows)
    PROVE  ~SectionsPart!Throws(r)
BY DEF SectionsPart!Throws, RowsFine

\* Texts of the sections are no throws.
LEMMA TextsFine ==
    \A x \in {"red", "amber", "calm", "gpu", "uptime", "green", "grey", "none", "link",
              "Running", "Paused", "Exited", "error", "table"} : x # Crash
BY MarksApart DEF SectionsPart!Words, Good

\* The header.
LEMMA HeaderFine == SnapshotInv => ~SectionsPart!Throws(SectionsPart!Header)
<1> SUFFICES ASSUME SnapshotInv PROVE ~SectionsPart!Throws(SectionsPart!Header)
  OBVIOUS
<1>1. PICK xs : /\ xs = SectionsPart!Or(SectionsPart!Opt(content, "containers"), <<>>)
                /\ ObjectList("ContainerMetric", xs)
  BY ListsAre
<1>2. Good(SectionsPart!Count(xs, SectionsPart!IsRunning))
  BY <1>1, CountIs DEF ObjectList
<1>3. PICK host : host = SectionsPart!Opt(content, "host") /\ MayBe("HostInfo", host)
  BY PartsAre
<1>4. \A f : SectionsPart!Get(host, f) # Crash \/ host = Missing
  BY <1>3, GetIs DEF MayBe
<1>5. PICK n : n = SectionsPart!Count(xs, SectionsPart!IsRunning) /\ n # Crash
  BY <1>2 DEF Good
<1>6. SectionsPart!Header =
        IF host \in SectionsPart!Nothing THEN [running |-> n, shown |-> FALSE]
        ELSE [running |-> n, shown |-> TRUE,
              hostname |-> SectionsPart!Get(host, "hostname"),
              platform |-> SectionsPart!Get(host, "platform"),
              kernel |-> SectionsPart!Get(host, "kernel_version"),
              uptime |-> SectionsPart!Get(host, "uptime_seconds")]
  BY <1>1, <1>3, <1>5 DEF SectionsPart!Header
<1>7. PICK t, u : t = TRUE /\ u = FALSE /\ t # Crash /\ u # Crash
  <2>1. Good(TRUE) /\ Good(FALSE)
    BY MarksApart
  <2> QED BY <2>1 DEF Good
<1>8. PICK r : r = SectionsPart!Header
  OBVIOUS
<1>9. CASE host \in SectionsPart!Nothing
  <2>1. r = [running |-> n, shown |-> u]
    BY <1>6, <1>7, <1>8, <1>9
  <2>2. "rows" \notin DOMAIN r /\ \A f \in DOMAIN r : r[f] # Crash
    BY <1>5, <1>7, <2>1
  <2> QED BY <1>8, <2>2, NoThrow
<1>10. CASE host \notin SectionsPart!Nothing
  <2>1. \A f : SectionsPart!Get(host, f) # Crash
    BY <1>4, <1>10 DEF SectionsPart!Nothing
  <2>2. PICK a, b, c, d : /\ a = SectionsPart!Get(host, "hostname")
                          /\ b = SectionsPart!Get(host, "platform")
                          /\ c = SectionsPart!Get(host, "kernel_version")
                          /\ d = SectionsPart!Get(host, "uptime_seconds")
                          /\ Crash \notin {a, b, c, d}
    BY <2>1
  <2>3. r = [running |-> n, shown |-> t, hostname |-> a, platform |-> b, kernel |-> c, uptime |-> d]
    BY <1>6, <1>7, <1>8, <1>10, <2>2
  <2>4. "rows" \notin DOMAIN r /\ \A f \in DOMAIN r : r[f] # Crash
    <3>1. Crash \notin {n, t, a, b, c, d}
      BY <1>5, <1>7, <2>2
    <3>2. DOMAIN r = {"running", "shown", "hostname", "platform", "kernel", "uptime"}
      BY <2>3
    <3> QED BY <2>3, <3>1, <3>2
  <2> QED BY <1>8, <2>4, NoThrow
<1> QED BY <1>9, <1>10

\* A card that reads a number of an object that may not be there.
LEMMA NumberIs ==
    ASSUME NEW type, NEW x, NEW f, MayBe(type, x)
    PROVE  /\ Good(SectionsPart!Or(SectionsPart!Opt(x, f), 0))
           /\ Good(SectionsPart!Fixed(SectionsPart!Or(SectionsPart!Opt(x, f), 0)))
           /\ Good(SectionsPart!Percent(SectionsPart!Or(SectionsPart!Opt(x, f), 0)))
           /\ Good(SectionsPart!OrElse(SectionsPart!Opt(x, f), Text))
           /\ Good(SectionsPart!Or(SectionsPart!Opt(x, f), Text))
           /\ Good(SectionsPart!Or(SectionsPart!Opt(x, f), 1))
           /\ SectionsPart!OrElse(SectionsPart!Opt(x, f), Missing) # Crash
<1>1. SectionsPart!Opt(x, f) # Crash
  BY OptIs
<1>2. Good(0) /\ Good(1) /\ Good(Text) /\ 0 # Crash /\ 1 # Crash /\ Text # Crash /\ Missing # Crash
  BY MarksApart DEF Good
<1>3. Good(SectionsPart!Or(SectionsPart!Opt(x, f), 0))
  BY <1>1, <1>2, OrIs
<1> QED BY <1>1, <1>2, <1>3, OrIs, FixedIs

\* The cores.
LEMMA CpuSectionFine == SnapshotInv => ~SectionsPart!Throws(SectionsPart!CpuSection)
<1> SUFFICES ASSUME SnapshotInv PROVE ~SectionsPart!Throws(SectionsPart!CpuSection)
  OBVIOUS
<1>1. PICK cpu : /\ cpu = SectionsPart!Opt(content, "cpu")
                 /\ cpu = Missing \/ Holds("cpu", cpu)
  BY PartIs
<1>2. MayBe("CPUStats", cpu)
  BY <1>1 DEF Holds, MayBe
<1>3. PICK host : host = SectionsPart!Opt(content, "host") /\ MayBe("HostInfo", host)
  BY PartsAre
<1>4. PICK xs : xs = SectionsPart!Or(SectionsPart!Opt(cpu, "per_core_percent"), <<>>)
  OBVIOUS
<1>5. Good(xs) /\ \A i \in DOMAIN xs : Good(xs[i])
  <2>1. CASE cpu = Missing
    <3>1. xs = <<>>
      BY <1>2, <1>4, <2>1, OptIs DEF SectionsPart!Or, SectionsPart!Nothing
    <3> QED BY <3>1, NoneIsRead DEF IsRead
  <2>2. CASE cpu # Missing
    <3>1. "per_core_percent" \in Types["CPUStats"].required
      BY DEF Types, SectionsPart!Types
    <3>2. SectionsPart!Opt(cpu, "per_core_percent") = cpu.per_core_percent /\ Good(cpu.per_core_percent)
      BY <1>2, <2>2, <3>1, OptIs, GetIs
    <3>3. xs = cpu.per_core_percent
      BY <1>4, <3>2 DEF SectionsPart!Or, SectionsPart!Nothing, Good
    <3>4. xs \in Seq(Int)
      BY <1>1, <2>2, <3>3 DEF Holds
    <3>5. \A i \in DOMAIN xs : xs[i] \in Int
      BY <3>4
    <3> QED BY <3>2, <3>3, <3>5, MarksApart
  <2> QED BY <2>1, <2>2
<1>6. PICK rows : rows = [i \in DOMAIN xs |->
                            [percent |-> SectionsPart!Fixed(xs[i]),
                             text |-> SectionsPart!Colour(xs[i], 850, 600),
                             bar |-> SectionsPart!Colour(xs[i], 850, 600)]]
  OBVIOUS
<1>7. SectionsPart!CpuSection =
        [model |-> SectionsPart!OrElse(SectionsPart!Opt(cpu, "model_name"), Text),
         uptime |-> SectionsPart!OrElse(SectionsPart!Opt(host, "uptime_seconds"), Missing),
         load1 |-> SectionsPart!Fixed(SectionsPart!Or(SectionsPart!Opt(host, "load_avg_1"), 0)),
         load5 |-> SectionsPart!Fixed(SectionsPart!Or(SectionsPart!Opt(host, "load_avg_5"), 0)),
         load15 |-> SectionsPart!Fixed(SectionsPart!Or(SectionsPart!Opt(host, "load_avg_15"), 0)),
         rows |-> rows]
  BY <1>1, <1>3, <1>4, <1>5, <1>6
     DEF SectionsPart!CpuSection, SectionsPart!Passed, SectionsPart!Map, Good, SectionsPart!Nothing
<1>8. RowsFine(rows)
  <2>1. \A i \in DOMAIN xs : /\ Good(SectionsPart!Fixed(xs[i]))
                             /\ SectionsPart!Colour(xs[i], 850, 600) \in {"red", "amber", "calm"}
    BY <1>5, FixedIs
  <2>2. \A x \in {"red", "amber", "calm"} : x # Crash
    BY TextsFine
  <2> QED BY <1>6, <2>1, <2>2 DEF RowsFine, Good
<1>9. /\ SectionsPart!OrElse(SectionsPart!Opt(cpu, "model_name"), Text) # Crash
      /\ SectionsPart!OrElse(SectionsPart!Opt(host, "uptime_seconds"), Missing) # Crash
      /\ SectionsPart!Fixed(SectionsPart!Or(SectionsPart!Opt(host, "load_avg_1"), 0)) # Crash
      /\ SectionsPart!Fixed(SectionsPart!Or(SectionsPart!Opt(host, "load_avg_5"), 0)) # Crash
      /\ SectionsPart!Fixed(SectionsPart!Or(SectionsPart!Opt(host, "load_avg_15"), 0)) # Crash
  BY <1>2, <1>3, NumberIs DEF Good
<1> QED BY <1>7, <1>8, <1>9, NoRowThrows

\* The sections use the meters as they are.
LEMMA SameMeters ==
    /\ \A b, v : SectionsPart!Meter!ActiveIndex(b, v) = MeterPart!ActiveIndex(b, v)
    /\ \A x, y : SectionsPart!Meter!LoadRatio(x, y) = MeterPart!LoadRatio(x, y)
    /\ SectionsPart!Meter!StorageZones = <<0, 700, 850, 1000>>
    /\ SectionsPart!Meter!DiskZones = <<0, 750, 900, 1000>>
    /\ SectionsPart!Meter!LoadZones = <<0, 500, 800, 1000>>
    /\ MeterPart!StorageZones = <<0, 700, 850, 1000>>
    /\ MeterPart!DiskZones = <<0, 750, 900, 1000>>
    /\ MeterPart!LoadZones = <<0, 500, 800, 1000>>
<1>1. \A S : SectionsPart!Meter!Min(S) = MeterPart!Min(S)
  BY DEF SectionsPart!Meter!Min, MeterPart!Min
<1>2. \A b : SectionsPart!Meter!Zones(b) = MeterPart!Zones(b)
  BY DEF SectionsPart!Meter!Zones, MeterPart!Zones
<1>3. \A b, i, v : SectionsPart!Meter!Contains(b, i, v) = MeterPart!Contains(b, i, v)
  BY DEF SectionsPart!Meter!Contains, MeterPart!Contains
<1>4. \A b, v : SectionsPart!Meter!ActiveIndex(b, v) = MeterPart!ActiveIndex(b, v)
  BY <1>1, <1>2, <1>3 DEF SectionsPart!Meter!ActiveIndex, MeterPart!ActiveIndex
<1>5. \A x, y : SectionsPart!Meter!LoadRatio(x, y) = MeterPart!LoadRatio(x, y)
  BY <1>1 DEF SectionsPart!Meter!LoadRatio, MeterPart!LoadRatio
<1> QED BY <1>4, <1>5 DEF SectionsPart!Meter!StorageZones, SectionsPart!Meter!DiskZones,
       SectionsPart!Meter!LoadZones, MeterPart!StorageZones, MeterPart!DiskZones, MeterPart!LoadZones

\* The zones of any percentage.
LEMMA ZoneOf ==
    ASSUME NEW v \in Nat, v <= 1000
    PROVE  /\ SectionsPart!Meter!ActiveIndex(SectionsPart!Meter!StorageZones, v)
                 = IF v < 700 THEN 1 ELSE IF v < 850 THEN 2 ELSE 3
           /\ SectionsPart!Meter!ActiveIndex(SectionsPart!Meter!DiskZones, v)
                 = IF v < 750 THEN 1 ELSE IF v < 900 THEN 2 ELSE 3
           /\ SectionsPart!Meter!ActiveIndex(SectionsPart!Meter!LoadZones, v)
                 = IF v < 500 THEN 1 ELSE IF v < 800 THEN 2 ELSE 3
<1>1. /\ MeterPart!StorageZones \in Thirds /\ MeterPart!DiskZones \in Thirds
      /\ MeterPart!LoadZones \in Thirds
  BY ZonesAreThirds
<1>2. Len(MeterPart!StorageZones) = 4 /\ Len(MeterPart!DiskZones) = 4 /\ Len(MeterPart!LoadZones) = 4
  BY DEF MeterPart!StorageZones, MeterPart!DiskZones, MeterPart!LoadZones
<1>3. PICK b : b = MeterPart!StorageZones /\ b[2] = 700 /\ b[3] = 850
  BY SameMeters
<1>4. PICK c : c = MeterPart!DiskZones /\ c[2] = 750 /\ c[3] = 900
  BY SameMeters
<1>5. PICK d : d = MeterPart!LoadZones /\ d[2] = 500 /\ d[3] = 800
  BY SameMeters
<1>6. /\ SectionsPart!Meter!StorageZones = b /\ SectionsPart!Meter!DiskZones = c
      /\ SectionsPart!Meter!LoadZones = d
  BY <1>3, <1>4, <1>5, SameMeters
<1>7. /\ MeterPart!ActiveIndex(b, v) = IF v < 700 THEN 1 ELSE IF v < 850 THEN 2 ELSE 3
      /\ MeterPart!ActiveIndex(c, v) = IF v < 750 THEN 1 ELSE IF v < 900 THEN 2 ELSE 3
      /\ MeterPart!ActiveIndex(d, v) = IF v < 500 THEN 1 ELSE IF v < 800 THEN 2 ELSE 3
  <2>1. MeterPart!ActiveIndex(b, v) = IF v < b[2] THEN 1 ELSE IF v < b[3] THEN 2 ELSE 3
    BY <1>1, <1>2, <1>3, LitZone
  <2>2. MeterPart!ActiveIndex(c, v) = IF v < c[2] THEN 1 ELSE IF v < c[3] THEN 2 ELSE 3
    BY <1>1, <1>2, <1>4, LitZone
  <2>3. MeterPart!ActiveIndex(d, v) = IF v < d[2] THEN 1 ELSE IF v < d[3] THEN 2 ELSE 3
    BY <1>1, <1>2, <1>5, LitZone
  <2> QED BY <1>3, <1>4, <1>5, <2>1, <2>2, <2>3
<1> QED BY <1>6, <1>7, SameMeters

\* A number is drawn as a percentage.
LEMMA PercentIs ==
    ASSUME NEW x \in Int
    PROVE  /\ SectionsPart!Percent(x) \in Nat /\ SectionsPart!Percent(x) <= 1000
           /\ SectionsPart!Percent(x) = IF x < 0 THEN 0 ELSE IF x > 1000 THEN 1000 ELSE x
<1>1. Good(x)
  BY MarksApart
<1>2. SectionsPart!Percent(x) = IF x < 0 THEN 0 ELSE IF x > 1000 THEN 1000 ELSE x
  BY <1>1 DEF SectionsPart!Percent, SectionsPart!Nothing, Good, SectionsPart!Meter!Clamp
<1>3. (IF x < 0 THEN 0 ELSE IF x > 1000 THEN 1000 ELSE x) \in Nat
  OBVIOUS
<1> QED BY <1>2, <1>3

\* The first disk.
LEMMA FirstDisk ==
    ASSUME SnapshotInv
    PROVE  \E disk : /\ disk = SectionsPart!First(SectionsPart!Opt(content, "disks"))
                     /\ MayBe("DiskMetric", disk)
                     /\ disk # Missing => disk.used_percent \in Int
<1>1. PICK xs : xs = SectionsPart!Opt(content, "disks") /\ (xs = Missing \/ Holds("disks", xs))
  BY PartIs
<1>2. CASE xs = Missing
  <2>1. SectionsPart!First(xs) = Missing
    BY <1>2 DEF SectionsPart!First, SectionsPart!Nothing
  <2> QED BY <1>1, <2>1 DEF MayBe
<1>3. CASE xs # Missing
  <2>1. /\ IsObjects("DiskMetric", xs) /\ \A i \in DOMAIN xs : xs[i].used_percent \in Int
    BY <1>1, <1>3 DEF Holds
  <2>2. 1 \in DOMAIN xs /\ Good(xs) /\ xs # <<>>
    BY <2>1 DEF IsObjects
  <2>3. SectionsPart!First(xs) = xs[1]
    BY <2>2 DEF SectionsPart!First, SectionsPart!Nothing, Good
  <2>4. IsObject("DiskMetric", xs[1]) /\ xs[1].used_percent \in Int
    BY <2>1, <2>2 DEF IsObjects
  <2> QED BY <1>1, <2>3, <2>4 DEF MayBe
<1> QED BY <1>2, <1>3

\* Its usage is a number.
LEMMA UsageIs ==
    ASSUME NEW disk, MayBe("DiskMetric", disk), disk # Missing => disk.used_percent \in Int
    PROVE  SectionsPart!Or(SectionsPart!Opt(disk, "used_percent"), 0) \in Int
<1>1. CASE disk = Missing
  BY <1>1, OptIs DEF SectionsPart!Or, SectionsPart!Nothing
<1>2. CASE disk # Missing
  <2>1. "used_percent" \in Types["DiskMetric"].required
    BY DEF Types, SectionsPart!Types
  <2>2. SectionsPart!Opt(disk, "used_percent") = disk.used_percent /\ Good(disk.used_percent)
    BY <1>2, <2>1, OptIs, GetIs
  <2> QED BY <1>2, <2>2 DEF SectionsPart!Or, SectionsPart!Nothing, Good
<1> QED BY <1>1, <1>2

\* The load is a number too, 0 where there is no host.
LEMMA LoadIs ==
    ASSUME SnapshotInv
    PROVE  SectionsPart!Or(SectionsPart!Opt(SectionsPart!Opt(content, "host"), "load_avg_1"), 0) \in Nat
<1>1. PICK host : host = SectionsPart!Opt(content, "host") /\ (host = Missing \/ Holds("host", host))
  BY PartIs
<1>2. MayBe("HostInfo", host) /\ (host # Missing => host.load_avg_1 \in Nat)
  BY <1>1 DEF Holds, MayBe
<1>3. CASE host = Missing
  BY <1>1, <1>2, <1>3, OptIs DEF SectionsPart!Or, SectionsPart!Nothing
<1>4. CASE host # Missing
  <2>1. "load_avg_1" \in Types["HostInfo"].required
    BY DEF Types, SectionsPart!Types
  <2>2. SectionsPart!Opt(host, "load_avg_1") = host.load_avg_1 /\ Good(host.load_avg_1)
    BY <1>2, <1>4, <2>1, OptIs, GetIs
  <2> QED BY <1>1, <1>2, <1>4, <2>2 DEF SectionsPart!Or, SectionsPart!Nothing, Good
<1> QED BY <1>3, <1>4

\* The number of cores where the processor is known.
LEMMA CoresAre ==
    ASSUME SnapshotInv
    PROVE  \E cpu : /\ cpu = SectionsPart!Opt(content, "cpu") /\ MayBe("CPUStats", cpu)
                    /\ cpu # Missing => /\ SectionsPart!Opt(cpu, "core_count") = cpu.core_count
                                        /\ cpu.core_count \in Nat
<1>1. PICK cpu : cpu = SectionsPart!Opt(content, "cpu") /\ (cpu = Missing \/ Holds("cpu", cpu))
  BY PartIs
<1>2. MayBe("CPUStats", cpu) /\ (cpu # Missing => cpu.core_count \in Nat)
  BY <1>1 DEF Holds, MayBe
<1>3. "core_count" \in Types["CPUStats"].required
  BY DEF Types, SectionsPart!Types
<1>4. cpu # Missing => SectionsPart!Opt(cpu, "core_count") = cpu.core_count
  BY <1>2, <1>3, OptIs, GetIs
<1> QED BY <1>1, <1>2, <1>4

\* the row of a disk
DiskRow(d) ==
    [mount |-> SectionsPart!Get(d, "mount_point"), device |-> SectionsPart!Get(d, "device"),
     used |-> SectionsPart!Get(d, "used_bytes"), total |-> SectionsPart!Get(d, "total_bytes"),
     type |-> SectionsPart!OrElse(SectionsPart!Get(d, "fs_type"), Missing),
     text |-> SectionsPart!Colour(SectionsPart!Get(d, "used_percent"), 900, 750),
     percent |-> SectionsPart!Fixed(SectionsPart!Get(d, "used_percent")),
     zone |-> SectionsPart!Meter!ActiveIndex(SectionsPart!Meter!DiskZones,
                 SectionsPart!Percent(SectionsPart!Get(d, "used_percent"))),
     read |-> SectionsPart!Get(d, "read_bytes_per_sec"),
     write |-> SectionsPart!Get(d, "write_bytes_per_sec"),
     iops |-> IF \/ SectionsPart!Above(SectionsPart!Get(d, "read_ops_per_sec"), 0)
                 \/ SectionsPart!Above(SectionsPart!Get(d, "write_ops_per_sec"), 0)
              THEN SectionsPart!Fixed(SectionsPart!Get(d, "read_ops_per_sec")
                                      + SectionsPart!Get(d, "write_ops_per_sec"))
              ELSE Missing]

\* what is there of a disk
IsDisk(d) ==
    /\ IsObject("DiskMetric", d)
    /\ d.used_percent \in Int /\ d.read_ops_per_sec \in Int /\ d.write_ops_per_sec \in Int

\* The row of each disk.
LEMMA VolumesAre ==
    ASSUME SnapshotInv
    PROVE  \E xs : /\ xs = SectionsPart!Or(SectionsPart!Opt(content, "disks"), <<>>)
                   /\ IsRead(xs) /\ \A i \in DOMAIN xs : IsDisk(xs[i])
                   /\ SectionsPart!StorageVolumes = [rows |-> [i \in DOMAIN xs |-> DiskRow(xs[i])]]
<1>1. PICK x : x = SectionsPart!Opt(content, "disks") /\ (x = Missing \/ Holds("disks", x))
  BY PartIs
<1>2. PICK xs : /\ xs = SectionsPart!Or(x, <<>>) /\ xs = SectionsPart!Default(x, <<>>)
                /\ ObjectList("DiskMetric", xs)
  BY <1>1, ListsAre
<1>3. \A i \in DOMAIN xs : IsDisk(xs[i])
  <2>1. CASE x = Missing
    <3>1. xs = <<>>
      BY <1>2, <2>1 DEF SectionsPart!Or, SectionsPart!Nothing
    <3> QED BY <3>1
  <2>2. CASE x # Missing
    <3>1. Holds("disks", x)
      BY <1>1, <2>2
    <3>2. /\ IsObjects("DiskMetric", x)
          /\ \A i \in DOMAIN x : /\ x[i].used_percent \in Int
                                 /\ x[i].read_ops_per_sec \in Int /\ x[i].write_ops_per_sec \in Int
      BY <3>1 DEF Holds
    <3>3. xs = x
      BY <1>2, <3>2 DEF IsObjects, Good, SectionsPart!Or, SectionsPart!Nothing
    <3> QED BY <3>2, <3>3 DEF IsDisk, IsObjects
  <2> QED BY <2>1, <2>2
<1>4. xs \notin SectionsPart!Nothing \cup {Crash}
  BY <1>2 DEF ObjectList, IsRead, Good, SectionsPart!Nothing
<1>5. SectionsPart!StorageVolumes = [rows |-> [i \in DOMAIN xs |-> DiskRow(xs[i])]]
  BY <1>1, <1>2, <1>4 DEF SectionsPart!StorageVolumes, SectionsPart!Passed, SectionsPart!Map, DiskRow
<1> QED BY <1>1, <1>2, <1>3, <1>5 DEF ObjectList

\* What is drawn of a disk.
LEMMA DiskRowIs ==
    ASSUME NEW d, IsDisk(d)
    PROVE  /\ \A g \in DOMAIN DiskRow(d) : DiskRow(d)[g] # Crash
           /\ DiskRow(d).mount = d.mount_point /\ DiskRow(d).percent = d.used_percent
           /\ Good(d.mount_point)
           /\ DiskRow(d).text = SectionsPart!Colour(d.used_percent, 900, 750)
           /\ DiskRow(d).zone = SectionsPart!Meter!ActiveIndex(SectionsPart!Meter!DiskZones,
                                                               SectionsPart!Percent(d.used_percent))
<1>1. /\ {"mount_point", "used_percent", "read_ops_per_sec", "write_ops_per_sec"}
           \subseteq Types["DiskMetric"].required
  BY DEF Types, SectionsPart!Types
<1>2. \A f : SectionsPart!Get(d, f) # Crash
  BY GetIs DEF IsDisk
<1>3. /\ SectionsPart!Get(d, "mount_point") = d.mount_point /\ Good(d.mount_point)
      /\ SectionsPart!Get(d, "used_percent") = d.used_percent /\ Good(d.used_percent)
      /\ SectionsPart!Get(d, "read_ops_per_sec") = d.read_ops_per_sec
      /\ SectionsPart!Get(d, "write_ops_per_sec") = d.write_ops_per_sec
  <2>1. IsObject("DiskMetric", d)
    BY DEF IsDisk
  <2>2. \A f \in Types["DiskMetric"].required : Good(SectionsPart!Get(d, f)) /\ SectionsPart!Get(d, f) = d[f]
    BY <2>1, GetIs
  <2>3. \A f \in {"mount_point", "used_percent", "read_ops_per_sec", "write_ops_per_sec"} :
           Good(SectionsPart!Get(d, f)) /\ SectionsPart!Get(d, f) = d[f]
    BY <1>1, <2>2
  <2>4. Good(d.mount_point) /\ Good(d.used_percent)
    BY <2>3
  <2> QED BY <2>3, <2>4
<1>4. PICK n : /\ n = SectionsPart!OrElse(SectionsPart!Get(d, "fs_type"), Missing) /\ n # Crash
  <2>1. Missing # Crash
    BY MarksApart
  <2> QED BY <1>2, <2>1, OrIs
<1>5. PICK t : t = SectionsPart!Colour(d.used_percent, 900, 750) /\ t # Crash
  <2>1. SectionsPart!Colour(d.used_percent, 900, 750) \in {"red", "amber", "calm"}
    BY FixedIs
  <2> QED BY <2>1, TextsFine
<1>6. PICK p : p = d.used_percent /\ p = SectionsPart!Fixed(d.used_percent) /\ p # Crash /\ p \in Int
  BY <1>3, FixedIs DEF Good, IsDisk
<1>7. PICK z : /\ z = SectionsPart!Meter!ActiveIndex(SectionsPart!Meter!DiskZones, SectionsPart!Percent(p))
               /\ z # Crash
  <2>1. PICK v \in Nat : v = SectionsPart!Percent(p) /\ v <= 1000
    BY <1>6, PercentIs
  <2>2. SectionsPart!Meter!ActiveIndex(SectionsPart!Meter!DiskZones, v) \in Int
    BY <2>1, ZoneOf
  <2> QED BY <2>1, <2>2, MarksApart DEF Good
<1>8. PICK o : /\ o = IF \/ SectionsPart!Above(SectionsPart!Get(d, "read_ops_per_sec"), 0)
                         \/ SectionsPart!Above(SectionsPart!Get(d, "write_ops_per_sec"), 0)
                      THEN SectionsPart!Fixed(SectionsPart!Get(d, "read_ops_per_sec")
                                              + SectionsPart!Get(d, "write_ops_per_sec"))
                      ELSE Missing
               /\ o # Crash
  <2>1. d.read_ops_per_sec + d.write_ops_per_sec \in Int
    BY DEF IsDisk
  <2>2. Good(d.read_ops_per_sec + d.write_ops_per_sec)
    BY <2>1, MarksApart
  <2>3. SectionsPart!Fixed(SectionsPart!Get(d, "read_ops_per_sec")
                           + SectionsPart!Get(d, "write_ops_per_sec")) # Crash
    BY <1>3, <2>2, FixedIs DEF Good
  <2>4. Missing # Crash
    BY MarksApart
  <2> QED BY <2>3, <2>4
<1>9. PICK a, b, c, e, f, h : /\ a = SectionsPart!Get(d, "mount_point")
                              /\ b = SectionsPart!Get(d, "device")
                              /\ c = SectionsPart!Get(d, "used_bytes")
                              /\ e = SectionsPart!Get(d, "total_bytes")
                              /\ f = SectionsPart!Get(d, "read_bytes_per_sec")
                              /\ h = SectionsPart!Get(d, "write_bytes_per_sec")
                              /\ Crash \notin {a, b, c, e, f, h}
  BY <1>2
<1>10. PICK r : r = DiskRow(d)
  OBVIOUS
<1>11. r = [mount |-> a, device |-> b, used |-> c, total |-> e, type |-> n, text |-> t,
            percent |-> p, zone |-> z, read |-> f, write |-> h, iops |-> o]
  BY <1>3, <1>4, <1>5, <1>6, <1>7, <1>8, <1>9, <1>10 DEF DiskRow
<1>12. \A g \in DOMAIN r : r[g] # Crash
  <2>1. Crash \notin {a, b, c, e, n, t, p, z, f, h, o}
    BY <1>4, <1>5, <1>6, <1>7, <1>8, <1>9
  <2>2. DOMAIN r = {"mount", "device", "used", "total", "type", "text", "percent", "zone",
                    "read", "write", "iops"}
    BY <1>11
  <2> QED BY <1>11, <2>1, <2>2
<1> QED BY <1>3, <1>5, <1>6, <1>7, <1>9, <1>10, <1>11, <1>12

\* The volumes.
LEMMA VolumesFine == SnapshotInv => ~SectionsPart!Throws(SectionsPart!StorageVolumes)
<1> SUFFICES ASSUME SnapshotInv PROVE ~SectionsPart!Throws(SectionsPart!StorageVolumes)
  OBVIOUS
<1>1. PICK xs : /\ \A i \in DOMAIN xs : IsDisk(xs[i])
                /\ SectionsPart!StorageVolumes = [rows |-> [i \in DOMAIN xs |-> DiskRow(xs[i])]]
  BY VolumesAre
<1>2. PICK rows : rows = [i \in DOMAIN xs |-> DiskRow(xs[i])]
  OBVIOUS
<1>3. RowsFine(rows)
  BY <1>1, <1>2, DiskRowIs DEF RowsFine
<1>4. PICK r : r = SectionsPart!StorageVolumes /\ r = [rows |-> rows]
  BY <1>1, <1>2
<1>5. DOMAIN r = {"rows"} /\ r.rows = rows
  BY <1>4
<1> QED BY <1>3, <1>4, <1>5, NoRowThrows

\* The adapters.
LEMMA AdaptersFine == SnapshotInv => ~SectionsPart!Throws(SectionsPart!NetworkAdapters)
<1> SUFFICES ASSUME SnapshotInv PROVE ~SectionsPart!Throws(SectionsPart!NetworkAdapters)
  OBVIOUS
<1>1. PICK xs : /\ xs = SectionsPart!Default(SectionsPart!Opt(content, "networks"), <<>>)
                /\ ObjectList("NetworkMetric", xs)
  BY ListsAre
<1>2. xs \notin SectionsPart!Nothing \cup {Crash}
  BY <1>1 DEF ObjectList, IsRead, Good, SectionsPart!Nothing
<1>3. PICK rows : rows = [i \in DOMAIN xs |->
             [interface |-> SectionsPart!Get(xs[i], "interface"),
              packets_in |-> SectionsPart!Get(xs[i], "rx_packets_per_sec"),
              packets_out |-> SectionsPart!Get(xs[i], "tx_packets_per_sec"),
              download |-> SectionsPart!Get(xs[i], "rx_bytes_per_sec"),
              received |-> SectionsPart!Get(xs[i], "total_rx_bytes"),
              upload |-> SectionsPart!Get(xs[i], "tx_bytes_per_sec"),
              sent |-> SectionsPart!Get(xs[i], "total_tx_bytes")]]
  OBVIOUS
<1>4. PICK r : r = SectionsPart!NetworkAdapters /\ r = [rows |-> rows]
  BY <1>1, <1>2, <1>3 DEF SectionsPart!NetworkAdapters, SectionsPart!Passed, SectionsPart!Map
<1>5. \A i \in DOMAIN xs : \A f : SectionsPart!Get(xs[i], f) # Crash
  BY <1>1, GetIs DEF ObjectList
<1>6. RowsFine(rows)
  BY <1>3, <1>5 DEF RowsFine
<1>7. DOMAIN r = {"rows"} /\ r.rows = rows
  BY <1>4
<1> QED BY <1>4, <1>6, <1>7, NoRowThrows

\* The network card.
LEMMA NetworkCardFine == SnapshotInv => ~SectionsPart!Throws(SectionsPart!NetworkCard)
<1> SUFFICES ASSUME SnapshotInv PROVE ~SectionsPart!Throws(SectionsPart!NetworkCard)
  OBVIOUS
<1>1. PICK xs : /\ xs = SectionsPart!Or(SectionsPart!Opt(content, "networks"), <<>>)
                /\ ObjectList("NetworkMetric", xs)
  BY ListsAre
<1>2. xs \notin SectionsPart!Nothing \cup {Crash}
  BY <1>1 DEF ObjectList, IsRead, Good, SectionsPart!Nothing
<1>3. PICK rows : rows = [i \in DOMAIN xs |->
             [rx |-> SectionsPart!OrElse(SectionsPart!Get(xs[i], "rx_bytes_per_sec"), 0),
              tx |-> SectionsPart!OrElse(SectionsPart!Get(xs[i], "tx_bytes_per_sec"), 0)]]
  OBVIOUS
<1>4. PICK r : r = SectionsPart!NetworkCard /\ r = [rows |-> rows]
  BY <1>1, <1>2, <1>3 DEF SectionsPart!NetworkCard, SectionsPart!Map
<1>5. \A i \in DOMAIN xs : \A f : SectionsPart!OrElse(SectionsPart!Get(xs[i], f), 0) # Crash
  <2>1. 0 # Crash
    BY MarksApart DEF Good
  <2>2. \A i \in DOMAIN xs : \A f : SectionsPart!Get(xs[i], f) # Crash
    BY <1>1, GetIs DEF ObjectList
  <2> QED BY <2>1, <2>2, OrIs
<1>6. RowsFine(rows)
  BY <1>3, <1>5 DEF RowsFine
<1>7. DOMAIN r = {"rows"} /\ r.rows = rows
  BY <1>4
<1> QED BY <1>4, <1>6, <1>7, NoRowThrows

\* The gauge of the processor.
LEMMA CpuGaugeFine == SnapshotInv => ~SectionsPart!Throws(SectionsPart!CpuGauge)
<1> SUFFICES ASSUME SnapshotInv PROVE ~SectionsPart!Throws(SectionsPart!CpuGauge)
  OBVIOUS
<1>1. PICK cpu : cpu = SectionsPart!Opt(content, "cpu") /\ MayBe("CPUStats", cpu)
  BY PartsAre
<1>2. PICK p : p = SectionsPart!Percent(SectionsPart!Or(SectionsPart!Opt(cpu, "total_percent"), 0)) /\ Good(p)
  BY <1>1, NumberIs
<1>3. PICK a : a = SectionsPart!Fixed(p) /\ a # Crash
  BY <1>2, FixedIs DEF Good
<1>4. PICK b : b = SectionsPart!Colour(p, 850, 650) /\ b # Crash
  BY FixedIs, TextsFine
<1>5. PICK c : c = SectionsPart!Or(SectionsPart!Opt(cpu, "core_count"), 1) /\ c # Crash
  BY <1>1, NumberIs DEF Good
<1>6. PICK d : d = SectionsPart!OrElse(SectionsPart!Opt(cpu, "model_name"), Text) /\ d # Crash
  BY <1>1, NumberIs DEF Good
<1>7. PICK r : /\ r = SectionsPart!CpuGauge
               /\ r = [percent |-> a, colour |-> b, cores |-> c, model |-> d]
  <2>1. SectionsPart!CpuGauge =
          [percent |-> SectionsPart!Fixed(p), colour |-> SectionsPart!Colour(p, 850, 650),
           cores |-> c, model |-> d]
    BY <1>1, <1>2, <1>5, <1>6 DEF SectionsPart!CpuGauge
  <2> QED BY <1>3, <1>4, <2>1
<1>8. "rows" \notin DOMAIN r /\ \A f \in DOMAIN r : r[f] # Crash
  BY <1>3, <1>4, <1>5, <1>6, <1>7
<1> QED BY <1>7, <1>8, NoThrow

\* The gauge of the memory, and its card.
LEMMA MemoryFine ==
    SnapshotInv => /\ ~SectionsPart!Throws(SectionsPart!MemoryGauge)
                   /\ ~SectionsPart!Throws(SectionsPart!MemoryCard)
<1> SUFFICES ASSUME SnapshotInv
             PROVE  /\ ~SectionsPart!Throws(SectionsPart!MemoryGauge)
                    /\ ~SectionsPart!Throws(SectionsPart!MemoryCard)
  OBVIOUS
<1>1. PICK memory : memory = SectionsPart!Opt(content, "memory") /\ MayBe("MemoryStats", memory)
  BY PartsAre
<1>2. PICK p : /\ p = SectionsPart!Percent(SectionsPart!Or(SectionsPart!Opt(memory, "used_percent"), 0))
               /\ Good(p)
  BY <1>1, NumberIs
<1>3. PICK a : a = SectionsPart!Fixed(p) /\ a # Crash
  BY <1>2, FixedIs DEF Good
<1>4. PICK b : b = SectionsPart!Colour(p, 900, 750) /\ b # Crash
  BY FixedIs, TextsFine
<1>5. PICK c, d, e : /\ c = SectionsPart!Or(SectionsPart!Opt(memory, "used_bytes"), 0)
                     /\ d = SectionsPart!Or(SectionsPart!Opt(memory, "total_bytes"), 0)
                     /\ e = SectionsPart!Or(SectionsPart!Opt(memory, "free_bytes"), 0)
                     /\ Crash \notin {c, d, e}
  BY <1>1, NumberIs DEF Good
<1>6. PICK g : g = SectionsPart!Fixed(SectionsPart!Or(SectionsPart!Opt(memory, "used_percent"), 0)) /\ g # Crash
  BY <1>1, NumberIs DEF Good
<1>7. PICK r : /\ r = SectionsPart!MemoryGauge
               /\ r = [percent |-> a, colour |-> b, used |-> c, total |-> d, available |-> e]
  <2>1. SectionsPart!MemoryGauge =
          [percent |-> SectionsPart!Fixed(p), colour |-> SectionsPart!Colour(p, 900, 750),
           used |-> c, total |-> d, available |-> e]
    BY <1>1, <1>2, <1>5 DEF SectionsPart!MemoryGauge
  <2> QED BY <1>3, <1>4, <2>1
<1>8. "rows" \notin DOMAIN r /\ \A f \in DOMAIN r : r[f] # Crash
  BY <1>3, <1>4, <1>5, <1>7
<1>9. PICK s : s = SectionsPart!MemoryCard /\ s = [percent |-> g, used |-> c, total |-> d]
  BY <1>1, <1>5, <1>6 DEF SectionsPart!MemoryCard
<1>10. "rows" \notin DOMAIN s /\ \A f \in DOMAIN s : s[f] # Crash
  BY <1>5, <1>6, <1>9
<1> QED BY <1>7, <1>8, <1>9, <1>10, NoThrow

\* The meter of the first disk, and its card.
LEMMA StorageFine ==
    SnapshotInv => /\ ~SectionsPart!Throws(SectionsPart!StorageMeter)
                   /\ ~SectionsPart!Throws(SectionsPart!StorageCard)
<1> SUFFICES ASSUME SnapshotInv
             PROVE  /\ ~SectionsPart!Throws(SectionsPart!StorageMeter)
                    /\ ~SectionsPart!Throws(SectionsPart!StorageCard)
  OBVIOUS
<1>1. PICK disk : /\ disk = SectionsPart!First(SectionsPart!Opt(content, "disks"))
                  /\ MayBe("DiskMetric", disk)
                  /\ disk # Missing => disk.used_percent \in Int
  BY FirstDisk
<1>2. PICK u \in Int : u = SectionsPart!Or(SectionsPart!Opt(disk, "used_percent"), 0)
  BY <1>1, UsageIs
<1>3. PICK p \in Nat : p = SectionsPart!Percent(u) /\ p <= 1000
  BY PercentIs
<1>4. PICK a : a = SectionsPart!Fixed(p) /\ a # Crash
  <2>1. Good(p)
    BY MarksApart
  <2> QED BY <2>1, FixedIs DEF Good
<1>5. PICK b : b = SectionsPart!Or(SectionsPart!Opt(disk, "mount_point"), Text) /\ b # Crash
  BY <1>1, NumberIs DEF Good
<1>6. PICK z : z = SectionsPart!Meter!ActiveIndex(SectionsPart!Meter!StorageZones, p) /\ z # Crash
  <2>1. SectionsPart!Meter!ActiveIndex(SectionsPart!Meter!StorageZones, p) \in Int
    BY <1>3, ZoneOf
  <2> QED BY <2>1, MarksApart DEF Good
<1>7. PICK c, d, e, g : /\ c = SectionsPart!Or(SectionsPart!Opt(disk, "used_bytes"), 0)
                        /\ d = SectionsPart!Or(SectionsPart!Opt(disk, "total_bytes"), 0)
                        /\ e = SectionsPart!Or(SectionsPart!Opt(disk, "read_bytes_per_sec"), 0)
                        /\ g = SectionsPart!Or(SectionsPart!Opt(disk, "write_bytes_per_sec"), 0)
                        /\ Crash \notin {c, d, e, g}
  BY <1>1, NumberIs DEF Good
<1>8. PICK r : /\ r = SectionsPart!StorageMeter
               /\ r = [percent |-> a, mount |-> b, zone |-> z, used |-> c, total |-> d,
                       read |-> e, write |-> g]
  BY <1>1, <1>2, <1>3, <1>4, <1>5, <1>6, <1>7 DEF SectionsPart!StorageMeter
<1>9. "rows" \notin DOMAIN r /\ \A f \in DOMAIN r : r[f] # Crash
  <2>1. DOMAIN r = {"percent", "mount", "zone", "used", "total", "read", "write"}
    BY <1>8
  <2> QED BY <1>4, <1>5, <1>6, <1>7, <1>8, <2>1
<1>10. PICK h : h = SectionsPart!Fixed(u) /\ h # Crash
  BY MarksApart, FixedIs DEF Good
<1>11. PICK m : /\ m = IF disk \in SectionsPart!Nothing THEN Text ELSE SectionsPart!Get(disk, "mount_point")
                /\ m # Crash
  <2>1. Text # Crash
    BY MarksApart
  <2>2. disk \notin SectionsPart!Nothing => IsObject("DiskMetric", disk)
    BY <1>1 DEF MayBe, SectionsPart!Nothing
  <2>3. disk \notin SectionsPart!Nothing => SectionsPart!Get(disk, "mount_point") # Crash
    BY <2>2, GetIs
  <2> QED BY <2>1, <2>3
<1>12. PICK s : s = SectionsPart!StorageCard /\ s = [percent |-> h, mount |-> m, used |-> c, total |-> d]
  BY <1>1, <1>2, <1>7, <1>10, <1>11 DEF SectionsPart!StorageCard
<1>13. "rows" \notin DOMAIN s /\ \A f \in DOMAIN s : s[f] # Crash
  BY <1>7, <1>10, <1>11, <1>12
<1> QED BY <1>8, <1>9, <1>12, <1>13, NoThrow

\* The load.
LEMMA LoadFine == SnapshotInv => ~SectionsPart!Throws(SectionsPart!LoadMeter)
<1> SUFFICES ASSUME SnapshotInv PROVE ~SectionsPart!Throws(SectionsPart!LoadMeter)
  OBVIOUS
<1>1. PICK host : host = SectionsPart!Opt(content, "host") /\ MayBe("HostInfo", host)
  BY PartsAre
<1>2. PICK load \in Nat : load = SectionsPart!Or(SectionsPart!Opt(host, "load_avg_1"), 0)
  BY <1>1, LoadIs
<1>3. PICK cpu : /\ cpu = SectionsPart!Opt(content, "cpu") /\ MayBe("CPUStats", cpu)
                 /\ cpu # Missing => /\ SectionsPart!Opt(cpu, "core_count") = cpu.core_count
                                     /\ cpu.core_count \in Nat
  BY CoresAre
<1>4. PICK c \in Nat : c = SectionsPart!OrElse(SectionsPart!Opt(cpu, "core_count"), 1)
  <2>1. CASE cpu = Missing
    <3>1. SectionsPart!Opt(cpu, "core_count") = Missing
      BY <1>3, <2>1, OptIs
    <3> QED BY <3>1 DEF SectionsPart!OrElse, SectionsPart!Nothing
  <2>2. CASE cpu # Missing
    BY <1>3, <2>2 DEF SectionsPart!OrElse
  <2> QED BY <2>1, <2>2
<1>5. PICK v \in Nat : v = SectionsPart!Meter!LoadRatio(load, c) /\ v <= 1000
  BY SameMeters, LoadClamped
<1>6. PICK z : z = SectionsPart!Meter!ActiveIndex(SectionsPart!Meter!LoadZones, v) /\ z # Crash
  <2>1. SectionsPart!Meter!ActiveIndex(SectionsPart!Meter!LoadZones, v) \in Int
    BY <1>5, ZoneOf
  <2> QED BY <2>1, MarksApart DEF Good
<1>7. PICK a : a = SectionsPart!Fixed(load) /\ a # Crash
  BY MarksApart, FixedIs DEF Good
<1>8. PICK b, d : /\ b = SectionsPart!Or(SectionsPart!Opt(host, "load_avg_5"), 0)
                  /\ d = SectionsPart!Or(SectionsPart!Opt(host, "load_avg_15"), 0)
                  /\ Crash \notin {b, d}
  BY <1>1, NumberIs DEF Good
<1>9. Crash \notin {v, c}
  BY MarksApart DEF Good
<1>10. PICK r : /\ r = SectionsPart!LoadMeter
                /\ r = [ratio |-> v, cores |-> c, load1 |-> a, zone |-> z, load5 |-> b, load15 |-> d]
  BY <1>1, <1>2, <1>3, <1>4, <1>5, <1>6, <1>7, <1>8 DEF SectionsPart!LoadMeter
<1>11. "rows" \notin DOMAIN r /\ \A f \in DOMAIN r : r[f] # Crash
  <2>1. DOMAIN r = {"ratio", "cores", "load1", "zone", "load5", "load15"}
    BY <1>10
  <2> QED BY <1>6, <1>7, <1>8, <1>9, <1>10, <2>1
<1> QED BY <1>10, <1>11, NoThrow

\* The processor's card.
LEMMA CpuCardFine == SnapshotInv => ~SectionsPart!Throws(SectionsPart!CpuCard)
<1> SUFFICES ASSUME SnapshotInv PROVE ~SectionsPart!Throws(SectionsPart!CpuCard)
  OBVIOUS
<1>1. PICK cpu : cpu = SectionsPart!Opt(content, "cpu") /\ MayBe("CPUStats", cpu)
  BY PartsAre
<1>2. PICK a, b : /\ a = SectionsPart!Fixed(SectionsPart!Or(SectionsPart!Opt(cpu, "total_percent"), 0))
                  /\ b = SectionsPart!OrElse(SectionsPart!Opt(cpu, "core_count"), Text)
                  /\ Crash \notin {a, b}
  BY <1>1, NumberIs DEF Good
<1>3. PICK r : r = SectionsPart!CpuCard /\ r = [percent |-> a, cores |-> b]
  BY <1>1, <1>2 DEF SectionsPart!CpuCard
<1>4. "rows" \notin DOMAIN r /\ \A f \in DOMAIN r : r[f] # Crash
  BY <1>2, <1>3
<1> QED BY <1>3, <1>4, NoThrow

\* The fifth card.
LEMMA GpuCardFine == SnapshotInv => ~SectionsPart!Throws(SectionsPart!GpuCard)
<1> SUFFICES ASSUME SnapshotInv PROVE ~SectionsPart!Throws(SectionsPart!GpuCard)
  OBVIOUS
<1>1. PICK gpu : gpu = SectionsPart!Opt(content, "gpu") /\ MayBe("GPUStats", gpu)
  BY PartsAre
<1>2. PICK host : host = SectionsPart!Opt(content, "host") /\ MayBe("HostInfo", host)
  BY PartsAre
<1>3. PICK g, t : g = "gpu" /\ t = "uptime" /\ Crash \notin {g, t}
  BY TextsFine
<1>4. PICK a, b : /\ a = SectionsPart!Fixed(SectionsPart!Or(SectionsPart!Opt(gpu, "usage_percent"), 0))
                  /\ b = SectionsPart!OrElse(SectionsPart!Opt(gpu, "cur_freq_mhz"), Text)
                  /\ Crash \notin {a, b}
  BY <1>1, NumberIs DEF Good
<1>5. PICK u : /\ u = IF host \in SectionsPart!Nothing THEN Missing
                      ELSE SectionsPart!Get(host, "uptime_seconds")
               /\ u # Crash
  <2>1. Missing # Crash
    BY MarksApart
  <2>2. host \notin SectionsPart!Nothing => SectionsPart!Get(host, "uptime_seconds") # Crash
    BY <1>2, GetIs DEF MayBe, SectionsPart!Nothing
  <2> QED BY <2>1, <2>2
<1>6. PICK c, d : /\ c = SectionsPart!Or(SectionsPart!Opt(host, "uptime_seconds"), 0)
                  /\ d = SectionsPart!Or(SectionsPart!Opt(host, "hostname"), Text)
                  /\ Crash \notin {c, d}
  BY <1>2, NumberIs DEF Good
<1>7. PICK r : /\ r = SectionsPart!GpuCard
               /\ \/ r = [kind |-> g, value |-> a, uptime |-> u, below |-> b]
                  \/ r = [kind |-> t, value |-> c, uptime |-> c, below |-> d]
  BY <1>1, <1>2, <1>3, <1>4, <1>5, <1>6 DEF SectionsPart!GpuCard
<1>8. "rows" \notin DOMAIN r /\ \A f \in DOMAIN r : r[f] # Crash
  <2>1. CASE r = [kind |-> g, value |-> a, uptime |-> u, below |-> b]
    BY <1>3, <1>4, <1>5, <2>1
  <2>2. CASE r = [kind |-> t, value |-> c, uptime |-> c, below |-> d]
    BY <1>3, <1>6, <2>2
  <2> QED BY <1>7, <2>1, <2>2
<1> QED BY <1>7, <1>8, NoThrow

\* The row of a container.
LEMMA ContainerRowIs ==
    ASSUME NEW c, IsObject("ContainerMetric", c)
    PROVE  /\ \A g \in DOMAIN SectionsPart!ContainerRow(c) : SectionsPart!ContainerRow(c)[g] # Crash
           /\ SectionsPart!ContainerRow(c).label = "Running" <=> SectionsPart!IsRunning(c)
<1>1. {"id", "cpu_percent", "memory_percent"} \subseteq Types["ContainerMetric"].required
  BY DEF Types, SectionsPart!Types
<1>2. \A f : SectionsPart!Get(c, f) # Crash
  BY GetIs
<1>3. \A f \in Types["ContainerMetric"].required : Good(SectionsPart!Get(c, f))
  BY GetIs
<1>4. PICK i, p, m : /\ i = SectionsPart!Fixed(SectionsPart!Get(c, "id"))
                     /\ p = SectionsPart!Fixed(SectionsPart!Get(c, "cpu_percent"))
                     /\ m = SectionsPart!Fixed(SectionsPart!Get(c, "memory_percent"))
                     /\ Crash \notin {i, p, m}
  BY <1>1, <1>3, FixedIs DEF Good
<1>5. PICK t : t = SectionsPart!Colour(SectionsPart!Get(c, "cpu_percent"), 800, 400) /\ t # Crash
  BY FixedIs, TextsFine
<1>6. PICK s : s = SectionsPart!Get(c, "state")
  OBVIOUS
<1>7. PICK icon : icon = (IF s = "running" THEN "green" ELSE "grey") /\ icon # Crash
  BY TextsFine
<1>8. PICK link : /\ link = IF SectionsPart!OrElse(SectionsPart!Get(c, "url"), Null) = Null
                            THEN "none" ELSE "link"
                  /\ link # Crash
  BY TextsFine
<1>9. PICK w : /\ w = CASE s = "running" -> "Running" [] s = "paused" -> "Paused"
                        [] OTHER -> "Exited"
               /\ w # Crash /\ (w = "Running" <=> s = "running")
  <2>1. CASE s = "running"
    BY <2>1, TextsFine
  <2>2. CASE s = "paused"
    BY <2>2, TextsFine
  <2>3. CASE s # "running" /\ s # "paused"
    BY <2>3, TextsFine
  <2> QED BY <2>1, <2>2, <2>3
<1>10. PICK a, b, d, e, f, g, h : /\ a = SectionsPart!Get(c, "name") /\ b = SectionsPart!Get(c, "status")
                                  /\ d = SectionsPart!Get(c, "image")
                                  /\ e = SectionsPart!Get(c, "memory_used_bytes")
                                  /\ f = SectionsPart!Get(c, "memory_limit_bytes")
                                  /\ g = SectionsPart!Get(c, "net_rx_bytes")
                                  /\ h = SectionsPart!Get(c, "net_tx_bytes")
                                  /\ Crash \notin {a, b, d, e, f, g, h}
  BY <1>2
<1>11. PICK r : r = SectionsPart!ContainerRow(c)
  OBVIOUS
<1>12. r = [name |-> a, id |-> i, icon |-> icon, link |-> link, label |-> w, status |-> b, image |-> d,
            percent |-> p, text |-> t, bar |-> t, used |-> e, limit |-> f, memory |-> m,
            rx |-> g, tx |-> h]
  <2>1. SectionsPart!ContainerRow(c) =
          [name |-> a, id |-> i, icon |-> (IF s = "running" THEN "green" ELSE "grey"),
           link |-> (IF SectionsPart!OrElse(SectionsPart!Get(c, "url"), Null) = Null
                     THEN "none" ELSE "link"),
           label |-> (CASE s = "running" -> "Running" [] s = "paused" -> "Paused"
                        [] OTHER -> "Exited"),
           status |-> b, image |-> d, percent |-> p, text |-> t, bar |-> t, used |-> e, limit |-> f,
           memory |-> m, rx |-> g, tx |-> h]
    BY <1>4, <1>5, <1>6, <1>10 DEF SectionsPart!ContainerRow
  <2> QED BY <1>7, <1>8, <1>9, <1>11, <2>1
<1>13. \A x \in DOMAIN r : r[x] # Crash
  <2>1. Crash \notin {a, i, icon, link, w, b, d, p, t, e, f, m, g, h}
    BY <1>4, <1>5, <1>7, <1>8, <1>9, <1>10
  <2>2. DOMAIN r = {"name", "id", "icon", "link", "label", "status", "image", "percent", "text", "bar",
                    "used", "limit", "memory", "rx", "tx"}
    BY <1>12
  <2> QED BY <1>12, <2>1, <2>2
<1>14. r.label = "Running" <=> SectionsPart!IsRunning(c)
  BY <1>6, <1>9, <1>12 DEF SectionsPart!IsRunning
<1> QED BY <1>11, <1>13, <1>14

\* The containers' section, of a list.
LEMMA DockerIs ==
    ASSUME SnapshotInv
    PROVE  \E xs, r, rows, s :
              /\ xs = SectionsPart!Or(SectionsPart!Opt(content, "containers"), <<>>)
              /\ ObjectList("ContainerMetric", xs) /\ r = SectionsPart!DockerSection
              /\ r = [running |-> SectionsPart!Count(xs, SectionsPart!IsRunning),
                      total |-> SectionsPart!Count(xs, LAMBDA c : TRUE),
                      shows |-> s, rows |-> rows]
              /\ \/ s = "error" /\ rows = <<>>
                 \/ s = "table" /\ rows = [i \in DOMAIN xs |-> SectionsPart!ContainerRow(xs[i])]
<1>1. PICK xs : /\ xs = SectionsPart!Or(SectionsPart!Opt(content, "containers"), <<>>)
                /\ xs = SectionsPart!Default(SectionsPart!Opt(content, "containers"), <<>>)
                /\ ObjectList("ContainerMetric", xs)
  BY ListsAre
<1>2. xs \notin SectionsPart!Nothing \cup {Crash}
  BY <1>1 DEF ObjectList, IsRead, Good, SectionsPart!Nothing
<1>3. PICK failed \in BOOLEAN :
         failed <=> SectionsPart!OrElse(SectionsPart!Opt(content, "docker_error"), NoText) # NoText
  OBVIOUS
<1>4. PICK s : s = IF failed THEN "error" ELSE "table"
  OBVIOUS
<1>5. PICK rows : rows = IF failed THEN <<>> ELSE [i \in DOMAIN xs |-> SectionsPart!ContainerRow(xs[i])]
  OBVIOUS
<1>6. SectionsPart!DockerSection =
        [running |-> SectionsPart!Count(xs, SectionsPart!IsRunning),
         total |-> SectionsPart!Count(xs, LAMBDA c : TRUE), shows |-> s, rows |-> rows]
  BY <1>1, <1>2, <1>3, <1>4, <1>5
     DEF SectionsPart!DockerSection, SectionsPart!Passed, SectionsPart!Map
<1> QED BY <1>1, <1>4, <1>5, <1>6

\* It does not throw.
LEMMA DockerFine == SnapshotInv => ~SectionsPart!Throws(SectionsPart!DockerSection)
<1> SUFFICES ASSUME SnapshotInv PROVE ~SectionsPart!Throws(SectionsPart!DockerSection)
  OBVIOUS
<1>1. PICK xs, r, rows, s :
              /\ ObjectList("ContainerMetric", xs) /\ r = SectionsPart!DockerSection
              /\ r = [running |-> SectionsPart!Count(xs, SectionsPart!IsRunning),
                      total |-> SectionsPart!Count(xs, LAMBDA c : TRUE),
                      shows |-> s, rows |-> rows]
              /\ \/ s = "error" /\ rows = <<>>
                 \/ s = "table" /\ rows = [i \in DOMAIN xs |-> SectionsPart!ContainerRow(xs[i])]
  BY DockerIs
<1>2. PICK a, b : /\ a = SectionsPart!Count(xs, SectionsPart!IsRunning)
                  /\ b = SectionsPart!Count(xs, LAMBDA c : TRUE) /\ Crash \notin {a, b}
  BY <1>1, CountIs DEF ObjectList, Good
<1>3. s # Crash
  BY <1>1, TextsFine
<1>4. RowsFine(rows)
  <2>1. CASE rows = <<>>
    BY <2>1 DEF RowsFine
  <2>2. CASE rows = [i \in DOMAIN xs |-> SectionsPart!ContainerRow(xs[i])]
    <3>1. \A i \in DOMAIN xs : IsObject("ContainerMetric", xs[i])
      BY <1>1 DEF ObjectList
    <3> QED BY <2>2, <3>1, ContainerRowIs DEF RowsFine
  <2> QED BY <1>1, <2>1, <2>2
<1>5. r = [running |-> a, total |-> b, shows |-> s, rows |-> rows]
  BY <1>1, <1>2
<1>6. \A f \in DOMAIN r \ {"rows"} : r[f] # Crash
  BY <1>2, <1>3, <1>5
<1>7. r.rows = rows
  BY <1>5
<1> QED BY <1>1, <1>4, <1>6, <1>7, NoRowThrows

\* No section throws.
LEMMA NoneThrows == SnapshotInv => SectionsPart!NeverThrows
<1> SUFFICES ASSUME SnapshotInv PROVE SectionsPart!NeverThrows
  OBVIOUS
<1>1. PICK a, b, c, d, e, f, g, h, i, j, k, l, m, n :
         /\ a = SectionsPart!Header /\ b = SectionsPart!CpuSection /\ c = SectionsPart!StorageVolumes
         /\ d = SectionsPart!NetworkAdapters /\ e = SectionsPart!CpuGauge
         /\ f = SectionsPart!MemoryGauge /\ g = SectionsPart!StorageMeter
         /\ h = SectionsPart!LoadMeter /\ i = SectionsPart!CpuCard /\ j = SectionsPart!MemoryCard
         /\ k = SectionsPart!StorageCard /\ l = SectionsPart!NetworkCard
         /\ m = SectionsPart!GpuCard /\ n = SectionsPart!DockerSection
  OBVIOUS
<1>2. \A x \in {a, b, c, d, e, f, g, h, i, j, k, l, m, n} : ~SectionsPart!Throws(x)
  BY <1>1, HeaderFine, CpuSectionFine, VolumesFine, AdaptersFine, CpuGaugeFine, MemoryFine,
     StorageFine, LoadFine, CpuCardFine, NetworkCardFine, GpuCardFine, DockerFine
<1>3. SectionsPart!Page = <<a, b, c, d, e, f, g, h, i, j, k, l, m, n>>
  BY <1>1 DEF SectionsPart!Page
<1>4. \A x \in DOMAIN <<a, b, c, d, e, f, g, h, i, j, k, l, m, n>> :
         <<a, b, c, d, e, f, g, h, i, j, k, l, m, n>>[x] \in {a, b, c, d, e, f, g, h, i, j, k, l, m, n}
  OBVIOUS
<1> QED BY <1>2, <1>3, <1>4 DEF SectionsPart!NeverThrows

\* The types of the front end tell what is on the wire.
LEMMA TypesTell == SnapshotInv => SectionsPart!TypesTellTheWire
<1> SUFFICES ASSUME SnapshotInv, content # Null PROVE SectionsPart!SnapshotHasTypes(content)
  BY DEF SectionsPart!TypesTellTheWire
<1>1. PICK o : /\ o = content /\ SectionsPart!HasType("SystemSnapshot", o)
               /\ \A f \in DOMAIN o : Holds(f, o[f])
  BY Arrives
<1>2. \A type, x : IsObject(type, x) => SectionsPart!HasType(type, x)
  BY DEF IsObject, SectionsPart!HasType, Types
<1>3. \A type, xs : IsObjects(type, xs) => \A i \in DOMAIN xs : SectionsPart!HasType(type, xs[i])
  BY <1>2 DEF IsObjects
<1>4. /\ "host" \in DOMAIN o => SectionsPart!HasType("HostInfo", o.host)
      /\ "cpu" \in DOMAIN o => SectionsPart!HasType("CPUStats", o.cpu)
      /\ "memory" \in DOMAIN o => SectionsPart!HasType("MemoryStats", o.memory)
      /\ "gpu" \in DOMAIN o => SectionsPart!HasType("GPUStats", o.gpu)
  BY <1>1, <1>2 DEF Holds
<1>5. /\ "disks" \in DOMAIN o =>
            \A i \in DOMAIN o.disks : SectionsPart!HasType("DiskMetric", o.disks[i])
      /\ "networks" \in DOMAIN o =>
            \A i \in DOMAIN o.networks : SectionsPart!HasType("NetworkMetric", o.networks[i])
      /\ "containers" \in DOMAIN o =>
            \A i \in DOMAIN o.containers : SectionsPart!HasType("ContainerMetric", o.containers[i])
  BY <1>1, <1>3 DEF Holds
<1> QED BY <1>1, <1>4, <1>5 DEF SectionsPart!SnapshotHasTypes

\* The header and the badge count the same containers, and the table has a row of each.
LEMMA CountsAgree ==
    ASSUME SnapshotInv
    PROVE  /\ SectionsPart!Header.running = SectionsPart!DockerSection.running
           /\ SectionsPart!DockerSection.shows = "table" =>
                 /\ Len(SectionsPart!DockerSection.rows) = SectionsPart!DockerSection.total
                 /\ SectionsPart!Cardinality(
                      {i \in DOMAIN SectionsPart!DockerSection.rows :
                         SectionsPart!DockerSection.rows[i].label = "Running"})
                       = SectionsPart!DockerSection.running
<1>1. PICK xs, r, rows, s :
              /\ xs = SectionsPart!Or(SectionsPart!Opt(content, "containers"), <<>>)
              /\ ObjectList("ContainerMetric", xs) /\ r = SectionsPart!DockerSection
              /\ r = [running |-> SectionsPart!Count(xs, SectionsPart!IsRunning),
                      total |-> SectionsPart!Count(xs, LAMBDA c : TRUE),
                      shows |-> s, rows |-> rows]
              /\ \/ s = "error" /\ rows = <<>>
                 \/ s = "table" /\ rows = [i \in DOMAIN xs |-> SectionsPart!ContainerRow(xs[i])]
  BY DockerIs
<1>2. PICK a, b : /\ a = SectionsPart!Count(xs, SectionsPart!IsRunning)
                  /\ b = SectionsPart!Count(xs, LAMBDA c : TRUE)
                  /\ a = Cardinality({i \in DOMAIN xs : SectionsPart!IsRunning(xs[i])})
                  /\ b = Cardinality(DOMAIN xs)
  BY <1>1, CountIs DEF ObjectList
<1>3. r.running = a /\ r.total = b /\ r.shows = s /\ r.rows = rows
  BY <1>1, <1>2
<1>4. SectionsPart!Header.running = a
  BY <1>1, <1>2 DEF SectionsPart!Header
<1>5. ASSUME s = "table"
      PROVE  /\ Len(rows) = b
             /\ SectionsPart!Cardinality({i \in DOMAIN rows : rows[i].label = "Running"}) = a
  <2>1. rows = [i \in DOMAIN xs |-> SectionsPart!ContainerRow(xs[i])]
    BY <1>1, <1>5
  <2>2. PICK n \in Nat : DOMAIN xs = 1..n
    BY <1>1 DEF ObjectList, IsRead
  <2>3. Cardinality(1..n) = n
    BY <2>2, FS_Interval
  <2>4. Len(rows) = n
    BY <2>1, <2>2
  <2>5. \A i \in DOMAIN xs : rows[i].label = "Running" <=> SectionsPart!IsRunning(xs[i])
    BY <1>1, <2>1, ContainerRowIs DEF ObjectList
  <2>6. {i \in DOMAIN rows : rows[i].label = "Running"}
           = {i \in DOMAIN xs : SectionsPart!IsRunning(xs[i])}
    BY <2>1, <2>5
  <2>7. \A T : SectionsPart!Cardinality(T) = Cardinality(T)
    BY DEF SectionsPart!Cardinality, Cardinality, SectionsPart!IsFiniteSet, IsFiniteSet
  <2> QED BY <1>2, <2>2, <2>3, <2>4, <2>6, <2>7
<1> QED BY <1>1, <1>3, <1>4, <1>5

\* The first volume is the disk of the meter and of the card.
LEMMA FirstVolume ==
    ASSUME SnapshotInv, SectionsPart!StorageVolumes.rows # <<>>
    PROVE  \E disk : /\ IsDisk(disk) /\ SectionsPart!StorageVolumes.rows[1] = DiskRow(disk)
                     /\ disk = SectionsPart!First(SectionsPart!Opt(content, "disks"))
<1>1. PICK xs : /\ xs = SectionsPart!Or(SectionsPart!Opt(content, "disks"), <<>>)
                /\ IsRead(xs) /\ \A i \in DOMAIN xs : IsDisk(xs[i])
                /\ SectionsPart!StorageVolumes = [rows |-> [i \in DOMAIN xs |-> DiskRow(xs[i])]]
  BY VolumesAre
<1>2. PICK rows : /\ rows = [i \in DOMAIN xs |-> DiskRow(xs[i])]
                  /\ SectionsPart!StorageVolumes.rows = rows /\ rows # <<>>
  BY <1>1
<1>3. PICK n \in Nat : DOMAIN xs = 1..n /\ n # 0
  <2>1. PICK n \in Nat : DOMAIN xs = 1..n
    BY <1>1 DEF IsRead
  <2>2. n = 0 => rows = <<>>
    BY <1>2, <2>1
  <2> QED BY <1>2, <2>1, <2>2
<1>4. 1 \in DOMAIN xs
  BY <1>3
<1>5. xs # <<>> /\ xs = SectionsPart!Opt(content, "disks") /\ Good(xs)
  <2>1. xs # <<>>
    <3>1. DOMAIN <<>> = {}
      OBVIOUS
    <3> QED BY <1>4, <3>1
  <2> QED BY <1>1, <2>1 DEF SectionsPart!Or, IsRead
<1>6. SectionsPart!First(xs) = xs[1]
  BY <1>5 DEF SectionsPart!First, SectionsPart!Nothing, Good
<1> QED BY <1>1, <1>2, <1>4, <1>5, <1>6

\* What the meter and the card tell of it.
LEMMA FirstTold ==
    ASSUME SnapshotInv, NEW disk, IsDisk(disk),
           disk = SectionsPart!First(SectionsPart!Opt(content, "disks"))
    PROVE  /\ SectionsPart!StorageCard.percent = disk.used_percent
           /\ SectionsPart!StorageCard.mount = disk.mount_point
           /\ SectionsPart!StorageMeter.percent = SectionsPart!Percent(disk.used_percent)
           /\ SectionsPart!StorageMeter.mount = disk.mount_point
           /\ SectionsPart!StorageMeter.zone
                 = SectionsPart!Meter!ActiveIndex(SectionsPart!Meter!StorageZones,
                                                  SectionsPart!Percent(disk.used_percent))
<1>1. IsObject("DiskMetric", disk) /\ Good(disk) /\ MayBe("DiskMetric", disk) /\ disk # Missing
  BY DEF IsDisk, IsObject, MayBe, Good
<1>2. {"used_percent", "mount_point"} \subseteq Types["DiskMetric"].required
  BY DEF Types, SectionsPart!Types
<1>3. PICK u, m : /\ u = disk.used_percent /\ u = SectionsPart!Opt(disk, "used_percent") /\ Good(u)
                  /\ m = disk.mount_point /\ m = SectionsPart!Opt(disk, "mount_point")
                  /\ m = SectionsPart!Get(disk, "mount_point") /\ Good(m) /\ u \in Int
  BY <1>1, <1>2, GetIs, OptIs DEF IsDisk
<1>4. SectionsPart!Or(u, 0) = u /\ SectionsPart!Or(m, Text) = m
  BY <1>3 DEF SectionsPart!Or, SectionsPart!Nothing, Good
<1>5. PICK p \in Nat : p = SectionsPart!Percent(u)
  BY <1>3, PercentIs
<1>6. SectionsPart!Fixed(u) = u /\ SectionsPart!Fixed(p) = p
  BY <1>3, MarksApart, FixedIs
<1>7. PICK s : /\ s = SectionsPart!StorageCard
               /\ s = [percent |-> u, mount |-> m,
                       used |-> SectionsPart!Or(SectionsPart!Opt(disk, "used_bytes"), 0),
                       total |-> SectionsPart!Or(SectionsPart!Opt(disk, "total_bytes"), 0)]
  <2>1. disk \notin SectionsPart!Nothing
    BY <1>1 DEF SectionsPart!Nothing, Good
  <2> QED BY <1>3, <1>4, <1>6, <2>1 DEF SectionsPart!StorageCard
<1>8. PICK z : z = SectionsPart!Meter!ActiveIndex(SectionsPart!Meter!StorageZones, p)
  OBVIOUS
<1>9. PICK r : /\ r = SectionsPart!StorageMeter
               /\ r = [percent |-> p, mount |-> m, zone |-> z,
                       used |-> SectionsPart!Or(SectionsPart!Opt(disk, "used_bytes"), 0),
                       total |-> SectionsPart!Or(SectionsPart!Opt(disk, "total_bytes"), 0),
                       read |-> SectionsPart!Or(SectionsPart!Opt(disk, "read_bytes_per_sec"), 0),
                       write |-> SectionsPart!Or(SectionsPart!Opt(disk, "write_bytes_per_sec"), 0)]
  BY <1>3, <1>4, <1>5, <1>6, <1>8 DEF SectionsPart!StorageMeter
<1>10. s.percent = u /\ s.mount = m
  BY <1>7
<1>11. r.percent = p /\ r.mount = m /\ r.zone = z
  BY <1>9
<1> QED BY <1>3, <1>5, <1>7, <1>8, <1>9, <1>10, <1>11

\* The cores are the same ones, where they are known.
LEMMA CoresAgree ==
    SectionsPart!CpuCard.cores # Text =>
        /\ SectionsPart!CpuCard.cores = SectionsPart!CpuGauge.cores
        /\ SectionsPart!CpuCard.cores = SectionsPart!LoadMeter.cores
<1>1. PICK x : x = SectionsPart!Opt(SectionsPart!Opt(content, "cpu"), "core_count")
  OBVIOUS
<1>2. SectionsPart!CpuCard.cores = SectionsPart!OrElse(x, Text)
  BY <1>1 DEF SectionsPart!CpuCard
<1>3. SectionsPart!CpuGauge.cores = SectionsPart!Or(x, 1)
  BY <1>1 DEF SectionsPart!CpuGauge
<1>4. SectionsPart!LoadMeter.cores = SectionsPart!OrElse(x, 1)
  BY <1>1 DEF SectionsPart!LoadMeter
<1> QED BY <1>2, <1>3, <1>4 DEF SectionsPart!Or, SectionsPart!OrElse, SectionsPart!Nothing

\* So is the uptime.
LEMMA UptimesAgree ==
    ASSUME SnapshotInv
    PROVE  /\ SectionsPart!CpuSection.uptime # Missing =>
                 SectionsPart!Header.uptime = SectionsPart!CpuSection.uptime
           /\ SectionsPart!GpuCard.uptime # Missing /\ SectionsPart!Header.shown =>
                 SectionsPart!GpuCard.uptime = SectionsPart!Header.uptime
<1>1. PICK host : host = SectionsPart!Opt(content, "host") /\ MayBe("HostInfo", host)
  BY PartsAre
<1>2. PICK x : x = SectionsPart!Opt(host, "uptime_seconds")
  OBVIOUS
<1>3. SectionsPart!CpuSection.uptime = SectionsPart!OrElse(x, Missing)
  BY <1>1, <1>2 DEF SectionsPart!CpuSection, SectionsPart!Passed
<1>4. CASE host \in SectionsPart!Nothing
  <2>1. x = Missing
    BY <1>2, <1>4 DEF SectionsPart!Opt
  <2>2. SectionsPart!OrElse(x, Missing) = Missing
    BY <2>1 DEF SectionsPart!OrElse, SectionsPart!Nothing
  <2>3. PICK n : SectionsPart!Header = [running |-> n, shown |-> FALSE]
    BY <1>1, <1>4 DEF SectionsPart!Header
  <2>4. ~SectionsPart!Header.shown
    BY <2>3
  <2> QED BY <1>3, <2>2, <2>4
<1>5. CASE host \notin SectionsPart!Nothing
  <2>1. IsObject("HostInfo", host)
    BY <1>1, <1>5 DEF MayBe, SectionsPart!Nothing
  <2>2. "uptime_seconds" \in Types["HostInfo"].required
    BY DEF Types, SectionsPart!Types
  <2>3. x = SectionsPart!Get(host, "uptime_seconds") /\ Good(x)
    BY <1>2, <1>5, <2>1, <2>2, GetIs DEF SectionsPart!Opt
  <2>4. SectionsPart!Header.uptime = x
    <3>1. PICK n, t, a, b, c : SectionsPart!Header = [running |-> n, shown |-> t, hostname |-> a,
                                                      platform |-> b, kernel |-> c, uptime |-> x]
      BY <1>1, <1>5, <2>3 DEF SectionsPart!Header
    <3> QED BY <3>1
  <2>5. SectionsPart!OrElse(x, Missing) \in {x, Missing} /\ SectionsPart!Or(x, 0) = x
    BY <2>3 DEF SectionsPart!OrElse, SectionsPart!Or, SectionsPart!Nothing, Good
  <2>6. SectionsPart!GpuCard.uptime = x
    <3>1. PICK k, a, b : SectionsPart!GpuCard = [kind |-> k, value |-> a, uptime |-> x, below |-> b]
      BY <1>1, <1>2, <1>5, <2>3, <2>5 DEF SectionsPart!GpuCard
    <3> QED BY <3>1
  <2> QED BY <1>3, <2>4, <2>5, <2>6
<1> QED BY <1>4, <1>5

\* The sections tell the same thing alike.
LEMMA TheyAgree == SnapshotInv => SectionsPart!SectionsAgree
<1> SUFFICES ASSUME SnapshotInv PROVE SectionsPart!SectionsAgree
  OBVIOUS
<1>1. ASSUME SectionsPart!StorageVolumes.rows # <<>>
      PROVE  /\ SectionsPart!StorageCard.percent = SectionsPart!StorageVolumes.rows[1].percent
             /\ SectionsPart!StorageMeter.percent
                   = SectionsPart!Percent(SectionsPart!StorageVolumes.rows[1].percent)
             /\ SectionsPart!StorageCard.mount = SectionsPart!StorageVolumes.rows[1].mount
             /\ SectionsPart!StorageMeter.mount = SectionsPart!StorageVolumes.rows[1].mount
  <2>1. PICK disk : /\ IsDisk(disk) /\ SectionsPart!StorageVolumes.rows[1] = DiskRow(disk)
                    /\ disk = SectionsPart!First(SectionsPart!Opt(content, "disks"))
    BY <1>1, FirstVolume
  <2>2. DiskRow(disk).mount = disk.mount_point /\ DiskRow(disk).percent = disk.used_percent
    BY <2>1, DiskRowIs
  <2> QED BY <2>1, <2>2, FirstTold
<1> QED BY <1>1, CountsAgree, CoresAgree, UptimesAgree DEF SectionsPart!SectionsAgree

\* what the colour of a disk's usage counts for
Standing(text) == [calm |-> 1, amber |-> 2, red |-> 3][text]

\* The colour of a number.
LEMMA ColourIs ==
    ASSUME NEW x \in Int
    PROVE  SectionsPart!Colour(x, 900, 750) = IF x > 900 THEN "red" ELSE IF x > 750 THEN "amber" ELSE "calm"
<1>1. x \notin SectionsPart!Nothing \cup {Crash, Text}
  BY PartAssumptions DEF SectionsPart!SectionsAssumption, SectionsPart!Marks, SectionsPart!Nothing
<1> QED BY <1>1 DEF SectionsPart!Colour, SectionsPart!Above

\* The colour and the zone of a disk.
LEMMA DiskColour ==
    ASSUME NEW d, IsDisk(d)
    PROVE  DiskRow(d).zone # Standing(DiskRow(d).text) =>
              DiskRow(d).percent \in {750, 900} /\ DiskRow(d).zone = Standing(DiskRow(d).text) + 1
<1>1. PICK u \in Int : u = d.used_percent
  BY DEF IsDisk
<1>2. PICK p \in Nat : p <= 1000 /\ p = SectionsPart!Percent(u)
                       /\ p = IF u < 0 THEN 0 ELSE IF u > 1000 THEN 1000 ELSE u
  BY PercentIs
<1>3. DiskRow(d).zone = IF p < 750 THEN 1 ELSE IF p < 900 THEN 2 ELSE 3
  <2>1. DiskRow(d).zone = SectionsPart!Meter!ActiveIndex(SectionsPart!Meter!DiskZones, p)
    <3>1. SectionsPart!Percent(d.used_percent) = p
      BY <1>1, <1>2
    <3>2. DiskRow(d).zone = SectionsPart!Meter!ActiveIndex(SectionsPart!Meter!DiskZones,
                                                           SectionsPart!Percent(d.used_percent))
      BY DiskRowIs
    <3> QED BY <3>1, <3>2
  <2> QED BY <1>2, <2>1, ZoneOf
<1>4. DiskRow(d).text = IF u > 900 THEN "red" ELSE IF u > 750 THEN "amber" ELSE "calm"
  BY <1>1, ColourIs, DiskRowIs
<1>5. DiskRow(d).percent = u
  BY <1>1, DiskRowIs
<1>6. Standing("red") = 3 /\ Standing("amber") = 2 /\ Standing("calm") = 1
  BY DEF Standing
<1>7. Standing(DiskRow(d).text) = IF u > 900 THEN 3 ELSE IF u > 750 THEN 2 ELSE 1
  BY <1>4, <1>6
<1> QED BY <1>2, <1>3, <1>5, <1>7

\* Colours and meters agree.
LEMMA TheyLookAlike == SnapshotInv => SectionsPart!ColoursAgree
<1> SUFFICES ASSUME SnapshotInv PROVE SectionsPart!ColoursAgree
  OBVIOUS
<1>1. PICK xs : /\ \A i \in DOMAIN xs : IsDisk(xs[i])
                /\ SectionsPart!StorageVolumes = [rows |-> [i \in DOMAIN xs |-> DiskRow(xs[i])]]
  BY VolumesAre
<1>2. PICK rows : /\ rows = [i \in DOMAIN xs |-> DiskRow(xs[i])] /\ SectionsPart!StorageVolumes.rows = rows
  BY <1>1
<1>3. \A i \in DOMAIN rows : rows[i].zone # Standing(rows[i].text) =>
         rows[i].percent \in {750, 900} /\ rows[i].zone = Standing(rows[i].text) + 1
  BY <1>1, <1>2, DiskColour
<1>4. ASSUME rows # <<>>
      PROVE  SectionsPart!StorageMeter.zone - rows[1].zone \in {0, 1}
  <2>1. PICK disk : /\ IsDisk(disk) /\ rows[1] = DiskRow(disk)
                    /\ disk = SectionsPart!First(SectionsPart!Opt(content, "disks"))
    BY <1>2, <1>4, FirstVolume
  <2>2. PICK u \in Int : u = disk.used_percent
    BY <2>1 DEF IsDisk
  <2>3. PICK p \in Nat : p <= 1000 /\ p = SectionsPart!Percent(u)
    BY PercentIs
  <2>4. rows[1].zone = IF p < 750 THEN 1 ELSE IF p < 900 THEN 2 ELSE 3
    BY <2>1, <2>2, <2>3, ZoneOf, DiskRowIs
  <2>5. SectionsPart!StorageMeter.zone = IF p < 700 THEN 1 ELSE IF p < 850 THEN 2 ELSE 3
    BY <2>1, <2>2, <2>3, ZoneOf, FirstTold
  <2> QED BY <2>3, <2>4, <2>5
<1> QED BY <1>2, <1>3, <1>4 DEF SectionsPart!ColoursAgree, Standing

\* The snapshot that comes is one that the daemon has written.
LEMMA SnapshotComes ==
    /\ SectionsPart!Init => SnapshotInv
    /\ SnapshotInv /\ [SectionsPart!Next]_content => SnapshotInv'
<1>1. SectionsPart!Init => SnapshotInv
  BY DEF SectionsPart!Init, SnapshotInv
<1>2. ASSUME SnapshotInv, SectionsPart!Next PROVE SnapshotInv'
  BY <1>2 DEF SectionsPart!Next, SectionsPart!SnapshotArrives, SnapshotInv
<1>3. ASSUME SnapshotInv, UNCHANGED content PROVE SnapshotInv'
  BY <1>3 DEF SnapshotInv
<1> QED BY <1>1, <1>2, <1>3

\* The snapshot's part of the bench.
LEMMA SectionsAlone ==
    /\ PageInit => SectionsPart!Init
    /\ [PageNext]_<<part, others, vars, tableVars, scales, badgeVars, linkVars>>
          => [SectionsPart!Next]_content
<1>1. PageInit => SectionsPart!Init
  BY DEF PageInit
<1>2. ASSUME [PageNext]_<<part, others, vars, tableVars, scales, badgeVars, linkVars>>
      PROVE  [SectionsPart!Next]_content
  BY <1>2 DEF PageNext, others
<1> QED BY <1>1, <1>2

\* Whatever each collector brings, or fails to bring (manager.go:73), and before the first
\* snapshot: no section reads what is not there, what is on the wire is as the types of
\* the front end say, and the sections tell the same thing alike.
THEOREM SectionsAlwaysFit == PageSpec => []SectionsFit
<1>1. PageInit => SnapshotInv
  BY SectionsAlone, SnapshotComes
<1>2. SnapshotInv /\ [PageNext]_<<part, others, vars, tableVars, scales, badgeVars, linkVars>>
         => SnapshotInv'
  BY SectionsAlone, SnapshotComes
<1>3. SnapshotInv => SectionsFit
  BY NoneThrows, TypesTell, TheyAgree, TheyLookAlike DEF SectionsFit, SectionsPart!SectionsFit
<1> QED BY <1>1, <1>2, <1>3, PTL DEF PageSpec
=============================================================================
