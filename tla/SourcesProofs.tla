----------------------------- MODULE SourcesProofs -----------------------------
(***************************************************************************)
(* Proofs about what the numbers of a snapshot come from (Sources): of the *)
(* configuration, the disk rows, the GPU, the CPU and the I/O rates, each  *)
(* by its own invariant, and of the five side by side.                     *)
(***************************************************************************)
EXTENDS Sources, FiniteSetTheorems, WellFoundedInduction, SequenceTheorems, TLAPS

-----------------------------------------------------------------------------
(* Sums and loops are folds, which are recursive functions; that there is  *)
(* such a function, and what it is, is by induction over the numbers, as   *)
(* the principle of the least one.                                         *)

Below == {ss \in Nat \X Nat : ss[1] < ss[2]}

\* The numbers have no infinite descent.
LEMMA BelowWellFounded == IsWellFoundedOn(Below, Nat)
<1>1. OpToRel(<, Nat) = Below
  BY Zenon DEF OpToRel, Below
<1> QED BY Zenon, NatLessThanWellFounded, <1>1

\* A set of numbers that has no least one has none.
LEMMA Least ==
    ASSUME NEW T \in SUBSET Nat, T # {}
    PROVE  \E n \in T : \A m \in Nat : m < n => m \notin T
<1>1. PICK n \in T : \A m \in T : ~(<<m, n>> \in Below)
  BY BelowWellFounded, WFMin
<1> QED BY <1>1 DEF Below

\* A set of numbers that has 0, and with a number the next one, has them all.
LEMMA Induction ==
    ASSUME NEW T \in SUBSET Nat, 0 \in T, \A n \in T : n + 1 \in T
    PROVE  T = Nat
<1>1. SUFFICES ASSUME Nat \ T # {} PROVE FALSE
  OBVIOUS
<1>2. PICK n \in Nat \ T : \A m \in Nat : m < n => m \notin Nat \ T
  BY <1>1, Least
<1>3. n # 0 /\ n - 1 \in Nat /\ n - 1 < n /\ (n - 1) + 1 = n
  BY <1>2
<1>4. n - 1 \in T
  BY <1>2, <1>3
<1> QED BY <1>2, <1>3, <1>4

\* g takes its elements out of a set as c chooses them, and makes a value of each.
Folds(g, D, base, F, c) ==
    \A I \in SUBSET D : g[I] = IF I = {} THEN base ELSE F[<<g[I \ {c[I]}], c[I]>>]

Chooses(c, D) == \A I \in SUBSET D : I # {} => c[I] \in I

\* The function a fold is made of: one for every step, base, choice and finite set.
LEMMA FoldExists ==
    ASSUME NEW D, NEW V, NEW base \in V, NEW F \in [V \X D -> V], NEW c,
           IsFiniteSet(D), Chooses(c, D)
    PROVE  \E g \in [SUBSET D -> V] : Folds(g, D, base, F, c)
<1> USE DEF Folds, Chooses
<1> DEFINE next(g, I) == IF I = {} THEN base ELSE F[<<g[I \ {c[I]}], c[I]>>]
           T == {n \in Nat : \E g \in [SUBSET D -> V] :
                    \A I \in SUBSET D : Cardinality(I) <= n => g[I] = next(g, I)}
<1>1. \A I \in SUBSET D : IsFiniteSet(I) /\ Cardinality(I) \in Nat /\ Cardinality(I) <= Cardinality(D)
  BY FS_Subset, FS_CardinalityType
<1>2. \A I \in SUBSET D : I # {} => /\ I \ {c[I]} \in SUBSET D
                                    /\ Cardinality(I \ {c[I]}) = Cardinality(I) - 1
  BY <1>1, FS_RemoveElement
<1>3. \A g \in [SUBSET D -> V], I \in SUBSET D : next(g, I) \in V
  OBVIOUS
<1>4. 0 \in T
  <2> DEFINE g == [I \in SUBSET D |-> base]
  <2>1. g \in [SUBSET D -> V] /\ \A I \in SUBSET D : g[I] = base
    OBVIOUS
  <2>2. \A I \in SUBSET D : Cardinality(I) <= 0 => I = {}
    BY <1>1, FS_EmptySet
  <2> HIDE DEF g
  <2> QED BY <2>1, <2>2
<1>5. ASSUME NEW n \in T PROVE n + 1 \in T
  <2>1. PICK g \in [SUBSET D -> V] : \A I \in SUBSET D : Cardinality(I) <= n => g[I] = next(g, I)
    BY <1>5
  <2> DEFINE h == [I \in SUBSET D |-> next(g, I)]
  <2> HIDE DEF next
  <2>2. h \in [SUBSET D -> V] /\ \A I \in SUBSET D : h[I] = next(g, I)
    BY <1>3
  <2> HIDE DEF h
  <2>3. ASSUME NEW I \in SUBSET D, Cardinality(I) <= n + 1 PROVE h[I] = next(h, I)
    <3>1. CASE I = {}
      BY <2>2, <3>1 DEF next
    <3>2. CASE I # {}
      <4>1. I \ {c[I]} \in SUBSET D /\ Cardinality(I \ {c[I]}) <= n
        BY <1>1, <1>2, <1>5, <2>3, <3>2
      <4>2. h[I \ {c[I]}] = g[I \ {c[I]}]
        BY <2>1, <2>2, <4>1
      <4>3. h[I] = F[<<g[I \ {c[I]}], c[I]>>] /\ next(h, I) = F[<<h[I \ {c[I]}], c[I]>>]
        BY <2>2, <3>2 DEF next
      <4> QED BY <4>2, <4>3
    <3> QED BY <3>1, <3>2
  <2> QED BY <1>5, <2>2, <2>3
<1>6. Cardinality(D) \in T
  <2>1. Cardinality(D) \in Nat
    BY FS_CardinalityType
  <2> HIDE DEF T
  <2>2. T \subseteq Nat
    BY DEF T
  <2> QED BY <1>4, <1>5, <2>1, <2>2, Induction
<1> QED BY <1>1, <1>6

\* All subsets of a finite set, one element less at a time.
LEMMA SetInduction ==
    ASSUME NEW D, NEW T \in SUBSET (SUBSET D), IsFiniteSet(D), {} \in T,
           \A I \in SUBSET D : I # {} /\ (\A x \in I : I \ {x} \in T) => I \in T
    PROVE  T = SUBSET D
<1> DEFINE N == {n \in Nat : \A I \in SUBSET D : Cardinality(I) <= n => I \in T}
<1>1. \A I \in SUBSET D : IsFiniteSet(I) /\ Cardinality(I) \in Nat
  BY FS_Subset, FS_CardinalityType
<1>2. \A I \in SUBSET D : \A x \in I : I \ {x} \in SUBSET D /\ Cardinality(I \ {x}) = Cardinality(I) - 1
  BY <1>1, FS_RemoveElement
<1>3. 0 \in N
  BY <1>1, FS_EmptySet
<1>4. ASSUME NEW n \in N PROVE n + 1 \in N
  <2>1. ASSUME NEW I \in SUBSET D, Cardinality(I) <= n + 1 PROVE I \in T
    <3>1. \A x \in I : I \ {x} \in T
      BY <1>1, <1>2, <1>4, <2>1
    <3> QED BY <3>1
  <2> QED BY <1>4, <2>1
<1>5. N = Nat
  <2> HIDE DEF N
  <2>1. N \in SUBSET Nat
    BY DEF N
  <2> QED BY <1>3, <1>4, <2>1, Induction
<1>6. ASSUME NEW I \in SUBSET D PROVE I \in T
  BY <1>1, <1>5
<1> QED BY <1>6

\* g[I] is the sum of f over the subset I of S.
Sums(g, f, S) ==
    /\ SumFunction(f) = g[S] /\ g[{}] = 0
    /\ \A I \in SUBSET S : I # {} => \E x \in I : g[I] = f[x] + g[I \ {x}]

\* A sum, one element at a time.
LEMMA SumStep ==
    ASSUME NEW S, NEW f \in [S -> Nat], IsFiniteSet(S)
    PROVE  \E g \in [SUBSET S -> Nat] : Sums(g, f, S)
<1> DEFINE Step(g) == [I \in SUBSET S |->
                         IF I = {} THEN 0 ELSE LET x == CHOOSE x \in I : TRUE IN f[x] + g[I \ {x}]]
           F == [p \in Nat \X S |-> f[p[2]] + p[1]]
           c == [I \in SUBSET S |-> CHOOSE x \in I : TRUE]
<1>1. DOMAIN f = S
  OBVIOUS
<1>2. SumFunction(f) = (CHOOSE g : g = Step(g))[S]
  BY <1>1 DEF SumFunction, SumFunctionOnSet, FoldFunctionOnSet, MapThenFoldSet
<1>3. F \in [Nat \X S -> Nat] /\ \A n \in Nat, x \in S : F[<<n, x>>] = f[x] + n
  OBVIOUS
<1>4. \A I \in SUBSET S : I # {} => c[I] \in I /\ c[I] = CHOOSE x \in I : TRUE
  OBVIOUS
<1> HIDE DEF F, c
<1>5. PICK g \in [SUBSET S -> Nat] :
          \A I \in SUBSET S : g[I] = IF I = {} THEN 0 ELSE F[<<g[I \ {c[I]}], c[I]>>]
  <2>1. Chooses(c, S)
    BY <1>4 DEF Chooses
  <2>2. F \in [Nat \X S -> Nat] /\ 0 \in Nat
    BY <1>3
  <2>3. \E g \in [SUBSET S -> Nat] : Folds(g, S, 0, F, c)
    BY <2>1, <2>2, FoldExists
  <2> QED BY <2>3 DEF Folds
<1>6. \A I \in SUBSET S : I # {} => c[I] \in S /\ g[I \ {c[I]}] \in Nat
  BY <1>4
<1>7. g = Step(g)
  <2>1. \A I \in SUBSET S : g[I] = IF I = {} THEN 0 ELSE f[CHOOSE x \in I : TRUE] + g[I \ {CHOOSE x \in I : TRUE}]
    <3> SUFFICES ASSUME NEW I \in SUBSET S
                 PROVE  g[I] = IF I = {} THEN 0 ELSE f[CHOOSE x \in I : TRUE] + g[I \ {CHOOSE x \in I : TRUE}]
      OBVIOUS
    <3>1. CASE I = {}
      BY <1>5, <3>1
    <3>2. CASE I # {}
      <4>1. c[I] \in S /\ g[I \ {c[I]}] \in Nat /\ c[I] = CHOOSE x \in I : TRUE
        BY <1>4, <1>6, <3>2
      <4>2. g[I] = F[<<g[I \ {c[I]}], c[I]>>]
        BY <1>5, <3>2
      <4>3. F[<<g[I \ {c[I]}], c[I]>>] = f[c[I]] + g[I \ {c[I]}]
        BY <1>3, <4>1
      <4> QED BY <3>2, <4>1, <4>2, <4>3
    <3> QED BY <3>1, <3>2
  <2>2. g = [I \in SUBSET S |-> g[I]]
    OBVIOUS
  <2>3. [I \in SUBSET S |-> g[I]] = Step(g)
    BY <2>1
  <2> QED BY <2>2, <2>3
<1> DEFINE h == CHOOSE k : k = Step(k)
<1>8. h = Step(h) /\ SumFunction(f) = h[S]
  BY <1>2, <1>7
<1> HIDE DEF h
<1>12. DOMAIN h = SUBSET S
  <2>1. DOMAIN Step(h) = SUBSET S
    OBVIOUS
  <2> QED BY <1>8, <2>1
<1>9. \A I \in SUBSET S : h[I] = IF I = {} THEN 0 ELSE f[c[I]] + h[I \ {c[I]}]
  <2>1. \A I \in SUBSET S : Step(h)[I] = IF I = {} THEN 0 ELSE f[CHOOSE x \in I : TRUE] + h[I \ {CHOOSE x \in I : TRUE}]
    OBVIOUS
  <2>2. \A I \in SUBSET S : h[I] = Step(h)[I]
    BY <1>8
  <2> HIDE DEF Step
  <2> QED BY <1>4, <2>1, <2>2
<1> HIDE DEF Step
<1>10. DOMAIN h = SUBSET S /\ \A I \in SUBSET S : h[I] \in Nat
  <2> DEFINE T == {I \in SUBSET S : h[I] \in Nat}
  <2>1. ASSUME NEW I \in SUBSET S, I # {}, \A x \in I : I \ {x} \in T PROVE I \in T
    <3>1. c[I] \in I /\ c[I] \in S
      BY <1>4, <2>1
    <3>2. f[c[I]] \in Nat /\ h[I \ {c[I]}] \in Nat
      BY <2>1, <3>1
    <3>3. h[I] = f[c[I]] + h[I \ {c[I]}]
      BY <1>9, <2>1
    <3>4. h[I] \in Nat
      BY <3>2, <3>3
    <3> QED BY <3>4
  <2>2. {} \in T
    <3>1. h[{}] = 0
      BY <1>9
    <3> QED BY <3>1
  <2>3. T = SUBSET S
    <3> HIDE DEF T
    <3>1. T \in SUBSET (SUBSET S)
      BY DEF T
    <3> QED BY <2>1, <2>2, <3>1, SetInduction
  <2> QED BY <1>12, <2>3
<1>11. h \in [SUBSET S -> Nat]
  <2>1. h = [I \in SUBSET S |-> h[I]]
    <3>1. h = Step(h)
      BY <1>8
    <3> QED BY <3>1 DEF Step
  <2> QED BY <1>10, <2>1
<1>13. Sums(h, f, S)
  <2>1. \A I \in SUBSET S : I # {} => c[I] \in I /\ h[I] = f[c[I]] + h[I \ {c[I]}]
    BY <1>4, <1>9
  <2>2. h[{}] = 0
    BY <1>9
  <2> QED BY <1>8, <2>1, <2>2 DEF Sums
<1> QED BY <1>11, <1>13
\* A sum is between the size of the set times the least and times the greatest term.
LEMMA SumBetween ==
    ASSUME NEW S, NEW f \in [S -> Nat], NEW lo \in Nat, NEW hi \in Nat,
           IsFiniteSet(S), \A x \in S : lo <= f[x] /\ f[x] <= hi
    PROVE  /\ SumFunction(f) \in Nat /\ Cardinality(S) \in Nat
           /\ Cardinality(S) * lo <= SumFunction(f) /\ SumFunction(f) <= Cardinality(S) * hi
<1>0. PICK g \in [SUBSET S -> Nat] : Sums(g, f, S)
  BY SumStep
<1>1. /\ SumFunction(f) = g[S] /\ g[{}] = 0
      /\ \A I \in SUBSET S : I # {} => \E x \in I : g[I] = f[x] + g[I \ {x}]
  BY <1>0 DEF Sums
<1>2. \A I \in SUBSET S : IsFiniteSet(I) /\ Cardinality(I) \in Nat
  BY FS_Subset, FS_CardinalityType
<1> DEFINE Holds(I) == Cardinality(I) * lo <= g[I] /\ g[I] <= Cardinality(I) * hi
           T == {I \in SUBSET S : Holds(I)}
<1>3. ASSUME NEW I \in SUBSET S, I # {}, \A x \in I : I \ {x} \in T PROVE I \in T
  <2>1. PICK x \in I : g[I] = f[x] + g[I \ {x}]
    BY <1>1, <1>3
  <2>2. /\ Cardinality(I \ {x}) = Cardinality(I) - 1 /\ Cardinality(I) \in Nat
        /\ Cardinality(I \ {x}) \in Nat
    BY <1>2, FS_RemoveElement
  <2>3. Holds(I \ {x})
    BY <1>3
  <2>4. f[x] \in Nat /\ lo <= f[x] /\ f[x] <= hi /\ g[I] \in Nat /\ g[I \ {x}] \in Nat
    OBVIOUS
  <2>5. PICK n \in Nat : n = Cardinality(I \ {x})
    BY <2>2
  <2>6. Cardinality(I) = n + 1
    BY <2>2, <2>5
  <2>7. (n + 1) * lo = n * lo + lo /\ (n + 1) * hi = n * hi + hi /\ n * lo \in Nat /\ n * hi \in Nat
    BY <2>5
  <2>8. (n + 1) * lo <= g[I] /\ g[I] <= (n + 1) * hi
    BY <2>1, <2>3, <2>4, <2>5, <2>7
  <2> QED BY <2>6, <2>8
<1>4. {} \in T
  <2>1. Cardinality({}) = 0
    BY FS_EmptySet
  <2>2. 0 * lo = 0 /\ 0 * hi = 0
    OBVIOUS
  <2> QED BY <1>1, <2>1, <2>2
<1>5. T = SUBSET S
  <2> HIDE DEF T
  <2>1. T \in SUBSET (SUBSET S)
    BY DEF T
  <2> QED BY <1>3, <1>4, <2>1, SetInduction
<1>6. Holds(S)
  BY <1>5
<1> QED BY <1>1, <1>2, <1>6

\* A sum of which at most one term is not zero is no more than a bound of the terms.
LEMMA SumOfOne ==
    ASSUME NEW S, NEW f \in [S -> Nat], NEW bound \in Nat,
           IsFiniteSet(S), \A x \in S : f[x] <= bound,
           \A x, y \in S : f[x] # 0 /\ f[y] # 0 => x = y
    PROVE  SumFunction(f) \in Nat /\ SumFunction(f) <= bound
<1>0. PICK g \in [SUBSET S -> Nat] : Sums(g, f, S)
  BY SumStep
<1>1. /\ SumFunction(f) = g[S] /\ g[{}] = 0
      /\ \A I \in SUBSET S : I # {} => \E x \in I : g[I] = f[x] + g[I \ {x}]
  BY <1>0 DEF Sums
<1> DEFINE Holds(I) == g[I] <= bound /\ (g[I] # 0 => \E x \in I : f[x] # 0)
           T == {I \in SUBSET S : Holds(I)}
<1>2. ASSUME NEW I \in SUBSET S, I # {}, \A x \in I : I \ {x} \in T PROVE I \in T
  <2>1. PICK x \in I : g[I] = f[x] + g[I \ {x}]
    BY <1>1, <1>2
  <2>2. Holds(I \ {x})
    BY <1>2
  <2>3. f[x] \in Nat /\ f[x] <= bound /\ g[I] \in Nat /\ g[I \ {x}] \in Nat
    OBVIOUS
  <2>4. CASE f[x] = 0
    BY <2>1, <2>2, <2>3, <2>4
  <2>5. CASE f[x] # 0
    <3>1. \A y \in I \ {x} : f[y] = 0
      BY <2>5
    <3>2. g[I \ {x}] = 0
      BY <2>2, <3>1
    <3> QED BY <2>1, <2>3, <2>5, <3>2
  <2> QED BY <2>4, <2>5
<1>3. {} \in T
  BY <1>1
<1>4. T = SUBSET S
  <2> HIDE DEF T
  <2>1. T \in SUBSET (SUBSET S)
    BY DEF T
  <2> QED BY <1>2, <1>3, <2>1, SetInduction
<1>5. Holds(S)
  BY <1>4
<1> QED BY <1>1, <1>5

\* The last of the turns of a loop.
LEMMA LastTurn ==
    ASSUME NEW n \in Nat, NEW I \in SUBSET (1..n), I # {}
    PROVE  Max(I) \in I /\ \A y \in I : y <= Max(I)
<1> DEFINE T == {k \in 0..n : n - k \in I}
<1>1. T \in SUBSET Nat /\ T # {}
  <2>1. PICK x \in I : TRUE
    OBVIOUS
  <2>2. x \in 1..n /\ n - x \in 0..n /\ n - (n - x) = x
    OBVIOUS
  <2>3. n - x \in T
    BY <2>1, <2>2
  <2>4. T \subseteq 0..n /\ 0..n \subseteq Nat
    OBVIOUS
  <2> QED BY <2>3, <2>4
<1>2. PICK k \in T : \A m \in Nat : m < k => m \notin T
  <2> HIDE DEF T
  <2> QED BY <1>1, Least
<1>3. n - k \in I /\ \A y \in I : n - k >= y
  <2> SUFFICES ASSUME NEW y \in I PROVE n - k >= y
    BY <1>2
  <2>1. y \in 1..n /\ n - y \in 0..n /\ n - (n - y) = y
    OBVIOUS
  <2>2. n - y \in T /\ n - y \in Nat
    BY <2>1
  <2>3. ~(n - y < k)
    BY <1>2, <2>2
  <2>4. k \in 0..n
    OBVIOUS
  <2> HIDE DEF T
  <2> QED BY <2>1, <2>3, <2>4
<1>4. Max(I) \in I /\ \A y \in I : Max(I) >= y
  BY <1>3 DEF Max
<1> QED BY <1>4

\* The first turns of a loop, the last of them and the ones before.
LEMMA FirstTurns ==
    ASSUME NEW n \in Nat, NEW i \in 1..n
    PROVE  /\ 1..i \in SUBSET (1..n) /\ 1..i # {} /\ Max(1..i) = i
           /\ (1..i) \ {i} = 1..(i - 1) /\ i - 1 \in 0..n
<1>1. 1..i \in SUBSET (1..n) /\ 1..i # {} /\ i \in 1..i /\ \A y \in 1..i : y <= i
  OBVIOUS
<1>2. Max(1..i) \in 1..i /\ i <= Max(1..i)
  BY <1>1, LastTurn
<1>3. Max(1..i) = i
  BY <1>2
<1> QED BY <1>1, <1>3

-----------------------------------------------------------------------------
(* Configuration.  Each stage of main leaves what the sources up to it     *)
(* say: the file's value or the default, then the environment's if it is   *)
(* usable, then the flag's (Settled).                                      *)

\* what the file leaves of a setting, and then the environment
FromFile(s) == IF yaml[s] = {} THEN ConfigPart!DefaultConfig[s] ELSE CHOOSE x \in yaml[s] : TRUE
Good(s) == {x \in env[s] : ConfigPart!FileTaken /\ ConfigPart!Usable(s, x)}
FromEnv(s) == IF Good(s) = {} THEN FromFile(s) ELSE CHOOSE x \in Good(s) : TRUE

ConfigTypes ==
    /\ file \in {"absent", "unreadable", "malformed", "good"}
    /\ configPC \in {"load", "env", "flags", "run"}
    /\ yaml.poll = {} \/ \E x \in Intervals : yaml.poll = {x}
    /\ env.poll = {} \/ \E x \in Intervals \cup {Bad} : env.poll = {x}
    /\ env.port = {} \/ \E x \in Ports \cup {Bad} : env.port = {x}
    /\ portFlag = 0 \/ portFlag \in Ports
    /\ file # "good" => \A s \in ConfigPart!Settings : yaml[s] = {}
    /\ DOMAIN cfg = ConfigPart!Settings

Settled ==
    LET S == ConfigPart!Settings
    IN  /\ configPC = "load" => cfg = ConfigPart!DefaultConfig
        /\ configPC = "env" => ConfigPart!FileTaken /\ cfg = [s \in S |-> FromFile(s)]
        /\ configPC = "flags" => cfg = [s \in S |-> FromEnv(s)]
        /\ configPC = "run" =>
              /\ \A s \in S \ {"port"} : cfg[s] = FromEnv(s)
              /\ cfg["port"] = IF portFlag > 0 THEN portFlag ELSE FromEnv("port")

CInv == ConfigTypes /\ Settled

\* The limits of the overrides are those of the values that are usable.
LEMMA AcceptsIsUsable ==
    ASSUME ConfigPart!ConfigAssumption, ConfigTypes, ConfigPart!FileTaken, NEW s \in ConfigPart!Settings
    PROVE  Good(s) = {x \in env[s] : ConfigPart!Accepts(s, x)}
<1>1. \A x \in env[s] : s \in {"poll", "port"} /\ x # Bad => x \in Int
  BY DEF ConfigTypes, ConfigPart!ConfigAssumption
<1>2. \A x \in Int : (x >= 1 <=> x > 0) /\ (x > 499 <=> x >= 500)
  OBVIOUS
<1> QED BY <1>1, <1>2 DEF Good, ConfigPart!Usable, ConfigPart!Accepts

\* Before Load nothing is settled.
LEMMA ConfigInit ==
    ConfigPart!Init => CInv
<1> SUFFICES ASSUME ConfigPart!Init PROVE CInv
  OBVIOUS
<1>1. yaml.poll \in ConfigPart!Maybe(Intervals) /\ env.poll \in ConfigPart!Maybe(Intervals \cup {Bad})
      /\ env.port \in ConfigPart!Maybe(Ports \cup {Bad})
  BY DEF ConfigPart!Init, ConfigPart!Files, ConfigPart!Environments
<1>2. ConfigTypes
  <2>1. file # "good" => \A s \in ConfigPart!Settings : yaml[s] = {}
    BY DEF ConfigPart!Init, ConfigPart!Silent
  <2> QED BY <1>1, <2>1
      DEF ConfigPart!Init, ConfigTypes, ConfigPart!Maybe, ConfigPart!DefaultConfig, ConfigPart!Settings
<1> QED BY <1>2 DEF CInv, Settled, ConfigPart!Init

\* The steps of Load settle one source after the other.
LEMMA ConfigStep ==
    CInv /\ [ConfigPart!Next]_ConfigPart!vars => CInv'
<1> SUFFICES ASSUME CInv, [ConfigPart!Next]_ConfigPart!vars PROVE CInv'
  OBVIOUS
<1> USE PartAssumptions
<1>1. ConfigTypes /\ Settled
  BY DEF CInv
<1> DEFINE S == ConfigPart!Settings
<1>2. CASE ConfigPart!ReadFile
  <2>1. /\ configPC = "load" /\ configPC' = "env" /\ UNCHANGED <<file, yaml, env, portFlag>>
        /\ cfg' = [s \in S |-> ConfigPart!Override(yaml[s], cfg[s])]
    BY <1>2 DEF ConfigPart!ReadFile
  <2>2. cfg' = [s \in S |-> FromFile(s)]
    BY <1>1, <2>1 DEF Settled, FromFile, ConfigPart!Override
  <2>3. \A s : FromFile(s)' = FromFile(s)
    BY <2>1 DEF FromFile, ConfigPart!DefaultConfig
  <2>4. Settled'
    BY <1>2, <2>1, <2>2, <2>3
       DEF Settled, ConfigPart!Settings, ConfigPart!FileTaken, ConfigPart!ReadFile
  <2>5. ConfigTypes'
    BY <1>1, <2>1, <2>2 DEF ConfigTypes, ConfigPart!Settings
  <2> QED BY <2>4, <2>5 DEF CInv
<1>3. CASE ConfigPart!LoadFails
  <2>1. /\ configPC' = "flags" /\ UNCHANGED <<file, yaml, env, portFlag>>
        /\ cfg' = ConfigPart!DefaultConfig /\ ~ConfigPart!FileTaken /\ ~ConfigPart!FileTaken'
    BY <1>3 DEF ConfigPart!LoadFails, ConfigPart!FileTaken
  <2>2. \A s \in S : FromEnv(s)' = ConfigPart!DefaultConfig[s]
    <3>1. file' # "good" /\ \A s \in S : yaml'[s] = {}
      BY <1>1, <1>3, <2>1 DEF ConfigTypes, ConfigPart!LoadFails
    <3>2. \A s \in S : Good(s)' = {}
      BY <2>1 DEF Good
    <3> QED BY <3>1, <3>2 DEF FromEnv, FromFile, ConfigPart!DefaultConfig
  <2>3. cfg' = [s \in S |-> ConfigPart!DefaultConfig[s]]
    BY <2>1 DEF ConfigPart!DefaultConfig, ConfigPart!Settings
  <2>4. Settled'
    BY <2>1, <2>2, <2>3 DEF Settled, ConfigPart!Settings
  <2>5. ConfigTypes'
    BY <1>1, <2>1, <2>3 DEF ConfigTypes, ConfigPart!Settings
  <2> QED BY <2>4, <2>5 DEF CInv
<1>4. CASE ConfigPart!ApplyEnvOverrides
  <2>1. /\ configPC = "env" /\ configPC' = "flags" /\ UNCHANGED <<file, yaml, env, portFlag>>
        /\ cfg' = [s \in S |-> ConfigPart!Override({x \in env[s] : ConfigPart!Accepts(s, x)}, cfg[s])]
    BY <1>4 DEF ConfigPart!ApplyEnvOverrides
  <2>2. ASSUME NEW s \in S
        PROVE  ConfigPart!Override({x \in env[s] : ConfigPart!Accepts(s, x)}, cfg[s]) = FromEnv(s)
    <3>1. cfg[s] = FromFile(s)
      BY <1>1, <2>1 DEF Settled
    <3>2. Good(s) = {x \in env[s] : ConfigPart!Accepts(s, x)}
      BY <1>1, <2>1, AcceptsIsUsable DEF Settled
    <3> QED BY <3>1, <3>2 DEF FromEnv, ConfigPart!Override
  <2>3. cfg' = [s \in S |-> FromEnv(s)]
    BY <2>1, <2>2
  <2>4. \A s : FromEnv(s)' = FromEnv(s)
    BY <2>1 DEF FromEnv, FromFile, Good, ConfigPart!DefaultConfig, ConfigPart!Usable, ConfigPart!FileTaken
  <2>6. Settled'
    BY <2>1, <2>3, <2>4 DEF Settled, ConfigPart!Settings
  <2>7. ConfigTypes'
    BY <1>1, <2>1, <2>3 DEF ConfigTypes, ConfigPart!Settings
  <2> QED BY <2>6, <2>7 DEF CInv
<1>5. CASE ConfigPart!ApplyFlags
  <2>1. /\ configPC = "flags" /\ configPC' = "run" /\ UNCHANGED <<file, yaml, env, portFlag>>
        /\ cfg' = IF portFlag > 0 THEN [cfg EXCEPT !.port = portFlag] ELSE cfg
    BY <1>5 DEF ConfigPart!ApplyFlags
  <2>2. cfg = [s \in S |-> FromEnv(s)]
    BY <1>1, <2>1 DEF Settled
  <2>3. \A s : FromEnv(s)' = FromEnv(s)
    BY <2>1 DEF FromEnv, FromFile, Good, ConfigPart!DefaultConfig, ConfigPart!Usable, ConfigPart!FileTaken
  <2>4. DOMAIN cfg = S /\ DOMAIN cfg' = S
    BY <1>1, <2>1 DEF ConfigTypes
  <2>5. \A s \in S \ {"port"} : cfg'[s] = cfg[s]
    BY <2>1, <2>4
  <2>6. cfg'["port"] = IF portFlag > 0 THEN portFlag ELSE cfg["port"]
    BY <2>1, <2>4 DEF ConfigPart!Settings
  <2>7. \A s \in S : cfg[s] = FromEnv(s)
    BY <2>2
  <2>8. "port" \in S
    BY DEF ConfigPart!Settings
  <2> HIDE DEF S
  <2>9. Settled'
    BY <2>1, <2>3, <2>5, <2>6, <2>7, <2>8 DEF Settled, S, ConfigPart!DefaultConfig
  <2>10. ConfigTypes'
    BY <1>1, <2>1, <2>4 DEF ConfigTypes, S
  <2> QED BY <2>9, <2>10 DEF CInv
<1>6. CASE UNCHANGED ConfigPart!vars
  <2>1. UNCHANGED <<configPC, file, yaml, env, portFlag, cfg>>
    BY <1>6 DEF ConfigPart!vars
  <2> QED BY <1>1, <2>1
      DEF CInv, ConfigTypes, Settled, FromEnv, FromFile, Good, ConfigPart!DefaultConfig,
          ConfigPart!Usable, ConfigPart!FileTaken, ConfigPart!Settings
<1> QED BY <1>2, <1>3, <1>4, <1>5, <1>6 DEF ConfigPart!Next

\* What the highest source says is what the stages leave.
LEMMA FromEnvIsWanted ==
    ASSUME NEW s \in ConfigPart!Settings
    PROVE  ConfigPart!Wanted(s) = FromEnv(s)
<1> DEFINE sources == <<Good(s), yaml[s], {ConfigPart!DefaultConfig[s]}>>
           first(i) == sources[i] # {} /\ \A j \in 1..(i - 1) : sources[j] = {}
           d == ConfigPart!DefaultConfig[s]
<1>1. /\ sources[1] = Good(s) /\ sources[2] = yaml[s] /\ sources[3] = {d}
      /\ 1 \in 1..3 /\ 2 \in 1..3 /\ 3 \in 1..3 /\ \A i \in 1..3 : i = 1 \/ i = 2 \/ i = 3
      /\ 1..(1 - 1) = {} /\ 1..(2 - 1) = {1} /\ 1..(3 - 1) = {1, 2}
  OBVIOUS
<1>2. ConfigPart!Wanted(s) = CHOOSE x \in sources[CHOOSE i \in 1..3 : first(i)] : TRUE
  BY DEF ConfigPart!Wanted, Good
<1> HIDE DEF sources
<1>3. CASE Good(s) # {}
  <2>1. \A i \in 1..3 : first(i) <=> i = 1
    BY <1>1, <1>3
  <2>2. (CHOOSE i \in 1..3 : first(i)) = 1
    BY <1>1, <2>1
  <2> QED BY <1>1, <1>2, <1>3, <2>2 DEF FromEnv
<1>4. CASE Good(s) = {} /\ yaml[s] # {}
  <2>1. \A i \in 1..3 : first(i) <=> i = 2
    BY <1>1, <1>4
  <2>2. (CHOOSE i \in 1..3 : first(i)) = 2
    BY <1>1, <2>1
  <2> QED BY <1>1, <1>2, <1>4, <2>2 DEF FromEnv, FromFile
<1>5. CASE Good(s) = {} /\ yaml[s] = {}
  <2>1. \A i \in 1..3 : first(i) <=> i = 3
    BY <1>1, <1>5
  <2>2. (CHOOSE i \in 1..3 : first(i)) = 3
    BY <1>1, <2>1
  <2>3. (CHOOSE x \in {d} : TRUE) = d
    OBVIOUS
  <2> QED BY <1>1, <1>2, <1>5, <2>2, <2>3 DEF FromEnv, FromFile
<1> QED BY <1>3, <1>4, <1>5

\* The poll interval the program runs with is usable, the default or the file's own.
LEMMA PollFits ==
    CInv => ConfigPart!PollTimesFit
<1> USE PartAssumptions
<1> SUFFICES ASSUME CInv, ConfigPart!Running PROVE ConfigPart!PollTimesFit
  BY DEF ConfigPart!PollTimesFit, ConfigPart!TickerCanStart, ConfigPart!DeadlineInsideInterval
<1>1. cfg.poll = FromEnv("poll")
  BY DEF CInv, Settled, ConfigPart!Running, ConfigPart!Settings, ConfigPart!DefaultConfig
<1>2. FromEnv("poll") = 1500 \/ yaml.poll = {FromEnv("poll")} \/ (FromEnv("poll") \in Int /\ FromEnv("poll") > 499)
  <2>1. CASE Good("poll") = {}
    <3>1. yaml.poll # {} => yaml.poll = {CHOOSE x \in yaml.poll : TRUE}
      BY DEF CInv, ConfigTypes
    <3> QED BY <2>1, <3>1 DEF FromEnv, FromFile, ConfigPart!DefaultConfig
  <2>2. CASE Good("poll") # {}
    <3>1. FromEnv("poll") \in Good("poll")
      BY <2>2 DEF FromEnv
    <3>2. \A x \in Good("poll") : x \in Int /\ x > 499
      BY DEF CInv, ConfigTypes, Good, ConfigPart!Usable, ConfigPart!ConfigAssumption
    <3> QED BY <3>1, <3>2
  <2> QED BY <2>1, <2>2
<1>3. cfg.poll \in Int /\ (cfg.poll = 1500 \/ yaml.poll = {cfg.poll} \/ cfg.poll > 499)
  <2>1. \A x : yaml.poll = {x} => x \in Int
    BY DEF CInv, ConfigTypes, ConfigPart!ConfigAssumption
  <2> QED BY <1>1, <1>2, <2>1
<1>4. PICK p \in Int : p = cfg.poll
  BY <1>3
<1>5. ConfigPart!PollDuration = IF p <= 0 THEN 1500 ELSE p
  BY <1>4 DEF ConfigPart!PollDuration
<1>6. ConfigPart!PollDuration \in Int /\ ConfigPart!PollDuration > 0
  BY <1>5
<1>7. ConfigPart!Timeout > 0
  BY <1>6 DEF ConfigPart!Timeout
<1>8. ConfigPart!Timeout >= ConfigPart!PollDuration => yaml.poll = {cfg.poll}
  <2>1. ConfigPart!Timeout >= ConfigPart!PollDuration => p < 499 /\ p # 1500
    BY <1>5, <1>6 DEF ConfigPart!Timeout
  <2> QED BY <1>3, <1>4, <2>1
<1> QED BY <1>6, <1>7, <1>8
    DEF ConfigPart!PollTimesFit, ConfigPart!TickerCanStart, ConfigPart!DeadlineInsideInterval

\* Each setting is the flag's, else a usable variable's, else the file's as it stands, else
\* the default, and the flag's or the default where the file cannot be taken (config.Load,
\* applyEnvOverrides, main), for whatever values the sources may give.
THEOREM HighestSourceWins ==
    ConfigPart!Spec => []ConfigPart!HigherSourceWins
<1>1. CInv => ConfigPart!HigherSourceWins
  <2> SUFFICES ASSUME CInv PROVE ConfigPart!HigherSourceWins
    OBVIOUS
  <2>1. \A s \in ConfigPart!Settings : ConfigPart!Wanted(s) = FromEnv(s)
    BY FromEnvIsWanted
  <2>2. cfg.port = cfg["port"] /\ "port" \in ConfigPart!Settings
    BY DEF ConfigPart!Settings
  <2> QED BY <2>1, <2>2, Zenon DEF CInv, Settled, ConfigPart!HigherSourceWins, ConfigPart!Running
<1> QED BY <1>1, ConfigInit, ConfigStep, PTL DEF ConfigPart!Spec

\* The poll loop can start its ticker and its collections have time (startPolling,
\* pollAndBroadcast), whatever the sources say.
THEOREM PollTimesAlwaysFit ==
    ConfigPart!Spec => []ConfigPart!PollTimesFit
BY PollFits, ConfigInit, ConfigStep, PTL DEF ConfigPart!Spec

-----------------------------------------------------------------------------
(* Selection: the loop over the mount table.                               *)

Loops == [seen : SUBSET Mounts, rows : Seq(RowsPart!Partition)]

\* What the loop knows of the entries ps that it has had: a row for each wanted mount
\* point that answers, and one only.
Chosen(acc, ps, ok) ==
    /\ acc \in Loops
    /\ \A i, j \in DOMAIN acc.rows : acc.rows[i].mount = acc.rows[j].mount => i = j
    /\ \A j \in DOMAIN acc.rows : acc.rows[j].mount \in acc.seen
    /\ \A p \in ps : RowsPart!Wanted(p) => p.mount \in acc.seen
    /\ \A m \in acc.seen \cap ok : \E j \in DOMAIN acc.rows : acc.rows[j].mount = m

\* One turn of the loop.
LEMMA TurnChooses ==
    ASSUME NEW ps, NEW ok, NEW acc, NEW p \in RowsPart!Partition, Chosen(acc, ps, ok)
    PROVE  Chosen(RowsPart!AddRow(ok, acc, p), ps \cup {p}, ok)
<1> DEFINE new == RowsPart!AddRow(ok, acc, p)
           more == Append(acc.rows, p)
<1> SUFFICES Chosen(new, ps \cup {p}, ok)
  OBVIOUS
<1>1. /\ acc \in Loops /\ acc.rows \in Seq(RowsPart!Partition) /\ p.mount \in Mounts
      /\ acc.seen \cup {p.mount} \in SUBSET Mounts
  BY DEF Chosen, Loops, RowsPart!Partition
<1>2. CASE ~RowsPart!Wanted(p) \/ p.mount \in acc.seen
  <2>1. new = acc
    BY <1>2 DEF RowsPart!AddRow
  <2> QED BY <1>2, <2>1 DEF Chosen
<1>3. CASE RowsPart!Wanted(p) /\ p.mount \notin acc.seen
  <2>1. new = [seen |-> acc.seen \cup {p.mount}, rows |-> IF p.mount \in ok THEN more ELSE acc.rows]
    BY <1>3 DEF RowsPart!AddRow
  <2>2. /\ more \in Seq(RowsPart!Partition) /\ Len(acc.rows) \in Nat
        /\ DOMAIN acc.rows = 1..Len(acc.rows) /\ DOMAIN more = 1..(Len(acc.rows) + 1)
        /\ \A j \in DOMAIN acc.rows : more[j] = acc.rows[j]
        /\ more[Len(acc.rows) + 1] = p
    BY <1>1
  <2>3. \A j \in DOMAIN acc.rows : acc.rows[j].mount # p.mount
    BY <1>3 DEF Chosen
  <2>4. CASE p.mount \notin ok
    <3>1. new = [seen |-> acc.seen \cup {p.mount}, rows |-> acc.rows]
      BY <2>1, <2>4
    <3>2. new.seen = acc.seen \cup {p.mount} /\ new.rows = acc.rows /\ new \in Loops
      BY <1>1, <3>1 DEF Loops
    <3> HIDE DEF new, more
    <3> QED BY <2>4, <3>2 DEF Chosen
  <2>5. CASE p.mount \in ok
    <3>1. new = [seen |-> acc.seen \cup {p.mount}, rows |-> more]
      BY <2>1, <2>5
    <3>2. new.seen = acc.seen \cup {p.mount} /\ new.rows = more /\ new \in Loops
      BY <1>1, <2>2, <3>1 DEF Loops
    <3> HIDE DEF new, more
    <3>3. \A j \in DOMAIN more : j \in DOMAIN acc.rows \/ j = Len(acc.rows) + 1
      BY <2>2
    <3>4. \A i, j \in DOMAIN more : more[i].mount = more[j].mount => i = j
      BY <2>2, <2>3, <3>3 DEF Chosen
    <3>5. \A j \in DOMAIN more : more[j].mount \in new.seen
      BY <2>2, <3>2, <3>3 DEF Chosen
    <3>6. \A q \in ps \cup {p} : RowsPart!Wanted(q) => q.mount \in new.seen
      BY <3>2 DEF Chosen
    <3>7. \A m \in new.seen \cap ok : \E j \in DOMAIN more : more[j].mount = m
      <4> SUFFICES ASSUME NEW m \in new.seen \cap ok PROVE \E j \in DOMAIN more : more[j].mount = m
        OBVIOUS
      <4>1. CASE m = p.mount
        <5>1. Len(acc.rows) + 1 \in DOMAIN more
          BY <2>2
        <5> QED BY <2>2, <4>1, <5>1
      <4>2. CASE m \in acc.seen
        <5>1. PICK j \in DOMAIN acc.rows : acc.rows[j].mount = m
          BY <4>2 DEF Chosen
        <5>2. j \in DOMAIN more
          BY <2>2
        <5> QED BY <2>2, <5>1, <5>2
      <4> QED BY <3>2, <4>1, <4>2
    <3> QED BY <3>2, <3>4, <3>5, <3>6, <3>7 DEF Chosen
  <2> QED BY <2>4, <2>5
<1> QED BY <1>2, <1>3

\* A turn makes a state of the loop of one.
LEMMA TurnStays ==
    ASSUME NEW ok, NEW acc \in Loops, NEW p \in RowsPart!Partition
    PROVE  RowsPart!AddRow(ok, acc, p) \in Loops
<1>1. acc.rows \in Seq(RowsPart!Partition) /\ p.mount \in Mounts /\ acc.seen \in SUBSET Mounts
  BY DEF Loops, RowsPart!Partition
<1>2. /\ Append(acc.rows, p) \in Seq(RowsPart!Partition)
      /\ acc.seen \cup {p.mount} \in SUBSET Mounts
  BY <1>1
<1>3. CASE ~RowsPart!Wanted(p) \/ p.mount \in acc.seen
  BY <1>3 DEF RowsPart!AddRow
<1>4. CASE ~(~RowsPart!Wanted(p) \/ p.mount \in acc.seen)
  <2>1. RowsPart!AddRow(ok, acc, p) =
           [seen |-> acc.seen \cup {p.mount},
            rows |-> IF p.mount \in ok THEN Append(acc.rows, p) ELSE acc.rows]
    BY <1>4 DEF RowsPart!AddRow
  <2>2. (IF p.mount \in ok THEN Append(acc.rows, p) ELSE acc.rows) \in Seq(RowsPart!Partition)
    BY <1>1, <1>2
  <2> QED BY <1>2, <2>1, <2>2 DEF Loops
<1> QED BY <1>3, <1>4

\* The whole loop: what DiskRows folds the table to.
LEMMA LoopChooses ==
    ASSUME NEW n \in Nat, NEW table \in [1..n -> RowsPart!Partition], NEW ok
    PROVE  \E acc : /\ RowsPart!FoldLeft(LAMBDA a, p : RowsPart!AddRow(ok, a, p), RowsPart!NoRows, table) = acc
                    /\ Chosen(acc, {table[i] : i \in 1..n}, ok)
<1> DEFINE D == 1..n
           Step(g) == [I \in SUBSET D |->
                         IF I = {} THEN RowsPart!NoRows
                         ELSE LET x == Max(I) IN RowsPart!AddRow(ok, g[I \ {x}], table[x])]
           F == [q \in Loops \X D |-> RowsPart!AddRow(ok, q[1], table[q[2]])]
           c == [I \in SUBSET D |-> Max(I)]
<1>1. DOMAIN table = D
  OBVIOUS
<1>2. RowsPart!FoldLeft(LAMBDA a, p : RowsPart!AddRow(ok, a, p), RowsPart!NoRows, table)
         = (CHOOSE g : g = Step(g))[D]
  BY <1>1 DEF RowsPart!FoldLeft, RowsPart!MapThenFoldSet, RowsPart!Max, Max
<1>3. F \in [Loops \X D -> Loops] /\ \A a \in Loops, x \in D : F[<<a, x>>] = RowsPart!AddRow(ok, a, table[x])
  BY TurnStays
<1>4. \A I \in SUBSET D : I # {} => c[I] \in I /\ c[I] = Max(I)
  BY LastTurn
<1>5. RowsPart!NoRows \in Loops
  BY DEF Loops, RowsPart!NoRows
<1> HIDE DEF F, c
<1>6. PICK g \in [SUBSET D -> Loops] : Folds(g, D, RowsPart!NoRows, F, c)
  <2>1. Chooses(c, D)
    BY <1>4 DEF Chooses
  <2>2. IsFiniteSet(D)
    BY FS_Interval
  <2> HIDE DEF D
  <2> QED BY <1>3, <1>5, <2>1, <2>2, FoldExists
<1>7. g = Step(g)
  <2>1. ASSUME NEW I \in SUBSET D
        PROVE  g[I] = IF I = {} THEN RowsPart!NoRows ELSE RowsPart!AddRow(ok, g[I \ {Max(I)}], table[Max(I)])
    <3>1. CASE I = {}
      BY <1>6, <3>1 DEF Folds
    <3>2. CASE I # {}
      <4>1. c[I] \in D /\ I \ {c[I]} \in SUBSET D /\ c[I] = Max(I)
        BY <1>4, <3>2
      <4>2. g[I \ {c[I]}] \in Loops
        BY <4>1
      <4>3. g[I] = F[<<g[I \ {c[I]}], c[I]>>]
        BY <1>6, <3>2 DEF Folds
      <4> HIDE DEF D
      <4> QED BY <1>3, <3>2, <4>1, <4>2, <4>3
    <3> QED BY <3>1, <3>2
  <2>2. g = [I \in SUBSET D |-> g[I]]
    OBVIOUS
  <2>3. [I \in SUBSET D |-> g[I]] = Step(g)
    BY <2>1
  <2> QED BY <2>2, <2>3
<1> DEFINE h == CHOOSE k : k = Step(k)
<1>8. h = Step(h)
  BY <1>7
<1> HIDE DEF h
<1>9. \A I \in SUBSET D : h[I] = IF I = {} THEN RowsPart!NoRows
                               ELSE RowsPart!AddRow(ok, h[I \ {Max(I)}], table[Max(I)])
  <2>1. \A I \in SUBSET D : Step(h)[I] = IF I = {} THEN RowsPart!NoRows
                               ELSE RowsPart!AddRow(ok, h[I \ {Max(I)}], table[Max(I)])
    OBVIOUS
  <2>2. \A I \in SUBSET D : h[I] = Step(h)[I]
    BY <1>8
  <2> HIDE DEF Step
  <2> QED BY <2>1, <2>2
<1> HIDE DEF Step
<1> DEFINE T == {i \in Nat : i <= n => Chosen(h[1..i], {table[k] : k \in 1..i}, ok)}
<1>10. 0 \in T
  <2>1. 1..0 = {} /\ {table[k] : k \in 1..0} = {}
    OBVIOUS
  <2>2. h[{}] = RowsPart!NoRows
    BY <1>9
  <2>3. Chosen(RowsPart!NoRows, {}, ok)
    BY <1>5 DEF Chosen, RowsPart!NoRows
  <2> QED BY <2>1, <2>2, <2>3
<1>11. ASSUME NEW i \in T PROVE i + 1 \in T
  <2>1. SUFFICES ASSUME i + 1 <= n PROVE Chosen(h[1..(i + 1)], {table[k] : k \in 1..(i + 1)}, ok)
    OBVIOUS
  <2>2. Chosen(h[1..i], {table[k] : k \in 1..i}, ok)
    BY <2>1
  <2>3. /\ i + 1 \in 1..n /\ (i + 1) - 1 = i /\ 1..(i + 1) = (1..i) \cup {i + 1}
        /\ table[i + 1] \in RowsPart!Partition
    BY <2>1
  <2>4. /\ 1..(i + 1) \in SUBSET D /\ 1..(i + 1) # {} /\ Max(1..(i + 1)) = i + 1
        /\ (1..(i + 1)) \ {i + 1} = 1..i
    BY <2>3, FirstTurns
  <2>5. h[1..(i + 1)] = RowsPart!AddRow(ok, h[1..i], table[i + 1])
    BY <1>9, <2>4
  <2>6. {table[k] : k \in 1..(i + 1)} = {table[k] : k \in 1..i} \cup {table[i + 1]}
    BY <2>3
  <2> QED BY <2>2, <2>3, <2>5, <2>6, TurnChooses
<1>12. n \in T
  <2> HIDE DEF T
  <2>1. T \in SUBSET Nat
    BY DEF T
  <2> QED BY <1>10, <1>11, <2>1, Induction
<1>13. Chosen(h[1..n], {table[k] : k \in 1..n}, ok)
  BY <1>12
<1> QED BY <1>2, <1>13 DEF h

\* What DiskRows makes of a mount table.
LEMMA DiskRowsFit ==
    ASSUME NEW n \in Nat, NEW table \in [1..n -> RowsPart!Partition], NEW ok,
           NEW rows, rows = RowsPart!DiskRows(table, ok)
    PROVE  /\ \A i, j \in DOMAIN rows : rows[i].mount = rows[j].mount => i = j
           /\ \A i \in 1..n : /\ {table[i].mount, table[i].device} \cap targetDisks # {}
                              /\ table[i].mount \in ok
                              => \E j \in DOMAIN rows : rows[j].mount = table[i].mount
           /\ rows = <<>> => Root \notin ok
<1>1. PICK acc : /\ RowsPart!FoldLeft(LAMBDA a, p : RowsPart!AddRow(ok, a, p), RowsPart!NoRows, table) = acc
                 /\ Chosen(acc, {table[i] : i \in 1..n}, ok)
  BY LoopChooses
<1> DEFINE one == <<[mount |-> Root, device |-> RootDevice]>>
<1>2. rows = IF acc.rows = <<>> /\ Root \in ok THEN one ELSE acc.rows
  BY <1>1 DEF RowsPart!DiskRows
<1>3. \A p \in RowsPart!Partition : {p.mount, p.device} \cap targetDisks # {} => RowsPart!Wanted(p)
  BY DEF RowsPart!Wanted, RowsPart!MatchesTarget
<1>4. ASSUME NEW i \in 1..n, {table[i].mount, table[i].device} \cap targetDisks # {}, table[i].mount \in ok
      PROVE  \E j \in DOMAIN acc.rows : acc.rows[j].mount = table[i].mount
  <2>1. RowsPart!Wanted(table[i]) /\ table[i] \in {table[k] : k \in 1..n}
    BY <1>3, <1>4
  <2>2. table[i].mount \in acc.seen \cap ok
    BY <1>1, <1>4, <2>1 DEF Chosen
  <2> QED BY <1>1, <2>2 DEF Chosen
<1>5. CASE acc.rows = <<>> /\ Root \in ok
  <2>1. rows = one /\ DOMAIN rows = {1} /\ rows # <<>>
    BY <1>2, <1>5
  <2>2. ~ \E j \in DOMAIN acc.rows : TRUE
    BY <1>5
  <2> HIDE DEF one
  <2> QED BY <1>4, <2>1, <2>2
<1>6. CASE ~(acc.rows = <<>> /\ Root \in ok)
  <2>1. rows = acc.rows
    BY <1>2, <1>6
  <2>2. \A i, j \in DOMAIN rows : rows[i].mount = rows[j].mount => i = j
    BY <1>1, <2>1 DEF Chosen
  <2> QED BY <1>4, <1>6, <2>1, <2>2
<1> QED BY <1>5, <1>6

\* The first collection finds nothing wrong.
LEMMA RowsInit == RowsPart!Init => RowsPart!RowsFit
<1> SUFFICES ASSUME RowsPart!Init PROVE RowsPart!RowsFit
  OBVIOUS
<1>1. disks = <<>> /\ partitions = <<>> /\ usable = {}
  BY DEF RowsPart!Init
<1>2. DOMAIN disks = {} /\ DOMAIN partitions = {}
  BY <1>1
<1> QED BY <1>1, <1>2 DEF RowsPart!RowsFit, RowsPart!OneRowPerMount, RowsPart!TargetsShown, RowsPart!PrimaryDisk

\* Every table gives rows that fit.
LEMMA RowsStep == RowsPart!RowsFit /\ [RowsPart!Next]_(RowsPart!vars) => RowsPart!RowsFit'
<1> SUFFICES ASSUME RowsPart!RowsFit, [RowsPart!Next]_(RowsPart!vars) PROVE RowsPart!RowsFit'
  OBVIOUS
<1> USE DEF RowsPart!RowsFit, RowsPart!OneRowPerMount, RowsPart!TargetsShown, RowsPart!PrimaryDisk
<1>1. CASE UNCHANGED RowsPart!vars
  BY <1>1 DEF RowsPart!vars
<1>2. CASE RowsPart!CollectDisks
  <2>1. targetDisks' = targetDisks
    BY <1>2 DEF RowsPart!CollectDisks
  <2>2. PICK table, ok, rows : /\ table = partitions' /\ ok = usable' /\ rows = disks'
                               /\ rows = RowsPart!DiskRows(table, ok)
    BY <1>2 DEF RowsPart!CollectDisks
  <2>3. PICK n \in Nat : table \in [1..n -> RowsPart!Partition]
    <3>1. CASE \E n \in 0..MaxPartitions : partitions' \in [1..n -> RowsPart!Partition]
      BY <2>2, <3>1
    <3>2. CASE partitions' = <<[mount |-> Root, device |-> Root]>>
      <4>1. Root \in Mounts /\ Root \in DiskNames
        BY PartAssumptions DEF RowsPart!SelectionAssumption
      <4>2. [mount |-> Root, device |-> Root] \in RowsPart!Partition
        BY <4>1 DEF RowsPart!Partition
      <4>3. table \in [1..1 -> RowsPart!Partition]
        BY <2>2, <3>2, <4>2
      <4> QED BY <4>3
    <3> QED BY <1>2, <3>1, <3>2 DEF RowsPart!CollectDisks
  <2>4. DOMAIN table = 1..n
    BY <2>3
  <2>5. /\ \A i, j \in DOMAIN rows : rows[i].mount = rows[j].mount => i = j
        /\ \A i \in 1..n : /\ {table[i].mount, table[i].device} \cap targetDisks # {}
                           /\ table[i].mount \in ok
                           => \E j \in DOMAIN rows : rows[j].mount = table[i].mount
        /\ rows = <<>> => Root \notin ok
    BY <2>2, <2>3, DiskRowsFit
  <2> QED BY <2>1, <2>2, <2>4, <2>5
<1> QED BY <1>1, <1>2 DEF RowsPart!Next

\* A mount point has one row, what is configured and answers has one, and there is a
\* first row while the root answers (Collect of disk.go), whatever the mount table, also
\* when it has a mount point twice.
THEOREM RowsAlwaysFit == RowsPart!Spec => []RowsPart!RowsFit
<1> QED BY RowsInit, RowsStep, PTL DEF RowsPart!Spec

-----------------------------------------------------------------------------
(* Division with rounding.                                                 *)

\* What \div is, between whole numbers of which the second is not zero.
LEMMA Division ==
    ASSUME NEW a \in Nat, NEW b \in Nat, b > 0
    PROVE  a \div b \in Nat /\ b * (a \div b) <= a /\ a < b * (a \div b) + b
OBVIOUS

\* A quotient is at least q when the numerator is at least q times the denominator.
LEMMA DivisionAtLeast ==
    ASSUME NEW a \in Nat, NEW b \in Nat, NEW q \in Nat, b > 0, b * q <= a
    PROVE  q <= a \div b
<1>1. PICK d \in Nat : d = a \div b /\ a < b * d + b
  BY Division
<1>2. ASSUME d < q PROVE FALSE
  <2>1. PICK e \in Nat : q = d + 1 + e
    <3>1. q - d - 1 \in Nat
      BY <1>2
    <3> QED BY <3>1
  <2>2. b * q = b * d + b + b * e /\ b * e \in Nat /\ b * d \in Nat
    BY <2>1
  <2> QED BY <1>1, <2>2
<1> QED BY <1>1, <1>2

\* A quotient is at most q if the next multiple of the divisor is more than the dividend.
LEMMA DivisionAtMost ==
    ASSUME NEW a \in Nat, NEW b \in Nat, NEW q \in Nat, b > 0, a < b * q + b
    PROVE  a \div b <= q
<1>1. PICK d \in Nat : d = a \div b /\ b * d <= a
  BY Division
<1>2. ASSUME q < d PROVE FALSE
  <2>1. PICK e \in Nat : d = q + 1 + e
    <3>1. d - q - 1 \in Nat
      BY <1>2
    <3> QED BY <3>1
  <2>2. b * d = b * q + b + b * e /\ b * e \in Nat /\ b * q \in Nat
    BY <2>1
  <2> QED BY <1>1, <2>2
<1> QED BY <1>1, <1>2

\* A part of a whole is between none and all of its 1000 parts, rounded.
LEMMA TenthsFit ==
    ASSUME NEW a \in Nat, NEW b \in Nat, b > 0
    PROVE  /\ GpuPart!Tenths(a, b) \in Nat
           /\ a <= b => GpuPart!Tenths(a, b) <= 1000
           /\ a = 0 => GpuPart!Tenths(a, b) = 0
           /\ 2 * b * GpuPart!Tenths(a, b) <= 2000 * a + b
           /\ 2000 * a <= 2 * b * GpuPart!Tenths(a, b) + b
<1> DEFINE top == 2000 * a + b
           q == top \div (2 * b)
<1>1. GpuPart!Tenths(a, b) = q
  BY DEF GpuPart!Tenths
<1>2. top \in Nat /\ 2 * b \in Nat /\ 2 * b > 0
  OBVIOUS
<1>3. q \in Nat /\ 2 * b * q <= top /\ top < 2 * b * q + 2 * b
  <2> HIDE DEF top
  <2>1. PICK c \in Nat : c = 2 * b /\ c > 0
    BY <1>2
  <2>2. top \div c \in Nat /\ c * (top \div c) <= top /\ top < c * (top \div c) + c
    BY <1>2, <2>1, Division
  <2> QED BY <2>1, <2>2
<1>4. a <= b => top < 2 * b * 1000 + 2 * b
  OBVIOUS
<1>5. a <= b => q <= 1000
  <2> HIDE DEF top
  <2> QED BY <1>2, <1>4, DivisionAtMost
<1>6. a = 0 => q <= 0
  <2>1. a = 0 => top < (2 * b) * 0 + 2 * b
    OBVIOUS
  <2> HIDE DEF top
  <2> QED BY <1>2, <2>1, DivisionAtMost
<1> QED BY <1>1, <1>3, <1>5, <1>6

\* Tenths of a percent are a number.
LEMMA TenthsCount ==
    ASSUME NEW a \in Nat, NEW b \in Nat, b > 0
    PROVE  GpuPart!Tenths(a, b) \in Nat
BY TenthsFit

\* Those of a part of the whole are at most 1000.
LEMMA TenthsShare ==
    ASSUME NEW a \in Nat, NEW b \in Nat, b > 0, a <= b
    PROVE  GpuPart!Tenths(a, b) <= 1000
BY TenthsFit

\* Those of more, of the same whole, are no fewer.
LEMMA TenthsRise ==
    ASSUME NEW a \in Nat, NEW b \in Nat, NEW c \in Nat, c > 0, a <= b
    PROVE  GpuPart!Tenths(a, c) <= GpuPart!Tenths(b, c)
<1> DEFINE low == 2000 * a + c
           high == 2000 * b + c
<1>1. low \in Nat /\ high \in Nat /\ 2 * c \in Nat /\ 2 * c > 0 /\ low <= high
  OBVIOUS
<1>2. GpuPart!Tenths(a, c) = low \div (2 * c) /\ GpuPart!Tenths(b, c) = high \div (2 * c)
  BY DEF GpuPart!Tenths
<1> HIDE DEF low, high
<1>3. low \div (2 * c) \in Nat /\ (2 * c) * (low \div (2 * c)) <= low
  BY <1>1, Division
<1>4. (2 * c) * (low \div (2 * c)) <= high
  BY <1>1, <1>3
<1>5. low \div (2 * c) <= high \div (2 * c)
  BY <1>1, <1>3, <1>4, DivisionAtLeast
<1> QED BY <1>2, <1>5

\* The least of two numbers.
LEMMA LeastOf ==
    ASSUME NEW a \in Int, NEW b \in Int
    PROVE  GpuPart!Min({a, b}) = IF a <= b THEN a ELSE b
BY DEF GpuPart!Min

\* A usage that would be more than the whole is shown as the whole.
LEMMA Capped ==
    ASSUME NEW a \in Nat, NEW c \in Nat, c > 0
    PROVE  \E t \in Nat : /\ t = GpuPart!Tenths(a, c)
                          /\ GpuPart!Min({1000, GpuPart!Tenths(a, c)}) = IF 1000 <= t THEN 1000 ELSE t
<1>1. GpuPart!Tenths(a, c) \in Nat
  BY TenthsCount
<1> QED BY <1>1, LeastOf

\* The guess from a frequency is a share, and rises with the frequency.
LEMMA GuessRises ==
    ASSUME NEW f \in Nat, NEW cur \in Nat, NEW low \in Int, NEW high \in Nat, high > 0, f <= cur
    PROVE  /\ GpuPart!FreqUsage(cur, low, high) \in Nat /\ GpuPart!FreqUsage(cur, low, high) <= 1000
           /\ GpuPart!FreqUsage(f, low, high) <= GpuPart!FreqUsage(cur, low, high)
<1>1. CASE low > 0 /\ high > low /\ f > low
  <2>1. f - low \in Nat /\ cur - low \in Nat /\ high - low \in Nat /\ high - low > 0 /\ f - low <= cur - low /\ cur > low
    BY <1>1
  <2>2. PICK t \in Nat : /\ t = GpuPart!Tenths(f - low, high - low)
                         /\ GpuPart!Min({1000, GpuPart!Tenths(f - low, high - low)}) = IF 1000 <= t THEN 1000 ELSE t
    BY <2>1, Capped
  <2>3. PICK u \in Nat : /\ u = GpuPart!Tenths(cur - low, high - low)
                         /\ GpuPart!Min({1000, GpuPart!Tenths(cur - low, high - low)}) = IF 1000 <= u THEN 1000 ELSE u
    BY <2>1, Capped
  <2>4. t <= u
    BY <2>1, <2>2, <2>3, TenthsRise
  <2>5. /\ GpuPart!FreqUsage(f, low, high) = (IF 1000 <= t THEN 1000 ELSE t)
        /\ GpuPart!FreqUsage(cur, low, high) = (IF 1000 <= u THEN 1000 ELSE u)
    BY <1>1, <2>1, <2>2, <2>3 DEF GpuPart!FreqUsage
  <2> QED BY <2>4, <2>5
<1>2. CASE low > 0 /\ high > low /\ f <= low /\ cur > low
  <2>1. cur - low \in Nat /\ high - low \in Nat /\ high - low > 0
    BY <1>2
  <2>2. PICK u \in Nat : /\ u = GpuPart!Tenths(cur - low, high - low)
                         /\ GpuPart!Min({1000, GpuPart!Tenths(cur - low, high - low)}) = IF 1000 <= u THEN 1000 ELSE u
    BY <2>1, Capped
  <2>3. /\ GpuPart!FreqUsage(f, low, high) = 0
        /\ GpuPart!FreqUsage(cur, low, high) = (IF 1000 <= u THEN 1000 ELSE u)
    BY <1>2, <2>1, <2>2 DEF GpuPart!FreqUsage
  <2> QED BY <2>2, <2>3
<1>3. CASE low > 0 /\ high > low /\ cur <= low
  <2>1. GpuPart!FreqUsage(f, low, high) = 0 /\ GpuPart!FreqUsage(cur, low, high) = 0
    BY <1>3 DEF GpuPart!FreqUsage
  <2> QED BY <2>1
<1>4. CASE ~(low > 0 /\ high > low)
  <2>1. PICK t \in Nat : /\ t = GpuPart!Tenths(f, high)
                         /\ GpuPart!Min({1000, GpuPart!Tenths(f, high)}) = IF 1000 <= t THEN 1000 ELSE t
    BY Capped
  <2>2. PICK u \in Nat : /\ u = GpuPart!Tenths(cur, high)
                         /\ GpuPart!Min({1000, GpuPart!Tenths(cur, high)}) = IF 1000 <= u THEN 1000 ELSE u
    BY Capped
  <2>3. t <= u
    BY <2>1, <2>2, TenthsRise
  <2>4. /\ GpuPart!FreqUsage(f, low, high) = (IF 4 * f <= high THEN 0 ELSE IF 1000 <= t THEN 1000 ELSE t)
        /\ GpuPart!FreqUsage(cur, low, high) = (IF 4 * cur <= high THEN 0 ELSE IF 1000 <= u THEN 1000 ELSE u)
    BY <1>4, <2>1, <2>2 DEF GpuPart!FreqUsage
  <2> QED BY <2>3, <2>4
<1> QED BY <1>1, <1>2, <1>3, <1>4

-----------------------------------------------------------------------------
(* Gpu: every value of RC6 that is known, of the card now, of the baseline *)
(* and of the calls that have read but not yet measured.                   *)

ReadingOf(v, t, c) == [ms |-> v, at |-> t, of |-> c]

Readings ==
    {ReadingOf(residency, gpuClock, card)}
    \cup {r \in [ms : Int, at : Int, of : Int] :
             \/ hasPrevRC6 /\ r = ReadingOf(prevRC6Ms, prevReadAt, prevCard)
             \/ \E s \in GpuPart!Scrapes :
                   files[s].rc6 # -1 /\ r = ReadingOf(files[s].rc6, readAt[s], readCard[s])}

\* A card does not sleep longer than the time that passes.
OneSleeper(R) ==
    \A o, p \in R : o.of = p.of /\ o.at <= p.at => o.ms <= p.ms /\ p.ms - o.ms <= p.at - o.at

Past(R, t, c) == \A r \in R : r.at <= t /\ r.of <= c

GInv ==
    /\ GpuPart!TypeOK /\ GpuPart!BusyIsReal
    /\ OneSleeper(Readings) /\ Past(Readings, gpuClock, card)
    /\ prevReadAt <= prevSampleAt /\ prevSampleAt <= gpuClock

\* The parts of the type invariant, for one call.
LEMMA GpuTypes ==
    ASSUME GpuPart!TypeOK, NEW s \in GpuPart!Scrapes
    PROVE  /\ gpuClock \in Nat /\ residency \in Nat /\ card \in Nat /\ prevCard \in Nat
           /\ gpuClock <= MaxGpuClock /\ residency <= gpuClock
           /\ prevRC6Ms \in Nat /\ prevSampleAt \in Nat /\ prevReadAt \in Nat
           /\ files[s] \in GpuPart!Files /\ readAt[s] \in Nat /\ readCard[s] \in Nat
           /\ files[s].suspended \in BOOLEAN /\ files[s].rc6 \in Nat \cup {-1}
           /\ files[s].cur \in Freqs \cup {-1} /\ files[s].max \in Freqs \cup {-1}
           /\ files[s].min \in Freqs \cup {-1}
<1>1. MaxGpuClock \in Nat /\ MaxSwitches \in Nat
  BY PartAssumptions DEF GpuPart!GpuAssumption
<1>2. files[s] \in GpuPart!Files
  BY DEF GpuPart!TypeOK
<1>3. /\ files[s].suspended \in BOOLEAN /\ files[s].rc6 \in Nat \cup {-1}
      /\ files[s].cur \in Freqs \cup {-1} /\ files[s].max \in Freqs \cup {-1}
      /\ files[s].min \in Freqs \cup {-1}
  BY <1>1, <1>2 DEF GpuPart!Files, GpuPart!Optional, GpuPart!Absent
<1>4. card \in 0..MaxSwitches /\ prevCard \in 0..MaxSwitches
  BY DEF GpuPart!TypeOK
<1>5. prevRC6Ms \in 0..MaxGpuClock /\ prevSampleAt \in 0..MaxGpuClock /\ prevReadAt \in 0..MaxGpuClock
  BY DEF GpuPart!TypeOK
<1>6. gpuClock \in 0..MaxGpuClock /\ residency \in 0..gpuClock
  BY DEF GpuPart!TypeOK
<1>7. readAt[s] \in 0..MaxGpuClock /\ readCard[s] \in 0..MaxSwitches
  BY DEF GpuPart!TypeOK
<1> QED BY <1>1, <1>2, <1>3, <1>4, <1>5, <1>6, <1>7

\* The busy part of a time is within the time, and within the time awake between two
\* readings that agree.
LEMMA BusyFits ==
    ASSUME NEW t \in Nat, NEW sampled \in Nat, NEW first \in Nat, NEW second \in Nat,
           NEW v \in Nat, NEW w \in Nat,
           first <= sampled, second <= t, v <= w, sampled < t,
           first <= second => w - v <= second - first, second <= first => w <= v
    PROVE  /\ GpuPart!Busy(t - sampled, w - v) \in Nat
           /\ GpuPart!Busy(t - sampled, w - v) <= t - sampled
           /\ GpuPart!Busy(t - sampled, w - v) <= (t - first) - (w - v)
<1>1. t - sampled \in Nat /\ w - v \in Nat /\ t - sampled > 0
  OBVIOUS
<1>2. GpuPart!Min({w - v, t - sampled}) = IF w - v <= t - sampled THEN w - v ELSE t - sampled
  BY <1>1, LeastOf
<1>3. GpuPart!Busy(t - sampled, w - v) = (t - sampled) - IF w - v <= t - sampled THEN w - v ELSE t - sampled
  BY <1>2 DEF GpuPart!Busy
<1> QED BY <1>1, <1>3

\* What a sample shows, of readings that agree.
LEMMA SampleIsReal ==
    ASSUME GInv, NEW s \in GpuPart!Scrapes, NEW x, x = GpuPart!Sample(files[s], gpuClock),
           NEW time, time = (gpuClock - prevReadAt) - (files[s].rc6 - prevRC6Ms)
    PROVE  /\ x \in GpuPart!Stats
           /\ x.by = "rc6" /\ readCard[s] = prevCard => time \in 0..MaxGpuClock /\ x.busy <= time
           /\ x.by = "rc6" /\ readCard[s] # prevCard => card > 0
<1> DEFINE f == files[s]
           interval == gpuClock - prevSampleAt
           gain == f.rc6 - prevRC6Ms
           none == [usage |-> 0, by |-> "none", busy |-> 0]
<1>1. GpuPart!TypeOK
  BY DEF GInv
<1>2. /\ gpuClock \in Nat /\ residency \in Nat /\ card \in Nat /\ prevCard \in Nat
      /\ gpuClock <= MaxGpuClock /\ residency <= gpuClock
      /\ prevRC6Ms \in Nat /\ prevSampleAt \in Nat /\ prevReadAt \in Nat
      /\ readAt[s] \in Nat /\ readCard[s] \in Nat /\ f.rc6 \in Nat \cup {-1}
      /\ f.cur \in Freqs \cup {-1} /\ f.max \in Freqs \cup {-1} /\ f.min \in Freqs \cup {-1}
  BY <1>1, GpuTypes
<1>3. MinInterval \in Nat \ {0} /\ Freqs \subseteq Nat /\ MaxGpuClock \in Nat
  BY PartAssumptions DEF GpuPart!GpuAssumption
<1>4. CASE f.suspended
  <2>1. x = [none EXCEPT !.by = "suspended"]
    BY <1>4 DEF GpuPart!Sample, GpuPart!NoStats
  <2>2. x = [usage |-> 0, by |-> "suspended", busy |-> 0]
    BY <2>1
  <2> QED BY <1>3, <2>2 DEF GpuPart!Stats
<1>5. CASE ~f.suspended /\ f.rc6 # -1 /\ hasPrevRC6 /\ interval >= MinInterval /\ gain >= 0
  <2>1. x = [usage |-> GpuPart!Tenths(GpuPart!Busy(interval, gain), interval), by |-> "rc6",
             busy |-> GpuPart!Busy(interval, gain)]
    BY <1>5 DEF GpuPart!Sample, GpuPart!Absent
  <2>2. f.rc6 \in Nat
    BY <1>2, <1>5
  <2>3. PICK o, p : o = ReadingOf(prevRC6Ms, prevReadAt, prevCard) /\ p = ReadingOf(f.rc6, readAt[s], readCard[s])
    OBVIOUS
  <2>4. o \in Readings /\ p \in Readings
    BY <1>2, <1>5, <2>2, <2>3 DEF Readings, ReadingOf
  <2>5. /\ o.ms = prevRC6Ms /\ o.at = prevReadAt /\ o.of = prevCard
        /\ p.ms = f.rc6 /\ p.at = readAt[s] /\ p.of = readCard[s]
    BY <2>3 DEF ReadingOf
  <2>6. readAt[s] <= gpuClock /\ readCard[s] <= card /\ prevCard <= card
    BY <2>4, <2>5 DEF GInv, Past
  <2>7. readCard[s] = prevCard =>
           /\ prevReadAt <= readAt[s] => f.rc6 - prevRC6Ms <= readAt[s] - prevReadAt
           /\ readAt[s] <= prevReadAt => f.rc6 <= prevRC6Ms
    BY <2>4, <2>5 DEF GInv, OneSleeper
  <2>8. prevReadAt <= prevSampleAt /\ prevSampleAt < gpuClock /\ prevRC6Ms <= f.rc6
        /\ interval \in Nat /\ gain \in Nat /\ interval > 0 /\ interval <= MaxGpuClock
    BY <1>2, <1>3, <1>5, <2>2 DEF GInv
  <2>9. PICK b \in Nat : b = GpuPart!Busy(interval, gain) /\ b <= interval
    <3>1. GpuPart!Min({gain, interval}) = IF gain <= interval THEN gain ELSE interval
      BY <2>8, LeastOf
    <3>2. GpuPart!Busy(interval, gain) = interval - IF gain <= interval THEN gain ELSE interval
      BY <3>1 DEF GpuPart!Busy
    <3> HIDE DEF interval, gain
    <3> QED BY <2>8, <3>2
  <2>10. PICK u \in Nat : u = GpuPart!Tenths(b, interval) /\ u <= 1000
    <3> HIDE DEF interval
    <3>1. GpuPart!Tenths(b, interval) \in Nat
      BY <2>8, TenthsCount
    <3>2. GpuPart!Tenths(b, interval) <= 1000
      BY <2>8, <2>9, TenthsShare
    <3> QED BY <3>1, <3>2
  <2>11. x = [usage |-> u, by |-> "rc6", busy |-> b]
    BY <2>1, <2>9, <2>10
  <2>12. x \in GpuPart!Stats
    <3>1. u \in 0..1000 /\ b \in 0..MaxGpuClock
      BY <1>3, <2>8, <2>9, <2>10
    <3> QED BY <2>11, <3>1 DEF GpuPart!Stats
  <2>13. readCard[s] = prevCard => time \in 0..MaxGpuClock /\ b <= time
    <3>1. SUFFICES ASSUME readCard[s] = prevCard PROVE time \in 0..MaxGpuClock /\ b <= time
      OBVIOUS
    <3>2. GpuPart!Busy(interval, gain) <= (gpuClock - prevReadAt) - gain
      BY <1>2, <2>2, <2>6, <2>7, <2>8, <3>1, BusyFits
    <3>3. b <= time
      BY <2>9, <3>2
    <3> QED BY <1>2, <1>3, <2>2, <2>8, <2>9, <3>3
  <2>14. readCard[s] # prevCard => card > 0
    BY <1>2, <2>6
  <2> QED BY <2>11, <2>12, <2>13, <2>14
<1>6. CASE ~f.suspended /\ ~(f.rc6 # -1 /\ hasPrevRC6 /\ interval >= MinInterval /\ gain >= 0)
  <2>1. x = IF f.cur # -1 /\ f.max > 0
            THEN [usage |-> GpuPart!FreqUsage(f.cur, f.min, f.max), by |-> "freq", busy |-> 0]
            ELSE none
    BY <1>6 DEF GpuPart!Sample, GpuPart!NoStats, GpuPart!Absent
  <2>2. CASE f.cur # -1 /\ f.max > 0
    <3>1. PICK cur \in Nat, min \in Int, max \in Nat : f.cur = cur /\ f.min = min /\ f.max = max
      <4>1. f.cur \in Freqs /\ f.max \in Nat \cup {-1} /\ f.min \in Nat \cup {-1}
        <5> HIDE DEF f
        <5>1. f.cur \in Freqs
          BY <1>2, <2>2
        <5>2. Freqs \cup {-1} \subseteq Nat \cup {-1}
          BY <1>3
        <5> QED BY <1>2, <5>1, <5>2
      <4>2. f.cur \in Nat
        BY <1>3, <4>1
      <4>3. f.max \in Nat
        <5> HIDE DEF f
        <5>1. f.max # -1
          BY <2>2
        <5> QED BY <4>1, <5>1
      <4>4. f.min \in Int
        BY <4>1
      <4> HIDE DEF f
      <4> QED BY <4>2, <4>3, <4>4
    <3>2. PICK u \in 0..1000 : u = GpuPart!FreqUsage(cur, min, max)
      <4>1. max > 0 /\ cur <= cur
        BY <2>2, <3>1
      <4>2. GpuPart!FreqUsage(cur, min, max) \in Nat /\ GpuPart!FreqUsage(cur, min, max) <= 1000
        BY <4>1, GuessRises
      <4> QED BY <4>2
    <3>3. x = [usage |-> u, by |-> "freq", busy |-> 0]
      BY <2>1, <2>2, <3>1, <3>2
    <3> QED BY <1>3, <3>2, <3>3 DEF GpuPart!Stats
  <2>3. CASE ~(f.cur # -1 /\ f.max > 0)
    <3>1. x = none
      BY <2>1, <2>3
    <3> QED BY <1>3, <3>1 DEF GpuPart!Stats
  <2> QED BY <2>2, <2>3
<1>7. f.suspended \in BOOLEAN
  BY <1>1, GpuTypes
<1> QED BY <1>4, <1>5, <1>6, <1>7

\* Readings that were known before are as they were.
LEMMA FewerReadings ==
    ASSUME GInv, Readings' \subseteq Readings, gpuClock' = gpuClock, card' = card
    PROVE  OneSleeper(Readings)' /\ Past(Readings, gpuClock, card)'
BY DEF GInv, OneSleeper, Past

\* The readings of the calls and the baseline, when only the card's own changes.
LEMMA SameReadings ==
    ASSUME UNCHANGED <<GpuPart!baseline, GpuPart!reading>>
    PROVE  Readings' \subseteq {ReadingOf(residency', gpuClock', card')} \cup Readings
BY DEF Readings, ReadingOf, GpuPart!baseline, GpuPart!reading

\* The GPU's part begins in the invariant.
LEMMA GpuInit == GpuPart!Init => GInv
<1> SUFFICES ASSUME GpuPart!Init PROVE GInv
  OBVIOUS
<1> USE DEF GpuPart!Init
<1>1. MaxGpuClock \in Nat /\ MaxSwitches \in Nat
  BY PartAssumptions DEF GpuPart!GpuAssumption
<1>2. GpuPart!NoFiles \in GpuPart!Files
  BY DEF GpuPart!NoFiles, GpuPart!Files, GpuPart!Optional, GpuPart!Absent
<1>3. GpuPart!NoStats \in GpuPart!Stats /\ GpuPart!NoStats.by # "rc6"
  BY <1>1 DEF GpuPart!NoStats, GpuPart!Stats
<1>4. GpuPart!TypeOK
  <2>1. {card, prevCard} \subseteq 0..MaxSwitches /\ {prevRC6Ms, prevSampleAt, prevReadAt} \subseteq 0..MaxGpuClock
    BY <1>1
  <2>2. gpuClock \in 0..MaxGpuClock /\ residency \in 0..gpuClock /\ hasPrevRC6 \in BOOLEAN
    <3>1. 0 \in 0..MaxGpuClock /\ 0 \in 0..0 /\ FALSE \in BOOLEAN
      BY <1>1
    <3>2. gpuClock = 0 /\ residency = 0 /\ hasPrevRC6 = FALSE
      OBVIOUS
    <3> HIDE DEF GpuPart!Init
    <3> QED BY <3>1, <3>2
  <2>3. /\ gpuPC \in [GpuPart!Scrapes -> {"idle", "read", "done"}]
        /\ files \in [GpuPart!Scrapes -> GpuPart!Files] /\ stats \in [GpuPart!Scrapes -> GpuPart!Stats]
    BY <1>2, <1>3
  <2>4. /\ readAt \in [GpuPart!Scrapes -> 0..MaxGpuClock] /\ readCard \in [GpuPart!Scrapes -> 0..MaxSwitches]
        /\ awake \in [GpuPart!Scrapes -> 0..MaxGpuClock \cup {GpuPart!Unknown}]
    BY <1>1
  <2> USE DEF GpuPart!TypeOK
  <2> HIDE DEF GpuPart!Init
  <2> QED BY <2>1, <2>2, <2>3, <2>4
<1>5. GpuPart!BusyIsReal
  BY <1>3 DEF GpuPart!BusyIsReal
<1>6. Readings = {ReadingOf(0, 0, 0)}
  BY DEF Readings, GpuPart!NoFiles, GpuPart!Absent
<1>7. OneSleeper(Readings) /\ Past(Readings, gpuClock, card)
  <2>1. \A r \in Readings : r = [ms |-> 0, at |-> 0, of |-> 0]
    BY <1>6 DEF ReadingOf
  <2>2. \A r \in Readings : r.ms = 0 /\ r.at = 0 /\ r.of = 0
    BY <2>1
  <2> QED BY <2>2 DEF OneSleeper, Past
<1> QED BY <1>4, <1>5, <1>7 DEF GInv

\* Reading the files keeps it.
LEMMA GpuRead ==
    ASSUME GInv, NEW s \in GpuPart!Scrapes, GpuPart!ReadFiles(s)
    PROVE  GInv'
<1>1. PICK suspended \in BOOLEAN, rc6 \in {residency, GpuPart!Absent},
           cur \in GpuPart!Optional(Freqs), min \in GpuPart!Optional(Freqs), max \in GpuPart!Optional(Freqs) :
         files' = [files EXCEPT ![s] = [suspended |-> suspended, rc6 |-> rc6,
                                        cur |-> cur, min |-> min, max |-> max]]
  BY DEF GpuPart!ReadFiles, GpuPart!Optional
<1>2. /\ readAt' = [readAt EXCEPT ![s] = gpuClock] /\ readCard' = [readCard EXCEPT ![s] = card]
      /\ gpuPC' = [gpuPC EXCEPT ![s] = "read"]
      /\ UNCHANGED <<gpuClock, card, residency, GpuPart!baseline, stats, awake>>
  BY DEF GpuPart!ReadFiles, GpuPart!device
<1>3. GpuPart!TypeOK
  BY DEF GInv
<1>4. gpuClock \in Nat /\ residency \in Nat /\ residency <= gpuClock /\ gpuClock <= MaxGpuClock /\ card \in Nat
  BY <1>3, GpuTypes
<1>5. MaxGpuClock \in Nat
  BY PartAssumptions DEF GpuPart!GpuAssumption
<1> DEFINE f == [suspended |-> suspended, rc6 |-> rc6, cur |-> cur, min |-> min, max |-> max]
<1>6. f \in GpuPart!Files
  <2>1. residency \in 0..MaxGpuClock
    BY <1>4, <1>5
  <2>2. rc6 \in GpuPart!Optional(0..MaxGpuClock)
    BY <2>1 DEF GpuPart!Optional
  <2> QED BY <2>2 DEF GpuPart!Files
<1>7. GpuPart!TypeOK'
  <2>1. files' \in [GpuPart!Scrapes -> GpuPart!Files]
    <3> HIDE DEF f
    <3> QED BY <1>1, <1>3, <1>6 DEF GpuPart!TypeOK, f
  <2>2. gpuPC' \in [GpuPart!Scrapes -> {"idle", "read", "done"}]
    BY <1>2, <1>3 DEF GpuPart!TypeOK
  <2>3. readAt' \in [GpuPart!Scrapes -> 0..MaxGpuClock] /\ readCard' \in [GpuPart!Scrapes -> 0..MaxSwitches]
    BY <1>2, <1>3 DEF GpuPart!TypeOK
  <2> QED BY <1>2, <1>3, <2>1, <2>2, <2>3 DEF GpuPart!TypeOK, GpuPart!baseline
<1>8. GpuPart!BusyIsReal'
  BY <1>2 DEF GInv, GpuPart!BusyIsReal
<1>9. Readings' \subseteq Readings
  <2> SUFFICES ASSUME NEW r \in Readings' PROVE r \in Readings
    OBVIOUS
  <2>1. CASE r = ReadingOf(residency, gpuClock, card)
    BY <2>1 DEF Readings
  <2>2. CASE hasPrevRC6 /\ r = ReadingOf(prevRC6Ms, prevReadAt, prevCard) /\ r \in [ms : Int, at : Int, of : Int]
    BY <2>2 DEF Readings
  <2>3. ASSUME NEW t \in GpuPart!Scrapes, files'[t].rc6 # -1, r \in [ms : Int, at : Int, of : Int],
               r = ReadingOf(files'[t].rc6, readAt'[t], readCard'[t])
        PROVE  r \in Readings
    <3>1. CASE t = s
      <4>1. files'[s] = f /\ readAt'[s] = gpuClock /\ readCard'[s] = card
        BY <1>1, <1>2, <1>3 DEF GpuPart!TypeOK
      <4>2. files'[s].rc6 = rc6
        BY <4>1
      <4>3. rc6 = residency
        BY <1>1, <2>3, <3>1, <4>2 DEF GpuPart!Absent
      <4> QED BY <2>3, <3>1, <4>1, <4>2, <4>3 DEF Readings
    <3>2. CASE t # s
      <4>1. files'[t] = files[t] /\ readAt'[t] = readAt[t] /\ readCard'[t] = readCard[t]
        BY <1>1, <1>2, <1>3, <3>2 DEF GpuPart!TypeOK
      <4> QED BY <2>3, <4>1 DEF Readings
    <3> QED BY <3>1, <3>2
  <2> QED BY <1>2, <2>1, <2>2, <2>3 DEF Readings, GpuPart!baseline
<1>10. OneSleeper(Readings)' /\ Past(Readings, gpuClock, card)'
  BY <1>2, <1>9, FewerReadings
<1> QED BY <1>2, <1>7, <1>8, <1>10 DEF GInv, GpuPart!baseline

\* A card without usable files keeps it.
LEMMA GpuUnavailable ==
    ASSUME GInv, NEW s \in GpuPart!Scrapes, GpuPart!Unavailable(s)
    PROVE  GInv'
<1>1. /\ stats' = [stats EXCEPT ![s] = GpuPart!NoStats]
      /\ UNCHANGED <<gpuClock, card, residency, GpuPart!baseline, gpuPC, GpuPart!reading, awake>>
  BY DEF GpuPart!Unavailable, GpuPart!device
<1>2. GpuPart!TypeOK
  BY DEF GInv
<1>3. MaxGpuClock \in Nat
  BY PartAssumptions DEF GpuPart!GpuAssumption
<1>4. GpuPart!NoStats \in GpuPart!Stats /\ GpuPart!NoStats.by # "rc6"
  BY <1>3 DEF GpuPart!NoStats, GpuPart!Stats
<1>5. GpuPart!TypeOK'
  <2>1. stats' \in [GpuPart!Scrapes -> GpuPart!Stats]
    BY <1>1, <1>2, <1>4 DEF GpuPart!TypeOK
  <2> QED BY <1>1, <1>2, <2>1 DEF GpuPart!TypeOK, GpuPart!baseline, GpuPart!reading
<1>6. GpuPart!BusyIsReal'
  <2> SUFFICES ASSUME NEW t \in GpuPart!Scrapes, stats'[t].by = "rc6"
               PROVE  IF awake'[t] = GpuPart!Unknown THEN card' > 0 ELSE stats'[t].busy <= awake'[t]
    BY DEF GpuPart!BusyIsReal
  <2>1. t # s /\ stats'[t] = stats[t]
    BY <1>1, <1>2, <1>4 DEF GpuPart!TypeOK
  <2> QED BY <1>1, <2>1 DEF GInv, GpuPart!BusyIsReal
<1>7. Readings' \subseteq Readings
  BY <1>1, SameReadings DEF Readings
<1>8. OneSleeper(Readings)' /\ Past(Readings, gpuClock, card)'
  BY <1>1, <1>7, FewerReadings
<1> QED BY <1>1, <1>5, <1>6, <1>8 DEF GInv, GpuPart!baseline

\* Measuring keeps it: what was read is what the baseline is compared with.
LEMMA GpuMeasure ==
    ASSUME GInv, NEW s \in GpuPart!Scrapes, GpuPart!Measure(s)
    PROVE  GInv'
<1>1. PICK x, time : /\ x = GpuPart!Sample(files[s], gpuClock)
                     /\ time = (gpuClock - prevReadAt) - (files[s].rc6 - prevRC6Ms)
  OBVIOUS
<1> DEFINE real == IF x.by # "rc6" THEN 0 ELSE IF readCard[s] # prevCard THEN -1 ELSE time
<1>2. /\ stats' = [stats EXCEPT ![s] = x]
      /\ gpuPC' = [gpuPC EXCEPT ![s] = IF s = Poller THEN "idle" ELSE "done"]
      /\ files' = [files EXCEPT ![s] = GpuPart!NoFiles]
      /\ readAt' = [readAt EXCEPT ![s] = 0] /\ readCard' = [readCard EXCEPT ![s] = 0]
      /\ UNCHANGED <<gpuClock, card, residency>>
  BY <1>1 DEF GpuPart!Measure, GpuPart!device
<1>3. awake' = [awake EXCEPT ![s] = real]
  <2>1. awake' = [awake EXCEPT ![s] =
          CASE x.by # "rc6" -> 0
            [] x.by = "rc6" /\ readCard[s] # prevCard -> GpuPart!Unknown
            [] OTHER -> time]
    BY <1>1 DEF GpuPart!Measure
  <2>2. (CASE x.by # "rc6" -> 0
            [] x.by = "rc6" /\ readCard[s] # prevCard -> GpuPart!Unknown
            [] OTHER -> time) = real
    BY DEF GpuPart!Unknown
  <2> HIDE DEF real
  <2> QED BY <2>1, <2>2
<1>4. \/ /\ files[s].rc6 # -1
         /\ prevRC6Ms' = files[s].rc6 /\ prevReadAt' = readAt[s] /\ prevCard' = readCard[s]
         /\ prevSampleAt' = gpuClock /\ hasPrevRC6' = TRUE
      \/ files[s].rc6 = -1 /\ UNCHANGED GpuPart!baseline
  BY DEF GpuPart!Measure, GpuPart!Rebase, GpuPart!Absent
<1>5. GpuPart!TypeOK
  BY DEF GInv
<1>6. /\ gpuClock \in Nat /\ residency \in Nat /\ residency <= gpuClock /\ gpuClock <= MaxGpuClock /\ card \in Nat
      /\ files[s].rc6 \in Nat \cup {-1} /\ readAt[s] \in Nat /\ readCard[s] \in Nat
  BY <1>5, GpuTypes
<1>7. MaxGpuClock \in Nat /\ MaxSwitches \in Nat
  BY PartAssumptions DEF GpuPart!GpuAssumption
<1>8. /\ x \in GpuPart!Stats
      /\ x.by = "rc6" /\ readCard[s] = prevCard => time \in 0..MaxGpuClock /\ x.busy <= time
      /\ x.by = "rc6" /\ readCard[s] # prevCard => card > 0
  BY <1>1, SampleIsReal
<1>9. GpuPart!NoFiles \in GpuPart!Files /\ GpuPart!NoFiles.rc6 = -1
  BY DEF GpuPart!NoFiles, GpuPart!Files, GpuPart!Optional, GpuPart!Absent
<1>10. Readings' \subseteq Readings
  <2> SUFFICES ASSUME NEW r \in Readings' PROVE r \in Readings
    OBVIOUS
  <2>1. CASE r = ReadingOf(residency, gpuClock, card)
    BY <2>1 DEF Readings
  <2>2. CASE hasPrevRC6' /\ r = ReadingOf(prevRC6Ms', prevReadAt', prevCard') /\ r \in [ms : Int, at : Int, of : Int]
    BY <1>4, <2>2 DEF Readings, GpuPart!baseline
  <2>3. ASSUME NEW t \in GpuPart!Scrapes, files'[t].rc6 # -1, r \in [ms : Int, at : Int, of : Int],
               r = ReadingOf(files'[t].rc6, readAt'[t], readCard'[t])
        PROVE  r \in Readings
    <3>1. t # s
      BY <1>2, <1>5, <1>9, <2>3 DEF GpuPart!TypeOK
    <3>2. files'[t] = files[t] /\ readAt'[t] = readAt[t] /\ readCard'[t] = readCard[t]
      BY <1>2, <1>5, <3>1 DEF GpuPart!TypeOK
    <3> QED BY <2>3, <3>2 DEF Readings
  <2> QED BY <1>2, <2>1, <2>2, <2>3 DEF Readings
<1>11. OneSleeper(Readings)' /\ Past(Readings, gpuClock, card)'
  BY <1>2, <1>10, FewerReadings
<1>12. prevReadAt' <= prevSampleAt' /\ prevSampleAt' <= gpuClock'
  <2>1. CASE files[s].rc6 = -1
    BY <1>2, <1>4, <2>1 DEF GInv, GpuPart!baseline
  <2>2. CASE files[s].rc6 # -1
    <3>1. PICK r : r = ReadingOf(files[s].rc6, readAt[s], readCard[s])
      OBVIOUS
    <3>2. r \in Readings /\ r.at = readAt[s]
      BY <1>6, <2>2, <3>1 DEF Readings, ReadingOf
    <3>3. readAt[s] <= gpuClock
      BY <3>2 DEF GInv, Past
    <3> QED BY <1>2, <1>4, <1>6, <2>2, <3>3
  <2> QED BY <2>1, <2>2
<1>13. real \in 0..MaxGpuClock \cup {-1}
  BY <1>7, <1>8
<1>14. GpuPart!TypeOK'
  <2>1. stats' \in [GpuPart!Scrapes -> GpuPart!Stats] /\ files' \in [GpuPart!Scrapes -> GpuPart!Files]
    BY <1>2, <1>5, <1>8, <1>9 DEF GpuPart!TypeOK
  <2>2. gpuPC' \in [GpuPart!Scrapes -> {"idle", "read", "done"}]
    BY <1>2, <1>5 DEF GpuPart!TypeOK
  <2>3. readAt' \in [GpuPart!Scrapes -> 0..MaxGpuClock] /\ readCard' \in [GpuPart!Scrapes -> 0..MaxSwitches]
    BY <1>2, <1>5, <1>7 DEF GpuPart!TypeOK
  <2>4. awake' \in [GpuPart!Scrapes -> 0..MaxGpuClock \cup {GpuPart!Unknown}]
    <3> HIDE DEF real
    <3> QED BY <1>3, <1>5, <1>13 DEF GpuPart!TypeOK, GpuPart!Unknown
  <2>5. /\ prevCard' \in 0..MaxSwitches /\ hasPrevRC6' \in BOOLEAN /\ prevRC6Ms' \in 0..MaxGpuClock
        /\ prevSampleAt' \in 0..MaxGpuClock /\ prevReadAt' \in 0..MaxGpuClock
    <3>1. CASE files[s].rc6 = -1
      BY <1>4, <1>5, <3>1 DEF GpuPart!TypeOK, GpuPart!baseline
    <3>2. CASE files[s].rc6 # -1
      <4>1. files[s].rc6 \in 0..MaxGpuClock /\ readCard[s] \in 0..MaxSwitches /\ readAt[s] \in 0..MaxGpuClock
        <5>1. files[s] \in GpuPart!Files
          BY <1>5 DEF GpuPart!TypeOK
        <5>2. files[s].rc6 \in 0..MaxGpuClock
          BY <3>2, <5>1 DEF GpuPart!Files, GpuPart!Optional, GpuPart!Absent
        <5> QED BY <1>5, <5>2 DEF GpuPart!TypeOK
      <4> QED BY <1>4, <1>5, <3>2, <4>1 DEF GpuPart!TypeOK
    <3> QED BY <3>1, <3>2
  <2>6. card \in 0..MaxSwitches
    BY <1>5 DEF GpuPart!TypeOK
  <2> QED BY <1>2, <1>5, <2>1, <2>2, <2>3, <2>4, <2>5, <2>6 DEF GpuPart!TypeOK
<1>15. GpuPart!BusyIsReal'
  <2> SUFFICES ASSUME NEW t \in GpuPart!Scrapes, stats'[t].by = "rc6"
               PROVE  IF awake'[t] = -1 THEN card > 0 ELSE stats'[t].busy <= awake'[t]
    BY <1>2 DEF GpuPart!BusyIsReal, GpuPart!Unknown
  <2>1. CASE t # s
    <3>1. stats'[t] = stats[t] /\ awake'[t] = awake[t]
      BY <1>2, <1>3, <1>5, <2>1 DEF GpuPart!TypeOK
    <3> QED BY <3>1 DEF GInv, GpuPart!BusyIsReal, GpuPart!Unknown
  <2>2. CASE t = s
    <3>1. stats'[s] = x
      BY <1>2, <1>5 DEF GpuPart!TypeOK
    <3>2. awake'[s] = real
      <4> HIDE DEF real
      <4> QED BY <1>3, <1>5 DEF GpuPart!TypeOK
    <3>3. awake'[s] = IF readCard[s] # prevCard THEN -1 ELSE time
      BY <2>2, <3>1, <3>2
    <3> QED BY <1>7, <1>8, <2>2, <3>1, <3>3
  <2> QED BY <2>1, <2>2
<1> QED BY <1>11, <1>12, <1>14, <1>15 DEF GInv

Counts3(r) == r.ms \in Int /\ r.at \in Int /\ r.of \in Int

\* A reading that is later than all others of its card, and agrees with them.
Joins(p, R) ==
    /\ Counts3(p) /\ \A r \in R : Counts3(r)
    /\ \A r \in R : r.of = p.of => r.at < p.at /\ r.ms <= p.ms /\ p.ms - r.ms <= p.at - r.at

\* Readings of one sleeper, and one more that joins them, are readings of one sleeper.
LEMMA OneMore ==
    ASSUME NEW R, NEW R2, NEW p, R2 \subseteq {p} \cup R, OneSleeper(R), Joins(p, R)
    PROVE  OneSleeper(R2)
<1> SUFFICES ASSUME NEW o \in R2, NEW q \in R2, o.of = q.of, o.at <= q.at
             PROVE  o.ms <= q.ms /\ q.ms - o.ms <= q.at - o.at
  BY DEF OneSleeper
<1>1. CASE o \in R /\ q \in R
  BY <1>1 DEF OneSleeper
<1>2. CASE o \in R /\ q = p
  BY <1>2 DEF Joins
<1>3. CASE o = p /\ q \in R
  BY <1>3 DEF Joins, Counts3
<1>4. CASE o = p /\ q = p
  BY <1>4 DEF Joins, Counts3
<1> QED BY <1>1, <1>2, <1>3, <1>4

\* The types of a reading.
LEMMA ReadingTypes ==
    ASSUME GInv
    PROVE  \A r \in Readings : Counts3(r)
<1>1. \A s \in GpuPart!Scrapes : gpuClock \in Nat /\ residency \in Nat /\ card \in Nat
  BY GpuTypes DEF GInv
<1>2. Poller \in GpuPart!Scrapes
  BY DEF GpuPart!Scrapes
<1> QED BY <1>1, <1>2 DEF Readings, ReadingOf, Counts3

\* As time passes the readings stay what they were.
LEMMA GpuTick ==
    ASSUME GInv, GpuPart!Tick
    PROVE  GInv'
<1>1. GpuPart!TypeOK
  BY DEF GInv
<1>2. Poller \in GpuPart!Scrapes
  BY DEF GpuPart!Scrapes
<1>3. /\ gpuClock \in Nat /\ residency \in Nat /\ card \in Nat /\ prevSampleAt \in Nat
      /\ residency <= gpuClock /\ MaxGpuClock \in Nat
  BY <1>1, <1>2, GpuTypes, PartAssumptions DEF GpuPart!GpuAssumption
<1>4. /\ gpuClock < MaxGpuClock /\ gpuClock' = gpuClock + 1
      /\ residency' \in {residency, residency + 1}
      /\ UNCHANGED <<card, GpuPart!baseline, gpuPC, GpuPart!reading, stats, awake>>
  BY DEF GpuPart!Tick
<1>5. PICK w \in Nat, t \in Nat : /\ w = residency' /\ t = gpuClock' /\ t = gpuClock + 1
                                  /\ w = residency \/ w = residency + 1
  BY <1>3, <1>4
<1>6. t \in 0..MaxGpuClock /\ w \in 0..t
  BY <1>3, <1>4, <1>5
<1>7. GpuPart!TypeOK'
  <2>1. gpuClock' \in 0..MaxGpuClock /\ residency' \in 0..gpuClock'
    BY <1>5, <1>6
  <2> QED BY <1>1, <1>4, <2>1 DEF GpuPart!TypeOK, GpuPart!baseline, GpuPart!reading
<1>8. GpuPart!BusyIsReal'
  BY <1>4 DEF GInv, GpuPart!BusyIsReal
<1>9. OneSleeper(Readings)' /\ Past(Readings, gpuClock, card)'
  <2>1. PICK R2, o, p, c : /\ R2 = Readings' /\ c = card /\ o = ReadingOf(residency, gpuClock, card)
                           /\ p = ReadingOf(w, t, card)
    OBVIOUS
  <2>2. R2 \subseteq {p} \cup Readings
    BY <1>4, <1>5, <2>1, SameReadings
  <2>3. o \in Readings /\ o.ms = residency /\ o.at = gpuClock /\ o.of = c
        /\ p.ms = w /\ p.at = t /\ p.of = c /\ c \in Nat
    BY <1>3, <2>1 DEF Readings, ReadingOf
  <2>4. Past(Readings, gpuClock, c) /\ OneSleeper(Readings) /\ \A r \in Readings : Counts3(r)
    BY <2>1, ReadingTypes DEF GInv
  <2>5. Joins(p, Readings)
    <3> SUFFICES ASSUME NEW r \in Readings, r.of = c
                 PROVE  r.at < t /\ r.ms <= w /\ w - r.ms <= t - r.at
      BY <2>3, <2>4 DEF Joins, Counts3
    <3>1. r.ms \in Int /\ r.at \in Int /\ r.at <= gpuClock
      BY <2>4 DEF Counts3, Past
    <3>2. r.ms <= residency /\ residency - r.ms <= gpuClock - r.at
      BY <2>3, <2>4, <3>1 DEF OneSleeper
    <3> QED BY <1>3, <1>5, <3>1, <3>2
  <2>6. OneSleeper(R2) /\ Past(R2, t, c)
    <3>1. OneSleeper(R2)
      BY <2>2, <2>4, <2>5, OneMore
    <3>2. \A r \in Readings : r.at <= t /\ r.of <= c
      BY <1>3, <1>5, <2>4 DEF Counts3, Past
    <3> QED BY <2>2, <2>3, <3>1, <3>2 DEF Past
  <2>7. card' = c /\ gpuClock' = t
    BY <1>4, <1>5, <2>1
  <2> QED BY <2>1, <2>6, <2>7 DEF OneSleeper, Past
<1>10. prevReadAt' <= prevSampleAt' /\ prevSampleAt' <= gpuClock'
  <2>1. prevSampleAt <= t
    BY <1>3, <1>5 DEF GInv
  <2> QED BY <1>4, <1>5, <2>1 DEF GInv, GpuPart!baseline
<1> QED BY <1>7, <1>8, <1>9, <1>10 DEF GInv

\* Another card has readings of its own.
LEMMA GpuSwitch ==
    ASSUME GInv, GpuPart!Switch
    PROVE  GInv'
<1>1. GpuPart!TypeOK
  BY DEF GInv
<1>2. Poller \in GpuPart!Scrapes
  BY DEF GpuPart!Scrapes
<1>3. /\ gpuClock \in Nat /\ residency \in Nat /\ card \in Nat /\ MaxSwitches \in Nat
  BY <1>1, <1>2, GpuTypes, PartAssumptions DEF GpuPart!GpuAssumption
<1>4. /\ card < MaxSwitches /\ card' = card + 1 /\ residency' \in 0..gpuClock
      /\ UNCHANGED <<gpuClock, GpuPart!baseline, gpuPC, GpuPart!reading, stats, awake>>
  BY DEF GpuPart!Switch
<1>5. PICK w \in Nat, c \in Nat : w = residency' /\ c = card /\ c + 1 \in 0..MaxSwitches /\ c + 1 > 0
  BY <1>3, <1>4
<1>6. GpuPart!TypeOK'
  <2>1. card' \in 0..MaxSwitches /\ residency' \in 0..gpuClock'
    BY <1>4, <1>5
  <2>2. prevCard' \in 0..MaxSwitches
    BY <1>1, <1>4 DEF GpuPart!TypeOK, GpuPart!baseline
  <2> QED BY <1>1, <1>4, <2>1, <2>2 DEF GpuPart!TypeOK, GpuPart!baseline, GpuPart!reading
<1>7. GpuPart!BusyIsReal'
  <2>1. card' > 0
    BY <1>4, <1>5
  <2> QED BY <1>4, <2>1 DEF GInv, GpuPart!BusyIsReal
<1>8. OneSleeper(Readings)' /\ Past(Readings, gpuClock, card)'
  <2>1. PICK R2, p : R2 = Readings' /\ p = ReadingOf(w, gpuClock, c + 1)
    OBVIOUS
  <2>2. R2 \subseteq {p} \cup Readings
    BY <1>4, <1>5, <2>1, SameReadings
  <2>3. p.ms = w /\ p.at = gpuClock /\ p.of = c + 1
    BY <2>1 DEF ReadingOf
  <2>4. Past(Readings, gpuClock, c) /\ OneSleeper(Readings) /\ \A r \in Readings : Counts3(r)
    BY <1>5, ReadingTypes DEF GInv
  <2>6. \A r \in Readings : r.at <= gpuClock /\ r.of <= c + 1 /\ r.of # c + 1
    BY <1>5, <2>4 DEF Counts3, Past
  <2>7. Joins(p, Readings)
    BY <1>3, <1>5, <2>3, <2>4, <2>6 DEF Joins, Counts3
  <2>8. OneSleeper(R2) /\ Past(R2, gpuClock, c + 1)
    <3>1. OneSleeper(R2)
      BY <2>2, <2>4, <2>7, OneMore
    <3> QED BY <1>3, <1>5, <2>2, <2>3, <2>6, <3>1 DEF Past
  <2>5. card' = c + 1 /\ gpuClock' = gpuClock
    BY <1>4, <1>5
  <2> QED BY <2>1, <2>8, <2>5 DEF OneSleeper, Past
<1> QED BY <1>4, <1>6, <1>7, <1>8 DEF GInv, GpuPart!baseline

\* Every step keeps it.
LEMMA GpuStep == GInv /\ [GpuPart!Next]_(GpuPart!vars) => GInv'
<1> SUFFICES ASSUME GInv, [GpuPart!Next]_(GpuPart!vars) PROVE GInv'
  OBVIOUS
<1>1. CASE UNCHANGED GpuPart!vars
  BY <1>1 DEF GpuPart!vars, GpuPart!device, GpuPart!baseline, GpuPart!reading, GInv, GpuPart!TypeOK,
              GpuPart!BusyIsReal, Readings, OneSleeper, Past
<1>2. CASE \E s \in GpuPart!Scrapes : GpuPart!ReadFiles(s) \/ GpuPart!Unavailable(s) \/ GpuPart!Measure(s)
  BY <1>2, GpuRead, GpuUnavailable, GpuMeasure
<1>3. CASE GpuPart!Tick
  BY <1>3, GpuTick
<1>4. CASE GpuPart!Switch
  BY <1>4, GpuSwitch
<1> QED BY <1>1, <1>2, <1>3, <1>4 DEF GpuPart!Next

\* The invariant implies the property.
LEMMA GInvIsReal == GInv => GpuPart!UsageIsReal
<1> SUFFICES ASSUME GInv PROVE GpuPart!HigherIsBusier
  BY DEF GInv, GpuPart!UsageIsReal
<1>1. Freqs \subseteq Nat
  BY PartAssumptions DEF GpuPart!GpuAssumption
<1> SUFFICES ASSUME NEW s \in GpuPart!Scrapes, files[s].max > 0, files[s].cur # -1,
                    NEW f \in Freqs, f <= files[s].cur
             PROVE  GpuPart!FreqUsage(f, files[s].min, files[s].max)
                       <= GpuPart!FreqUsage(files[s].cur, files[s].min, files[s].max)
  BY DEF GpuPart!HigherIsBusier, GpuPart!Absent
<1>2. /\ files[s].cur \in Freqs \cup {-1} /\ files[s].max \in Freqs \cup {-1}
      /\ files[s].min \in Freqs \cup {-1}
  BY GpuTypes DEF GInv
<1>3. PICK cur, low, high : cur = files[s].cur /\ low = files[s].min /\ high = files[s].max
  OBVIOUS
<1>4. cur \in Freqs /\ low \in Freqs \cup {-1} /\ high \in Freqs \cup {-1} /\ high > 0 /\ f <= cur
  BY <1>2, <1>3
<1>5. cur \in Nat /\ f \in Nat /\ low \in Int /\ high \in Nat
  <2>1. high # -1 /\ cur # -1
    BY <1>3, <1>4
  <2>2. cur \in Nat /\ f \in Nat /\ high \in Nat
    BY <1>1, <1>4, <2>1
  <2>3. low \in Nat \cup {-1}
    BY <1>1, <1>4
  <2> QED BY <2>2, <2>3
<1>6. GpuPart!FreqUsage(f, low, high) <= GpuPart!FreqUsage(cur, low, high)
  BY <1>4, <1>5, GuessRises
<1> QED BY <1>3, <1>6

\* However the calls of the GPU's collector overlap and whenever the path comes to lead
\* to another card, a usage is a share, is time that the card was awake, and rises with
\* the frequency (Collect of gpu_linux.go).
THEOREM GpuUsageAlwaysReal == GpuPart!Spec => []GpuPart!UsageIsReal
<1> QED BY GpuInit, GpuStep, GInvIsReal, PTL DEF GpuPart!Spec

-----------------------------------------------------------------------------
(* Cpu: shares of the time, and their mean.                                *)

\* Of k times as many in a whole k times as large, the share does not fall, or rise.
LEMMA MeanAtLeast ==
    ASSUME NEW a \in Nat, NEW b \in Nat, NEW k \in Nat, NEW g \in Nat, b > 0, k > 0, k * a <= g
    PROVE  GpuPart!Tenths(a, b) <= GpuPart!Tenths(g, k * b)
<1>1. PICK q \in Nat : q = GpuPart!Tenths(a, b) /\ 2 * b * q <= 2000 * a + b
  <2>1. PICK c \in Nat, d \in Nat : c = 2 * b /\ c > 0 /\ d = 2000 * a + b
    OBVIOUS
  <2>2. d \div c \in Nat /\ c * (d \div c) <= d
    BY <2>1, Division
  <2> QED BY <2>1, <2>2 DEF GpuPart!Tenths
<1>2. k * b \in Nat /\ k * b > 0 /\ k * a \in Nat
  OBVIOUS
<1>3. PICK top, bottom : top = 2000 * g + k * b /\ bottom = 2 * (k * b)
  OBVIOUS
<1>4. top \in Nat /\ bottom \in Nat /\ bottom > 0
  BY <1>2, <1>3
<1>5. bottom * q <= top
  <2>1. k * (2 * b * q) <= k * (2000 * a + b)
    <3>1. PICK x \in Nat, y \in Nat : x = 2 * b * q /\ y = 2000 * a + b /\ x <= y
      BY <1>1
    <3>2. k * x <= k * y
      BY <3>1
    <3> QED BY <3>1, <3>2
  <2>2. k * (2 * b * q) = bottom * q
    BY <1>3
  <2>3. k * (2000 * a + b) = 2000 * (k * a) + k * b
    OBVIOUS
  <2> QED BY <1>2, <1>3, <2>1, <2>2, <2>3
<1>6. q <= top \div bottom
  BY <1>4, <1>5, DivisionAtLeast
<1> QED BY <1>1, <1>3, <1>6 DEF GpuPart!Tenths

\* A mean is no more than the greatest of its numbers.
LEMMA MeanAtMost ==
    ASSUME NEW a \in Nat, NEW b \in Nat, NEW k \in Nat, NEW g \in Nat, b > 0, k > 0, g <= k * a
    PROVE  GpuPart!Tenths(g, k * b) <= GpuPart!Tenths(a, b)
<1>1. PICK q \in Nat : q = GpuPart!Tenths(a, b) /\ 2000 * a + b < 2 * b * q + 2 * b
  <2>1. PICK c \in Nat, d \in Nat : c = 2 * b /\ c > 0 /\ d = 2000 * a + b
    OBVIOUS
  <2>2. d \div c \in Nat /\ d < c * (d \div c) + c
    BY <2>1, Division
  <2> QED BY <2>1, <2>2 DEF GpuPart!Tenths
<1>2. k * b \in Nat /\ k * b > 0 /\ k * a \in Nat
  OBVIOUS
<1>3. PICK top, bottom : top = 2000 * g + k * b /\ bottom = 2 * (k * b)
  OBVIOUS
<1>4. top \in Nat /\ bottom \in Nat /\ bottom > 0
  BY <1>2, <1>3
<1>5. top < bottom * q + bottom
  <2>1. k * (2000 * a + b) < k * (2 * b * q + 2 * b)
    <3>1. PICK x \in Nat, y \in Nat : x = 2000 * a + b /\ y = 2 * b * q + 2 * b /\ x < y
      <4>1. PICK z \in Nat : z = 2 * b * q
        <5>1. 2 * b * q \in Nat
          OBVIOUS
        <5> QED BY <5>1
      <4>2. 2000 * a + b \in Nat /\ 2 * b * q + 2 * b \in Nat
        BY <4>1
      <4> QED BY <1>1, <4>2
    <3>2. PICK e \in Nat : y = x + 1 + e
      <4>1. y - x - 1 \in Nat
        BY <3>1
      <4> QED BY <4>1
    <3>3. k * y = k * x + k + k * e
      BY <3>2
    <3>4. PICK r \in Nat, t \in Nat : r = k * x /\ t = k * e
      <4>1. k * x \in Nat /\ k * e \in Nat
        OBVIOUS
      <4> QED BY <4>1
    <3>5. k * y = r + k + t
      BY <3>3, <3>4
    <3>6. r < r + k + t
      BY <3>4
    <3>7. k * x < k * y
      BY <3>4, <3>5, <3>6
    <3> QED BY <3>1, <3>7
  <2>2. k * (2 * b * q + 2 * b) = bottom * q + bottom
    BY <1>3
  <2>3. k * (2000 * a + b) = 2000 * (k * a) + k * b
    OBVIOUS
  <2> QED BY <1>2, <1>3, <1>4, <2>1, <2>2, <2>3
<1>6. top \div bottom <= q
  BY <1>4, <1>5, DivisionAtMost
<1> QED BY <1>1, <1>3, <1>6 DEF GpuPart!Tenths

\* Of finitely many numbers there is a least and a greatest.
LEMMA Extremes ==
    ASSUME NEW S, NEW f \in [S -> Nat], NEW top \in Nat, S # {}, \A x \in S : f[x] <= top
    PROVE  \E c, d \in S : \A x \in S : f[c] <= f[x] /\ f[x] <= f[d]
<1>1. PICK c \in S : \A x \in S : f[c] <= f[x]
  <2> DEFINE T == {f[x] : x \in S}
  <2>1. T \in SUBSET Nat /\ T # {}
    OBVIOUS
  <2>2. PICK n \in T : \A m \in Nat : m < n => m \notin T
    <3> HIDE DEF T
    <3> QED BY <2>1, Least
  <2>3. PICK c \in S : f[c] = n
    OBVIOUS
  <2>4. \A x \in S : f[x] \in Nat /\ f[x] \in T /\ ~(f[x] < n)
    BY <2>2
  <2> QED BY <2>3, <2>4
<1>2. PICK d \in S : \A x \in S : f[x] <= f[d]
  <2> DEFINE T == {top - f[x] : x \in S}
  <2>1. T \in SUBSET Nat /\ T # {}
    OBVIOUS
  <2>2. PICK n \in T : \A m \in Nat : m < n => m \notin T
    <3> HIDE DEF T
    <3> QED BY <2>1, Least
  <2>3. PICK d \in S : top - f[d] = n
    OBVIOUS
  <2>4. \A x \in S : f[x] \in Nat /\ top - f[x] \in Nat /\ top - f[x] \in T /\ ~(top - f[x] < n)
    BY <2>2
  <2>5. \A x \in S : f[x] <= f[d]
    BY <2>3, <2>4
  <2> QED BY <2>5
<1> QED BY <1>1, <1>2

\* The library's operators are the same in the part as here.
LEMMA CpuCounts ==
    /\ \A S : CpuPart!Cardinality(S) = Cardinality(S)
    /\ \A S : CpuPart!IsFiniteSet(S) = IsFiniteSet(S)
    /\ \A a, b : CpuPart!Tenths(a, b) = GpuPart!Tenths(a, b)
BY DEF CpuPart!Cardinality, Cardinality, CpuPart!IsFiniteSet, IsFiniteSet, CpuPart!Tenths, GpuPart!Tenths

\* The part's sum is the library's.
LEMMA CpuSums ==
    ASSUME NEW f
    PROVE  CpuPart!SumFunction(f) = SumFunction(f)
BY DEF CpuPart!SumFunction, CpuPart!SumFunctionOnSet, CpuPart!FoldFunctionOnSet, CpuPart!MapThenFoldSet,
       SumFunction, SumFunctionOnSet, FoldFunctionOnSet, MapThenFoldSet

CpuTypes ==
    /\ cpuClock \in Nat /\ worked \in [Cores -> SUBSET (1..cpuClock)]
    /\ lastTimes \in 0..cpuClock /\ timesAt \in [CpuPart!Scrapes -> 0..cpuClock]
    /\ sample \in [from : Nat, to : Nat]

CpuInv == CpuTypes /\ CpuPart!NoTimeMissed

\* The time a core has worked, as a number.
LEMMA BusyCounts ==
    ASSUME CpuTypes, NEW c \in Cores, NEW t \in Nat
    PROVE  /\ IsFiniteSet(worked[c] \cap 1..t) /\ CpuPart!Busy(c, t) \in Nat
           /\ CpuPart!Busy(c, t) = Cardinality(worked[c] \cap 1..t)
<1>1. IsFiniteSet(1..t)
  BY FS_Interval
<1>2. worked[c] \cap 1..t \in SUBSET (1..t)
  OBVIOUS
<1>3. IsFiniteSet(worked[c] \cap 1..t)
  <2>1. PICK W : W = worked[c] \cap 1..t
    OBVIOUS
  <2>2. IsFiniteSet(W)
    BY <1>1, <1>2, <2>1, FS_Subset
  <2> QED BY <2>1, <2>2
<1>4. Cardinality(worked[c] \cap 1..t) \in Nat
  BY <1>3, FS_CardinalityType
<1>5. CpuPart!Busy(c, t) = Cardinality(worked[c] \cap 1..t)
  BY CpuCounts DEF CpuPart!Busy
<1> QED BY <1>3, <1>4, <1>5

\* What a core gains in an interval is the time of it in which it worked.
LEMMA GainIsWork ==
    ASSUME CpuTypes, NEW c \in Cores, NEW s \in [from : Nat, to : Nat],
           NEW n, n = Cardinality(s.from + 1..s.to),
           NEW work, work = Cardinality(worked[c] \cap s.from + 1..s.to)
    PROVE  /\ n \in Nat /\ work \in Nat /\ work <= n /\ CpuPart!Gain(c, s) = work
           /\ n = IF s.to <= s.from THEN 0 ELSE s.to - s.from
<1> DEFINE I == s.from + 1..s.to
           W == worked[c] \cap I
           B == worked[c] \cap 1..s.from
           E == worked[c] \cap 1..s.to
<1>1. s.from \in Nat /\ s.to \in Nat /\ s.from + 1 \in Int
  OBVIOUS
<1>2. IsFiniteSet(I) /\ n = IF s.from + 1 > s.to THEN 0 ELSE s.to - (s.from + 1) + 1
  <2>1. PICK a \in Int, b \in Int : a = s.from + 1 /\ b = s.to
    BY <1>1
  <2>2. IsFiniteSet(a..b) /\ Cardinality(a..b) = IF a > b THEN 0 ELSE b - a + 1
    BY FS_Interval
  <2> QED BY <2>1, <2>2
<1>3. n \in Nat /\ n = IF s.to <= s.from THEN 0 ELSE s.to - s.from
  BY <1>1, <1>2
<1>4. IsFiniteSet(W) /\ work <= n
  <2>1. W \in SUBSET I
    OBVIOUS
  <2> QED BY <1>2, <2>1, FS_Subset
<1>5. work \in Nat
  BY <1>4, FS_CardinalityType
<1>6. /\ CpuPart!Busy(c, s.from) = Cardinality(B) /\ CpuPart!Busy(c, s.to) = Cardinality(E)
      /\ IsFiniteSet(B) /\ IsFiniteSet(E) /\ Cardinality(B) \in Nat /\ Cardinality(E) \in Nat
  <2>1. \A t \in Nat : /\ IsFiniteSet(worked[c] \cap 1..t) /\ CpuPart!Busy(c, t) \in Nat
                       /\ CpuPart!Busy(c, t) = Cardinality(worked[c] \cap 1..t)
    BY BusyCounts
  <2> QED BY <1>1, <2>1
<1>7. CpuPart!Gain(c, s) = IF Cardinality(E) <= Cardinality(B) THEN 0 ELSE Cardinality(E) - Cardinality(B)
  BY <1>6 DEF CpuPart!Gain
<1>8. CASE s.to <= s.from
  <2>1. E \in SUBSET B
    BY <1>1, <1>8
  <2>2. Cardinality(E) <= Cardinality(B)
    BY <1>6, <2>1, FS_Subset
  <2>3. n = 0 /\ work = 0
    BY <1>3, <1>4, <1>5, <1>8
  <2> HIDE DEF I, W, B, E
  <2> QED BY <1>3, <1>5, <1>7, <2>2, <2>3
<1>9. CASE ~(s.to <= s.from)
  <2>1. E = B \cup W /\ B \cap W = {}
    BY <1>1, <1>9
  <2>2. Cardinality(E) = Cardinality(B) + Cardinality(W) - Cardinality({})
    <3> HIDE DEF E, B, W
    <3> QED BY <1>4, <1>6, <2>1, FS_Union
  <2>3. Cardinality({}) = 0
    BY FS_EmptySet
  <2>4. Cardinality(W) = work
    OBVIOUS
  <2> HIDE DEF I, W, B, E
  <2> QED BY <1>3, <1>4, <1>5, <1>6, <1>7, <2>2, <2>3, <2>4
<1> QED BY <1>8, <1>9

\* The usage of an interval shows the share of the time, for each core and the mean.
LEMMA SharesFit ==
    ASSUME CpuTypes
    PROVE  CpuPart!ShareOfTime
<1> DEFINE s == sample
           n == Cardinality(s.from + 1..s.to)
           Work(c) == Cardinality(worked[c] \cap s.from + 1..s.to)
           f == [c \in Cores |-> CpuPart!Gain(c, s)]
           percent == CpuPart!PerCorePercent(s)
           total == CpuPart!TotalPercent(s)
           k == Cardinality(Cores)
<1>1. /\ IsFiniteSet(Cores) /\ Cores # {}
  BY PartAssumptions, CpuCounts DEF CpuPart!CpuAssumption
<1>2. s \in [from : Nat, to : Nat]
  BY DEF CpuTypes
<1>3. \A c \in Cores : /\ n \in Nat /\ Work(c) \in Nat /\ Work(c) <= n /\ f[c] = Work(c)
                        /\ n = IF s.to <= s.from THEN 0 ELSE s.to - s.from
  BY <1>2, GainIsWork
<1>4. n \in Nat /\ (n # 0 => s.to - s.from = n)
  <2> HIDE DEF n, Work, f
  <2> QED BY <1>1, <1>3
<1>5. f \in [Cores -> Nat] /\ \A c \in Cores : f[c] <= n
  BY <1>3
<1>6. \A c \in Cores : percent[c] = IF f[c] = 0 THEN 0 ELSE GpuPart!Tenths(f[c], s.to - s.from)
  BY CpuCounts DEF CpuPart!PerCorePercent
<1> HIDE DEF s, n, Work, f, percent, total
<1>7. ASSUME NEW c \in Cores
      PROVE  /\ percent[c] \in Nat /\ percent[c] <= 1000
             /\ f[c] = 0 => percent[c] = 0
             /\ n # 0 => percent[c] = GpuPart!Tenths(f[c], n)
             /\ 2 * (n * percent[c] - 1000 * f[c]) <= n
             /\ 2 * (1000 * f[c] - n * percent[c]) <= n
  <2>1. PICK a \in Nat, b \in Nat : a = f[c] /\ b = n /\ a <= b
    BY <1>4, <1>5
  <2>2. CASE b = 0
    <3>1. percent[c] = 0 /\ a = 0
      BY <1>6, <2>1, <2>2
    <3> QED BY <2>1, <2>2, <3>1
  <2>3. CASE b > 0
    <3>1. PICK t \in Nat : /\ t = GpuPart!Tenths(a, b) /\ t <= 1000 /\ (a = 0 => t = 0)
                           /\ 2 * b * t <= 2000 * a + b /\ 2000 * a <= 2 * b * t + b
      <4>1. GpuPart!Tenths(a, b) \in Nat
        BY <2>3, TenthsCount
      <4>2. GpuPart!Tenths(a, b) <= 1000
        BY <2>1, <2>3, TenthsShare
      <4>3. /\ (a = 0 => GpuPart!Tenths(a, b) = 0)
            /\ 2 * b * GpuPart!Tenths(a, b) <= 2000 * a + b
            /\ 2000 * a <= 2 * b * GpuPart!Tenths(a, b) + b
        BY <2>3, TenthsFit
      <4> QED BY <4>1, <4>2, <4>3
    <3>2. percent[c] = t
      BY <1>4, <1>6, <2>1, <2>3, <3>1
    <3>3. PICK p \in Nat : p = b * t /\ 2 * b * t = 2 * p
      <4>1. b * t \in Nat /\ 2 * b * t = 2 * (b * t)
        OBVIOUS
      <4> QED BY <4>1
    <3>4. 2 * (p - 1000 * a) <= b /\ 2 * (1000 * a - p) <= b
      BY <3>1, <3>3
    <3> QED BY <2>1, <3>1, <3>2, <3>3, <3>4
  <2> QED BY <2>1, <2>2, <2>3
<1>8. \E c, d \in Cores : percent[c] <= total /\ total <= percent[d]
  <2>1. PICK c \in Cores, d \in Cores : \A x \in Cores : f[c] <= f[x] /\ f[x] <= f[d]
    BY <1>1, <1>4, <1>5, Extremes
  <2>2. PICK gains : gains = SumFunction(f)
    OBVIOUS
  <2>3. total = IF gains = 0 THEN 0 ELSE GpuPart!Tenths(gains, k * (s.to - s.from))
    <3>1. CpuPart!SumFunction([c0 \in Cores |-> CpuPart!Gain(c0, s)]) = gains
      BY <2>2, CpuSums DEF f
    <3> QED BY <3>1, CpuCounts DEF total, CpuPart!TotalPercent
  <2>4. PICK lo \in Nat, hi \in Nat, m \in Nat : lo = f[c] /\ hi = f[d] /\ m = k
    <3>1. k \in Nat
      BY <1>1, FS_CardinalityType
    <3> HIDE DEF k
    <3> QED BY <1>5, <3>1
  <2>5. m > 0
    <3>1. Cardinality(Cores) # 0
      BY <1>1, FS_EmptySet
    <3> QED BY <2>4, <3>1
  <2>6. gains \in Nat /\ m * lo <= gains /\ gains <= m * hi
    <3>1. \A x \in Cores : lo <= f[x] /\ f[x] <= hi
      BY <2>1, <2>4
    <3>2. /\ SumFunction(f) \in Nat /\ Cardinality(Cores) * lo <= SumFunction(f)
          /\ SumFunction(f) <= Cardinality(Cores) * hi
      BY <1>1, <1>5, <3>1, SumBetween
    <3> QED BY <2>2, <2>4, <3>2
  <2>7. CASE gains = 0
    <3>1. lo = 0
      <4>1. m * lo = 0
        <5>1. m * lo \in Nat
          OBVIOUS
        <5> QED BY <2>6, <2>7, <5>1
      <4> QED BY <2>5, <4>1
    <3>2. percent[c] = 0
      BY <1>6, <2>4, <3>1
    <3>3. total = 0
      BY <2>3, <2>7
    <3>4. percent[d] \in Nat
      BY <1>7
    <3> QED BY <3>2, <3>3, <3>4
  <2>8. CASE gains # 0
    <3>1. n # 0
      <4>1. SUFFICES ASSUME n = 0 PROVE FALSE
        OBVIOUS
      <4>2. hi = 0
        BY <1>5, <2>4, <4>1
      <4>3. m * hi = 0
        BY <4>2
      <4> QED BY <2>6, <2>8, <4>3
    <3>2. PICK b \in Nat : b = n /\ b > 0 /\ s.to - s.from = b
      BY <1>4, <3>1
    <3>3. total = GpuPart!Tenths(gains, m * b)
      BY <2>3, <2>4, <2>8, <3>2
    <3>4. percent[c] = GpuPart!Tenths(lo, b) /\ percent[d] = GpuPart!Tenths(hi, b)
      BY <1>7, <2>4, <3>1, <3>2
    <3>5. GpuPart!Tenths(lo, b) <= GpuPart!Tenths(gains, m * b)
      BY <2>5, <2>6, <3>2, MeanAtLeast
    <3>6. GpuPart!Tenths(gains, m * b) <= GpuPart!Tenths(hi, b)
      BY <2>5, <2>6, <3>2, MeanAtMost
    <3> QED BY <3>3, <3>4, <3>5, <3>6
  <2> QED BY <2>7, <2>8
<1>9. ASSUME NEW c \in Cores,
             NEW work, work = CpuPart!Cardinality(worked[c] \cap s.from + 1..s.to)
      PROVE  work = f[c]
  BY <1>3, <1>9, CpuCounts DEF Work
<1>10. n = CpuPart!Cardinality(s.from + 1..s.to)
  BY CpuCounts DEF n
<1>11. ASSUME NEW c \in Cores,
              NEW work, work = CpuPart!Cardinality(worked[c] \cap s.from + 1..s.to)
       PROVE  /\ percent[c] \in 0..1000 /\ (work = 0 => percent[c] = 0)
              /\ 2 * (n * percent[c] - 1000 * work) <= n
              /\ 2 * (1000 * work - n * percent[c]) <= n
  <2>1. work = f[c]
    BY <1>9, <1>11
  <2> QED BY <1>7, <2>1
<1>12. \A c \in Cores :
          LET work == CpuPart!Cardinality(worked[c] \cap s.from + 1..s.to)
          IN  /\ percent[c] \in 0..1000 /\ (work = 0 => percent[c] = 0)
              /\ 2 * (n * percent[c] - 1000 * work) <= n
              /\ 2 * (1000 * work - n * percent[c]) <= n
  BY <1>11
<1> QED BY <1>8, <1>10, <1>12 DEF CpuPart!ShareOfTime, s, percent, total

\* The CPU's part begins in the invariant.
LEMMA CpuInit == CpuPart!Init => CpuInv
<1> SUFFICES ASSUME CpuPart!Init PROVE CpuInv
  OBVIOUS
<1>1. /\ cpuClock = 0 /\ worked = [c \in Cores |-> {}] /\ lastTimes = 0
      /\ timesAt = [t \in CpuPart!Scrapes |-> 0] /\ sample = [from |-> 0, to |-> 0]
  BY DEF CpuPart!Init
<1>2. CpuTypes
  BY <1>1 DEF CpuTypes
<1>3. 1..lastTimes = {}
  BY <1>1
<1> QED BY <1>2, <1>3 DEF CpuInv, CpuPart!NoTimeMissed

\* Every step keeps it.
LEMMA CpuStep == CpuInv /\ [CpuPart!Next]_(CpuPart!vars) => CpuInv'
<1> SUFFICES ASSUME CpuInv, [CpuPart!Next]_(CpuPart!vars) PROVE CpuInv'
  OBVIOUS
<1>1. /\ cpuClock \in Nat /\ worked \in [Cores -> SUBSET (1..cpuClock)]
      /\ lastTimes \in 0..cpuClock /\ timesAt \in [CpuPart!Scrapes -> 0..cpuClock]
      /\ sample \in [from : Nat, to : Nat] /\ 1..lastTimes \subseteq counted
  BY DEF CpuInv, CpuTypes, CpuPart!NoTimeMissed
<1>2. CASE UNCHANGED CpuPart!vars
  BY <1>2 DEF CpuPart!vars, CpuInv, CpuTypes, CpuPart!NoTimeMissed
<1>3. ASSUME NEW s \in CpuPart!Scrapes, CpuPart!ReadTimes(s)
      PROVE  CpuInv'
  <2>1. /\ timesAt' = [timesAt EXCEPT ![s] = cpuClock]
        /\ UNCHANGED <<cpuClock, worked, lastTimes, sample, counted>>
    BY <1>3 DEF CpuPart!ReadTimes
  <2>2. timesAt' \in [CpuPart!Scrapes -> 0..cpuClock]
    BY <1>1, <2>1
  <2> QED BY <1>1, <2>1, <2>2 DEF CpuInv, CpuTypes, CpuPart!NoTimeMissed
<1>4. ASSUME NEW s \in CpuPart!Scrapes, CpuPart!Measure(s)
      PROVE  CpuInv'
  <2>1. /\ sample' = [from |-> lastTimes, to |-> timesAt[s]] /\ lastTimes' = timesAt[s]
        /\ counted' = counted \cup lastTimes + 1..timesAt[s]
        /\ timesAt' = [timesAt EXCEPT ![s] = 0] /\ UNCHANGED <<cpuClock, worked>>
    BY <1>4 DEF CpuPart!Measure
  <2>2. PICK t \in 0..cpuClock : t = timesAt[s]
    BY <1>1
  <2>3. 1..t \subseteq counted \cup lastTimes + 1..t
    BY <1>1
  <2>4. timesAt' \in [CpuPart!Scrapes -> 0..cpuClock] /\ sample' \in [from : Nat, to : Nat]
    BY <1>1, <2>1, <2>2
  <2> QED BY <1>1, <2>1, <2>2, <2>3, <2>4 DEF CpuInv, CpuTypes, CpuPart!NoTimeMissed
<1>5. CASE CpuPart!Tick
  <2>1. PICK S \in SUBSET Cores :
            worked' = [c \in Cores |-> IF c \in S THEN worked[c] \cup {cpuClock'} ELSE worked[c]]
    BY <1>5 DEF CpuPart!Tick
  <2>2. cpuClock' = cpuClock + 1 /\ UNCHANGED <<lastTimes, timesAt, sample, counted>>
    BY <1>5 DEF CpuPart!Tick
  <2>3. PICK t \in Nat : t = cpuClock' /\ t = cpuClock + 1
    BY <1>1, <2>2
  <2>4. /\ 0..cpuClock \subseteq 0..t /\ 1..cpuClock \subseteq 1..t /\ t \in 1..t
    BY <1>1, <2>3
  <2>5. worked' \in [Cores -> SUBSET (1..t)]
    BY <1>1, <2>1, <2>3, <2>4
  <2>6. lastTimes \in 0..t /\ timesAt \in [CpuPart!Scrapes -> 0..t]
    BY <1>1, <2>4
  <2> QED BY <1>1, <2>2, <2>3, <2>5, <2>6 DEF CpuInv, CpuTypes, CpuPart!NoTimeMissed
<1> QED BY <1>2, <1>3, <1>4, <1>5 DEF CpuPart!Next

\* The invariant implies the property.
LEMMA CpuInvIsReal == CpuInv => CpuPart!CpuUsageIsReal
BY SharesFit DEF CpuInv, CpuPart!CpuUsageIsReal

\* However the calls of the CPU's collector overlap, no moment is missed by all of their
\* intervals, and a core's usage and the mean are the shares of the time (Collect of
\* cpu.go), to half of the digit that is shown.
THEOREM CpuUsageAlwaysReal == CpuPart!Spec => []CpuPart!CpuUsageIsReal
<1> QED BY CpuInit, CpuStep, CpuInvIsReal, PTL DEF CpuPart!Spec

-----------------------------------------------------------------------------
(* Rates: what is known of the counters.                                   *)

Baseline == [bytes : Counts, at : Nat, mark : Nat, takenAt : Nat]
Baselines == UNION {[D -> Baseline] : D \in SUBSET Devices}
Readouts == UNION {[D -> Counts] : D \in SUBSET Devices}
RateSet == [bytes : Counts, dt : Nat]
DueSet == [bytes : Nat, late : Nat, overtaken : BOOLEAN]

RatesTypes ==
    /\ clock \in 0..MaxClock /\ resets \in 0..MaxResets
    /\ counter \in [Devices -> Counts] /\ carried \in [Devices -> Nat]
    /\ lastIO \in Baselines
    /\ pc \in [Scrapes -> {"idle", "read", "stamped", "done"}]
    /\ read \in [Scrapes -> Readouts] /\ mark \in [Scrapes -> [Devices -> Nat]]
    /\ now \in [Scrapes -> 0..MaxClock] /\ takenAt \in [Scrapes -> 0..MaxClock]
    /\ rates \in [RowSet -> RateSet] /\ due \in [Devices -> DueSet]

\* The clock of a call, and of a baseline, is read after its counters.
Clocks ==
    /\ \A s \in Scrapes : /\ takenAt[s] <= clock
                          /\ pc[s] = "stamped" => takenAt[s] <= now[s]
    /\ \A d \in DOMAIN lastIO : lastIO[d].takenAt <= lastIO[d].at

\* A reading of a device's counter: those that the baseline and the calls hold, and the
\* one that would be made now.
Reading == [bytes : Counts, mark : Nat, at : Nat]
OfBase(d) == [bytes |-> lastIO[d].bytes, mark |-> lastIO[d].mark, at |-> lastIO[d].takenAt]
OfCall(s, d) == [bytes |-> read[s][d], mark |-> mark[s][d], at |-> takenAt[s]]
Present(d) == [bytes |-> counter[d], mark |-> carried[d], at |-> clock]
Taken(d) ==
    {OfBase(e) : e \in DOMAIN lastIO \cap {d}}
        \cup {OfCall(s, d) : s \in {c \in Scrapes : d \in DOMAIN read[c]}}

\* What a counter lacks, by going back, of what its device carried.
Lacks(x) == x.mark - x.bytes

\* Between two readings the device carried no more than it can, and what its counter
\* lacks became no less.
Ordered(x, y) ==
    /\ x.at <= y.at => x.mark <= y.mark /\ y.mark - x.mark <= MaxRate * (y.at - x.at)
    /\ x.at < y.at => Lacks(x) <= Lacks(y)

\* So it is from every reading to the present one, also in the same moment.
Reaches(x, y) ==
    /\ x.at <= y.at /\ x.mark <= y.mark /\ Lacks(x) <= Lacks(y)
    /\ y.mark - x.mark <= MaxRate * (y.at - x.at)

InOrder ==
    \A d \in Devices : \A x \in Taken(d) :
        Reaches(x, Present(d)) /\ \A y \in Taken(d) : Ordered(x, y)

Shows == NeverInvents /\ NeverTooFast

RatesInv == RatesTypes /\ Clocks /\ InOrder /\ Shows

\* Baselines are functions of some of the devices.
LEMMA BaselinesAre ==
    ASSUME NEW f
    PROVE  f \in Baselines <=> f \in [DOMAIN f -> Baseline] /\ DOMAIN f \in SUBSET Devices
BY DEF Baselines

\* So are readings.
LEMMA ReadoutsAre ==
    ASSUME NEW f
    PROVE  f \in Readouts <=> f \in [DOMAIN f -> Counts] /\ DOMAIN f \in SUBSET Devices
BY DEF Readouts

\* Counters are numbers.
LEMMA CountsAre == /\ Width \in Nat /\ Width > 0 /\ 0 \in Counts /\ Counts \subseteq Nat
              /\ Gap \in Nat /\ MaxRate \in Nat
BY RatesAssumption DEF Counts

\* A counter is a number.
LEMMA CountIsNumber ==
    ASSUME NEW n \in Counts
    PROVE  n \in Nat
BY CountsAre
\* What was gained, or zero where something was lost.
LEMMA GreatestOf ==
    ASSUME NEW b \in Int
    PROVE  Max({0, b}) = IF b <= 0 THEN 0 ELSE b
BY DEF Max

\* More time, more bytes.
LEMMA Faster ==
    ASSUME NEW a \in Nat, NEW b \in Nat, a <= b
    PROVE  /\ MaxRate * a \in Nat /\ MaxRate * b \in Nat /\ MaxRate * a <= MaxRate * b
           /\ MaxRate * (a + 1) = MaxRate * a + MaxRate /\ MaxRate * 0 = 0
<1>1. PICK m \in Nat : m = MaxRate
  BY CountsAre
<1>2. m * a \in Nat /\ m * b \in Nat /\ m * (a + 1) = m * a + m /\ m * 0 = 0
  OBVIOUS
<1>3. PICK c \in Nat : c = b - a
  OBVIOUS
<1>4. m * b = m * a + m * c /\ m * c \in Nat
  BY <1>3
<1>5. m * a <= m * b
  BY <1>2, <1>4
<1> QED BY <1>1, <1>2, <1>5

\* What the fields of a reading are.
LEMMA ReadingIs ==
    ASSUME NEW x \in Reading
    PROVE  x.bytes \in Nat /\ x.mark \in Nat /\ x.at \in Nat /\ Lacks(x) \in Int
<1>1. x.bytes \in Counts /\ x.mark \in Nat /\ x.at \in Nat
  BY DEF Reading
<1>2. x.bytes \in Nat
  BY <1>1, CountIsNumber
<1> QED BY <1>1, <1>2 DEF Lacks

\* The present reading is in order with every one before it, and with itself.
LEMMA PresentIsLast ==
    ASSUME NEW x \in Reading, NEW y \in Reading, Reaches(x, y)
    PROVE  Ordered(x, y) /\ Ordered(y, x)
<1>1. /\ x.mark \in Nat /\ x.at \in Nat /\ y.mark \in Nat /\ y.at \in Nat
  BY ReadingIs
<1>2. ASSUME y.at <= x.at
      PROVE  /\ y.mark <= x.mark /\ ~(y.at < x.at)
             /\ x.mark - y.mark <= MaxRate * (x.at - y.at)
  <2>1. x.at = y.at /\ y.at - x.at = 0 /\ x.at - y.at = 0
    BY <1>1, <1>2 DEF Reaches
  <2>2. MaxRate * (y.at - x.at) = 0 /\ MaxRate * (x.at - y.at) = 0
    BY <2>1, Faster
  <2>3. y.mark - x.mark <= 0 /\ x.mark <= y.mark
    BY <2>2 DEF Reaches
  <2> QED BY <1>1, <2>1, <2>2, <2>3
<1>3. x.at <= y.at => x.mark <= y.mark /\ y.mark - x.mark <= MaxRate * (y.at - x.at)
  BY DEF Reaches
<1>4. Lacks(x) <= Lacks(y)
  BY DEF Reaches
<1>5. y.at < x.at => FALSE
  BY <1>1, <1>2
<1> QED BY <1>1, <1>2, <1>3, <1>4, <1>5 DEF Ordered

\* A reading in which no counter has gone back since the baseline shows what was carried
\* since, and no more than can be in the time since.
LEMMA RateFits ==
    ASSUME NEW prev \in Baseline, NEW b \in Counts, NEW at \in Nat, NEW x \in Reading, NEW y \in Reading,
           x.bytes = prev.bytes, x.mark = prev.mark, x.at = prev.takenAt, y.bytes = b,
           prev.takenAt <= prev.at, y.at <= at,
           Ordered(x, y), Ordered(y, x), ~(x.at >= y.at /\ Lacks(y) < Lacks(x)),
           NEW r, r = RateOf(prev, b, at), NEW t, t = y.mark - x.mark
    PROVE  /\ r.bytes <= Max({0, t})
           /\ r.bytes <= MaxRate * (r.dt + (prev.at - prev.takenAt))
<1>0. /\ prev.bytes \in Counts /\ prev.at \in Nat /\ prev.takenAt \in Nat
  BY DEF Baseline
<1>1. /\ prev.bytes \in Nat /\ prev.at \in Nat /\ prev.takenAt \in Nat /\ b \in Nat
      /\ prev.at - prev.takenAt \in Nat
  <2>1. prev.bytes \in Nat /\ b \in Nat
    BY <1>0, CountIsNumber
  <2>2. prev.at - prev.takenAt \in Nat
    BY <1>0
  <2> QED BY <1>0, <2>1, <2>2
<1>2. /\ x.bytes \in Nat /\ x.mark \in Nat /\ x.at \in Nat /\ Lacks(x) \in Int
      /\ y.bytes \in Nat /\ y.mark \in Nat /\ y.at \in Nat /\ Lacks(y) \in Int
  BY ReadingIs
<1>3. t \in Int /\ Max({0, t}) = IF t <= 0 THEN 0 ELSE t
  BY <1>2, GreatestOf
<1>4. CASE at - prev.at > Gap /\ b >= prev.bytes
  <2>1. r.bytes = b - prev.bytes /\ r.dt = at - prev.at
    BY <1>4 DEF RateOf
  <2>2. Lacks(x) <= Lacks(y)
    BY <1>2 DEF Ordered
  <2>3. y.bytes - x.bytes <= y.mark - x.mark
    BY <1>2, <2>2 DEF Lacks
  <2>4. r.bytes \in Nat /\ r.bytes <= t
    BY <1>1, <1>4, <2>1, <2>3
  <2>5. r.dt + (prev.at - prev.takenAt) = at - x.at /\ r.dt \in Nat
    BY <1>1, <1>4, <2>1, CountsAre
  <2>6. CASE t <= 0
    <3>1. r.bytes = 0
      BY <1>3, <2>4, <2>6
    <3>2. at - x.at \in Nat
      BY <1>1, <2>5
    <3>3. MaxRate * (at - x.at) \in Nat
      BY <3>2, Faster
    <3> QED BY <1>3, <2>5, <2>6, <3>1, <3>3
  <2>7. CASE ~(t <= 0)
    <3>1. x.at <= y.at
      BY <1>2, <2>7 DEF Ordered
    <3>2. t <= MaxRate * (y.at - x.at)
      BY <3>1 DEF Ordered
    <3>3. y.at - x.at \in Nat /\ at - x.at \in Nat /\ y.at - x.at <= at - x.at
      BY <1>2, <3>1
    <3>4. MaxRate * (y.at - x.at) <= MaxRate * (at - x.at) /\ MaxRate * (y.at - x.at) \in Nat
          /\ MaxRate * (at - x.at) \in Nat
      BY <3>3, Faster
    <3>5. r.bytes <= MaxRate * (at - x.at)
      BY <1>3, <2>4, <3>2, <3>4
    <3> QED BY <1>3, <2>4, <2>5, <2>7, <3>5
  <2> QED BY <2>6, <2>7
<1>5. CASE ~(at - prev.at > Gap /\ b >= prev.bytes)
  <2>1. r.bytes = 0 /\ r.dt = 0
    BY <1>5 DEF RateOf, NoRate
  <2>2. 0 + (prev.at - prev.takenAt) = prev.at - prev.takenAt
    BY <1>1
  <2>3. MaxRate * (prev.at - prev.takenAt) \in Nat
    BY <1>1, Faster
  <2> QED BY <1>3, <2>1, <2>2, <2>3
<1> QED BY <1>4, <1>5

\* A rate is one of the rates, whatever the counters did.
LEMMA RateIsOne ==
    ASSUME NEW prev \in Baseline, NEW b \in Counts, NEW at \in Nat
    PROVE  RateOf(prev, b, at) \in RateSet
<1>1. prev.bytes \in Nat /\ prev.at \in Nat /\ b \in Nat /\ Gap \in Nat /\ Width \in Nat
  BY CountsAre DEF Baseline
<1>2. CASE at - prev.at > Gap /\ b >= prev.bytes
  <2>1. b - prev.bytes \in Counts /\ at - prev.at \in Nat
    BY <1>1, <1>2 DEF Counts
  <2> QED BY <1>2, <2>1 DEF RateOf, RateSet
<1>3. CASE ~(at - prev.at > Gap /\ b >= prev.bytes)
  BY <1>3, CountsAre DEF RateOf, NoRate, RateSet
<1> QED BY <1>2, <1>3

\* A row that is measured against the baseline of this call has no rate.
LEMMA NoTimeNoRate ==
    ASSUME NEW prev, NEW b, NEW at \in Nat, prev.at = at
    PROVE  RateOf(prev, b, at) = NoRate
<1>1. ~(at - prev.at > Gap)
  BY CountsAre
<1> QED BY <1>1 DEF RateOf

\* There are finitely many rows.
LEMMA RowsAreFinite ==
    /\ IsFiniteSet(RowSet) /\ Len(Rows) \in Nat /\ DOMAIN Rows = 1..Len(Rows)
    /\ \A i \in 1..Len(Rows) : Rows[i] \in RowSet
    /\ \A r \in RowSet : DeviceOf[r] \in Devices
<1>1. Rows \in Seq(RowSet) /\ \A r \in RowSet : DeviceOf[r] \in Devices
  BY RatesAssumption DEF RowSet
<1>2. /\ Len(Rows) \in Nat /\ DOMAIN Rows = 1..Len(Rows) /\ Rows \in [1..Len(Rows) -> RowSet]
  BY <1>1
<1>3. \A r \in RowSet : \E i \in 1..Len(Rows) : Rows[i] = r
  BY <1>2 DEF RowSet, Range
<1>4. Rows \in Surjection(1..Len(Rows), RowSet)
  BY <1>2, <1>3 DEF Surjection
<1>5. IsFiniteSet(1..Len(Rows))
  BY <1>2, FS_Interval
<1>6. IsFiniteSet(RowSet)
  BY <1>4, <1>5, FS_Surjection
<1> QED BY <1>1, <1>2, <1>6

\* At most one row of a device has a rate, which is x.
OneShows(rs, d, x) ==
    /\ \A r \in RowSet : DeviceOf[r] = d => rs[r] = NoRate \/ rs[r] = x
    /\ \A q \in RowSet : \A r \in RowSet :
          DeviceOf[q] = d /\ DeviceOf[r] = d /\ rs[q] # NoRate /\ rs[r] # NoRate => q = r

\* Their rates add up to no more than that one shows.
LEMMA RowsTogether ==
    ASSUME NEW rs \in [RowSet -> RateSet], NEW d, NEW x, OneShows(rs, d, x),
           NEW bound \in Nat, x.bytes <= bound
    PROVE  SumFunction([r \in {q \in RowSet : DeviceOf[q] = d} |-> rs[r].bytes]) <= bound
<1> DEFINE S == {q \in RowSet : DeviceOf[q] = d}
           f == [r \in S |-> rs[r].bytes]
<1>0. NoRate.bytes = 0
  BY DEF NoRate
<1>1. IsFiniteSet(S)
  BY RowsAreFinite, FS_Subset
<1>2. f \in [S -> Nat] /\ \A r \in S : f[r] = rs[r].bytes
  BY CountsAre DEF RateSet
<1>3. \A y \in S : f[y] <= bound
  BY <1>0, <1>2 DEF OneShows
<1>4. \A y, z \in S : f[y] # 0 /\ f[z] # 0 => y = z
  BY <1>0, <1>2 DEF OneShows
<1>5. SumFunction(f) <= bound
  <2> HIDE DEF S, f
  <2> QED BY <1>1, <1>2, <1>3, <1>4, SumOfOne
<1> QED BY <1>5

\* The rates' part begins in the invariant.
LEMMA RatesInit == Init => RatesInv
<1> SUFFICES ASSUME Init PROVE RatesInv
  OBVIOUS
<1> USE DEF Init
<1>1. /\ {MaxClock, MaxResets} \subseteq Nat
  BY RatesAssumption
<1>2. Zero \in [Devices -> Counts] /\ Zero \in [Devices -> Nat] /\ \A d \in Devices : Zero[d] = 0
  BY CountsAre DEF Zero
<1>3. DOMAIN lastIO = {} /\ lastIO \in Baselines
  <2>1. DOMAIN lastIO = {} /\ lastIO \in [{} -> Baseline]
    OBVIOUS
  <2> QED BY <2>1, BaselinesAre
<1>4. \A s \in Scrapes : DOMAIN read[s] = {} /\ read[s] \in Readouts
  <2>1. \A s \in Scrapes : DOMAIN read[s] = {} /\ read[s] \in [{} -> Counts]
    OBVIOUS
  <2> QED BY <2>1, ReadoutsAre
<1>5. /\ NoRate \in RateSet /\ NoRate.bytes = 0 /\ NoRate.dt = 0
      /\ NothingDue \in DueSet /\ NothingDue.bytes = 0 /\ NothingDue.late = 0
  BY CountsAre DEF NoRate, RateSet, NothingDue, DueSet
<1>6. RatesTypes
  <2>1. read \in [Scrapes -> Readouts]
    BY <1>4
  <2>2. /\ clock \in 0..MaxClock /\ resets \in 0..MaxResets
        /\ now \in [Scrapes -> 0..MaxClock] /\ takenAt \in [Scrapes -> 0..MaxClock]
    BY <1>1
  <2>3. rates \in [RowSet -> RateSet] /\ due \in [Devices -> DueSet]
    BY <1>5
  <2> QED BY <1>2, <1>3, <2>1, <2>2, <2>3 DEF RatesTypes
<1>7. Clocks
  BY <1>1, <1>3 DEF Clocks
<1>8. InOrder
  BY <1>3, <1>4 DEF InOrder, Taken
<1>9. \A r \in RowSet : rates[r] = NoRate
  OBVIOUS
<1>10. \A d \in Devices : due[d] = NothingDue
  OBVIOUS
<1>11. NeverInvents
  <2> SUFFICES ASSUME NEW d \in Devices
               PROVE  SumFunction([r \in {q \in RowSet : DeviceOf[q] = d} |-> rates[r].bytes]) <= due[d].bytes
    BY DEF NeverInvents
  <2>1. rates \in [RowSet -> RateSet] /\ OneShows(rates, d, NoRate)
    BY <1>5, <1>9 DEF OneShows
  <2>2. SumFunction([r \in {q \in RowSet : DeviceOf[q] = d} |-> rates[r].bytes]) <= 0
    <3> HIDE DEF Init
    <3> QED BY <1>5, <2>1, RowsTogether
  <2> QED BY <1>5, <1>10, <2>2
<1>12. NeverTooFast
  <2> SUFFICES ASSUME NEW r \in RowSet
               PROVE  rates[r].bytes <= MaxRate * (rates[r].dt + due[DeviceOf[r]].late)
    BY DEF NeverTooFast
  <2>1. rates[r].bytes = 0 /\ rates[r].dt + due[DeviceOf[r]].late = 0
    <3>1. rates[r].bytes = 0 /\ rates[r].dt = 0
      BY <1>5, <1>9
    <3>2. due[DeviceOf[r]].late = 0
      BY <1>5, <1>10, RowsAreFinite
    <3> QED BY <3>1, <3>2
  <2>2. MaxRate * 0 = 0
    BY CountsAre
  <2> QED BY <2>1, <2>2
<1> QED BY <1>6, <1>7, <1>8, <1>11, <1>12 DEF RatesInv, Shows

\* What Measure's loop has made of the baselines and the rates when it is through.
LoopStates == [last : Baselines, rates : [RowSet -> RateSet]]

\* the rate that a call finds of a device
Found(s, d) == IF d \in DOMAIN lastIO THEN RateOf(lastIO[d], read[s][d], now[s]) ELSE NoRate

Untouched(st, d) ==
    /\ d \in DOMAIN st.last <=> d \in DOMAIN lastIO
    /\ d \in DOMAIN lastIO => st.last[d] = lastIO[d]
    /\ \A r \in RowSet : DeviceOf[r] = d => st.rates[r] = NoRate

Measured(s, st, d) ==
    /\ d \in DOMAIN read[s] /\ d \in DOMAIN st.last /\ st.last[d] = BaseOf(s, d)
    /\ OneShows(st.rates, d, Found(s, d))

Worked(s, st) ==
    /\ st \in LoopStates
    /\ \A d \in Devices : Untouched(st, d) \/ Measured(s, st, d)

\* The device of a row, and what the call has read of it.
LEMMA ReadTypes ==
    ASSUME RatesTypes, NEW s \in Scrapes, NEW d \in Devices
    PROVE  /\ d \in DOMAIN read[s] => /\ BaseOf(s, d) \in Baseline /\ read[s][d] \in Counts
                                      /\ OfCall(s, d) \in Reading
           /\ now[s] \in Nat /\ mark[s][d] \in Nat /\ takenAt[s] \in Nat
           /\ d \in DOMAIN lastIO => lastIO[d] \in Baseline /\ OfBase(d) \in Reading
           /\ counter[d] \in Counts /\ carried[d] \in Nat /\ Present(d) \in Reading
           /\ DOMAIN read[s] \in SUBSET Devices
<1>1. read[s] \in [DOMAIN read[s] -> Counts] /\ DOMAIN read[s] \in SUBSET Devices
  BY ReadoutsAre DEF RatesTypes
<1>2. now[s] \in Nat /\ mark[s][d] \in Nat /\ takenAt[s] \in Nat /\ clock \in Nat
  BY RatesAssumption DEF RatesTypes
<1>3. lastIO \in [DOMAIN lastIO -> Baseline]
  BY BaselinesAre DEF RatesTypes
<1>4. d \in DOMAIN lastIO => lastIO[d] \in Baseline /\ OfBase(d) \in Reading
  BY <1>3 DEF Baseline, OfBase, Reading
<1>5. d \in DOMAIN read[s] => /\ BaseOf(s, d) \in Baseline /\ read[s][d] \in Counts
                              /\ OfCall(s, d) \in Reading
  BY <1>1, <1>2 DEF BaseOf, Baseline, OfCall, Reading
<1>6. counter[d] \in Counts /\ carried[d] \in Nat /\ Present(d) \in Reading
  BY <1>2 DEF RatesTypes, Present, Reading
<1> QED BY <1>1, <1>2, <1>4, <1>5, <1>6

\* A turn that measures makes of a state of the loop:
LEMMA RowIs ==
    ASSUME RatesTypes, NEW s \in Scrapes, NEW st \in LoopStates, NEW r \in RowSet,
           NEW d, d = DeviceOf[r], d \in DOMAIN read[s],
           NEW x, x = IF d \in DOMAIN st.last THEN RateOf(st.last[d], read[s][d], now[s]) ELSE st.rates[r]
    PROVE  LET new == Row(s, st, r)
           IN  /\ new = [last |-> new.last, rates |-> new.rates]
               /\ DOMAIN new.last = DOMAIN st.last \cup {d} /\ new.last[d] = BaseOf(s, d)
               /\ \A e \in DOMAIN st.last : e # d => new.last[e] = st.last[e]
               /\ new.last = [e \in DOMAIN st.last \cup {d} |-> new.last[e]]
               /\ new.rates = [st.rates EXCEPT ![r] = x]
<1> DEFINE last == [e \in DOMAIN st.last \cup {d} |-> IF e = d THEN BaseOf(s, d) ELSE st.last[e]]
           rs == IF d \in DOMAIN st.last
                 THEN [st.rates EXCEPT ![r] = RateOf(st.last[d], read[s][d], now[s])] ELSE st.rates
<1>1. Row(s, st, r) = [last |-> last, rates |-> rs]
  BY DEF Row, BaseOf
<1>2. rs = [st.rates EXCEPT ![r] = x]
  <2>1. st.rates \in [RowSet -> RateSet]
    BY DEF LoopStates
  <2>2. st.rates = [st.rates EXCEPT ![r] = st.rates[r]]
    BY <2>1
  <2> QED BY <2>2
<1>3. /\ DOMAIN last = DOMAIN st.last \cup {d} /\ last[d] = BaseOf(s, d)
      /\ \A e \in DOMAIN st.last : e # d => last[e] = st.last[e]
      /\ last = [e \in DOMAIN st.last \cup {d} |-> last[e]]
  OBVIOUS
<1> HIDE DEF last, rs
<1> QED BY <1>1, <1>2, <1>3

\* What a turn gives its row: the rate that the call finds if no row of the same device
\* has had its turn, and none after that.
LEMMA TurnRates ==
    ASSUME RatesTypes, NEW s \in Scrapes, NEW st, Worked(s, st), NEW r \in RowSet,
           NEW d \in Devices, d = DeviceOf[r], d \in DOMAIN read[s],
           NEW x, x = IF d \in DOMAIN st.last THEN RateOf(st.last[d], read[s][d], now[s]) ELSE st.rates[r]
    PROVE  /\ x \in RateSet
           /\ \/ x = NoRate /\ OneShows(st.rates, d, Found(s, d))
              \/ x = Found(s, d) /\ \A q \in RowSet : DeviceOf[q] = d => st.rates[q] = NoRate
<1>1. /\ read[s][d] \in Counts /\ now[s] \in Nat
      /\ d \in DOMAIN lastIO => lastIO[d] \in Baseline
  BY ReadTypes
<1>2. NoRate \in RateSet
  BY CountsAre DEF NoRate, RateSet
<1>3. CASE Measured(s, st, d)
  <2>1. d \in DOMAIN st.last /\ st.last[d].at = now[s]
    BY <1>3 DEF Measured, BaseOf
  <2>2. x = NoRate
    BY <1>1, <2>1, NoTimeNoRate
  <2> QED BY <1>2, <1>3, <2>2 DEF Measured
<1>4. CASE Untouched(st, d) /\ d \in DOMAIN lastIO
  <2>1. x = RateOf(lastIO[d], read[s][d], now[s])
    BY <1>4 DEF Untouched
  <2>2. x \in RateSet
    BY <1>1, <1>4, <2>1, RateIsOne
  <2> QED BY <1>4, <2>1, <2>2 DEF Untouched, Found
<1>5. CASE Untouched(st, d) /\ d \notin DOMAIN lastIO
  BY <1>2, <1>5 DEF Untouched, Found
<1> QED BY <1>3, <1>4, <1>5 DEF Worked

\* One turn.
LEMMA TurnWorks ==
    ASSUME RatesTypes, NEW s \in Scrapes, NEW st, Worked(s, st), NEW r \in RowSet
    PROVE  Worked(s, Row(s, st, r))
<1>1. PICK d \in Devices : d = DeviceOf[r]
  BY RowsAreFinite
<1>2. CASE d \notin DOMAIN read[s]
  BY <1>1, <1>2 DEF Row
<1>3. CASE d \in DOMAIN read[s]
  <2>1. PICK x : x = IF d \in DOMAIN st.last THEN RateOf(st.last[d], read[s][d], now[s]) ELSE st.rates[r]
    OBVIOUS
  <2>2. PICK new : new = Row(s, st, r)
    OBVIOUS
  <2>3. st \in LoopStates /\ st.rates \in [RowSet -> RateSet] /\ st.last \in Baselines
    BY DEF Worked, LoopStates
  <2>4. /\ new = [last |-> new.last, rates |-> new.rates]
        /\ DOMAIN new.last = DOMAIN st.last \cup {d} /\ new.last[d] = BaseOf(s, d)
        /\ \A e \in DOMAIN st.last : e # d => new.last[e] = st.last[e]
        /\ new.last = [e \in DOMAIN st.last \cup {d} |-> new.last[e]]
        /\ new.rates = [st.rates EXCEPT ![r] = x]
    BY <1>1, <1>3, <2>1, <2>2, <2>3, RowIs
  <2>5. /\ x \in RateSet
        /\ \/ x = NoRate /\ OneShows(st.rates, d, Found(s, d))
           \/ x = Found(s, d) /\ \A q \in RowSet : DeviceOf[q] = d => st.rates[q] = NoRate
    BY <1>1, <1>3, <2>1, TurnRates
  <2>6. /\ new.rates \in [RowSet -> RateSet] /\ new.rates[r] = x
        /\ \A q \in RowSet : q # r => new.rates[q] = st.rates[q]
    BY <2>3, <2>4, <2>5
  <2>7. BaseOf(s, d) \in Baseline
    BY <1>3, ReadTypes
  <2>8. new.last \in Baselines
    <3>1. st.last \in [DOMAIN st.last -> Baseline] /\ DOMAIN st.last \in SUBSET Devices
      BY <2>3, BaselinesAre
    <3>2. \A e \in DOMAIN st.last \cup {d} : new.last[e] \in Baseline
      BY <2>4, <2>7, <3>1
    <3>3. new.last \in [DOMAIN new.last -> Baseline] /\ DOMAIN new.last \in SUBSET Devices
      BY <2>4, <3>1, <3>2
    <3> QED BY <3>3, BaselinesAre
  <2>9. new \in LoopStates
    <3>1. PICK a, b : a = new.last /\ b = new.rates
      OBVIOUS
    <3>2. new = [last |-> a, rates |-> b] /\ a \in Baselines /\ b \in [RowSet -> RateSet]
      BY <2>4, <2>6, <2>8, <3>1
    <3> QED BY <3>2 DEF LoopStates
  <2>10. OneShows(new.rates, d, Found(s, d))
    <3>1. PICK f : f = Found(s, d)
      OBVIOUS
    <3>2. \A q \in RowSet : DeviceOf[q] = d => new.rates[q] = NoRate \/ new.rates[q] = f
      BY <2>5, <2>6, <3>1 DEF OneShows
    <3>3. \A q \in RowSet : \A p \in RowSet :
             DeviceOf[q] = d /\ DeviceOf[p] = d /\ new.rates[q] # NoRate /\ new.rates[p] # NoRate => q = p
      BY <2>5, <2>6 DEF OneShows
    <3> QED BY <3>1, <3>2, <3>3 DEF OneShows
  <2>11. Measured(s, new, d)
    BY <1>3, <2>4, <2>10 DEF Measured
  <2>12. ASSUME NEW e \in Devices, e # d PROVE Untouched(new, e) \/ Measured(s, new, e)
    <3>1. \A q \in RowSet : DeviceOf[q] = e => new.rates[q] = st.rates[q]
      BY <1>1, <2>6, <2>12
    <3>2. e \in DOMAIN new.last <=> e \in DOMAIN st.last
      BY <2>4, <2>12
    <3>3. e \in DOMAIN st.last => new.last[e] = st.last[e]
      BY <2>4, <2>12
    <3>4. CASE Untouched(st, e)
      BY <3>1, <3>2, <3>3, <3>4 DEF Untouched
    <3>5. CASE Measured(s, st, e)
      <4>1. OneShows(new.rates, e, Found(s, e))
        BY <3>1, <3>5 DEF Measured, OneShows
      <4> QED BY <3>2, <3>3, <3>5, <4>1 DEF Measured
    <3> QED BY <3>4, <3>5 DEF Worked
  <2>13. \A e \in Devices : Untouched(new, e) \/ Measured(s, new, e)
    BY <2>11, <2>12
  <2> QED BY <2>2, <2>9, <2>13 DEF Worked

<1> QED BY <1>2, <1>3

\* The loop as a whole.
Loop(s, shown) ==
    FoldLeft(LAMBDA acc, r : IF r \in shown THEN Row(s, acc, r) ELSE acc, LoopState, Rows)

\* By induction over the rows that the loop has had.
LEMMA LoopWorks ==
    ASSUME RatesTypes, NEW s \in Scrapes, NEW shown
    PROVE  Worked(s, Loop(s, shown))
<1> DEFINE n == Len(Rows)
           D == 1..n
           V == {st \in LoopStates : Worked(s, st)}
           Turn(st, r) == IF r \in shown THEN Row(s, st, r) ELSE st
           Step(g) == [I \in SUBSET D |->
                         IF I = {} THEN LoopState
                         ELSE LET x == Max(I) IN Turn(g[I \ {x}], Rows[x])]
           F == [q \in V \X D |-> Turn(q[1], Rows[q[2]])]
           c == [I \in SUBSET D |-> Max(I)]
<1>1. n \in Nat /\ DOMAIN Rows = D /\ \A i \in D : Rows[i] \in RowSet
  BY RowsAreFinite
<1>2. Loop(s, shown) = (CHOOSE g : g = Step(g))[D]
  BY <1>1 DEF Loop, FoldLeft, MapThenFoldSet, Max
<1>3. \A st \in V : \A x \in D : Turn(st, Rows[x]) \in V
  BY <1>1, TurnWorks DEF Worked
<1>4. F \in [V \X D -> V] /\ \A st \in V, x \in D : F[<<st, x>>] = Turn(st, Rows[x])
  <2> HIDE DEF V, Turn
  <2> QED BY <1>3
<1>5. \A I \in SUBSET D : I # {} => c[I] \in I /\ c[I] = Max(I)
  BY <1>1, LastTurn
<1>6. LoopState \in V
  <2>1. NoRate \in RateSet
    BY CountsAre DEF NoRate, RateSet
  <2>2. LoopState.last = lastIO /\ LoopState.rates = [r \in RowSet |-> NoRate]
    BY DEF LoopState
  <2>3. LoopState \in LoopStates
    <3>1. [r \in RowSet |-> NoRate] \in [RowSet -> RateSet] /\ lastIO \in Baselines
      BY <2>1 DEF RatesTypes
    <3> QED BY <3>1 DEF LoopStates, LoopState
  <2>4. \A d \in Devices : Untouched(LoopState, d)
    BY <2>2 DEF Untouched
  <2> QED BY <2>3, <2>4 DEF Worked
<1> HIDE DEF F, c, V, Turn, n
<1>7. PICK g \in [SUBSET D -> V] : Folds(g, D, LoopState, F, c)
  <2>1. Chooses(c, D)
    BY <1>5 DEF Chooses
  <2>2. IsFiniteSet(D)
    BY <1>1, FS_Interval
  <2> HIDE DEF D
  <2> QED BY <1>4, <1>6, <2>1, <2>2, FoldExists
<1>8. g = Step(g)
  <2>1. ASSUME NEW I \in SUBSET D
        PROVE  g[I] = IF I = {} THEN LoopState ELSE Turn(g[I \ {Max(I)}], Rows[Max(I)])
    <3>1. CASE I = {}
      BY <1>7, <3>1 DEF Folds
    <3>2. CASE I # {}
      <4>1. c[I] \in D /\ I \ {c[I]} \in SUBSET D /\ c[I] = Max(I)
        BY <1>5, <3>2
      <4>2. g[I \ {c[I]}] \in V
        BY <4>1
      <4>3. g[I] = F[<<g[I \ {c[I]}], c[I]>>]
        BY <1>7, <3>2 DEF Folds
      <4> HIDE DEF D
      <4> QED BY <1>4, <3>2, <4>1, <4>2, <4>3
    <3> QED BY <3>1, <3>2
  <2>2. g = [I \in SUBSET D |-> g[I]]
    OBVIOUS
  <2>3. [I \in SUBSET D |-> g[I]] = Step(g)
    BY <2>1
  <2> QED BY <2>2, <2>3
<1> DEFINE h == CHOOSE k : k = Step(k)
<1>9. h = Step(h)
  BY <1>8
<1> HIDE DEF h
<1>10. \A I \in SUBSET D : h[I] = IF I = {} THEN LoopState ELSE Turn(h[I \ {Max(I)}], Rows[Max(I)])
  <2>1. \A I \in SUBSET D : Step(h)[I] = IF I = {} THEN LoopState ELSE Turn(h[I \ {Max(I)}], Rows[Max(I)])
    OBVIOUS
  <2>2. \A I \in SUBSET D : h[I] = Step(h)[I]
    BY <1>9
  <2> HIDE DEF Step
  <2> QED BY <2>1, <2>2
<1> HIDE DEF Step
<1> DEFINE T == {i \in Nat : i <= n => h[1..i] \in V}
<1>11. 0 \in T
  <2>1. 1..0 = {}
    OBVIOUS
  <2>2. h[{}] = LoopState
    BY <1>10
  <2> QED BY <1>6, <2>1, <2>2
<1>12. ASSUME NEW i \in T PROVE i + 1 \in T
  <2>1. SUFFICES ASSUME i + 1 <= n PROVE h[1..(i + 1)] \in V
    BY <1>12
  <2>2. PICK k \in 1..n : k = i + 1
    BY <1>1, <2>1, <1>12
  <2>3. 1..k \in SUBSET D /\ 1..k # {} /\ Max(1..k) = k /\ (1..k) \ {k} = 1..i
    <3>1. k - 1 = i
      BY <2>2
    <3> QED BY <1>1, <2>2, <3>1, FirstTurns
  <2>4. h[1..i] \in V
    BY <1>1, <2>1, <1>12
  <2>5. h[1..k] = Turn(h[1..i], Rows[k])
    BY <1>10, <2>3
  <2> QED BY <1>3, <2>2, <2>4, <2>5
<1>13. n \in T
  <2>1. T \in SUBSET Nat
    OBVIOUS
  <2> HIDE DEF T
  <2> QED BY <1>1, <1>11, <1>12, <2>1, Induction
<1>14. h[D] \in V
  BY <1>1, <1>13
<1>15. Worked(s, h[D])
  BY <1>14 DEF V
<1> QED BY <1>2, <1>15 DEF h


\* Neither the clock nor a reading changes what the rates show.
LEMMA RatesKept ==
    ASSUME Shows, UNCHANGED <<rates, due>>
    PROVE  Shows'
BY DEF Shows, NeverInvents, NeverTooFast

\* What is held of a device is a reading.
LEMMA TakenAre ==
    ASSUME RatesTypes, NEW d \in Devices, NEW x \in Taken(d)
    PROVE  x \in Reading
<1>1. CASE \E e \in DOMAIN lastIO \cap {d} : x = OfBase(e)
  BY <1>1, ReadTypes, RatesAssumption DEF Scrapes
<1>2. CASE \E s \in Scrapes : d \in DOMAIN read[s] /\ x = OfCall(s, d)
  BY <1>2, ReadTypes
<1> QED BY <1>1, <1>2 DEF Taken

\* Readings stay in order as long as none is added, and what they reach only grows.
LEMMA OrderKept ==
    ASSUME RatesTypes, InOrder,
           \A d \in Devices : Taken(d)' \subseteq Taken(d),
           \A d \in Devices : \A x \in Reading : Reaches(x, Present(d)) => Reaches(x, Present(d)')
    PROVE  InOrder'
<1> SUFFICES ASSUME NEW d \in Devices, NEW x \in Taken(d)'
             PROVE  Reaches(x, Present(d)') /\ \A y \in Taken(d)' : Ordered(x, y)
  BY DEF InOrder, Reaches, Ordered, Lacks
<1>1. x \in Taken(d) /\ x \in Reading
  BY TakenAre
<1>2. Reaches(x, Present(d)) /\ \A y \in Taken(d) : Ordered(x, y)
  BY <1>1 DEF InOrder
<1> QED BY <1>1, <1>2

\* Reading the counters keeps the invariant: the reading is the present one.
LEMMA RatesRead ==
    ASSUME RatesInv, NEW s \in Scrapes, ReadCounters(s)
    PROVE  RatesInv'
<1> USE DEF RatesInv
<1>1. PICK D \in SUBSET Devices : read' = [read EXCEPT ![s] = [d \in D |-> counter[d]]]
  BY DEF ReadCounters
<1>2. /\ UNCHANGED <<clock, counter, carried, resets, lastIO, now, rates, due>>
      /\ mark' = [mark EXCEPT ![s] = carried] /\ takenAt' = [takenAt EXCEPT ![s] = clock]
      /\ pc' = [pc EXCEPT ![s] = "read"] /\ pc[s] = "idle"
  BY DEF ReadCounters, environment
<1>3. \A d \in Devices : counter[d] \in Counts /\ carried[d] \in Nat
  BY DEF RatesTypes
<1>4. /\ read'[s] = [d \in D |-> counter[d]] /\ DOMAIN read'[s] = D /\ mark'[s] = carried
      /\ takenAt'[s] = clock /\ \A d \in D : read'[s][d] = counter[d]
      /\ \A t \in Scrapes : t # s => /\ read'[t] = read[t] /\ mark'[t] = mark[t]
                                     /\ takenAt'[t] = takenAt[t] /\ pc'[t] = pc[t]
      /\ pc'[s] = "read"
  BY <1>1, <1>2 DEF RatesTypes
<1>5. RatesTypes'
  <2>1. [d \in D |-> counter[d]] \in Readouts
    BY <1>3, ReadoutsAre
  <2>2. read' \in [Scrapes -> Readouts]
    BY <1>1, <2>1 DEF RatesTypes
  <2>3. mark' \in [Scrapes -> [Devices -> Nat]] /\ takenAt' \in [Scrapes -> 0..MaxClock]
    BY <1>2 DEF RatesTypes
  <2>4. pc' \in [Scrapes -> {"idle", "read", "stamped", "done"}]
    BY <1>2 DEF RatesTypes
  <2> QED BY <1>2, <2>2, <2>3, <2>4 DEF RatesTypes
<1>6. Clocks'
  <2>1. clock <= clock
    BY RatesAssumption DEF RatesTypes
  <2> QED BY <1>2, <1>4, <2>1 DEF Clocks
<1>7. InOrder'
  <2> SUFFICES ASSUME NEW d \in Devices, NEW x \in Taken(d)'
               PROVE  Reaches(x, Present(d)) /\ \A y \in Taken(d)' : Ordered(x, y)
    BY <1>2 DEF InOrder, Reaches, Ordered, Lacks, Present
  <2>1. PICK p \in Reading : p = Present(d)
    BY ReadTypes
  <2>2. ASSUME NEW y \in Taken(d)'
        PROVE  y = p \/ y \in Taken(d)
    <3>1. CASE \E e \in DOMAIN lastIO \cap {d} : y = OfBase(e)'
      BY <1>2, <3>1 DEF Taken, OfBase
    <3>2. CASE \E t \in Scrapes : d \in DOMAIN read'[t] /\ y = OfCall(t, d)'
      <4>1. PICK t \in Scrapes : d \in DOMAIN read'[t] /\ y = OfCall(t, d)'
        BY <3>2
      <4>2. CASE t = s
        <5>1. read'[s][d] = counter[d] /\ mark'[s][d] = carried[d] /\ takenAt'[s] = clock
          BY <1>4, <4>1, <4>2
        <5> QED BY <2>1, <4>1, <4>2, <5>1 DEF OfCall, Present
      <4>3. CASE t # s
        BY <1>4, <4>1, <4>3 DEF Taken, OfCall
      <4> QED BY <4>2, <4>3
    <3> QED BY <1>2, <3>1, <3>2 DEF Taken
  <2>3. Reaches(p, p)
    <3>1. p.mark \in Nat /\ p.at \in Nat /\ Lacks(p) \in Int
      BY ReadingIs
    <3>2. p.at - p.at = 0 /\ p.mark - p.mark = 0
      BY <3>1
    <3>3. MaxRate * (p.at - p.at) = 0
      BY <3>2, Faster
    <3> QED BY <3>1, <3>2, <3>3 DEF Reaches
  <2>4. ASSUME NEW y \in Taken(d)'
        PROVE  y \in Reading /\ Reaches(y, p)
    BY <2>1, <2>2, <2>3, TakenAre DEF InOrder
  <2>5. ASSUME NEW y \in Taken(d)'
        PROVE  Ordered(x, y)
    <3>1. CASE y = p
      BY <2>1, <2>4, <3>1, PresentIsLast
    <3>2. CASE x = p
      BY <2>1, <2>4, <3>2, PresentIsLast
    <3>3. CASE x \in Taken(d) /\ y \in Taken(d)
      BY <3>3 DEF InOrder
    <3> QED BY <2>2, <3>1, <3>2, <3>3
  <2> QED BY <2>1, <2>4, <2>5
<1>8. Shows'
  BY <1>2, RatesKept
<1> QED BY <1>5, <1>6, <1>7, <1>8

\* So does taking the time.
LEMMA RatesStamp ==
    ASSUME RatesInv, NEW s \in Scrapes, Stamp(s)
    PROVE  RatesInv'
<1> USE DEF RatesInv
<1>1. /\ UNCHANGED <<clock, counter, carried, resets, lastIO, read, mark, takenAt, rates, due>>
      /\ now' = [now EXCEPT ![s] = clock] /\ pc' = [pc EXCEPT ![s] = "stamped"] /\ pc[s] = "read"
  BY DEF Stamp, environment
<1>2. pc'[s] = "stamped" /\ now'[s] = clock
      /\ \A t \in Scrapes : t # s => pc'[t] = pc[t] /\ now'[t] = now[t]
  BY <1>1 DEF RatesTypes
<1>3. RatesTypes'
  <2>1. now' \in [Scrapes -> 0..MaxClock] /\ pc' \in [Scrapes -> {"idle", "read", "stamped", "done"}]
    BY <1>1 DEF RatesTypes
  <2> QED BY <1>1, <2>1 DEF RatesTypes
<1>4. Clocks'
  BY <1>1, <1>2 DEF Clocks
<1>5. InOrder'
  BY <1>1 DEF InOrder, Taken, OfBase, OfCall, Present, Reaches, Ordered, Lacks
<1>6. Shows'
  BY <1>1, RatesKept
<1> QED BY <1>3, <1>4, <1>5, <1>6

\* A remainder is no more than the number, and the number itself if that is small.
LEMMA Wraps ==
    ASSUME NEW n \in Nat
    PROVE  /\ n % Width \in Counts /\ n % Width <= n
           /\ n < Width => n % Width = n
<1>1. Width \in Nat /\ Width > 0
  BY CountsAre
<1>2. n % Width \in 0..(Width - 1)
  BY <1>1
<1>3. PICK k : k = n \div Width
  OBVIOUS
<1>4. k \in Nat /\ n = Width * k + (n % Width)
  BY <1>1, <1>3
<1>5. PICK p : p = Width * k
  OBVIOUS
<1>6. p \in Nat
  BY <1>1, <1>4, <1>5
<1>7. n < Width => n % Width = n
  BY <1>1
<1> QED BY <1>2, <1>4, <1>5, <1>6, <1>7 DEF Counts

\* As time passes a device carries no more than it can, and its counter lacks no less.
LEMMA Passes ==
    ASSUME NEW x \in Reading, NEW p \in Reading, NEW n \in Reading, Reaches(x, p),
           NEW b \in 0..MaxRate, n.at = p.at + 1, n.mark = p.mark + b, n.bytes <= p.bytes + b
    PROVE  Reaches(x, n)
<1>1. /\ x.bytes \in Nat /\ x.mark \in Nat /\ x.at \in Nat /\ p.bytes \in Nat /\ p.mark \in Nat
      /\ p.at \in Nat /\ n.bytes \in Nat /\ MaxRate \in Nat
  BY ReadingIs, CountsAre
<1>2. /\ x.at <= p.at /\ x.mark <= p.mark /\ x.mark - x.bytes <= p.mark - p.bytes
      /\ p.mark - x.mark <= MaxRate * (p.at - x.at)
  BY DEF Reaches, Lacks
<1>3. PICK dt \in Nat : dt = p.at - x.at
  BY <1>1, <1>2
<1>4. n.at - x.at = dt + 1
  BY <1>1, <1>3
<1>5. MaxRate * (dt + 1) = MaxRate * dt + MaxRate /\ MaxRate * dt \in Nat
  BY <1>3, Faster
<1>6. PICK c \in Nat : c = MaxRate * dt
  BY <1>5
<1>7. p.mark - x.mark <= c
  BY <1>2, <1>3, <1>6
<1>8. n.mark - x.mark <= c + MaxRate
  BY <1>1, <1>7
<1>9. n.mark - x.mark <= MaxRate * (n.at - x.at)
  BY <1>4, <1>5, <1>6, <1>8
<1>10. x.mark - x.bytes <= n.mark - n.bytes
  BY <1>1, <1>2
<1>11. x.at <= n.at /\ x.mark <= n.mark
  BY <1>1, <1>2
<1> QED BY <1>9, <1>10, <1>11 DEF Reaches, Lacks

\* So a tick keeps the invariant.
LEMMA RatesTick ==
    ASSUME RatesInv, Tick
    PROVE  RatesInv'
<1> USE DEF RatesInv
<1>1. /\ UNCHANGED <<resets, lastIO, pc, read, mark, takenAt, now, rates, due>>
      /\ clock < MaxClock /\ clock' = clock + 1
  BY DEF Tick, reading
<1>2. PICK b \in [Devices -> 0..MaxRate] :
          /\ counter' = [d \in Devices |-> (counter[d] + b[d]) % Width]
          /\ carried' = [d \in Devices |-> carried[d] + b[d]]
  BY DEF Tick
<1>3. \A d \in Devices : /\ counter[d] \in Nat /\ counter[d] \in Counts
                         /\ carried[d] \in Nat /\ b[d] \in Nat /\ b[d] \in 0..MaxRate
  <2>1. MaxRate \in Nat
    BY RatesAssumption
  <2>2. \A d \in Devices : counter[d] \in Counts /\ carried[d] \in Nat
    BY DEF RatesTypes
  <2> QED BY <2>1, <2>2, CountIsNumber
<1>4. \A d \in Devices : /\ counter[d] + b[d] \in Nat
                         /\ counter'[d] = (counter[d] + b[d]) % Width
                         /\ carried'[d] = carried[d] + b[d]
  BY <1>2, <1>3
<1>5. \A d \in Devices : counter'[d] \in Counts /\ carried'[d] \in Nat
                         /\ counter'[d] <= counter[d] + b[d]
  BY <1>3, <1>4, Wraps
<1>6. RatesTypes'
  <2>1. counter' \in [Devices -> Counts] /\ carried' \in [Devices -> Nat]
    BY <1>2, <1>4, <1>5
  <2>2. MaxClock \in Nat /\ clock \in 0..MaxClock
    BY RatesAssumption DEF RatesTypes
  <2>3. clock' \in 0..MaxClock
    BY <1>1, <2>2
  <2> QED BY <1>1, <2>1, <2>3 DEF RatesTypes
<1>7. clock \in Nat
  BY RatesAssumption DEF RatesTypes
<1>8. Clocks'
  <2>1. \A s \in Scrapes : takenAt[s] <= clock'
    <3>1. \A s \in Scrapes : takenAt[s] \in Nat /\ takenAt[s] <= clock
      BY RatesAssumption DEF RatesTypes, Clocks
    <3> QED BY <1>1, <1>7, <3>1
  <2> QED BY <1>1, <2>1 DEF Clocks
<1>9. InOrder'
  <2>1. \A d \in Devices : Taken(d)' = Taken(d)
    BY <1>1 DEF Taken, OfBase, OfCall
  <2>2. ASSUME NEW d \in Devices, NEW x \in Reading, Reaches(x, Present(d))
        PROVE  Reaches(x, Present(d)')
    <3>1. PICK p \in Reading : p = Present(d)
      BY <1>3, <1>7 DEF Present, Reading
    <3>2. Present(d)' \in Reading
      BY <1>1, <1>5, <1>7 DEF Present, Reading
    <3>3. PICK n \in Reading : n = Present(d)'
      BY <3>2
    <3>4. n.at = p.at + 1 /\ n.mark = p.mark + b[d] /\ n.bytes <= p.bytes + b[d]
      BY <1>1, <1>4, <1>5, <3>1, <3>3 DEF Present
    <3> QED BY <1>3, <2>2, <3>1, <3>3, <3>4, Passes
  <2> QED BY <2>1, <2>2, OrderKept
<1>10. Shows'
  BY <1>1, RatesKept
<1> QED BY <1>6, <1>8, <1>9, <1>10

\* So it does when a device is replaced.
LEMMA RatesReset ==
    ASSUME RatesInv, NEW e \in Devices, Reset(e)
    PROVE  RatesInv'
<1> USE DEF RatesInv
<1>1. /\ UNCHANGED <<clock, carried, lastIO, pc, read, mark, takenAt, now, rates, due>>
      /\ resets < MaxResets /\ resets' = resets + 1 /\ counter' = [counter EXCEPT ![e] = 0]
  BY DEF Reset, reading
<1>2. \A d \in Devices : /\ counter[d] \in Nat /\ counter[d] \in Counts /\ carried[d] \in Nat
                         /\ counter'[d] = IF d = e THEN 0 ELSE counter[d]
  BY <1>1, CountsAre DEF RatesTypes
<1>3. RatesTypes'
  <2>1. MaxResets \in Nat /\ resets \in 0..MaxResets
    BY RatesAssumption DEF RatesTypes
  <2>2. resets' \in 0..MaxResets
    BY <1>1, <2>1
  <2>3. counter' \in [Devices -> Counts]
    BY <1>1, CountsAre DEF RatesTypes
  <2> QED BY <1>1, <2>2, <2>3 DEF RatesTypes
<1>4. Clocks'
  BY <1>1 DEF Clocks
<1>5. InOrder'
  <2>1. \A d \in Devices : Taken(d)' = Taken(d)
    BY <1>1 DEF Taken, OfBase, OfCall
  <2>2. ASSUME NEW d \in Devices, NEW x \in Reading, Reaches(x, Present(d))
        PROVE  Reaches(x, Present(d)')
    <3>1. PICK p, n : p = Present(d) /\ n = Present(d)'
      OBVIOUS
    <3>2. /\ p.bytes = counter[d] /\ p.mark = carried[d] /\ p.at = clock
          /\ n.bytes = counter'[d] /\ n.mark = carried[d] /\ n.at = clock
      BY <1>1, <3>1 DEF Present
    <3>3. x.bytes \in Nat /\ x.mark \in Nat /\ p.mark \in Nat /\ p.bytes \in Nat /\ n.bytes \in Nat
          /\ n.bytes <= p.bytes /\ n.mark = p.mark /\ n.at = p.at
      BY <1>2, <3>2, ReadingIs
    <3>4. x.mark - x.bytes <= p.mark - p.bytes
      BY <2>2, <3>1 DEF Reaches, Lacks
    <3>5. x.mark - x.bytes <= n.mark - n.bytes
      BY <3>3, <3>4
    <3> QED BY <2>2, <3>1, <3>3, <3>5 DEF Reaches, Lacks
  <2> QED BY <2>1, <2>2, OrderKept
<1>6. Shows'
  BY <1>1, RatesKept
<1> QED BY <1>3, <1>4, <1>5, <1>6

\* At most one row of a device has a rate when the loop is through, the one that the call
\* finds, and only if it has read the device's counter.
LEMMA LoopFits ==
    ASSUME RatesTypes, NEW s \in Scrapes, NEW st, Worked(s, st), NEW d \in Devices
    PROVE  OneShows(st.rates, d, IF d \in DOMAIN read[s] THEN Found(s, d) ELSE NoRate)
<1>1. CASE Untouched(st, d)
  BY <1>1 DEF Untouched, OneShows
<1>2. CASE Measured(s, st, d)
  BY <1>2 DEF Measured
<1> QED BY <1>1, <1>2 DEF Worked

\* The rate that a call finds is no more than was carried since the baseline, nor than can
\* be, unless the call was overtaken.
LEMMA FoundFits ==
    ASSUME RatesTypes, Clocks, InOrder, NEW s \in Scrapes, pc[s] = "stamped", NEW d \in Devices,
           NEW x, x = IF d \in DOMAIN read[s] THEN Found(s, d) ELSE NoRate
    PROVE  /\ x \in RateSet /\ Due(s, d) \in DueSet
           /\ ~Due(s, d).overtaken =>
                 /\ x.bytes <= Due(s, d).bytes
                 /\ x.bytes <= MaxRate * (x.dt + Due(s, d).late)
<1>1. /\ now[s] \in Nat /\ mark[s][d] \in Nat /\ takenAt[s] \in Nat
      /\ d \in DOMAIN lastIO => lastIO[d] \in Baseline /\ OfBase(d) \in Reading
      /\ d \in DOMAIN read[s] => read[s][d] \in Counts /\ OfCall(s, d) \in Reading
  BY ReadTypes
<1>2. /\ NoRate \in RateSet /\ NoRate.bytes = 0 /\ NoRate.dt = 0
      /\ NothingDue \in DueSet /\ NothingDue.bytes = 0 /\ NothingDue.late = 0
  BY CountsAre DEF NoRate, RateSet, NothingDue, DueSet
<1>3. CASE d \notin DOMAIN lastIO \/ d \notin DOMAIN read[s]
  <2>1. x = NoRate /\ Due(s, d) = NothingDue
    BY <1>3 DEF Found, Due
  <2>2. x.dt + Due(s, d).late = 0 /\ MaxRate * 0 = 0
    BY <1>2, <2>1, Faster
  <2> QED BY <1>2, <2>1, <2>2
<1>4. CASE d \in DOMAIN lastIO /\ d \in DOMAIN read[s]
  <2>1. PICK prev \in Baseline : prev = lastIO[d]
    BY <1>1, <1>4
  <2>2. PICK b \in Counts : b = read[s][d]
    BY <1>1, <1>4
  <2>3. PICK p \in Reading : p = OfBase(d)
    BY <1>1, <1>4
  <2>4. PICK q \in Reading : q = OfCall(s, d)
    BY <1>1, <1>4
  <2>5. /\ p.bytes = prev.bytes /\ p.mark = prev.mark /\ p.at = prev.takenAt
        /\ q.bytes = b /\ q.mark = mark[s][d] /\ q.at = takenAt[s]
    BY <2>1, <2>2, <2>3, <2>4 DEF OfBase, OfCall
  <2>6. p \in Taken(d) /\ q \in Taken(d)
    BY <1>4, <2>3, <2>4 DEF Taken
  <2>7. Ordered(p, q) /\ Ordered(q, p)
    BY <2>6 DEF InOrder
  <2>8. prev.takenAt <= prev.at /\ takenAt[s] <= now[s]
    BY <1>4, <2>1 DEF Clocks
  <2>9. PICK t \in Int : t = q.mark - p.mark
    BY ReadingIs
  <2>10. PICK o \in BOOLEAN : o = (p.at >= q.at /\ Lacks(q) < Lacks(p))
    OBVIOUS
  <2>11. PICK l \in Nat : l = prev.at - prev.takenAt
    <3>1. prev.at \in Nat /\ prev.takenAt \in Nat
      BY DEF Baseline
    <3> QED BY <2>8, <3>1
  <2>12. Due(s, d) = [bytes |-> Max({0, t}), late |-> l, overtaken |-> o]
    <3>1. Overtaken(s, d) = o
      BY <2>1, <2>2, <2>5, <2>10 DEF Overtaken, Lacks
    <3>2. mark[s][d] - lastIO[d].mark = t /\ lastIO[d].at - lastIO[d].takenAt = l
      BY <2>1, <2>5, <2>9, <2>11
    <3> QED BY <1>4, <3>1, <3>2 DEF Due
  <2>13. x = RateOf(prev, b, now[s])
    BY <1>4, <2>1, <2>2 DEF Found
  <2>14. x \in RateSet
    BY <1>1, <2>13, RateIsOne
  <2>15. Max({0, t}) \in Nat
    BY <2>9, GreatestOf
  <2>16. Due(s, d) \in DueSet
    <3>1. PICK m \in Nat : m = Max({0, t})
      BY <2>15
    <3> QED BY <2>12, <3>1 DEF DueSet
  <2>17. Due(s, d).bytes = Max({0, t}) /\ Due(s, d).late = l /\ Due(s, d).overtaken = o
    BY <2>12
  <2>18. ~o => x.bytes <= Max({0, t}) /\ x.bytes <= MaxRate * (x.dt + (prev.at - prev.takenAt))
    BY <1>1, <2>5, <2>7, <2>8, <2>9, <2>10, <2>13, RateFits
  <2> QED BY <2>11, <2>14, <2>16, <2>17, <2>18
<1> QED BY <1>3, <1>4

\* The new baselines are readings that the call has made.
LEMMA RatesMeasure ==
    ASSUME RatesInv, NEW s \in Scrapes, Measure(s)
    PROVE  RatesInv'
<1> USE DEF RatesInv
<1>1. PICK shown \in SUBSET RowSet :
          lastIO' = Loop(s, shown).last /\ rates' = Loop(s, shown).rates
  BY DEF Measure, Loop
<1>2. PICK st : st = Loop(s, shown) /\ Worked(s, st)
  BY LoopWorks
<1>3. lastIO' = st.last /\ rates' = st.rates
  BY <1>1, <1>2
<1>4. /\ pc[s] = "stamped" /\ due' = [d \in Devices |-> Due(s, d)]
      /\ pc' = [pc EXCEPT ![s] = IF s = Poller THEN "idle" ELSE "done"]
      /\ read' = [read EXCEPT ![s] = [d \in {} |-> 0]]
      /\ mark' = [mark EXCEPT ![s] = Zero] /\ now' = [now EXCEPT ![s] = 0]
      /\ takenAt' = [takenAt EXCEPT ![s] = 0]
      /\ UNCHANGED <<clock, counter, carried, resets>>
  BY DEF Measure, environment
<1>5. /\ pc'[s] \in {"idle", "done"} /\ DOMAIN read'[s] = {} /\ takenAt'[s] = 0
      /\ \A t \in Scrapes : t # s => /\ pc'[t] = pc[t] /\ read'[t] = read[t] /\ mark'[t] = mark[t]
                                     /\ takenAt'[t] = takenAt[t] /\ now'[t] = now[t]
  BY <1>4 DEF RatesTypes
<1>6. st.last \in Baselines /\ st.rates \in [RowSet -> RateSet]
  BY <1>2 DEF Worked, LoopStates
<1>7. \A d \in Devices : Due(s, d) \in DueSet
  BY <1>4, FoundFits
<1>8. RatesTypes'
  <2>1. due' \in [Devices -> DueSet]
    BY <1>4, <1>7
  <2>2. [d \in {} |-> 0] \in Readouts
    BY ReadoutsAre
  <2>3. read' \in [Scrapes -> Readouts]
    BY <1>4, <2>2 DEF RatesTypes
  <2>4. Zero \in [Devices -> Nat]
    BY DEF Zero
  <2>5. mark' \in [Scrapes -> [Devices -> Nat]]
    BY <1>4, <2>4 DEF RatesTypes
  <2>6. MaxClock \in Nat
    BY RatesAssumption
  <2>7. now' \in [Scrapes -> 0..MaxClock] /\ takenAt' \in [Scrapes -> 0..MaxClock]
    BY <1>4, <2>6 DEF RatesTypes
  <2>8. pc' \in [Scrapes -> {"idle", "read", "stamped", "done"}]
    BY <1>4 DEF RatesTypes
  <2> QED BY <1>3, <1>4, <1>6, <2>1, <2>3, <2>5, <2>7, <2>8 DEF RatesTypes
<1>9. \A d \in DOMAIN lastIO' : \/ d \in DOMAIN lastIO /\ lastIO'[d] = lastIO[d]
                                \/ d \in DOMAIN read[s] /\ lastIO'[d] = BaseOf(s, d)
  <2>1. ASSUME NEW d \in DOMAIN st.last
        PROVE  \/ d \in DOMAIN lastIO /\ st.last[d] = lastIO[d]
               \/ d \in DOMAIN read[s] /\ st.last[d] = BaseOf(s, d)
    <3>1. d \in Devices
      BY <1>6, BaselinesAre
    <3> QED BY <1>2, <3>1 DEF Worked, Untouched, Measured
  <2> QED BY <1>3, <2>1
<1>10. Clocks'
  <2>1. \A t \in Scrapes : takenAt'[t] <= clock /\ (pc'[t] = "stamped" => takenAt'[t] <= now'[t])
    <3>1. clock \in Nat
      BY RatesAssumption DEF RatesTypes
    <3> QED BY <1>5, <3>1 DEF Clocks
  <2>2. ASSUME NEW d \in DOMAIN lastIO' PROVE lastIO'[d].takenAt <= lastIO'[d].at
    <3>1. BaseOf(s, d).takenAt = takenAt[s] /\ BaseOf(s, d).at = now[s]
      BY DEF BaseOf
    <3>2. takenAt[s] <= now[s]
      BY <1>4 DEF Clocks
    <3> QED BY <1>9, <3>1, <3>2 DEF Clocks
  <2> QED BY <1>4, <2>1, <2>2 DEF Clocks
<1>11. InOrder'
  <2>1. ASSUME NEW d \in Devices, NEW x \in Taken(d)' PROVE x \in Taken(d)
    <3>1. CASE \E e \in DOMAIN lastIO' \cap {d} : x = OfBase(e)'
      <4>1. d \in DOMAIN lastIO' /\ x = OfBase(d)'
        BY <3>1
      <4>2. CASE d \in DOMAIN lastIO /\ lastIO'[d] = lastIO[d]
        BY <4>1, <4>2 DEF Taken, OfBase
      <4>3. CASE d \in DOMAIN read[s] /\ lastIO'[d] = BaseOf(s, d)
        <5>1. x = OfCall(s, d)
          BY <4>1, <4>3 DEF OfBase, OfCall, BaseOf
        <5> QED BY <4>3, <5>1 DEF Taken
      <4> QED BY <1>9, <4>1, <4>2, <4>3
    <3>2. CASE \E t \in Scrapes : d \in DOMAIN read'[t] /\ x = OfCall(t, d)'
      <4>1. PICK t \in Scrapes : d \in DOMAIN read'[t] /\ x = OfCall(t, d)'
        BY <3>2
      <4>2. t # s
        BY <1>5, <4>1
      <4> QED BY <1>5, <4>1, <4>2 DEF Taken, OfCall
    <3> QED BY <3>1, <3>2 DEF Taken
  <2>2. \A d \in Devices : Present(d)' = Present(d)
    BY <1>4 DEF Present
  <2> QED BY <2>1, <2>2, OrderKept
<1>12. ASSUME NEW d \in Devices
       PROVE  ~due'[d].overtaken =>
                /\ SumFunction([r \in {q \in RowSet : DeviceOf[q] = d} |-> rates'[r].bytes]) <= due'[d].bytes
                /\ \A r \in RowSet : DeviceOf[r] = d =>
                      rates'[r].bytes <= MaxRate * (rates'[r].dt + due'[d].late)
  <2>1. PICK x : x = IF d \in DOMAIN read[s] THEN Found(s, d) ELSE NoRate
    OBVIOUS
  <2>2. OneShows(rates', d, x) /\ rates' \in [RowSet -> RateSet]
    BY <1>2, <1>3, <1>6, <2>1, LoopFits
  <2>3. PICK u \in DueSet : u = Due(s, d) /\ u = due'[d]
    BY <1>4, <1>7
  <2>4. ~u.overtaken => x.bytes <= u.bytes /\ x.bytes <= MaxRate * (x.dt + u.late)
    BY <1>4, <2>1, <2>3, FoundFits
  <2>5. u.bytes \in Nat /\ u.late \in Nat
    BY DEF DueSet
  <2>6. ASSUME ~u.overtaken
        PROVE  SumFunction([r \in {q \in RowSet : DeviceOf[q] = d} |-> rates'[r].bytes]) <= u.bytes
    BY <2>2, <2>4, <2>5, <2>6, RowsTogether
  <2>7. ASSUME ~u.overtaken, NEW r \in RowSet, DeviceOf[r] = d
        PROVE  rates'[r].bytes <= MaxRate * (rates'[r].dt + u.late)
    <3>1. CASE rates'[r] = x
      BY <2>4, <2>7, <3>1
    <3>2. CASE rates'[r] = NoRate
      <4>1. rates'[r].bytes = 0 /\ rates'[r].dt + u.late = u.late
        BY <2>5, <3>2 DEF NoRate
      <4>2. MaxRate * u.late \in Nat
        BY <2>5, Faster
      <4> QED BY <4>1, <4>2
    <3> QED BY <2>2, <2>7, <3>1, <3>2 DEF OneShows
  <2> QED BY <2>3, <2>6, <2>7
<1>13. NeverInvents'
  BY <1>12 DEF NeverInvents
<1>14. NeverTooFast'
  BY <1>12, RowsAreFinite DEF NeverTooFast
<1> QED BY <1>8, <1>10, <1>11, <1>13, <1>14 DEF Shows

\* Every step keeps the invariant.
LEMMA RatesStep == RatesInv /\ [Next]_vars => RatesInv'
<1> SUFFICES ASSUME RatesInv, [Next]_vars PROVE RatesInv'
  OBVIOUS
<1>1. ASSUME NEW s \in Scrapes, ReadCounters(s) PROVE RatesInv'
  BY <1>1, RatesRead
<1>2. ASSUME NEW s \in Scrapes, Stamp(s) PROVE RatesInv'
  BY <1>2, RatesStamp
<1>3. ASSUME NEW s \in Scrapes, Measure(s) PROVE RatesInv'
  BY <1>3, RatesMeasure
<1>4. CASE Tick
  BY <1>4, RatesTick
<1>5. ASSUME NEW d \in Devices, Reset(d) PROVE RatesInv'
  BY <1>5, RatesReset
<1>6. CASE UNCHANGED vars
  <2>1. UNCHANGED <<clock, counter, carried, resets, lastIO, pc, read, mark, takenAt, now, rates, due>>
    BY <1>6 DEF vars, environment, reading
  <2>2. InOrder'
    BY <2>1 DEF RatesInv, InOrder, Taken, OfBase, OfCall, Present, Reaches, Ordered, Lacks
  <2> QED BY <2>1, <2>2, RatesKept DEF RatesInv, RatesTypes, Clocks
<1> QED BY <1>1, <1>2, <1>3, <1>4, <1>5, <1>6 DEF Next

\* The invariant implies the property of the run.
LEMMA RatesInvIsReal == RatesInv => RatesAreReal
<1> SUFFICES ASSUME RatesInv PROVE TypeOK
  BY DEF RatesAreReal, RatesInv, Shows
<1>1. RatesTypes
  BY DEF RatesInv
<1>2. \A s \in Scrapes : DOMAIN read[s] \subseteq Devices /\ Range(read[s]) \subseteq Counts
  BY <1>1, ReadoutsAre DEF RatesTypes, Range
<1>3. DOMAIN lastIO \subseteq Devices /\ \A d \in DOMAIN lastIO : lastIO[d] \in Baseline
  BY <1>1, BaselinesAre DEF RatesTypes
<1> QED BY <1>1, <1>2, <1>3 DEF RatesTypes, TypeOK, RateSet, DueSet, Baseline

\* Whatever the devices carry, whenever their counters wrap or start again, however the
\* calls of the poll loop and the requests overlap: the rates that are shown were carried,
\* and in a time that can carry them, unless the counter went back between the call's
\* reading and a reading that became its baseline.
THEOREM RatesAlwaysReal == Spec => []RatesAreReal
<1>1. Spec => []RatesInv
  BY RatesInit, RatesStep, PTL DEF Spec
<1> QED BY <1>1, RatesInvIsReal, PTL

-----------------------------------------------------------------------------
(* The parts side by side: each begins, and moves or stands still, as it   *)
(* does alone.                                                             *)

\* The actions of a part leave the others' variables alone.
LEMMA RatesAlone ==
    /\ SourcesInit => Init
    /\ [SourcesNext]_<<part, vars, gpuVars, cpuVars, rowsVars, configVars>> => [Next]_vars
BY DEF SourcesInit, SourcesNext

\* Of the GPU's part.
LEMMA GpuAlone ==
    /\ SourcesInit => GpuPart!Init
    /\ [SourcesNext]_<<part, vars, gpuVars, cpuVars, rowsVars, configVars>>
          => [GpuPart!Next]_(GpuPart!vars)
BY DEF SourcesInit, SourcesNext, gpuVars, GpuPart!vars, GpuPart!device, GpuPart!baseline, GpuPart!reading

\* Of the CPU's part.
LEMMA CpuAlone ==
    /\ SourcesInit => CpuPart!Init
    /\ [SourcesNext]_<<part, vars, gpuVars, cpuVars, rowsVars, configVars>>
          => [CpuPart!Next]_(CpuPart!vars)
BY DEF SourcesInit, SourcesNext, cpuVars, CpuPart!vars

\* Of the disk rows' part.
LEMMA RowsAlone ==
    /\ SourcesInit => RowsPart!Init
    /\ [SourcesNext]_<<part, vars, gpuVars, cpuVars, rowsVars, configVars>>
          => [RowsPart!Next]_(RowsPart!vars)
BY DEF SourcesInit, SourcesNext, rowsVars, RowsPart!vars

\* Of the configuration's part.
LEMMA ConfigAlone ==
    /\ SourcesInit => ConfigPart!Init
    /\ [SourcesNext]_<<part, vars, gpuVars, cpuVars, rowsVars, configVars>>
          => [ConfigPart!Next]_(ConfigPart!vars)
BY DEF SourcesInit, SourcesNext, configVars, ConfigPart!vars

\* Rates are never negative and, but for a call that was overtaken while the counter went
\* back, never show what was not carried, nor carried too fast: whatever the counters do
\* and however the calls overlap.
THEOREM RatesStayReal == SourcesSpec => []RatesAreReal
<1>1. SourcesSpec => Spec
  BY RatesAlone, PTL DEF SourcesSpec, Spec
<1> QED BY <1>1, RatesAlwaysReal, PTL

\* The usage of the GPU shows time that the card was awake, and that of the CPU all of the
\* work that was done.
THEOREM UsageStaysReal == SourcesSpec => []UsageIsReal
<1>1. SourcesSpec => GpuPart!Spec
  BY GpuAlone, PTL DEF SourcesSpec, GpuPart!Spec
<1>2. SourcesSpec => CpuPart!Spec
  BY CpuAlone, PTL DEF SourcesSpec, CpuPart!Spec
<1>3. GpuPart!UsageIsReal /\ CpuPart!CpuUsageIsReal => UsageIsReal
  BY DEF UsageIsReal
<1> QED BY <1>1, <1>2, <1>3, GpuUsageAlwaysReal, CpuUsageAlwaysReal, PTL

\* Of every mount table: each wanted mount point that answers has one row, the root has the
\* first.
THEOREM RowsStayFit == SourcesSpec => []RowsFit
<1>1. SourcesSpec => RowsPart!Spec
  BY RowsAlone, PTL DEF SourcesSpec, RowsPart!Spec
<1>2. RowsPart!RowsFit => RowsFit
  BY DEF RowsFit
<1> QED BY <1>1, <1>2, RowsAlwaysFit, PTL

\* Each setting is the flag's, else a usable variable's, else the file's as it stands, else
\* the default, and the flag's or the default where the file cannot be taken.
THEOREM HigherSourceStays == SourcesSpec => []HigherSourceWins
<1>1. SourcesSpec => ConfigPart!Spec
  BY ConfigAlone, PTL DEF SourcesSpec, ConfigPart!Spec
<1>2. ConfigPart!HigherSourceWins => HigherSourceWins
  BY DEF HigherSourceWins
<1> QED BY <1>1, <1>2, HighestSourceWins, PTL

\* The times of the poll loop are positive, and a collection ends before the next tick.
THEOREM PollTimesStayFit == SourcesSpec => []PollTimesFit
<1>1. SourcesSpec => ConfigPart!Spec
  BY ConfigAlone, PTL DEF SourcesSpec, ConfigPart!Spec
<1>2. ConfigPart!PollTimesFit => PollTimesFit
  BY DEF PollTimesFit
<1> QED BY <1>1, <1>2, PollTimesAlwaysFit, PTL
================================================================================
