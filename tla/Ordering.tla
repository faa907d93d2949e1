-------------------------------- MODULE Ordering --------------------------------
(***************************************************************************)
(* What the table makes of its columns and of its rows by filtering and    *)
(* sorting them, given by the place of each in the result.                 *)
(***************************************************************************)
EXTENDS Integers, FiniteSets

\* the members of S in the order R: each has as many before it as R puts there
InOrder(S, R) ==
    [k \in 1..Cardinality(S) |->
        CHOOSE c \in S : Cardinality({d \in S : <<d, c>> \in R}) = k - 1]

\* the entries of s that are in T, in the order of s
Kept(s, T) ==
    LET P == {i \in DOMAIN s : s[i] \in T}
        places == InOrder(P, {p \in P \X P : p[1] < p[2]})
    IN  [k \in DOMAIN places |-> s[places[k]]]
=============================================================================
