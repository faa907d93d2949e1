------------------------------- MODULE MCServer ------------------------------
(* Instances of Server for TLC.                                            *)
EXTENDS Server

\* connections are interchangeable: sound for the runs without liveness
ClientSymmetry == Permutations(Clients)

MCMsgs == [snap : 1..MaxPolls, greet : BOOLEAN]

\* bound: at most one connection while the program shuts down or a peer leaves
Opened == {c \in Clients : initialPayload[c] # Unread}
AloneOrServing == Cardinality(Opened) > 1 => ~ctxDone /\ gone = {}
=============================================================================
