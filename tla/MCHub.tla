-------------------------------- MODULE MCHub --------------------------------
(* Instances of Hub for TLC.                                               *)
EXTENDS Hub, TLC

\* connections are interchangeable: sound for the runs without liveness
ClientSymmetry == Permutations(Clients)
=============================================================================
