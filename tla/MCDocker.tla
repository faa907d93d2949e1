------------------------------- MODULE MCDocker -------------------------------
(* Docker for TLC: the containers are interchangeable. *)
EXTENDS Docker, TLC

ContainerSymmetry == Permutations(Containers)
=============================================================================
