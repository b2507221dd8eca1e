---------------------------- MODULE MCDockerPool ----------------------------
(* DockerPool on small instances. *)
EXTENDS DockerPool, TLC

(* Containers, callers and makers are interchangeable. *)
Symmetry == Permutations(Containers) \cup Permutations(Callers) \cup Permutations(Makers)
=============================================================================
