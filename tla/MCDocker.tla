------------------------------ MODULE MCDocker ------------------------------
(* Instances of DockerCluster for TLC. *)
EXTENDS DockerSwarm, TLC

CONSTANTS p1, p2, p3, c1, s1, s2, n1, n2

\* No process or script is special.
Symmetry == Permutations(Proc) \cup Permutations(Scripts)

=============================================================================
