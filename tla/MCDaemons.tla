------------------------------ MODULE MCDaemons ------------------------------
(* Instances of Daemons for TLC. *)
EXTENDS Daemons, TLC

CONSTANTS i1, i2, i3, i4, i5

\* A compute node, and a node of the job manager alone, without ldmsd.
ComputeNode == <<"sshd", "munged", "slurmd", "ldmsd">>
JobNode     == <<"munged", "sshd">>
Nodes       == {ComputeNode, JobNode}

\* No pid is special.
Pids == Permutations(Pid)

=============================================================================
