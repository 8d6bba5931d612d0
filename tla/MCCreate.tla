------------------------------ MODULE MCCreate ------------------------------
(***************************************************************************)
(* What LDMSDCluster.create() computes before it starts anything: the       *)
(* expansion of the spec, the addresses of the nodes on Singularity, and    *)
(* the hosts of the nodes on Docker.  The three share no state, so that a   *)
(* behaviour is about one of them.                                          *)
(***************************************************************************)
EXTENDS MCSpecDict, HexRanges, DockerAlloc

CONSTANTS
    NHosts,     \* hosts of the swarm
    MaxLoad,    \* bound on the containers that a host runs
    MaxPlaced   \* bound on the nodes to be placed

VARIABLES
    computing,
    load,       \* the containers that each host runs
    size,       \* the nodes to be placed
    hosts       \* the host of each of them

hostVars == <<load, size, hosts>>
createVars == <<computing, vars, rangeVars, hostVars>>

\* No spec is being expanded.
NoSpec ==
    /\ top = Empty /\ templates = Plain
    /\ dct = [attrs |-> Empty, extends |-> NONE]
    /\ pc = "error" /\ lst = <<>> /\ ext = NONE
    /\ tmp = Empty /\ key = NONE /\ s0 = <<>> /\ s1 = <<>>

\* No node is being placed.
NoNode == load = [h \in 1 .. NHosts |-> 0] /\ size = 0 /\ hosts = <<>>

CreateInit ==
    /\ RangeInit
    /\ \/ computing = "spec" /\ Init /\ NoNode
       \/ computing = "addresses" /\ NoSpec /\ NoNode
       \/ /\ computing = "hosts" /\ NoSpec
          /\ load \in [1 .. NHosts -> 0 .. MaxLoad]
          /\ size \in 1 .. MaxPlaced
          /\ hosts = <<>>

Place ==
    /\ computing = "hosts" /\ hosts = <<>>
    /\ hosts' = ContBuild(load, size)
    /\ UNCHANGED <<computing, vars, rangeVars, load, size>>

CreateNext ==
    \/ /\ computing = "spec" /\ Next
       /\ UNCHANGED <<computing, rangeVars, hostVars>>
    \/ /\ computing = "addresses" /\ RangeNext
       /\ UNCHANGED <<computing, vars, hostVars>>
    \/ Place

\* The program runs on.
CreateSpec ==
    /\ CreateInit /\ [][CreateNext]_createVars
    /\ WF_vars(computing = "spec" /\ Next)

\* Whatever the load is when __create() reads it, every node of the spec gets a
\* host (`nodes[idx]` runs neither short of nodes nor past the end of the list),
\* and no host gets busier than the load makes necessary (docker.py:589-616).
PlacedEvenly == [][Place => Even(load, size, hosts')]_createVars

=============================================================================
