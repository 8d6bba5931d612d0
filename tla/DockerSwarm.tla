----------------------------- MODULE DockerSwarm -----------------------------
(***************************************************************************)
(* What scripts do to a swarm: they create and remove clusters             *)
(* (DockerCluster, where a network is its name) and choose subnets for the *)
(* networks (DockerNet, where a cluster is its network).                   *)
(* A behaviour shows one of the two views.                                 *)
(***************************************************************************)
EXTENDS DockerCluster, DockerNet

VARIABLE view

swarmVars == <<view, vars, netVars>>

SwarmInit == view \in {"cluster", "subnet"} /\ Init /\ NetInit

SwarmNext ==
  \/ view = "cluster" /\ Next /\ UNCHANGED <<view, netVars>>
  \/ view = "subnet" /\ NetNext /\ UNCHANGED <<view, vars>>

SwarmSpec == SwarmInit /\ [][SwarmNext]_swarmVars
=============================================================================
