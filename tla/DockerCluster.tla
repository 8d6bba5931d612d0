---------------------------- MODULE DockerCluster ----------------------------
(***************************************************************************)
(* Virtual clusters on Docker (runtime/docker.py).  A cluster is an overlay *)
(* network of the swarm that carries the cluster's name, and the containers *)
(* attached to it, spread over the hosts.  A process is one test script     *)
(* (get the cluster or create it, remove it at exit), one create_cluster or *)
(* one remove_cluster; nothing but Docker itself serialises them.           *)
(*                                                                          *)
(* A process creates one network at most and one container of each node, so *)
(* the process names the network, and the process with the node names the   *)
(* container, as Docker's ids do.                                           *)
(***************************************************************************)
EXTENDS Integers, Sequences, FiniteSets, Functions, DockerAlloc

CONSTANTS
    Proc,        \* processes
    Cluster,     \* cluster names
    NHosts,      \* hosts of the swarm
    MaxNodes,    \* bound on the nodes of a cluster
    MaxOther,    \* bound on the containers of other users on a host
    NULL

Host == 1 .. NHosts

ASSUME DockerAssumption ==
    /\ NHosts \in Nat \ {0}
    /\ MaxNodes \in Nat \ {0} /\ MaxOther \in Nat
    /\ Cluster # {}
    /\ NULL \notin Proc

VARIABLES
    pc,        \* where each process is
    op,        \* "get" (a script, create_cluster) or "remove" (remove_cluster)
    cl,        \* the cluster it works on
    size,      \* the number of nodes of its spec
    place,     \* cont_build: host of each node
    node,      \* the node it is creating
    net,       \* the network of its cluster object
    conts,     \* the cached containers of its cluster object
    todo,      \* what the loop of remove() has not come to
    nets,      \* network of each name
    live,      \* containers on all hosts
    shared     \* history: names that two processes worked on at a time

procVars == <<pc, op, cl, size, place, node, net, conts, todo>>
vars == <<procVars, nets, live, shared>>

Pc == {"idle", "get", "plan", "network", "make", "connect", "start", "list",
       "up", "disconnect", "remove", "left", "done", "ended",
       "killed"}
Active(p) == pc[p] \notin {"idle", "left", "done", "ended", "killed"}

Id == Proc \X (1 .. MaxNodes)

\* on: the network the container is attached to.
Container == [id : Id, host : Host, on : Proc \cup {NULL},
              state : {"created", "running"}]

Goto(p, l) == pc' = [pc EXCEPT ![p] = l]

locals == <<place, node, net, conts, todo>>

\* The process ends, and its objects with it.
End(p, l) ==
    /\ Goto(p, l)
    /\ place' = [place EXCEPT ![p] = <<>>]
    /\ node' = [node EXCEPT ![p] = 1]
    /\ net' = [net EXCEPT ![p] = NULL]
    /\ conts' = [conts EXCEPT ![p] = {}]
    /\ todo' = [todo EXCEPT ![p] = {}]

\* The container was made for cluster c: its name is c and its node.
Of(x, c) == cl[x.id[1]] = c

\* attrs["NetworkSettings"]["Networks"] has the name of the cluster: the name
\* outlives the network.
AttachedTo(c) == {x \in live : x.on # NULL /\ cl[x.on] = c}

\* Containers of other users come and go at any time.
OtherLoad == [Host -> 0 .. MaxOther]

\* cl.info()["ContainersRunning"]
ContainersRunning(other) ==
    [h \in Host |->
        other[h]
            + Cardinality({x \in live : x.host = h /\ x.state = "running"})]

-----------------------------------------------------------------------------
Begin(p, o, c, n) ==
    /\ pc[p] = "idle"
    /\ o = "remove" => n = 1    \* remove_cluster has no spec
    /\ Goto(p, "get")
    /\ shared' = IF \E q \in Proc : Active(q) /\ cl[q] = c
                 THEN shared \cup {c} ELSE shared
    /\ op' = [op EXCEPT ![p] = o]
    /\ cl' = [cl EXCEPT ![p] = c]
    /\ size' = [size EXCEPT ![p] = n]
    /\ UNCHANGED <<place, node, net, conts, todo, nets, live>>

\* _get() finds no network: get() creates the cluster when it was asked to.
GetNone(p) ==
    /\ pc[p] = "get"
    /\ nets[cl[p]] = NULL
    /\ IF op[p] = "remove" THEN End(p, "ended")
       ELSE Goto(p, "plan") /\ UNCHANGED locals
    /\ UNCHANGED <<op, cl, size, nets, live, shared>>

\* The spec is a label of the network: get() wants that of the script.
GetExisting(p) ==
    /\ pc[p] = "get"
    /\ nets[cl[p]] # NULL
    /\ IF op[p] # "remove" /\ size[nets[cl[p]]] # size[p]
       THEN End(p, "ended")
       ELSE /\ net' = [net EXCEPT ![p] = nets[cl[p]]]
            /\ Goto(p, "list")
            /\ UNCHANGED <<place, node, conts, todo>>
    /\ UNCHANGED <<op, cl, size, nets, live, shared>>

(* __create() *)

\* The containers are assigned to hosts by the load at this moment.
Plan(p, other) ==
    /\ pc[p] = "plan"
    /\ place' = [place EXCEPT ![p] =
                     ContBuild(ContainersRunning(other), size[p])]
    /\ Goto(p, "network")
    /\ UNCHANGED <<op, cl, size, node, net, conts, todo, nets, live, shared>>

NetworkCreate(p) ==
    /\ pc[p] = "network"
    /\ nets[cl[p]] = NULL
    /\ nets' = [nets EXCEPT ![cl[p]] = p]
    /\ net' = [net EXCEPT ![p] = p]
    /\ node' = [node EXCEPT ![p] = 1]
    /\ Goto(p, "make")
    /\ UNCHANGED <<op, cl, size, place, conts, todo, live, shared>>

\* 409: "This could be an artifact from previous run."
NetworkConflict(p) ==
    /\ pc[p] = "network"
    /\ nets[cl[p]] # NULL
    /\ End(p, "ended")
    /\ UNCHANGED <<op, cl, size, nets, live, shared>>

\* The host has a container of that name.
NameTaken(p) ==
    \E x \in live : Of(x, cl[p]) /\ x.id[2] = node[p]
                    /\ x.host = place[p][node[p]]

\* Mutant: a container of that name will do.
ContainerConflictIgnored(p) ==
    /\ pc[p] = "make"
    /\ NameTaken(p)
    /\ IF node[p] < size[p]
       THEN /\ node' = [node EXCEPT ![p] = @ + 1]
            /\ Goto(p, "make")
       ELSE /\ node' = [node EXCEPT ![p] = 1]
            /\ Goto(p, "list")
    /\ UNCHANGED <<op, cl, size, place, net, conts, todo, nets, live, shared>>

ContainerConflict(p) ==
    /\ pc[p] = "make"
    /\ NameTaken(p)
    /\ End(p, "ended")
    /\ UNCHANGED <<op, cl, size, nets, live, shared>>

ContainerCreate(p) ==
    /\ pc[p] = "make"
    /\ ~NameTaken(p)
    /\ live' = live \cup {[id |-> <<p, node[p]>>, host |-> place[p][node[p]],
                           on |-> NULL, state |-> "created"]}
    /\ Goto(p, "connect")
    /\ UNCHANGED <<op, cl, size, place, node, net, conts, todo, nets, shared>>

\* The container being created, if nobody removed it.
Current(p) == {x \in live : x.id = <<p, node[p]>>}

\* net.connect(cont) raises when the network is gone.
Connect(p) ==
    /\ pc[p] = "connect"
    /\ IF nets[cl[p]] = p
       THEN /\ live' = (live \ Current(p))
                           \cup {[x EXCEPT !.on = p] : x \in Current(p)}
            /\ Goto(p, "start")
            /\ UNCHANGED locals
       ELSE End(p, "ended") /\ UNCHANGED live
    /\ UNCHANGED <<op, cl, size, nets, shared>>

\* The container is there, and so is the network it is attached to.
Startable(p) ==
    \E x \in Current(p) : x.on # NULL => nets[cl[p]] = x.on

\* cont.start() and its atstart.sh.
ContainerStart(p) ==
    /\ pc[p] = "start"
    /\ Startable(p)
    /\ live' = (live \ Current(p))
                   \cup {[x EXCEPT !.state = "running"] : x \in Current(p)}
    /\ IF node[p] < size[p]
       THEN /\ node' = [node EXCEPT ![p] = @ + 1]
            /\ Goto(p, "make")
            /\ UNCHANGED place
       ELSE /\ node' = [node EXCEPT ![p] = 1]
            /\ place' = [place EXCEPT ![p] = <<>>]
            /\ Goto(p, "list")
    /\ UNCHANGED <<op, cl, size, net, conts, todo, nets, shared>>

\* start() failed: the bare `raise` comes before the retry.
StartFails(p) ==
    /\ pc[p] = "start"
    /\ ~Startable(p)
    /\ End(p, "ended")
    /\ UNCHANGED <<op, cl, size, nets, live, shared>>

(* containers, and remove() *)

\* The first use of self.containers caches the list: in update_etc_hosts() at
\* the end of __create(), in the script, or in remove().  A script goes on to
\* write files and start daemons in each of them, which needs them running.
List(p) ==
    /\ pc[p] = "list"
    /\ LET list == {x.id : x \in AttachedTo(cl[p])}
           up   == \A x \in AttachedTo(cl[p]) : x.state = "running"
       IN  IF op[p] = "remove" \/ up
           THEN /\ conts' = [conts EXCEPT ![p] = list]
                /\ todo' = [todo EXCEPT ![p] = IF op[p] = "remove"
                                               THEN list ELSE {}]
                /\ Goto(p, IF op[p] = "remove" THEN "disconnect" ELSE "up")
                /\ UNCHANGED <<place, node, net>>
           ELSE End(p, "ended")
    /\ UNCHANGED <<op, cl, size, nets, live, shared>>

\* create_cluster leaves the cluster behind; it ends in make_ssh_id(), which
\* calls read_file() with a parameter that Container.read_file() does not have.
Leave(p) ==
    /\ pc[p] = "up"
    /\ End(p, "left")
    /\ UNCHANGED <<op, cl, size, nets, live, shared>>

\* The script's atexit handler calls cluster.remove().
Remove(p) ==
    /\ pc[p] = "up"
    /\ todo' = [todo EXCEPT ![p] = conts[p]]
    /\ Goto(p, "disconnect")
    /\ UNCHANGED <<op, cl, size, place, node, net, conts, nets, live, shared>>

\* disconnect() raises unless this network exists and has the container.
Disconnect(p, i) ==
    /\ pc[p] = "disconnect"
    /\ i \in todo[p]
    /\ LET cont == {x \in live : x.id = i /\ x.on = net[p]}
       IN  IF nets[cl[p]] = net[p] /\ cont # {}
           THEN /\ live' = (live \ cont)
                               \cup {[x EXCEPT !.on = NULL] : x \in cont}
                /\ todo' = [todo EXCEPT ![p] = @ \ {i}]
                /\ UNCHANGED <<pc, place, node, net, conts>>
           ELSE End(p, "ended") /\ UNCHANGED live
    /\ UNCHANGED <<op, cl, size, nets, shared>>

\* Docker refuses to remove a network that a running container uses.
Removable(p) ==
    /\ nets[cl[p]] = net[p]
    /\ \A x \in live : x.on = net[p] => x.state # "running"

\* Mutant: the containers are listed again.
NetworkRemoveRelists(p) ==
    /\ pc[p] = "disconnect"
    /\ todo[p] = {}
    /\ IF Removable(p)
       THEN /\ nets' = [nets EXCEPT ![cl[p]] = NULL]
            /\ todo' = [todo EXCEPT ![p] = {x.id : x \in AttachedTo(cl[p])}]
            /\ Goto(p, "remove")
            /\ UNCHANGED <<place, node, net, conts>>
       ELSE End(p, "ended") /\ UNCHANGED nets
    /\ UNCHANGED <<op, cl, size, live, shared>>

NetworkRemove(p) ==
    /\ pc[p] = "disconnect"
    /\ todo[p] = {}
    /\ IF Removable(p)
       THEN /\ nets' = [nets EXCEPT ![cl[p]] = NULL]
            /\ todo' = [todo EXCEPT ![p] = conts[p]]
            /\ Goto(p, "remove")
            /\ UNCHANGED <<place, node, net, conts>>
       ELSE End(p, "ended") /\ UNCHANGED nets
    /\ UNCHANGED <<op, cl, size, live, shared>>

\* Mutant: the containers of the same name are removed, on every host.
ContainerRemoveByName(p, i) ==
    /\ pc[p] = "remove"
    /\ i \in todo[p]
    /\ live' = {x \in live : ~(Of(x, cl[p]) /\ x.id[2] = i[2])}
    /\ todo' = [todo EXCEPT ![p] = @ \ {i}]
    /\ UNCHANGED <<pc, op, cl, size, place, node, net, conts, nets, shared>>

\* cont.remove(force = True) raises when the container is gone.
ContainerRemove(p, i) ==
    /\ pc[p] = "remove"
    /\ i \in todo[p]
    /\ IF \E x \in live : x.id = i
       THEN /\ live' = {x \in live : x.id # i}
            /\ todo' = [todo EXCEPT ![p] = @ \ {i}]
            /\ UNCHANGED <<pc, place, node, net, conts>>
       ELSE End(p, "ended") /\ UNCHANGED live
    /\ UNCHANGED <<op, cl, size, nets, shared>>

Removed(p) ==
    /\ pc[p] = "remove"
    /\ todo[p] = {}
    /\ End(p, "done")
    /\ UNCHANGED <<op, cl, size, nets, live, shared>>

\* A signal, or an error of Docker: nothing is rolled back.
Crash(p) ==
    /\ Active(p)
    /\ End(p, "killed")
    /\ UNCHANGED <<op, cl, size, nets, live, shared>>

-----------------------------------------------------------------------------
Init ==
    /\ pc = [p \in Proc |-> "idle"]
    /\ op = [p \in Proc |-> "get"]
    /\ cl = [p \in Proc |-> CHOOSE c \in Cluster : TRUE]
    /\ size = [p \in Proc |-> 1]
    /\ place = [p \in Proc |-> <<>>]
    /\ node = [p \in Proc |-> 1]
    /\ net = [p \in Proc |-> NULL]
    /\ conts = [p \in Proc |-> {}]
    /\ todo = [p \in Proc |-> {}]
    /\ nets = [c \in Cluster |-> NULL]
    /\ live = {}
    /\ shared = {}

CreateStep(p) ==
    \/ GetNone(p) \/ GetExisting(p) \/ NetworkCreate(p)
    \/ \E other \in OtherLoad : Plan(p, other)
    \/ NetworkConflict(p) \/ ContainerConflict(p) \/ ContainerCreate(p)
    \/ Connect(p) \/ ContainerStart(p) \/ StartFails(p) \/ List(p)

RemoveStep(p) ==
    \/ Leave(p) \/ Remove(p) \/ NetworkRemove(p) \/ Removed(p)
    \/ \E i \in todo[p] : Disconnect(p, i) \/ ContainerRemove(p, i)

Next ==
    \E p \in Proc :
        \/ \E o \in {"get", "remove"}, c \in Cluster,
              n \in 1 .. MaxNodes : Begin(p, o, c, n)
        \/ CreateStep(p) \/ RemoveStep(p) \/ Crash(p)

Spec == Init /\ [][Next]_vars

-----------------------------------------------------------------------------
(* Properties *)

\* Every variable has its type.
TypeOK ==
    /\ pc \in [Proc -> Pc]
    /\ op \in [Proc -> {"get", "remove"}]
    /\ cl \in [Proc -> Cluster]
    /\ size \in [Proc -> 1 .. MaxNodes]
    /\ place \in [Proc -> Seq(Host)]
    /\ node \in [Proc -> 1 .. MaxNodes]
    /\ net \in [Proc -> Proc \cup {NULL}]
    /\ conts \in [Proc -> SUBSET Id]
    /\ todo \in [Proc -> SUBSET Id]
    /\ nets \in [Cluster -> Proc \cup {NULL}]
    /\ live \subseteq Container
    /\ shared \subseteq Cluster

\* The handle has exactly the nodes of the spec, each of them running and
\* attached to the network.
Complete(p) ==
    /\ conts[p] = {net[p]} \X (1 .. size[p])
    /\ \A i \in conts[p] : \E x \in live :
          x.id = i /\ x.on = net[p] /\ x.state = "running"

\* A cluster that create() returns has exactly the nodes of the spec, whatever
\* containers and networks the processes killed before left behind, unless
\* another process works on the same name at the same time.
CreatedIsComplete ==
    \A p \in Proc :
        pc[p] = "up" /\ net[p] = p /\ cl[p] \notin shared => Complete(p)

\* remove(): "Remove the cluster": when it returns, neither the network nor
\* any container made for the cluster is left on any host, whichever processes
\* created, used and removed the cluster before, unless one was killed in its
\* course or two worked on the name at a time.
RemoveLeavesNothing ==
    [][\A p \in Proc :
          /\ pc[p] # "done" /\ pc'[p] = "done"
          /\ cl[p] \notin shared
          /\ \A q \in Proc : pc[q] = "killed" => cl[q] # cl[p]
          => /\ nets'[cl[p]] = NULL
             /\ \A x \in live' : ~Of(x, cl[p])]_vars

\* A process removes containers of the cluster it got, never those of a
\* cluster that was created under the same name since: the list is looked up
\* by name, but disconnect() and remove() go by id.
RemovesOnlyItsOwn ==
    [][\A p \in Proc, x \in live \ live' :
          /\ pc[p] = "remove" /\ todo'[p] # todo[p]
          /\ x.id \notin {y.id : y \in live'}
          => x.id[1] = net[p]]_vars

-----------------------------------------------------------------------------
(* Why CreatedIsComplete, RemoveLeavesNothing and RemovesOnlyItsOwn hold *)

Early == {"idle", "get", "plan", "network"}
Creating == {"make", "connect", "start"}
Handling == {"list", "up", "disconnect", "remove"}

\* The types, but for the placement.
StateOK ==
    /\ pc \in [Proc -> Pc]
    /\ op \in [Proc -> {"get", "remove"}]
    /\ cl \in [Proc -> Cluster]
    /\ size \in [Proc -> 1 .. MaxNodes]
    /\ node \in [Proc -> 1 .. MaxNodes]
    /\ net \in [Proc -> Proc \cup {NULL}]
    /\ conts \in [Proc -> SUBSET Id]
    /\ todo \in [Proc -> SUBSET Id]
    /\ nets \in [Cluster -> Proc \cup {NULL}]
    /\ \A x \in live : /\ x.id \in Id /\ x.on \in {NULL, x.id[1]}
                      /\ x = [id |-> x.id, host |-> x.host, on |-> x.on,
                              state |-> x.state]

\* A container was made by a process that had its network, which comes to
\* each node once.
MadeInTurn(x) ==
    LET p == x.id[1]
    IN  /\ pc[p] \notin Early /\ x.id[2] <= size[p]
        /\ pc[p] = "make" => x.id[2] < node[p]
        /\ pc[p] \in {"connect", "start"} => x.id[2] <= node[p]

ContInv ==
    /\ \A x \in live : MadeInTurn(x)
    /\ \A x, y \in live : x.id = y.id => x = y

\* A network has the name its creator works on, and so has the network that a
\* cluster object holds.
NamedRight(c) == nets[c] # NULL => cl[nets[c]] = c /\ pc[nets[c]] \notin Early

HoldsNet(p) ==
    /\ pc[p] \in Creating => net[p] = p /\ node[p] <= size[p]
    /\ pc[p] \in Handling => /\ net[p] \in Proc /\ cl[net[p]] = cl[p]
                             /\ pc[net[p]] \notin Early

NetInv == (\A c \in Cluster : NamedRight(c)) /\ (\A p \in Proc : HoldsNet(p))

\* What remove() has disconnected was attached to the network it removes.
OwnsAll(p) ==
    /\ pc[p] = "disconnect" => /\ todo[p] \subseteq conts[p]
                              /\ \A i \in conts[p] \ todo[p] : i[1] = net[p]
    /\ pc[p] = "remove" => \A i \in todo[p] : i[1] = net[p]

OwnInv == \A p \in Proc : OwnsAll(p)

SharedInv ==
    \A p, q \in Proc :
        p # q /\ Active(p) /\ Active(q) /\ cl[p] = cl[q] => cl[p] \in shared

\* Nodes 1 .. n of the cluster that p created run.
UpTo(p, n) ==
    \A k \in 1 .. n : \E x \in live :
        x.id = <<p, k>> /\ x.on = p /\ x.state = "running"

Ids(S) == {x.id : x \in S}

\* What p may rely on as long as no other process works on its name.
Alone(p) ==
    /\ pc[p] \in Creating => nets[cl[p]] = p /\ UpTo(p, node[p] - 1)
    /\ pc[p] = "connect" => Current(p) # {}
    /\ pc[p] = "start" => \E x \in Current(p) : x.on = p
    /\ pc[p] \in Handling \ {"remove"} => nets[cl[p]] = net[p]
    /\ pc[p] \in {"list", "up"} /\ net[p] = p => UpTo(p, size[p])
    /\ pc[p] = "up" => conts[p] = Ids(AttachedTo(cl[p]))
    /\ pc[p] = "disconnect" => /\ todo[p] = Ids(AttachedTo(cl[p]))
                              /\ conts[p] \subseteq Ids(live)
    /\ pc[p] = "remove" => nets[cl[p]] = NULL /\ todo[p] \subseteq Ids(live)

AloneInv == \A p \in Proc : Active(p) /\ cl[p] \notin shared => Alone(p)

\* A network outlives what is attached to it.
AttachedInv ==
    \A x \in live : x.on # NULL /\ cl[x.on] \notin shared => nets[cl[x.on]] = x.on

\* The process that is about to connect x, or to remove it.
KnownBy(p, x) ==
    \/ pc[p] = "connect" /\ x.id = <<p, node[p]>>
    \/ pc[p] = "disconnect" /\ x.id \in conts[p]
    \/ pc[p] = "remove" /\ x.id \in todo[p]

\* Nobody was killed at work on c, and no two worked on it at a time.
Calm(c) == c \notin shared /\ \A q \in Proc : pc[q] = "killed" => cl[q] # c

\* A container that is not attached is known to the process that works on the
\* cluster.
KnownInv ==
    \A x \in live : LET c == cl[x.id[1]] IN
        Calm(c) /\ x.on = NULL => \E p \in Proc : cl[p] = c /\ KnownBy(p, x)

IInv ==
    /\ StateOK /\ ContInv /\ NetInv /\ OwnInv /\ SharedInv
    /\ AloneInv /\ AttachedInv /\ KnownInv

=============================================================================
