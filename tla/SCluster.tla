------------------------------ MODULE SCluster ------------------------------
(***************************************************************************)
(* Virtual clusters on Singularity (runtime/singularity.py).  A process is  *)
(* one test script (get the cluster or create it, remove it at exit) or one *)
(* call of remove_cluster.  Processes share the Singularity instances on    *)
(* the hosts and the file of IPAddrDb, which maps a cluster to its IP       *)
(* addresses; they serialise on that file with lockf(), and rewrite it by   *)
(* truncating it first.                                                     *)
(*                                                                          *)
(* The HexRanges in which the file keeps the addresses are sets here; their *)
(* own arithmetic is module HexRanges.                                      *)
(***************************************************************************)
EXTENDS Integers, FiniteSets

CONSTANTS
    Proc,        \* processes
    Cluster,     \* cluster names
    Prefixed,    \* Prefixed[c]: clusters whose name is c or begins with c-
    Host,        \* hosts of the singularity section of the configuration
    Addr,        \* usable addresses of ip_addr_space
    MaxNodes,    \* bound on the nodes of a cluster
    Exclusive,   \* no two processes work on one cluster name at a time
    Torn,        \* a process may end between truncate() and write()
    NULL

ASSUME SClusterAssumption ==
    /\ Prefixed \in [Cluster -> SUBSET Cluster]
    /\ \A c \in Cluster : c \in Prefixed[c]
    /\ Addr \subseteq Nat
    /\ MaxNodes \in Nat \ {0}
    /\ Exclusive \in BOOLEAN /\ Torn \in BOOLEAN
    /\ Cluster # {}
    /\ NULL \notin Proc

NoEntry  == [entry |-> FALSE, addrs |-> {}]
AnEntry(S) == [entry |-> TRUE, addrs |-> S]
Table    == [Cluster -> [entry : BOOLEAN, addrs : SUBSET Addr]]
NoAllocs == [c \in Cluster |-> NoEntry]

\* The content of the file: a table, or nothing that _read() can parse, as
\* truncate() leaves it.
EMPTY == NULL
ASSUME EmptyAssumption == EMPTY \notin Table

Instance == [host : Host, cluster : Cluster, node : 1 .. MaxNodes,
             addr : Addr, size : 1 .. MaxNodes]

VARIABLES
    pc,        \* where each process is
    task,      \* the IPAddrDb method it is in
    op,        \* "script" or "remove"
    cl,        \* the cluster it works on
    size,      \* the number of nodes of its spec
    hosts,     \* host of each node
    addrs,     \* what alloc_addr() returned
    started,   \* the nodes it has started
    mine,      \* the containers of its cluster object
    db,        \* the table it is about to write
    lock,      \* owner of the file lock
    file,      \* content of the file
    running    \* Singularity instances on all hosts

procVars == <<pc, task, op, cl, size, hosts, addrs, started, mine, db>>
vars == <<procVars, lock, file, running>>

\* "ended": by an exception, a signal, or because the cluster was not found;
\* "raised": by the exception at the end of _create().
Pc == {"idle", "lock", "read", "trunc", "write", "get", "assign", "start",
       "up", "stop", "done", "raised", "ended"}
Active(p) == pc[p] \notin {"idle", "done", "raised", "ended"}

Goto(p, l) == pc' = [pc EXCEPT ![p] = l]

\* Instances of one name on one host: what `singularity instance` addresses.
Named(h, c, k) ==
    {x \in running : x.host = h /\ x.cluster = c /\ x.node = k}

-----------------------------------------------------------------------------
Begin(p, o, c, n) ==
    /\ pc[p] = "idle"
    /\ Exclusive => \A q \in Proc : Active(q) => cl[q] # c
    /\ Goto(p, "lock")
    /\ task' = [task EXCEPT ![p] = "init"]
    /\ op' = [op EXCEPT ![p] = o]
    /\ cl' = [cl EXCEPT ![p] = c]
    /\ size' = [size EXCEPT ![p] = n]
    /\ UNCHANGED <<hosts, addrs, started, mine, db, lock, file, running>>

(* IPAddrDb *)

\* Mutant: another process's lock is ignored.
LockIgnored(p) ==
    /\ pc[p] = "lock"
    /\ Goto(p, "read")
    /\ lock' = p
    /\ UNCHANGED <<task, op, cl, size, hosts, addrs, started, mine, db, file,
                   running>>

Lock(p) ==
    /\ pc[p] = "lock"
    /\ lock = NULL
    /\ Goto(p, "read")
    /\ lock' = p
    /\ UNCHANGED <<task, op, cl, size, hosts, addrs, started, mine, db, file,
                   running>>

\* init_db(): a file that cannot be parsed becomes an empty table.
InitDb(p) ==
    /\ pc[p] = "read" /\ task[p] = "init"
    /\ IF file = EMPTY
       THEN /\ db' = [db EXCEPT ![p] = NoAllocs]
            /\ Goto(p, "trunc")
            /\ UNCHANGED lock
       ELSE /\ Goto(p, "get")
            /\ lock' = NULL
            /\ UNCHANGED db
    /\ UNCHANGED <<task, op, cl, size, hosts, addrs, started, mine, file,
                   running>>

Taken == UNION {file[c].addrs : c \in Cluster}

\* Mutant: the n addresses are counted from the start of the subnet.
FirstOfAll(n, S) ==
    /\ S \subseteq Addr
    /\ Cardinality(S) = n
    /\ \A x \in S, y \in Addr \ S : x < y

\* The first n addresses that no cluster has.
FirstFree(n, S) ==
    /\ S \subseteq Addr \ Taken
    /\ Cardinality(S) = n
    /\ \A x \in S, y \in (Addr \ Taken) \ S : x < y

\* alloc_addr() of a cluster that has addresses already, whatever n is.
AllocExisting(p) ==
    /\ pc[p] = "read" /\ task[p] = "alloc"
    /\ file # EMPTY
    /\ file[cl[p]].entry
    /\ addrs' = [addrs EXCEPT ![p] = file[cl[p]].addrs]
    /\ Goto(p, "start")
    /\ lock' = NULL
    /\ UNCHANGED <<task, op, cl, size, hosts, started, mine, db, file,
                   running>>

AllocNew(p) ==
    /\ pc[p] = "read" /\ task[p] = "alloc"
    /\ file # EMPTY
    /\ ~file[cl[p]].entry
    /\ \E S \in SUBSET Addr :
          /\ FirstFree(size[p], S)
          /\ addrs' = [addrs EXCEPT ![p] = S]
          /\ db' = [db EXCEPT ![p] = [file EXCEPT ![cl[p]] = AnEntry(S)]]
    /\ Goto(p, "trunc")
    /\ UNCHANGED <<task, op, cl, size, hosts, started, mine, lock, file,
                   running>>

\* alloc_addr() returns None, which _create() cannot zip().
AllocNone(p) ==
    /\ pc[p] = "read" /\ task[p] = "alloc"
    /\ file # EMPTY
    /\ ~file[cl[p]].entry
    /\ Cardinality(Addr \ Taken) < size[p]
    /\ Goto(p, "ended")
    /\ lock' = NULL
    /\ UNCHANGED <<task, op, cl, size, hosts, addrs, started, mine, db, file,
                   running>>

\* Mutant: the whole table is cleared.
FreeAll(p) ==
    /\ pc[p] = "read" /\ task[p] = "free"
    /\ file # EMPTY
    /\ db' = [db EXCEPT ![p] = NoAllocs]
    /\ Goto(p, "trunc")
    /\ UNCHANGED <<task, op, cl, size, hosts, addrs, started, mine, lock, file,
                   running>>

FreeAddr(p) ==
    /\ pc[p] = "read" /\ task[p] = "free"
    /\ file # EMPTY
    /\ db' = [db EXCEPT ![p] = [file EXCEPT ![cl[p]] = NoEntry]]
    /\ Goto(p, "trunc")
    /\ UNCHANGED <<task, op, cl, size, hosts, addrs, started, mine, lock,
                   file, running>>

\* _read() returned None, and None has no item "alloc_tbl".
ReadNone(p) ==
    /\ pc[p] = "read" /\ task[p] \in {"alloc", "free"}
    /\ file = EMPTY
    /\ Goto(p, "ended")
    /\ lock' = NULL
    /\ UNCHANGED <<task, op, cl, size, hosts, addrs, started, mine, db, file,
                   running>>

Truncate(p) ==
    /\ pc[p] = "trunc"
    /\ Goto(p, "write")
    /\ file' = EMPTY
    /\ UNCHANGED <<task, op, cl, size, hosts, addrs, started, mine, db, lock,
                   running>>

\* write() and unlock(): nobody looks at the file between them.
Write(p) ==
    /\ pc[p] = "write"
    /\ Goto(p, CASE task[p] = "init"  -> "get"
                 [] task[p] = "alloc" -> "start"
                 [] task[p] = "free"  -> "done")
    /\ file' = db[p]
    /\ lock' = NULL
    /\ UNCHANGED <<task, op, cl, size, hosts, addrs, started, mine, db,
                   running>>

(* SCluster *)

\* _get(): the instances whose name starts with the cluster's name and "-".
Found(p) == {x \in running : x.cluster \in Prefixed[cl[p]]}

GetNone(p) ==
    /\ pc[p] = "get"
    /\ Found(p) = {}
    /\ Goto(p, IF op[p] = "script" THEN "assign" ELSE "ended")
    /\ UNCHANGED <<task, op, cl, size, hosts, addrs, started, mine, db, lock,
                   file, running>>

\* The spec of the cluster is that of its first container; get() compares it
\* with the spec of the script.
GetExisting(p) ==
    /\ pc[p] = "get"
    /\ \E first \in Found(p) :
          LET same == first.cluster = cl[p] /\ first.size = size[p]
          IN  IF op[p] = "script"
              THEN Goto(p, IF same THEN "up" ELSE "ended")
              ELSE Goto(p, "stop")
    /\ mine' = [mine EXCEPT ![p] = Found(p)]
    /\ UNCHANGED <<task, op, cl, size, hosts, addrs, started, db, lock, file,
                   running>>

\* SContainer.list(): what runs on a host, whoever started it.
Listed(h) == {x \in running : x.host = h}

\* Containers on a host, counting the first k - 1 nodes as assigned.
Load(asg, k, h) ==
    Cardinality(Listed(h))
        + Cardinality({j \in 1 .. k - 1 : asg[j] = h})

\* _create() puts each node on a host that is least busy at that point.
Assign(p) ==
    /\ pc[p] = "assign"
    /\ \E asg \in [1 .. size[p] -> Host] :
          /\ \A k \in 1 .. size[p], h \in Host :
                Load(asg, k, asg[k]) <= Load(asg, k, h)
          /\ hosts' = [hosts EXCEPT ![p] = asg]
    /\ task' = [task EXCEPT ![p] = "alloc"]
    /\ Goto(p, "lock")
    /\ UNCHANGED <<op, cl, size, addrs, started, mine, db, lock, file,
                   running>>

\* zip(nodes, addrs) stops at the shorter of the two.
Unstarted(p) ==
    started[p] < size[p] /\ started[p] < Cardinality(addrs[p])

\* Mutant: every node gets the first address.
StartNodeFirstAddr(p) ==
    /\ pc[p] = "start"
    /\ Unstarted(p)
    /\ LET k == started[p] + 1
           h == hosts[p][k]
       IN  \E a \in addrs[p] :
             /\ \A b \in addrs[p] : a <= b
             /\ LET x == [host |-> h, cluster |-> cl[p], node |-> k,
                          addr |-> a, size |-> size[p]]
                IN  /\ Named(h, cl[p], k) = {}
                    /\ running' = running \cup {x}
                    /\ mine' = [mine EXCEPT ![p] = @ \cup {x}]
    /\ started' = [started EXCEPT ![p] = @ + 1]
    /\ UNCHANGED <<pc, task, op, cl, size, hosts, addrs, db, lock,
                   file>>

\* SContainer.start() of the next node, with the next address.
StartNode(p) ==
    /\ pc[p] = "start"
    /\ Unstarted(p)
    /\ LET k == started[p] + 1
           h == hosts[p][k]
       IN  \E a \in addrs[p] :
             /\ Cardinality({b \in addrs[p] : b < a}) = k - 1
             /\ LET x == [host |-> h, cluster |-> cl[p], node |-> k,
                          addr |-> a, size |-> size[p]]
                IN  /\ Named(h, cl[p], k) = {}
                    /\ running' = running \cup {x}
                    /\ mine' = [mine EXCEPT ![p] = @ \cup {x}]
    /\ started' = [started EXCEPT ![p] = @ + 1]
    /\ UNCHANGED <<pc, task, op, cl, size, hosts, addrs, db, lock,
                   file>>

\* "is running": start() raises.
StartRefused(p) ==
    /\ pc[p] = "start"
    /\ Unstarted(p)
    /\ Named(hosts[p][started[p] + 1], cl[p], started[p] + 1) # {}
    /\ Goto(p, "ended")
    /\ UNCHANGED <<task, op, cl, size, hosts, addrs, started, mine, db, lock,
                   file, running>>

\* Every node has started.  _create() then writes /etc/hosts and calls
\* make_ssh_id(), which raises TypeError: it calls read_file() with a `user`,
\* and SContainer.read_file() has no such parameter.  The script ends without
\* a cluster object, so its atexit handler removes nothing.
Created(p) ==
    /\ pc[p] = "start"
    /\ ~Unstarted(p)
    /\ Goto(p, "raised")
    /\ UNCHANGED <<task, op, cl, size, hosts, addrs, started, mine, db, lock,
                   file, running>>

\* Mutant: the addresses are freed first, and the containers are forgotten.
RemoveFreesFirst(p) ==
    /\ pc[p] = "up"
    /\ task' = [task EXCEPT ![p] = "free"]
    /\ Goto(p, "lock")
    /\ UNCHANGED <<op, cl, size, hosts, addrs, started, mine, db, lock, file,
                   running>>

\* The atexit handler of a script that got its cluster calls cluster.remove().
Remove(p) ==
    /\ pc[p] = "up"
    /\ Goto(p, "stop")
    /\ UNCHANGED <<task, op, cl, size, hosts, addrs, started, mine, db, lock,
                   file, running>>

\* SContainer.stop() raises when there is no such instance.
StopNode(p, x) ==
    /\ pc[p] = "stop"
    /\ x \in mine[p]
    /\ running' = running \ Named(x.host, x.cluster, x.node)
    /\ mine' = [mine EXCEPT ![p] = @ \ {x}]
    /\ IF Named(x.host, x.cluster, x.node) = {}
       THEN Goto(p, "ended")
       ELSE UNCHANGED pc
    /\ UNCHANGED <<task, op, cl, size, hosts, addrs, started, db, lock,
                   file>>

\* Mutant: remove() ends with the last container.
StoppedNoFree(p) ==
    /\ pc[p] = "stop"
    /\ mine[p] = {}
    /\ Goto(p, "done")
    /\ UNCHANGED <<task, op, cl, size, hosts, addrs, started, mine, db, lock,
                   file, running>>

Stopped(p) ==
    /\ pc[p] = "stop"
    /\ mine[p] = {}
    /\ task' = [task EXCEPT ![p] = "free"]
    /\ Goto(p, "lock")
    /\ UNCHANGED <<op, cl, size, hosts, addrs, started, mine, db, lock, file,
                   running>>

\* Mutant: the lock is a file of its own, which nobody removes.
CrashKeepsLock(p) ==
    /\ Active(p)
    /\ pc[p] = "write" => Torn
    /\ Goto(p, "ended")
    /\ UNCHANGED <<task, op, cl, size, hosts, addrs, started, mine, db, lock,
                   file, running>>

\* A signal, or a failure of ssh, singularity or the image: the process ends
\* where it is, and the kernel drops its lock.
Crash(p) ==
    /\ Active(p)
    /\ pc[p] = "write" => Torn
    /\ Goto(p, "ended")
    /\ lock' = IF lock = p THEN NULL ELSE lock
    /\ UNCHANGED <<task, op, cl, size, hosts, addrs, started, mine, db, file,
                   running>>

-----------------------------------------------------------------------------
\* The file is new, or was left by processes that have ended.
Init ==
    /\ pc = [p \in Proc |-> "idle"]
    /\ task = [p \in Proc |-> "init"]
    /\ op = [p \in Proc |-> "script"]
    /\ cl = [p \in Proc |-> CHOOSE c \in Cluster : TRUE]
    /\ size = [p \in Proc |-> 1]
    /\ hosts = [p \in Proc |-> <<>>]
    /\ addrs = [p \in Proc |-> {}]
    /\ started = [p \in Proc |-> 0]
    /\ mine = [p \in Proc |-> {}]
    /\ db = [p \in Proc |-> NoAllocs]
    /\ lock = NULL
    /\ file \in {EMPTY, NoAllocs}
    /\ running = {}

DbStep(p) ==
    \/ Lock(p) \/ InitDb(p) \/ AllocExisting(p) \/ AllocNew(p) \/ AllocNone(p)
    \/ FreeAddr(p) \/ ReadNone(p) \/ Truncate(p) \/ Write(p)

ClusterStep(p) ==
    \/ GetNone(p) \/ GetExisting(p) \/ Assign(p) \/ StartNode(p)
    \/ StartRefused(p) \/ Created(p) \/ Remove(p) \/ Stopped(p)
    \/ \E x \in mine[p] : StopNode(p, x)

Step(p) == DbStep(p) \/ ClusterStep(p)

Next ==
    \E p \in Proc :
        \/ \E o \in {"script", "remove"}, c \in Cluster, n \in 1 .. MaxNodes :
              Begin(p, o, c, n)
        \/ Step(p) \/ Crash(p)

Spec == Init /\ [][Next]_vars

\* A process that can go on does, and lockf() lets a waiter have a free lock.
FairSpec == Spec /\ \A p \in Proc : WF_vars(Step(p))

-----------------------------------------------------------------------------
(* Properties *)

\* Every variable has its type.
TypeOK ==
    /\ pc \in [Proc -> Pc]
    /\ task \in [Proc -> {"init", "alloc", "free"}]
    /\ op \in [Proc -> {"script", "remove"}]
    /\ cl \in [Proc -> Cluster]
    /\ size \in [Proc -> 1 .. MaxNodes]
    /\ hosts \in [Proc -> UNION {[1 .. n -> Host] : n \in 0 .. MaxNodes}]
    /\ addrs \in [Proc -> SUBSET Addr]
    /\ started \in [Proc -> 0 .. MaxNodes]
    /\ mine \in [Proc -> SUBSET Instance]
    /\ db \in [Proc -> Table]
    /\ lock \in Proc \cup {NULL}
    /\ file \in Table \cup {EMPTY}
    /\ running \subseteq Instance

Disjoint(tbl) ==
    \A c, d \in Cluster : c # d => tbl[c].addrs \cap tbl[d].addrs = {}

\* The file never gives one address to two clusters, whatever processes run
\* at the same time and wherever they end.
TableDisjoint == file # EMPTY => Disjoint(file)

\* Instances of two clusters never have the same address, also when scripts
\* and remove_cluster end anywhere between the start of a container and the
\* release of its address: nothing releases an address that is in use.
ClustersApart ==
    \A x, y \in running : x.cluster # y.cluster => x.addr # y.addr

\* No two instances have the same address.
InstancesApart == \A x, y \in running : x.addr = y.addr => x = y

\* README.md: `ip_addr_db` is "the path to a regular file used for
\* maintaining IP address assignments": the address of a running instance is
\* assigned to its cluster.
AssignmentsKept ==
    file # EMPTY => \A x \in running : x.addr \in file[x.cluster].addrs

\* The table as the other processes will find it: what is being written counts
\* as written from truncate() on.
Committed ==
    IF file # EMPTY THEN file
    ELSE IF lock # NULL /\ pc[lock] = "write" THEN db[lock]
         ELSE NoAllocs

Pool == INSTANCE AddrPool WITH pool <- Committed

\* If no process ends inside _write(), the processes together implement one
\* table that changes atomically: no update is lost between a read and the
\* write that follows it.
ImplementsPool == Pool!Spec

\* When remove() returns, nothing of the cluster is left: no instance on any
\* host, also none of an earlier script that was killed, and no address.
RemoveLeavesNothing ==
    [][\A p \in Proc : pc[p] # "done" /\ pc'[p] = "done" =>
          /\ \A x \in running' : x.cluster # cl[p]
          /\ file'[cl[p]] = NoEntry]_vars

\* Every process gets through the lock: each command ends or waits only for
\* its own script.
CommandsEnd ==
    \A p \in Proc : Active(p) ~> ~Active(p)

-----------------------------------------------------------------------------
(* Why ClustersApart holds when Exclusive holds and Torn does not. *)

DbPc == {"read", "trunc", "write"}

LockInv == \A p \in Proc : pc[p] \in DbPc <=> lock = p

ExclusiveInv ==
    \A p, q \in Proc : p # q /\ Active(p) /\ Active(q) => cl[p] # cl[q]

\* The process is past _get(), so it knows every instance of its cluster.
Informed(p) ==
    \/ pc[p] \in {"assign", "start", "up", "stop"}
    \/ pc[p] \in DbPc \cup {"lock"} /\ task[p] # "init"

MineInv ==
    \A p \in Proc :
        /\ Informed(p) => \A x \in running : x.cluster = cl[p] => x \in mine[p]
        /\ pc[p] \in DbPc \cup {"idle", "lock", "get", "assign"} =>
              mine[p] = {}

\* Nobody has got past init_db() yet.
Fresh ==
    /\ running = {}
    /\ \A p \in Proc :
          \/ pc[p] \in {"idle", "ended"}
          \/ pc[p] \in {"lock", "read", "trunc"} /\ task[p] = "init"

\* A table that covers every address in use or about to be used.
Covers(tbl) ==
    /\ \A x \in running : x.addr \in tbl[x.cluster].addrs
    /\ \A p \in Proc : pc[p] = "start" => addrs[p] \subseteq tbl[cl[p]].addrs

WriteDisjoint ==
    \A p \in Proc : pc[p] \in {"trunc", "write"} => Disjoint(db[p])

FileInv ==
    /\ file # EMPTY => Covers(file)
    /\ file = EMPTY => Fresh \/ \E p \in Proc : pc[p] = "write"

WriteInv ==
    \A p \in Proc : pc[p] \in {"trunc", "write"} =>
        /\ Covers(db[p])
        /\ task[p] = "alloc" => addrs[p] = db[p][cl[p]].addrs

AssignedInv ==
    \A p \in Proc :
        pc[p] = "start" \/ (pc[p] \in DbPc \cup {"lock"} /\ task[p] = "alloc")
            => hosts[p] \in [1 .. size[p] -> Host]

IInv ==
    /\ TypeOK /\ LockInv /\ ExclusiveInv /\ MineInv /\ FileInv /\ WriteInv
    /\ AssignedInv /\ TableDisjoint /\ WriteDisjoint

-----------------------------------------------------------------------------
(* Why the other three hold. *)

\* A cluster that is being created uses its addresses in their order.
RankInv ==
    \A p \in Proc : pc[p] = "start" =>
        \A x \in running : x.cluster = cl[p] =>
            Cardinality({b \in addrs[p] : b < x.addr}) < started[p]

\* Between the read and the write that follows it, the file is as it was read;
\* then it is empty.
DbInv ==
    \A p \in Proc :
        /\ pc[p] = "trunc" =>
              \/ task[p] = "init" /\ file = EMPTY /\ db[p] = NoAllocs
              \/ /\ task[p] = "free" /\ file # EMPTY
                 /\ db[p] = [file EXCEPT ![cl[p]] = NoEntry]
              \/ /\ task[p] = "alloc" /\ file # EMPTY /\ ~file[cl[p]].entry
                 /\ \E S \in SUBSET Addr :
                       /\ FirstFree(size[p], S)
                       /\ db[p] = [file EXCEPT ![cl[p]] = AnEntry(S)]
        /\ pc[p] = "write" =>
              /\ file = EMPTY
              /\ task[p] = "free" => db[p][cl[p]] = NoEntry

=============================================================================
