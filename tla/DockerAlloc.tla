----------------------------- MODULE DockerAlloc -----------------------------
(***************************************************************************)
(* How DockerCluster.__create() (runtime/docker.py) spreads the containers  *)
(* of a new cluster over the hosts of the swarm, given the number of        *)
(* containers each host runs.  Hosts are numbered as get_docker_clients()   *)
(* sorts them.                                                              *)
(***************************************************************************)
EXTENDS Integers, Sequences, FiniteSetsExt, TLC
Seqs == INSTANCE SequencesExt

\* The table sorted by load; equal loads keep the order of the clients.
SortedByLoad(load) ==
    SortSeq([i \in DOMAIN load |-> [host |-> i, load |-> load[i], alloc |-> 0]],
            LAMBDA x, y : x.load < y.load \/ (x.load = y.load /\ x.host < y.host))

\* "make the load equal by filling the diff from max_load first".  The loop
\* breaks at the first host at max_load, or when nothing is left; going on
\* would add nothing.
Equalize(tbl, n) ==
    LET max == tbl[Len(tbl)].load
        Fill(acc, ent) ==
            LET a == Min({max - ent.load, acc.left})
            IN  [left |-> acc.left - a,
                 tbl  |-> Append(acc.tbl, [ent EXCEPT !.alloc = a])]
    IN  Seqs!FoldLeft(Fill, [left |-> n, tbl |-> <<>>], tbl)

\* Mutant: the remainder goes to one host.
SpreadRemainderToFirst(tbl, n) ==
    LET cn == Len(tbl)
    IN  [i \in 1 .. cn |->
            [tbl[i] EXCEPT !.alloc = @ + (n \div cn)
                                + IF i = 1 THEN n % cn ELSE 0]]

\* The rest is distributed evenly, the remainder over the first hosts.
Spread(tbl, n) ==
    LET cn == Len(tbl)
    IN  [i \in 1 .. cn |->
            [tbl[i] EXCEPT !.alloc = @ + (n \div cn)
                                + IF i <= n % cn THEN 1 ELSE 0]]

\* [current_load, alloc, client] of every host.
Allocation(load, n) ==
    LET eq == Equalize(SortedByLoad(load), n)
    IN  Spread(eq.tbl, eq.left)

\* cont_build: the host of each node, the hosts taking the next alloc nodes
\* in turn.
ContBuild(load, n) ==
    Seqs!FoldLeft(LAMBDA acc, ent : acc \o [i \in 1 .. ent.alloc |-> ent.host],
             <<>>, Allocation(load, n))

-----------------------------------------------------------------------------
Busiest(load) == Max(Range(load))

\* Reference: the busiest host is no busier than n containers more make necessary.
Necessary(load, n) ==
    LET hosts == Cardinality(DOMAIN load)
        total == SumFunction(load) + n
    IN  Max({Busiest(load), (total + hosts - 1) \div hosts})

\* Every node has a host, and no host gets busier than necessary.
Even(load, n, hosts) ==
    LET after == [h \in DOMAIN load |-> load[h]
                     + Cardinality({k \in DOMAIN hosts : hosts[k] = h})]
    IN  Len(hosts) = n /\ Busiest(after) = Necessary(load, n)

=============================================================================
