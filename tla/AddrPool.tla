------------------------------ MODULE AddrPool ------------------------------
(***************************************************************************)
(* What IPAddrDb promises its callers: a table from clusters to addresses   *)
(* that changes in single steps, gives a cluster without addresses the      *)
(* first ones that nobody has, and never changes what a cluster has until   *)
(* that cluster frees it.                                                   *)
(***************************************************************************)
EXTENDS Integers, FiniteSets

CONSTANTS Cluster, Addr, MaxNodes

VARIABLE pool

Nothing == [entry |-> FALSE, addrs |-> {}]

Init == pool = [c \in Cluster |-> Nothing]

Unused == Addr \ UNION {pool[c].addrs : c \in Cluster}

Alloc(c, n) ==
    /\ ~pool[c].entry
    /\ \E S \in SUBSET Unused :
          /\ Cardinality(S) = n
          /\ \A x \in S, y \in Unused \ S : x < y
          /\ pool' = [pool EXCEPT ![c] = [entry |-> TRUE, addrs |-> S]]

Free(c) == pool' = [pool EXCEPT ![c] = Nothing]

Next == \E c \in Cluster : Free(c) \/ \E n \in 1 .. MaxNodes : Alloc(c, n)

Spec == Init /\ [][Next]_pool

=============================================================================
