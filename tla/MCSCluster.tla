----------------------------- MODULE MCSCluster -----------------------------
(* Instances of SCluster for TLC. *)
EXTENDS SCluster, TLC

CONSTANTS p1, p2, p3, c1, c2, h1, h2

\* Two names of which neither begins with the other.
Plain == [c \in {c1, c2} |-> {c}]

\* c2 is named like c1 with "-" and something behind it.
Nested == c1 :> {c1, c2} @@ c2 :> {c2}

\* Neither processes nor hosts are told apart.
Symmetry == Permutations(Proc) \cup Permutations(Host)

=============================================================================
