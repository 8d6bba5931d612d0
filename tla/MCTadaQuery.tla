----------------------------- MODULE MCTadaQuery -----------------------------
(* Instances of TadaQuery for TLC. *)
EXTENDS TadaQuery, TLC

CONSTANTS r1, r2, a1, a2, c1

OneRun   == [r \in {r1} |-> c1]
SameTest == [r \in {r1, r2} |-> c1]

Twice    == [r \in {r1} |-> 2]

\* Every row, or the rows of the combination of the caller.
AllFilters == {ANY, {c1}}

=============================================================================
