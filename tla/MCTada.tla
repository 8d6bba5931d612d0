------------------------------- MODULE MCTada -------------------------------
(* Instances of Tada for TLC. *)
EXTENDS Tada, TLC

CONSTANTS r1, r2, a1, a2, c1, c2

\* Two runs of the same test: their test-ids coincide when they start in the
\* same second.
SameTest == [r \in {r1, r2} |-> c1]

\* One run of each of two tests.
TwoTests == r1 :> c1 @@ r2 :> c2

\* One run gives a verdict up to twice and the other leaves it skipped, or each of
\* two runs gives it at most once.
OneTwice == r1 :> 2 @@ r2 :> 0
EachOnce == [r \in {r1, r2} |-> 1]

=============================================================================
