----------------------------- MODULE MCSpecDict -----------------------------
(* Instances of SpecDict for TLC. *)
EXTENDS SpecDict

\* What attributes in S may hold when their strings are from T.
Values(S, T) == {f \in [Attr -> T \cup {NONE}] : \A k \in Attr \ S : f[k] = NONE}

Specs(tops, attrs, exts) ==
    [top : tops, templates : [Template -> Dict(attrs, exts)],
     dct : Dict(attrs, exts)]

Plain == [t \in Template |-> [attrs |-> Empty, extends |-> NONE]]

\* Templates that extend one another in every way, or a missing one, with
\* strings to tell them apart.
Extending ==
    LET Words == {<<Word("x")>>, <<Word("y")>>}
    IN  Specs({Empty}, Values({"a"}, Words), Template \cup {Missing, NONE})

\* A word, references to a and b, and a word with a reference to c, in the
\* object and around it.
Referring ==
    LET Refs == {<<Word("x")>>, <<Var("a")>>, <<Var("b")>>,
                 <<Word("x"), Var("c")>>}
    IN  [top : Values(Attr, Refs), templates : {Plain},
         dct : Dict(Values(Attr, Refs), {NONE})]

AllSpecs == Extending \cup Referring

=============================================================================
