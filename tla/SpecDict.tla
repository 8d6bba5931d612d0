------------------------------ MODULE SpecDict ------------------------------
(***************************************************************************)
(* class Spec (LDMS_Test.py): an object of a cluster spec is expanded by    *)
(* the templates it extends, and the %VAR% in its strings are substituted   *)
(* with the attributes of the nearest enclosing object.  The model follows  *)
(* one object of the spec, enclosed by the top-level object only.           *)
(*                                                                          *)
(* A string is the sequence of the words and the %VAR% it is made of; a     *)
(* dictionary is a function on Attr with NONE for what is not there.        *)
(***************************************************************************)
EXTENDS Integers, Sequences, FiniteSets
LOCAL INSTANCE SequencesExt

CONSTANTS
    Attr,        \* attribute names
    Template,    \* names of the templates of the spec
    Missing,     \* a template name that is not one of them
    Input,       \* specs: top-level attributes, templates and the object
    MaxChain,    \* bound on the length of an extension list
    MaxLen,      \* bound on the length of a string
    NONE

Word(w) == [var |-> FALSE, name |-> w]
Var(v)  == [var |-> TRUE, name |-> v]

\* Objects with attributes from A, and the value of "!extends" from E.
Dict(A, E) == [attrs : A, extends : E]

VARIABLES
    top,         \* top-level attributes
    templates,   \* spec["templates"]
    dct,         \* the object
    pc,
    lst,         \* list of extension
    ext,         \* the template to add to it
    tmp,         \* the merged dictionary
    key,         \* the attribute being substituted
    s0, s1       \* the last two rounds of its substitution

spec == <<top, templates, dct>>
vars == <<spec, pc, lst, ext, tmp, key, s0, s1>>

Empty == [a \in Attr |-> NONE]

Init ==
    /\ \E in \in Input : top = in.top /\ templates = in.templates /\ dct = in.dct
    /\ pc = "extend"
    /\ lst = <<dct>>
    /\ ext = dct.extends
    /\ tmp = Empty
    /\ key = NONE
    /\ s0 = <<>> /\ s1 = <<>>

-----------------------------------------------------------------------------
(* _expand_dict() *)

Extend ==
    /\ pc = "extend"
    /\ ext \in Template
    /\ Len(lst) < MaxChain
    /\ lst' = Append(lst, templates[ext])
    /\ ext' = templates[ext].extends
    /\ UNCHANGED <<spec, pc, tmp, key, s0, s1>>

\* KeyError: template not found.
NoTemplate ==
    /\ pc = "extend"
    /\ ext = Missing
    /\ pc' = "error"
    /\ UNCHANGED <<spec, lst, ext, tmp, key, s0, s1>>

Extended ==
    /\ pc = "extend"
    /\ ext = NONE
    /\ pc' = "merge"
    /\ UNCHANGED <<spec, lst, ext, tmp, key, s0, s1>>

\* tmp.update(d)
Updated(t, d) == [a \in Attr |-> IF d[a] # NONE THEN d[a] ELSE t[a]]

\* Mutant: the list is taken from its head.
MergeFromHead ==
    /\ pc = "merge"
    /\ lst # <<>>
    /\ tmp' = Updated(tmp, Head(lst).attrs)
    /\ lst' = Tail(lst)
    /\ UNCHANGED <<spec, pc, ext, key, s0, s1>>

\* "update dict by extension order, base first"
Merge ==
    /\ pc = "merge"
    /\ lst # <<>>
    /\ tmp' = Updated(tmp, Last(lst).attrs)
    /\ lst' = Front(lst)
    /\ UNCHANGED <<spec, pc, ext, key, s0, s1>>

Merged ==
    /\ pc = "merge"
    /\ lst = <<>>
    /\ pc' = "subst"
    /\ UNCHANGED <<spec, lst, ext, tmp, key, s0, s1>>

-----------------------------------------------------------------------------
(* _subst_dict(), _subst_str() *)

\* The attributes in sight: the object's own before those around it.
VAR == Updated(top, tmp)

\* VAR_RE.sub(): one round.
Sub(s) == FlattenSeq([i \in DOMAIN s |->
                         IF s[i].var THEN VAR[s[i].name] ELSE <<s[i]>>])

Defined(s) == \A i \in DOMAIN s : s[i].var => VAR[s[i].name] # NONE

\* The two rounds before the loop; each attribute is substituted alone.
Subst(k) ==
    /\ pc = "subst"
    /\ tmp[k] # NONE
    /\ Defined(tmp[k]) /\ Defined(Sub(tmp[k]))
    /\ key' = k
    /\ s0' = Sub(tmp[k])
    /\ s1' = Sub(Sub(tmp[k]))
    /\ pc' = "loop"
    /\ UNCHANGED <<spec, lst, ext, tmp>>

\* KeyError of self.VAR[].
Undefined(k) ==
    /\ \/ pc = "subst" /\ tmp[k] # NONE
          /\ ~(Defined(tmp[k]) /\ Defined(Sub(tmp[k])))
       \/ pc = "loop" /\ k = key /\ s0 # s1 /\ ~Defined(s1)
    /\ pc' = "error"
    /\ UNCHANGED <<spec, lst, ext, tmp, key, s0, s1>>

\* Mutant: s0 keeps the first round.
LoopKeepsS0 ==
    /\ pc = "loop"
    /\ s0 # s1
    /\ Defined(s1)
    /\ Len(Sub(s1)) <= MaxLen
    /\ s1' = Sub(s1)
    /\ UNCHANGED <<spec, pc, lst, ext, tmp, key, s0>>

\* One round of the loop.  The code compares its counter with 128 and never
\* counts.
Loop ==
    /\ pc = "loop"
    /\ s0 # s1
    /\ Defined(s1)
    /\ Len(Sub(s1)) <= MaxLen
    /\ s0' = s1
    /\ s1' = Sub(s1)
    /\ UNCHANGED <<spec, pc, lst, ext, tmp, key>>

\* Mutant: two rounds are enough.
ReturnEarly ==
    /\ pc = "loop"
    /\ pc' = "done"
    /\ UNCHANGED <<spec, lst, ext, tmp, key, s0, s1>>

\* return s0
Return ==
    /\ pc = "loop"
    /\ s0 = s1
    /\ pc' = "done"
    /\ UNCHANGED <<spec, lst, ext, tmp, key, s0, s1>>

Next ==
    \/ Extend \/ NoTemplate \/ Extended \/ Merge \/ Merged \/ Loop \/ Return
    \/ \E k \in Attr : Subst(k) \/ Undefined(k)

\* The program runs on.
Spec == Init /\ [][Next]_vars /\ WF_vars(Next)

-----------------------------------------------------------------------------
(* Properties *)

\* Reference: the templates of the object, itself first.
Chain[n \in Nat] ==
    IF n = 0 THEN dct
    ELSE IF Chain[n - 1].extends \in Template
         THEN templates[Chain[n - 1].extends]
         ELSE [attrs |-> Empty, extends |-> NONE]

Own(a) ==
    LET has == {n \in 0 .. MaxChain - 1 : Chain[n].attrs[a] # NONE}
    IN  IF has = {} THEN NONE
        ELSE Chain[CHOOSE n \in has : \A m \in has : n <= m].attrs[a]

\* README.md: the local attributes override those of the template, and those
\* of a template override those of the template it extends.
LocalOverrides == pc = "subst" => \A a \in Attr : tmp[a] = Own(a)

InSight(a) == IF Own(a) # NONE THEN Own(a) ELSE top[a]

\* Reference: what a variable stands for when at most n variables lead to it.
Value[n \in Nat, a \in Attr] ==
    IF n = 0 \/ InSight(a) = NONE THEN <<Var(a)>>
    ELSE FlattenSeq([i \in DOMAIN InSight(a) |->
                        IF InSight(a)[i].var
                        THEN Value[n - 1, InSight(a)[i].name]
                        ELSE <<InSight(a)[i]>>])

NoVars(s) == \A i \in DOMAIN s : ~s[i].var

\* A string that is substituted has the value of each variable in the place
\* of the variable, however many variables refer to one another, and has none
\* left unless a variable stands for itself.
SubstitutedInFull ==
    pc = "done" =>
        LET v == Value[Cardinality(Attr), key]
        IN  IF NoVars(v) THEN s0 = v
            ELSE \E i \in DOMAIN s0 : s0[i].var /\ VAR[s0[i].name] = <<s0[i]>>

\* What a script gets from its spec: of each attribute the nearest definition
\* (LocalOverrides), and in it the value of each variable (SubstitutedInFull),
\* as the reference definitions have them (LDMS_Test.py:677-735).
ExpandedRight == LocalOverrides /\ SubstitutedInFull

\* The expansion of an object comes to an end when its templates do not extend
\* one another in a circle, and the substitution of a string when its
\* variables do not stand for one another in a circle, however long the chain
\* is (LDMS_Test.py:677-682, 723-729).  In a circle neither ends: the list of
\* extensions grows for ever, and the count of the substitutions is compared
\* with its limit but never counts.
ExpansionEnds ==
    /\ (pc = "extend" /\ Chain[Cardinality(Template) + 1].extends \notin Template)
         ~> (pc \in {"subst", "loop", "done", "error"})
    /\ (pc = "loop" /\ NoVars(Value[Cardinality(Attr), key])) ~> (pc = "done")

=============================================================================
