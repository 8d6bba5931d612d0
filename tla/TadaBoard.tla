------------------------------ MODULE TadaBoard ------------------------------
(***************************************************************************)
(* What TADA promises a reader of its database, without the daemon, the     *)
(* datagrams and the commits: a test decides its outcome once, the outcome  *)
(* is published as a whole, and what is published never changes until the   *)
(* operator purges the database.  Parts of an outcome may be spoilt before  *)
(* it is published; the reader can rely on the others.                      *)
(***************************************************************************)
CONSTANTS TestId, Part, Verdict, NULL

VARIABLES
    outcome,    \* what the test with this id decided; NULL before it did
    spoilt,     \* the parts of which a report was lost on the way
    published   \* what a reader finds for it; NULL before it is complete

vars == <<outcome, spoilt, published>>

Outcome == [Part -> Verdict]
Nothing == [id \in TestId |-> NULL]

Init == outcome = Nothing /\ spoilt = {} /\ published = Nothing

Decide(id) ==
    /\ outcome[id] = NULL
    /\ \E o \in Outcome : outcome' = [outcome EXCEPT ![id] = o]
    /\ UNCHANGED <<spoilt, published>>

Spoil(id, p) ==
    /\ published[id] = NULL
    /\ spoilt' = spoilt \cup {<<id, p>>}
    /\ UNCHANGED <<outcome, published>>

Publish(id) ==
    /\ outcome[id] # NULL
    /\ published[id] = NULL
    /\ \E o \in Outcome :
          /\ \A p \in Part : <<id, p>> \notin spoilt => o[p] = outcome[id][p]
          /\ published' = [published EXCEPT ![id] = o]
    /\ UNCHANGED <<outcome, spoilt>>

Purge ==
    /\ published' = Nothing
    /\ UNCHANGED <<outcome, spoilt>>

Next ==
    \/ \E id \in TestId : Decide(id) \/ Publish(id)
    \/ \E id \in TestId, p \in Part : Spoil(id, p)
    \/ Purge

Spec == Init /\ [][Next]_vars

=============================================================================
