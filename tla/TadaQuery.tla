------------------------------ MODULE TadaQuery ------------------------------
(***************************************************************************)
(* tadaq, the reader of the TADA database, running beside tadad.  One       *)
(* process answers one command: it opens the database, selects the rows of  *)
(* TADATest, and then selects the assertions of each test just before it    *)
(* prints the test, so that tadad commits between any two of its reads.     *)
(***************************************************************************)
EXTENDS Tada

CONSTANTS
    ANY,        \* no filter: --test-user "*" --commit-id "*"
    Filters     \* what --test-* and --commit-id select: ANY or sets of combos

VARIABLES
    qpc,        \* where the tadaq process is
    cmd,        \* its options
    objs,       \* the selected tests that are still to be printed
    shown       \* what was printed: test-ids with their assertions

queryVars == <<qpc, cmd, objs, shown>>
allVars   == <<vars, queryVars>>

NoCommand == [name |-> "none"]
Command ==
    [name : {"query"}, fltr : Filters, latest : BOOLEAN,
     only : Status \cup {NULL}]
    \cup [name : {"purge"}]

\* A row holds its combination once test-start was written to it.
Keyed(id) == tests[id].start # NULL

\* TADATestModel.find(): the rows that match the filter.
Find(fltr) ==
    {id \in TestId :
        /\ tests[id] # NoRow
        /\ fltr = ANY \/ (Keyed(id) /\ id[1] \in fltr)}

\* findTests(latest = True) keeps the run of each combination that comes last
\* in the order of test_start.
LatestOf(ids) ==
    {id \in ids : \A other \in ids :
        Keyed(id) /\ Keyed(other) /\ other[1] = id[1] =>
            tests[other].start <= tests[id].start}

\* sort() compares as soon as there are two rows, and None has no order.
Unsortable(ids) == Cardinality(ids) > 1 /\ \E id \in ids : ~Keyed(id)

-----------------------------------------------------------------------------
\* TADA_DB(): tadaq creates the tables, too, when it finds none.
Open(c) ==
    /\ qpc = "idle"
    /\ qpc' = "opened"
    /\ cmd' = c
    /\ tables' = TRUE
    /\ UNCHANGED <<now, clientVars, netVars, daemonVars, launchVars, tests,
                   asserts, objs, shown>>

FindTests ==
    /\ qpc = "opened" /\ cmd.name = "query" /\ tables
    /\ LET ids  == Find(cmd.fltr)
           keep == IF cmd.latest THEN LatestOf(ids) ELSE ids
       IN  IF cmd.latest /\ Unsortable(ids)
           THEN /\ qpc' = "failed"
                /\ UNCHANGED objs
           ELSE /\ qpc' = "printing"
                /\ objs' = {[id |-> id, row |-> tests[id]] : id \in keep}
    /\ UNCHANGED <<vars, cmd, shown>>

\* The assertions of a test that --only-* lets through, as they are now.
Selected(id) ==
    {a \in Assertion :
        /\ asserts[id][a] # NoRow
        /\ cmd.only # NULL => asserts[id][a].result = cmd.only}

\* int(None), and None formatted with a width, raise TypeError.
Printable(o) ==
    /\ o.row.start # NULL /\ o.row.finish # NULL
    /\ \A a \in Selected(o.id) : asserts[o.id][a].result # NULL

\* Mutant: an absent finish time is tolerated.
PrintTestTolerant(o) ==
    /\ qpc = "printing" /\ tables
    /\ o \in objs
    /\ objs' = objs \ {o}
    /\ shown' = IF Selected(o.id) = {} THEN shown
                ELSE shown \cup
                    {[id |-> o.id,
                      result |-> [a \in Selected(o.id) |->
                                    asserts[o.id][a].result]]}
    /\ UNCHANGED <<vars, qpc, cmd>>

\* A test without a selected assertion is passed over.
PrintTest(o) ==
    /\ qpc = "printing" /\ tables
    /\ o \in objs
    /\ objs' = objs \ {o}
    /\ IF Selected(o.id) = {}
       THEN UNCHANGED <<qpc, shown>>
       ELSE IF Printable(o)
            THEN /\ shown' = shown \cup
                        {[id |-> o.id,
                          result |-> [a \in Selected(o.id) |->
                                        asserts[o.id][a].result]]}
                 /\ UNCHANGED qpc
            ELSE /\ qpc' = "failed"
                 /\ UNCHANGED shown
    /\ UNCHANGED <<vars, cmd>>

Exit ==
    /\ qpc = "printing"
    /\ objs = {}
    /\ qpc' = "exited"
    /\ UNCHANGED <<vars, cmd, objs, shown>>

\* The tables were dropped between two of the reader's statements.
QueryNoTable ==
    /\ qpc \in {"opened", "printing"}
    /\ ~tables
    /\ qpc = "printing" => objs # {}
    /\ qpc' = "failed"
    /\ UNCHANGED <<vars, cmd, objs, shown>>

\* --purge-old-tests: list.sort() has no parameter cmp under python3, so the
\* exception comes before the first delete().
PurgeOldTests ==
    /\ qpc = "opened" /\ cmd.name = "purge" /\ tables
    /\ qpc' = "failed"
    /\ UNCHANGED <<vars, cmd, objs, shown>>

QueryInit ==
    /\ Init
    /\ qpc = "idle" /\ cmd = NoCommand
    /\ objs = {} /\ shown = {}

Query ==
    \/ \E c \in Command : Open(c)
    \/ FindTests \/ Exit \/ QueryNoTable \/ PurgeOldTests
    \/ \E o \in objs : PrintTest(o)

QueryNext == (Next /\ UNCHANGED queryVars) \/ Query

QuerySpec == QueryInit /\ [][QueryNext]_allVars

-----------------------------------------------------------------------------
(* Properties *)

\* What tadaq prints for a test is what its script ended with: of the assertions
\* that lost no verdict under a running tadad, none that passes the filter is
\* missing and none has an older status, although the row and its assertions are
\* read at different times and tadad writes (or purges) in between.
ShownIsFinal ==
    \A r \in Run, s \in shown :
        UniqueId(r) /\ test_id[r] = s.id =>
            /\ phase[r] = "done"
            /\ \A a \in Assertion : ~LostOn(r, a) =>
                  /\ a \in DOMAIN s.result <=>
                        /\ a \in Declared(r)
                        /\ cmd.only # NULL => assertions[r][a] = cmd.only
                  /\ a \in DOMAIN s.result => s.result[a] = assertions[r][a]

\* Why it holds.  The test r was written whole; its row is complete, or a purge
\* has removed it, and nobody will write it again.
Settled(r) ==
    /\ HandedOver(r) /\ ~BeingWritten(r)
    /\ Finished(test_id[r]) \/ Clean(test_id[r])

\* What tadaq has in hand belongs to a test, and a row that it read with a finish
\* time was settled at that moment.
QueryInv ==
    /\ qpc = "idle" => objs = {} /\ shown = {}
    /\ \A o \in objs :
          /\ o.id \in TestId
          /\ \E q \in Run : test_id[q] = o.id
          /\ \A r \in Run : test_id[r] = o.id /\ UniqueId(r)
                            /\ o.row.finish # NULL => Settled(r)
    /\ \A s \in shown : s.id \in TestId /\ \E q \in Run : test_id[q] = s.id
    /\ ShownIsFinal
=============================================================================
