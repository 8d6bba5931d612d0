-------------------------------- MODULE Tada --------------------------------
(***************************************************************************)
(* The reporting pipeline of TADA: test scripts (class Test of TADA.py and  *)
(* its C twin C/tada.c) send one datagram per event to the daemon tadad,    *)
(* which keeps the events of a test in memory until the test finishes and   *)
(* then writes them to the database, one commit at a time.                  *)
(*                                                                          *)
(* A Run is one execution of a test script.  Its combination (suite, type,  *)
(* name, user, commit id) is ComboOf[r]; its test-id is the hash of that    *)
(* combination and the second in which start() was called, taken to be      *)
(* injective.  sent[r] is the sequence of datagrams r has sent.  When       *)
(* Ordered holds the network delivers them in order and at most once, and   *)
(* got[r] of them have left it; otherwise any datagram that was sent may    *)
(* arrive at any time, any number of times or never.  lost[r] records which *)
(* of the former were lost although tadad was up; no action reads it.       *)
(***************************************************************************)
EXTENDS Integers, Sequences, FiniteSets

CONSTANTS
    Run,         \* executions of test scripts
    Assertion,   \* assertion numbers
    Combo,       \* (suite, type, name, user, commit_id) combinations
    ComboOf,     \* the combination of each run
    MaxTime,     \* bound on the clock, in seconds
    MaxAsserts,  \* bound on the assert_test() calls of each run
    MaxBatch,    \* bound on the events tadad holds for a test
    MaxLaunch,   \* bound on the times tadad is launched after the first
    MaxLost,     \* bound on the datagrams lost while tadad is up
    Ordered,     \* datagrams of a run arrive in order, at most once
    Lossy,       \* an ordered network may lose a datagram
    Killable,    \* tadad may receive SIGTERM
    Purging,     \* tadad may be launched with --db-purge
    Debug,       \* TADA.DEBUG: a failed assertion raises
    NULL         \* SQL NULL, and Python's None

Second == 0 .. MaxTime
TestId == Combo \X Second

PASSED  == "passed"
FAILED  == "failed"
SKIPPED == "skipped"
Status  == {PASSED, FAILED, SKIPPED}

StartMsg  == [type : {"test-start"}, id : TestId, ts : Second]
AssertMsg == [type : {"assert-status"}, id : TestId, no : Assertion,
              status : Status]
FinishMsg == [type : {"test-finish"}, id : TestId, ts : Second]
Message   == StartMsg \cup AssertMsg \cup FinishMsg

\* No row with this key in the table.
NoRow == [row |-> "none"]
ATestRow(start, finish) == [row |-> "test", start |-> start, finish |-> finish]
TestRow == [row : {"test"}, start : Second \cup {NULL},
            finish : Second \cup {NULL}]
AssertRow == [row : {"assert"}, result : Status \cup {NULL}]

ASSUME ConstantsAssumption ==
    /\ ComboOf \in [Run -> Combo]
    /\ MaxTime \in Nat /\ MaxAsserts \in [Run -> Nat]
    /\ MaxBatch \in Nat /\ MaxLaunch \in Nat /\ MaxLost \in Nat
    /\ Ordered \in BOOLEAN /\ Lossy \in BOOLEAN
    /\ Killable \in BOOLEAN /\ Purging \in BOOLEAN /\ Debug \in BOOLEAN
    /\ NULL \notin TestId \cup Status \cup Second

\* None is not a dictionary.
ASSUME NullAssumption == NULL \notin [Assertion -> Status \cup {NULL}]

VARIABLES
    now,         \* the clock
    \* test scripts
    phase,       \* where each run is in its life
    test_id,     \* Test.test_id
    assertions,  \* Test.assertions: status per declared number
    unsent,      \* skipped assertions that finish() has still to send
    calls,       \* assert_test() calls made so far
    \* network
    sent, got, lost,
    \* tadad
    pc,          \* where the daemon is
    results,     \* results[test_key]: <<>> stands for a missing key
    todo,        \* the events of the batch still to be written
    launches,    \* launches so far
    starter,     \* a tadad process that has not bound its port yet
    \* the database
    tables,      \* the tables exist
    tests,       \* table TADATest
    asserts      \* table TADAAssertion

clientVars == <<phase, test_id, assertions, unsent, calls>>
netVars    == <<sent, got, lost>>
dbVars     == <<tables, tests, asserts>>
daemonVars == <<pc, results, todo>>
launchVars == <<launches, starter>>
vars == <<now, clientVars, netVars, daemonVars, launchVars, dbVars>>

Phase == {"new", "starting", "running", "finishing", "done", "killed"}

\* "recv": blocked in recvfrom; "getTest", "replay", "update": inside
\* test_finish(); "down": terminated; "dead": ended by an uncaught exception.
DaemonPc == {"recv", "getTest", "replay", "update", "down", "dead"}
Alive == pc \notin {"down", "dead"}

EmptyResults == [id \in TestId |-> <<>>]
NoTests      == [id \in TestId |-> NoRow]
NoAsserts    == [id \in TestId |-> [a \in Assertion |-> NoRow]]

-----------------------------------------------------------------------------
(* Test scripts *)

\* Test.assertions holds the numbers that add_assertion() declared.
Declared(r) == {a \in Assertion : assertions[r][a] # NULL}

\* Test._send(): one datagram, without any acknowledgement.
Send(r, msg) == sent' = [sent EXCEPT ![r] = Append(@, msg)]

AddAssertion(r, a) ==
    /\ phase[r] \in {"new", "running"}
    /\ assertions[r][a] = NULL
    /\ assertions' = [assertions EXCEPT ![r][a] = SKIPPED]
    /\ UNCHANGED <<now, phase, test_id, unsent, calls, netVars, daemonVars,
                   launchVars, dbVars>>

\* start() reads the clock for the test-id ...
Start(r) ==
    /\ phase[r] = "new"
    /\ phase' = [phase EXCEPT ![r] = "starting"]
    /\ test_id' = [test_id EXCEPT ![r] = <<ComboOf[r], now>>]
    /\ UNCHANGED <<now, assertions, unsent, calls, netVars, daemonVars,
                   launchVars, dbVars>>

\* ... and again for the timestamp of the event, after it has logged.
SendStart(r) ==
    /\ phase[r] = "starting"
    /\ phase' = [phase EXCEPT ![r] = "running"]
    /\ Send(r, [type |-> "test-start", id |-> test_id[r], ts |-> now])
    /\ UNCHANGED <<now, test_id, assertions, unsent, calls, got, lost,
                   daemonVars, launchVars, dbVars>>

\* With DEBUG a failed assertion raises after it was sent, and the script
\* goes to its atexit handler, which calls finish().
AssertTest(r, a, cond) ==
    /\ phase[r] = "running"
    /\ calls[r] < MaxAsserts[r]
    /\ a \in Declared(r)
    /\ LET status == IF cond THEN PASSED ELSE FAILED
       IN  /\ assertions' = [assertions EXCEPT ![r][a] = status]
           /\ Send(r, [type |-> "assert-status", id |-> test_id[r],
                       no |-> a, status |-> status])
           /\ IF ~cond /\ Debug
              THEN /\ phase' = [phase EXCEPT ![r] = "finishing"]
                   /\ unsent' = [unsent EXCEPT ![r] =
                           {b \in Declared(r) : b # a
                                    /\ assertions[r][b] = SKIPPED}]
              ELSE UNCHANGED <<phase, unsent>>
    /\ calls' = [calls EXCEPT ![r] = @ + 1]
    /\ UNCHANGED <<now, test_id, got, lost, daemonVars, launchVars, dbVars>>

\* The script ends, or an exception escapes it: its atexit handler calls
\* finish(), which goes through the assertions that are still skipped.
BeginFinish(r) ==
    /\ phase[r] = "running"
    /\ phase' = [phase EXCEPT ![r] = "finishing"]
    /\ unsent' = [unsent EXCEPT ![r] =
            {a \in Declared(r) : assertions[r][a] = SKIPPED}]
    /\ UNCHANGED <<now, test_id, assertions, calls, netVars, daemonVars,
                   launchVars, dbVars>>

SendSkipped(r, a) ==
    /\ phase[r] = "finishing"
    /\ a \in unsent[r]
    /\ Send(r, [type |-> "assert-status", id |-> test_id[r], no |-> a,
                status |-> SKIPPED])
    /\ unsent' = [unsent EXCEPT ![r] = @ \ {a}]
    /\ UNCHANGED <<now, phase, test_id, assertions, calls, got, lost,
                   daemonVars, launchVars, dbVars>>

SendFinish(r) ==
    /\ phase[r] = "finishing"
    /\ unsent[r] = {}
    /\ phase' = [phase EXCEPT ![r] = "done"]
    /\ Send(r, [type |-> "test-finish", id |-> test_id[r], ts |-> now])
    /\ UNCHANGED <<now, test_id, assertions, unsent, calls, got, lost,
                   daemonVars, launchVars, dbVars>>

\* A script that dies without running its atexit handlers.
Kill(r) ==
    /\ phase[r] \in {"new", "starting", "running", "finishing"}
    /\ phase' = [phase EXCEPT ![r] = "killed"]
    /\ UNCHANGED <<now, test_id, assertions, unsent, calls, netVars,
                   daemonVars, launchVars, dbVars>>

exit_code(r) ==
    IF \A a \in Declared(r) : assertions[r][a] = PASSED THEN 0 ELSE -1

-----------------------------------------------------------------------------
(* The network *)

\* The i-th datagram of run r may arrive now.
Arrives(r, i) ==
    /\ i \in 1 .. Len(sent[r])
    /\ Ordered => i = got[r] + 1

Delivered(r, i) ==
    got' = IF Ordered THEN [got EXCEPT ![r] = i] ELSE got

\* The i-th datagram of run r is lost.
Lose(r, i) ==
    IF Ordered /\ Alive
    THEN /\ Cardinality(UNION {{q} \X lost[q] : q \in Run}) < MaxLost
         /\ lost' = [lost EXCEPT ![r] = @ \cup {i}]
    ELSE UNCHANGED lost

\* A datagram that arrives when no daemon is bound to the port is gone.
Drop(r) ==
    /\ Ordered
    /\ got[r] < Len(sent[r])
    /\ Lossy \/ ~Alive
    /\ got' = [got EXCEPT ![r] = @ + 1]
    /\ Lose(r, got[r] + 1)
    /\ UNCHANGED <<now, clientVars, sent, daemonVars, launchVars, dbVars>>

-----------------------------------------------------------------------------
(* tadad: the receive loop *)

RecvStart(r, i) ==
    /\ pc = "recv"
    /\ Arrives(r, i)
    /\ sent[r][i].type = "test-start"
    /\ results' = [results EXCEPT ![sent[r][i].id] = <<sent[r][i]>>]
    /\ Delivered(r, i)
    /\ UNCHANGED <<now, clientVars, sent, lost, pc, todo, launchVars, dbVars>>

\* Mutant: an unknown key starts a new batch.
RecvAssertAnyKey(r, i) ==
    /\ pc = "recv"
    /\ Arrives(r, i)
    /\ sent[r][i].type = "assert-status"
    /\ Len(results[sent[r][i].id]) < MaxBatch
    /\ results' = [results EXCEPT ![sent[r][i].id] = Append(@, sent[r][i])]
    /\ Delivered(r, i)
    /\ UNCHANGED <<now, clientVars, sent, lost, pc, todo, launchVars, dbVars>>

RecvAssert(r, i) ==
    /\ pc = "recv"
    /\ Arrives(r, i)
    /\ sent[r][i].type = "assert-status"
    /\ results[sent[r][i].id] # <<>>
    /\ Len(results[sent[r][i].id]) < MaxBatch
    /\ results' = [results EXCEPT ![sent[r][i].id] = Append(@, sent[r][i])]
    /\ Delivered(r, i)
    /\ UNCHANGED <<now, clientVars, sent, lost, pc, todo, launchVars, dbVars>>

\* Mutant: the batch is deleted without being written.
RecvFinishDiscard(r, i) ==
    /\ pc = "recv"
    /\ Arrives(r, i)
    /\ sent[r][i].type = "test-finish"
    /\ results[sent[r][i].id] # <<>>
    /\ results' = [results EXCEPT ![sent[r][i].id] = <<>>]
    /\ Delivered(r, i)
    /\ UNCHANGED <<now, clientVars, sent, lost, pc, todo, launchVars, dbVars>>

RecvFinish(r, i) ==
    /\ pc = "recv"
    /\ Arrives(r, i)
    /\ sent[r][i].type = "test-finish"
    /\ results[sent[r][i].id] # <<>>
    /\ results' = [results EXCEPT ![sent[r][i].id] = Append(@, sent[r][i])]
    /\ todo' = Append(results[sent[r][i].id], sent[r][i])
    /\ pc' = "getTest"
    /\ Delivered(r, i)
    /\ UNCHANGED <<now, clientVars, sent, lost, launchVars, dbVars>>

\* results[test_key] of an unknown key: the exception is not caught.
RecvKeyError(r, i) ==
    /\ pc = "recv"
    /\ Arrives(r, i)
    /\ sent[r][i].type \in {"assert-status", "test-finish"}
    /\ results[sent[r][i].id] = <<>>
    /\ pc' = "dead"
    /\ results' = EmptyResults
    /\ todo' = <<>>
    /\ Delivered(r, i)
    /\ UNCHANGED <<now, clientVars, sent, lost, launchVars, dbVars>>

-----------------------------------------------------------------------------
(* tadad: test_finish() writes a batch, one commit per step *)

\* The test whose batch is being written.
Cur == todo[1].id

\* Mutant: the row of the test is not created.
GetTestNoCreate ==
    /\ pc = "getTest" /\ tables
    /\ pc' = "replay"
    /\ UNCHANGED <<now, clientVars, netVars, results, todo, launchVars,
                   dbVars>>

\* Mutant: the row is created with its finish time.
GetTestFinished ==
    /\ pc = "getTest" /\ tables
    /\ tests' = IF tests[Cur] # NoRow THEN tests
                ELSE [tests EXCEPT ![Cur] = ATestRow(NULL, todo[Len(todo)].ts)]
    /\ pc' = "replay"
    /\ UNCHANGED <<now, clientVars, netVars, results, todo, launchVars,
                   tables, asserts>>

\* db.getTest(): the row of the test, created and committed if absent.
GetTest ==
    /\ pc = "getTest" /\ tables
    /\ tests' = IF tests[Cur] # NoRow THEN tests
                ELSE [tests EXCEPT ![Cur] = ATestRow(NULL, NULL)]
    /\ pc' = "replay"
    /\ UNCHANGED <<now, clientVars, netVars, results, todo, launchVars,
                   tables, asserts>>

\* UPDATE ... WHERE test_id: nothing happens when the row is gone.
UpdateTest(id, new) ==
    tests' = IF tests[id] = NoRow THEN tests
             ELSE [tests EXCEPT ![id] = new]

DbTestStart ==
    /\ pc = "replay" /\ tables
    /\ Head(todo).type = "test-start"
    /\ UpdateTest(Cur, ATestRow(Head(todo).ts, tests[Cur].finish))
    /\ todo' = Tail(todo)
    /\ UNCHANGED <<now, clientVars, netVars, pc, results, launchVars,
                   tables, asserts>>

\* test_obj.getAssertion(): the assertion's row, created if absent.
GetAssertion ==
    /\ pc = "replay" /\ tables
    /\ Head(todo).type = "assert-status"
    /\ LET a == Head(todo).no
       IN  asserts' = IF asserts[Cur][a] # NoRow THEN asserts
                      ELSE [asserts EXCEPT ![Cur][a] =
                              [row |-> "assert", result |-> NULL]]
    /\ pc' = "update"
    /\ UNCHANGED <<now, clientVars, netVars, results, todo, launchVars,
                   tables, tests>>

\* Mutant: everything that did not pass is stored as failed.
DbTestAssertTwoValued ==
    /\ pc = "update" /\ tables
    /\ asserts' = [asserts EXCEPT ![Cur][Head(todo).no] =
            [row |-> "assert",
             result |-> IF Head(todo).status = PASSED THEN PASSED
                        ELSE FAILED]]
    /\ pc' = "replay"
    /\ todo' = Tail(todo)
    /\ UNCHANGED <<now, clientVars, netVars, results, launchVars, tables,
                   tests>>

\* Mutant: a result that is already there is kept.
DbTestAssertFirstWins ==
    /\ pc = "update" /\ tables
    /\ LET a == Head(todo).no
       IN  asserts' = IF asserts[Cur][a] # NoRow
                         /\ asserts[Cur][a].result # NULL THEN asserts
                      ELSE [asserts EXCEPT ![Cur][a] =
                              [row |-> "assert", result |-> Head(todo).status]]
    /\ pc' = "replay"
    /\ todo' = Tail(todo)
    /\ UNCHANGED <<now, clientVars, netVars, results, launchVars, tables,
                   tests>>

DbTestAssert ==
    /\ pc = "update" /\ tables
    /\ LET a == Head(todo).no
       IN  asserts' = IF asserts[Cur][a] = NoRow THEN asserts
                      ELSE [asserts EXCEPT ![Cur][a] =
                              [row |-> "assert", result |-> Head(todo).status]]
    /\ pc' = "replay"
    /\ todo' = Tail(todo)
    /\ UNCHANGED <<now, clientVars, netVars, results, launchVars, tables,
                   tests>>

\* The finish event is the last of its batch: the loop ends and the receive
\* loop deletes results[test_key].
DbTestFinish ==
    /\ pc = "replay" /\ tables
    /\ Head(todo).type = "test-finish"
    /\ UpdateTest(Cur, ATestRow(tests[Cur].start, Head(todo).ts))
    /\ results' = [results EXCEPT ![Cur] = <<>>]
    /\ todo' = <<>>
    /\ pc' = "recv"
    /\ UNCHANGED <<now, clientVars, netVars, launchVars, tables, asserts>>

\* The tables were dropped under the daemon: the statement raises.
NoTableError ==
    /\ pc \in {"getTest", "replay", "update"}
    /\ ~tables
    /\ pc' = "dead"
    /\ results' = EmptyResults
    /\ todo' = <<>>
    /\ UNCHANGED <<now, clientVars, netVars, launchVars, dbVars>>

-----------------------------------------------------------------------------
(* tadad: termination and launch *)

\* tadad_SIGTERM() raises SystemExit where the daemon is, which ends it; its
\* memory is lost.
Sigterm ==
    /\ Killable /\ Alive
    /\ pc' = "down"
    /\ results' = EmptyResults
    /\ todo' = <<>>
    /\ UNCHANGED <<now, clientVars, netVars, launchVars, dbVars>>

\* In one place the daemon survives it: the bare except around json.loads() takes
\* the SystemExit for a datagram that it could not parse, and passes it over.
SigtermSwallowed(r, i) ==
    /\ Killable
    /\ pc = "recv"
    /\ Arrives(r, i)
    /\ Delivered(r, i)
    /\ Lose(r, i)
    /\ UNCHANGED <<now, clientVars, sent, daemonVars, launchVars, dbVars>>

\* A new tadad process opens the database; init_tables() creates the tables
\* if they are missing.
Launch ==
    /\ starter = "none"
    /\ launches < MaxLaunch
    /\ launches' = launches + 1
    /\ starter' = "ready"
    /\ tables' = TRUE
    /\ UNCHANGED <<now, clientVars, netVars, daemonVars, tests, asserts>>

\* --db-purge: drop_tables() commits, then init_tables() commits.
DropTables ==
    /\ Purging
    /\ starter = "ready"
    /\ starter' = "dropped"
    /\ tables' = FALSE
    /\ tests' = NoTests
    /\ asserts' = NoAsserts
    /\ UNCHANGED <<now, clientVars, netVars, daemonVars, launches>>

InitTables ==
    /\ starter = "dropped"
    /\ starter' = "purged"
    /\ tables' = TRUE
    /\ UNCHANGED <<now, clientVars, netVars, daemonVars, launches, tests,
                   asserts>>

\* The port is bound only now, on the first step of tada_server(): a process
\* that finds it taken ends, after it has already purged the tables.
Bind ==
    /\ starter \in {"ready", "purged"}
    /\ starter' = "none"
    /\ pc' = IF Alive THEN pc ELSE "recv"
    /\ UNCHANGED <<now, clientVars, netVars, results, todo, launches, dbVars>>

\* SIGTERM reaches the new process before it has bound the port.
StarterKilled ==
    /\ Killable
    /\ starter # "none"
    /\ starter' = "none"
    /\ UNCHANGED <<now, clientVars, netVars, daemonVars, launches, dbVars>>

Tick ==
    /\ now < MaxTime
    /\ now' = now + 1
    /\ UNCHANGED <<clientVars, netVars, daemonVars, launchVars, dbVars>>

-----------------------------------------------------------------------------
Init ==
    /\ now = 0
    /\ phase = [r \in Run |-> "new"]
    /\ test_id = [r \in Run |-> NULL]
    /\ assertions = [r \in Run |-> [a \in Assertion |-> NULL]]
    /\ unsent = [r \in Run |-> {}]
    /\ calls = [r \in Run |-> 0]
    /\ sent = [r \in Run |-> <<>>]
    /\ got = [r \in Run |-> 0]
    /\ lost = [r \in Run |-> {}]
    /\ pc = "recv"
    /\ results = EmptyResults
    /\ todo = <<>>
    /\ launches = 0
    /\ starter = "none"
    /\ tables = TRUE
    /\ tests = NoTests
    /\ asserts = NoAsserts

Client(r) ==
    \/ \E a \in Assertion : AddAssertion(r, a) \/ SendSkipped(r, a)
    \/ \E a \in Assertion, cond \in BOOLEAN : AssertTest(r, a, cond)
    \/ Start(r) \/ SendStart(r)
    \/ BeginFinish(r) \/ SendFinish(r) \/ Kill(r)

Receive(r) ==
    \E i \in 1 .. Len(sent[r]) :
        \/ RecvStart(r, i) \/ RecvAssert(r, i)
        \/ RecvFinish(r, i) \/ RecvKeyError(r, i)

Vanish(r) ==
    \/ Drop(r)
    \/ \E i \in 1 .. Len(sent[r]) : SigtermSwallowed(r, i)

Replay ==
    \/ GetTest \/ DbTestStart \/ GetAssertion \/ DbTestAssert
    \/ DbTestFinish \/ NoTableError

Startup == Launch \/ DropTables \/ InitTables \/ Bind \/ StarterKilled

Next ==
    \/ \E r \in Run : Client(r) \/ Receive(r) \/ Vanish(r)
    \/ Replay \/ Sigterm \/ Startup \/ Tick

Spec == Init /\ [][Next]_vars

\* tadad keeps reading its socket and writing the batch it has begun, every
\* datagram reaches it, and a script whose atexit handler runs completes it.
Fairness ==
    /\ \A r \in Run : WF_vars(Receive(r))
    /\ \A r \in Run, a \in Assertion : WF_vars(SendSkipped(r, a))
    /\ \A r \in Run : WF_vars(SendFinish(r))
    /\ WF_vars(Replay)

FairSpec == Spec /\ Fairness

-----------------------------------------------------------------------------
(* Properties *)

\* Every variable has its type.
TypeOK ==
    /\ now \in Second
    /\ phase \in [Run -> Phase]
    /\ test_id \in [Run -> TestId \cup {NULL}]
    /\ assertions \in [Run -> [Assertion -> Status \cup {NULL}]]
    /\ unsent \in [Run -> SUBSET Assertion]
    /\ calls \in [Run -> Nat] /\ \A r \in Run : calls[r] <= MaxAsserts[r]
    /\ sent \in [Run -> Seq(Message)]
    /\ got \in [Run -> Nat]
    /\ lost \in [Run -> SUBSET Nat]
    /\ pc \in DaemonPc
    /\ results \in [TestId -> Seq(Message)]
    /\ todo \in Seq(Message)
    /\ launches \in 0 .. MaxLaunch
    /\ starter \in {"none", "ready", "dropped", "purged"}
    /\ tables \in BOOLEAN
    /\ tests \in [TestId -> TestRow \cup {NoRow}]
    /\ asserts \in [TestId -> [Assertion -> AssertRow \cup {NoRow}]]

Finished(id) == tests[id] # NoRow /\ tests[id].finish # NULL

UniqueId(r) == \A q \in Run \ {r} : test_id[q] # test_id[r]

WasSent(m) == \E r \in Run : \E i \in 1 .. Len(sent[r]) : sent[r][i] = m

\* What a database cell holds was sent by a run with that test-id: whatever
\* is lost, repeated, reordered or cut short by a crash, tadad never stores a
\* verdict that no test gave (the batch of one test-id never leaks into the
\* rows of another).
StoredWasSent ==
    \A id \in TestId :
        /\ \A a \in Assertion :
              asserts[id][a] # NoRow /\ asserts[id][a].result # NULL =>
                 WasSent([type |-> "assert-status", id |-> id, no |-> a,
                          status |-> asserts[id][a].result])
        /\ Finished(id) =>
              WasSent([type |-> "test-finish", id |-> id,
                       ts |-> tests[id].finish])

\* A row never has a finish time without the start time and the combination
\* that test-start carries, so a reader may rely on test_finish to recognise a
\* test that tadad knew from its start; and a test whose id is its own never
\* finishes before it starts.  (Of two runs that share an id, the row may take
\* the finish of the one and the start of the other.)
FinishAfterStart ==
    \A id \in TestId :
        Finished(id) =>
            /\ tests[id].start # NULL
            /\ \A r \in Run : test_id[r] = id /\ UniqueId(r) =>
                  tests[id].start <= tests[id].finish

\* An assertion row always hangs off a row of TADATest that tells which test
\* it belongs to, also after tadad was killed between two commits: getTest()
\* and db_test_start() come first in test_finish().
NoOrphanAssertion ==
    \A id \in TestId, a \in Assertion :
        asserts[id][a] # NoRow =>
            tests[id] # NoRow /\ tests[id].start # NULL

Writing == pc \in {"getTest", "replay", "update"}

\* Why these hold.  A batch holds events that were sent, all with its own
\* test-id, and begins with the one test-start it contains; it ends with
\* test-finish while it is written, and has none before.
BatchInv ==
    \A id \in TestId : \A i \in 1 .. Len(results[id]) :
        /\ WasSent(results[id][i])
        /\ results[id][i].id = id
        /\ results[id][i].type = "test-start" <=> i = 1
        /\ results[id][i].type = "test-finish" =>
              Writing /\ Cur = id /\ i = Len(results[id])

\* The part of a batch that is still to be written ends with test-finish.
TodoInv ==
    Writing =>
        /\ Len(todo) > 0
        /\ todo[Len(todo)].type = "test-finish"
        /\ pc = "getTest" => todo[1].type = "test-start"
        /\ pc = "update" => todo[1].type = "assert-status"
        /\ \A i \in 1 .. Len(todo) :
              /\ WasSent(todo[i])
              /\ todo[i].id = todo[1].id
              /\ i > 1 => todo[i].type # "test-start"
              /\ i < Len(todo) => todo[i].type # "test-finish"

\* A script that has called start() has a test-id to send.
NamedInv ==
    \A r \in Run :
        phase[r] \in {"starting", "running", "finishing", "done"} =>
            test_id[r] \in TestId

\* A script sends its own test-id, and its finish is not earlier than its start.
ClockInv ==
    \A r \in Run :
        /\ phase[r] \in {"new", "starting"} => sent[r] = <<>>
        /\ \A i \in 1 .. Len(sent[r]) :
              /\ sent[r][i].id = test_id[r]
              /\ sent[r][i].type # "assert-status" => sent[r][i].ts <= now
        /\ \A i, j \in 1 .. Len(sent[r]) :
              sent[r][i].type = "test-start" /\ sent[r][j].type = "test-finish"
                  => sent[r][i].ts <= sent[r][j].ts

\* A start time was sent, and the row that a batch is written to has got one,
\* unless a purge removed the row meanwhile.
StartedInv ==
    /\ \A id \in TestId :
          /\ tests[id] # NoRow /\ tests[id].start # NULL =>
                WasSent([type |-> "test-start", id |-> id,
                         ts |-> tests[id].start])
          /\ Finished(id) => tests[id].start # NULL
    /\ pc = "replay" \/ pc = "update" =>
          /\ Purging \/ tests[Cur] # NoRow
          /\ tests[Cur] # NoRow /\ todo[1].type # "test-start" =>
                tests[Cur].start # NULL

IInv ==
    /\ TypeOK /\ NamedInv /\ BatchInv /\ TodoInv /\ ClockInv /\ StartedInv
    /\ StoredWasSent

\* A verdict of run r on assertion a was lost while tadad was up.
On(m, a) == m.type = "assert-status" /\ m.no = a
LostOn(r, a) == \E i \in lost[r] : On(sent[r][i], a)

\* The statuses the database holds for a test; NULL where there is no row.
StoredStatus(id) ==
    [a \in Assertion |-> IF asserts[id][a] = NoRow THEN NULL
                         ELSE asserts[id][a].result]

\* On a network that keeps order, a row with a finish time carries the status the
\* script ended with (the last assert_test() of a number, or SKIPPED) for every
\* assertion of which no verdict was lost under a running tadad, by the network
\* or by a SIGTERM that it survived, however often tadad was killed, relaunched
\* or its tables purged meanwhile; so unless one was lost the exit code that
\* test-all.sh sees and the rows that tadaq shows agree.
FinishedRowComplete ==
    \A r \in Run :
        /\ test_id[r] # NULL
        /\ UniqueId(r)
        /\ Finished(test_id[r])
        => /\ phase[r] = "done"
           /\ \A a \in Assertion : ~LostOn(r, a) =>
                 StoredStatus(test_id[r])[a] = assertions[r][a]
           /\ (\A a \in Assertion : ~LostOn(r, a)) =>
                 (exit_code(r) = 0 <=>
                    \A a \in Assertion :
                        StoredStatus(test_id[r])[a] \in {PASSED, NULL})

\* The outcome of the test with this id, once its script has sent test-finish.
Decided(id) ==
    IF \E r \in Run : phase[r] = "done" /\ test_id[r] = id
    THEN assertions[CHOOSE r \in Run : phase[r] = "done" /\ test_id[r] = id]
    ELSE NULL

Decisions == [id \in TestId |-> Decided(id)]
Spoilt ==
    {d \in TestId \X Assertion :
        \E r \in Run : test_id[r] = d[1] /\ LostOn(r, d[2])}
Published ==
    [id \in TestId |-> IF Finished(id) THEN StoredStatus(id) ELSE NULL]

Board == INSTANCE TadaBoard WITH
    Part      <- Assertion,
    Verdict   <- Status \cup {NULL},
    outcome   <- Decisions,
    spoilt    <- Spoilt,
    published <- Published

\* For tests with distinct ids, on a network that keeps order, the whole
\* pipeline implements the board: rows become complete in one step, with the
\* outcome the test decided but for the verdicts that were lost before, and a
\* complete row never changes again until a purge, although each row is written
\* by many commits and tadad may be killed between any two of them.
ImplementsBoard == Board!Spec

\* Every script that completes finish() ends up as a finished row, unless tadad
\* was ended, or relaunched with a purge, meanwhile, or has lost the finish event
\* itself: whatever else is lost keeps no result out of the database.
DoneIsStored ==
    \A r \in Run :
        phase[r] = "done" ~>
            /\ phase[r] = "done"
            /\ \/ Finished(test_id[r])
               \/ ~Alive \/ launches > 0
               \/ Len(sent[r]) \in lost[r]

-----------------------------------------------------------------------------
(* Why FinishedRowComplete and ImplementsBoard hold *)

\* Of the first n events of s none is a verdict on a.
Silent(s, n, a) == \A i \in 1 .. n : ~On(s[i], a)

\* The last verdict on a among the first n events of s is v; NULL if none is.
Tells(s, n, a, v) ==
    \/ Silent(s, n, a) /\ v = NULL
    \/ \E i \in 1 .. n : /\ On(s[i], a) /\ s[i].status = v
                         /\ \A j \in i + 1 .. n : ~On(s[j], a)

Reported(r, a) == ~Silent(sent[r], Len(sent[r]), a)

\* What a declared assertion has been reported as, or is still to be.
Accounted(r, a) ==
    \/ Reported(r, a) \/ phase[r] = "killed"
    \/ phase[r] \in {"new", "starting", "running"} /\ assertions[r][a] = SKIPPED
    \/ phase[r] = "finishing" /\ a \in unsent[r]

\* What a script sends begins with test-start and ends with test-finish when it
\* is done.
OrderInv(r) ==
    /\ phase[r] = "new" => test_id[r] = NULL
    /\ phase[r] \notin {"new", "starting", "killed"} => sent[r] # <<>>
    /\ test_id[r] = NULL => sent[r] = <<>>
    /\ got[r] <= Len(sent[r])
    /\ \A i \in lost[r] : i \in 1 .. got[r]
    /\ \A i \in 1 .. Len(sent[r]) :
          /\ sent[r][i].type = "test-start" <=> i = 1
          /\ sent[r][i].type = "test-finish" <=>
                i = Len(sent[r]) /\ phase[r] = "done"

\* The last verdict a script sends on an assertion is the one it keeps.
VerdictInv(r, a) ==
    /\ assertions[r][a] # NULL => Accounted(r, a)
    /\ phase[r] = "finishing" /\ a \in unsent[r] => assertions[r][a] = SKIPPED
    /\ Reported(r, a) =>
          /\ assertions[r][a] # NULL
          /\ Tells(sent[r], Len(sent[r]), a, assertions[r][a])

ScriptInv(r) == OrderInv(r) /\ \A a \in Assertion : VerdictInv(r, a)

\* No row for an id that no test has, and no memory in a daemon that has ended.
Clean(id) == tests[id] = NoRow /\ \A a \in Assertion : asserts[id][a] = NoRow
FreshInv ==
    /\ \A id \in TestId : (\A r \in Run : test_id[r] # id) => Clean(id)
    /\ ~Alive => results = EmptyResults

HandedOver(r) == phase[r] = "done" /\ got[r] = Len(sent[r])
BeingWritten(r) == Writing /\ Cur = test_id[r]

\* The batch of a test with an id of its own ends, for each assertion of which
\* nothing was lost, with the last verdict among what has left the network.
MemoryInv(r) ==
    results[test_id[r]] # <<>> =>
        \A a \in Assertion, v \in Status \cup {NULL} :
            ~LostOn(r, a) /\ Tells(sent[r], got[r], a, v) =>
                Tells(results[test_id[r]], Len(results[test_id[r]]), a, v)

\* The status the script ended with is stored, unless it is still to be written.
Settles(r, a) ==
    IF Silent(todo, Len(todo), a)
    THEN StoredStatus(test_id[r])[a] = assertions[r][a]
    ELSE Tells(todo, Len(todo), a, assertions[r][a])

\* While its batch is written, its row is not finished, and the row and the rest
\* of the batch hold all that was not lost.
WriteInv(r) ==
    BeingWritten(r) =>
        /\ HandedOver(r)
        /\ pc = "getTest" => Clean(test_id[r])
        /\ tests[test_id[r]] # NoRow => tests[test_id[r]].finish = NULL
        /\ pc = "update" /\ tests[test_id[r]] # NoRow =>
              asserts[test_id[r]][todo[1].no] # NoRow
        /\ pc = "getTest" \/ tests[test_id[r]] # NoRow =>
              \A a \in Assertion : ~LostOn(r, a) => Settles(r, a)

\* Before it is written it has no rows; once finished, its rows are right.
RowsInv(r) ==
    /\ ~HandedOver(r) => Clean(test_id[r])
    /\ Finished(test_id[r]) =>
          \A a \in Assertion : ~LostOn(r, a) =>
              StoredStatus(test_id[r])[a] = assertions[r][a]

RunInv(r) == MemoryInv(r) /\ WriteInv(r) /\ RowsInv(r)

CompleteInv ==
    /\ FreshInv
    /\ \A r \in Run : /\ ScriptInv(r)
                      /\ test_id[r] # NULL /\ UniqueId(r) => RunInv(r)

\* Tests of different combinations have different ids.
DistinctTests == \A q, r \in Run : ComboOf[q] = ComboOf[r] => q = r
ComboInv == \A r \in Run : test_id[r] # NULL => test_id[r][1] = ComboOf[r]

\* A test that is done has decided what its script ended with.
DecidedInv ==
    \A r \in Run : phase[r] = "done" => Decided(test_id[r]) = assertions[r]
=============================================================================
