----------------------------- MODULE TadaProofs -----------------------------
(***************************************************************************)
(* Proofs about Tada and its reader TadaQuery, for every set of runs,       *)
(* assertions and combinations, and for every choice of the network and of  *)
(* the faults.                                                              *)
(***************************************************************************)
EXTENDS TadaQuery, TLAPS

\* A row of TADATest is a record with these two columns, and is not NoRow.
LEMMA TestRowFacts ==
    /\ \A t \in TestRow : t # NoRow
    /\ \A t \in TestRow :
          t.start \in Second \cup {NULL} /\ t.finish \in Second \cup {NULL}
    /\ \A s, f \in Second \cup {NULL} : ATestRow(s, f) \in TestRow
    /\ \A s, f : ATestRow(s, f).start = s /\ ATestRow(s, f).finish = f
  BY DEF TestRow, NoRow, ATestRow

\* The same for a row of TADAAssertion.
LEMMA AssertRowFacts ==
    /\ \A t \in AssertRow : t # NoRow
    /\ \A s \in Status \cup {NULL} :
          [row |-> "assert", result |-> s] \in AssertRow
  BY DEF AssertRow, NoRow

\* The fields a message has.
LEMMA MessageFacts ==
    \A m \in Message :
        /\ m.id \in TestId
        /\ m.type \in {"test-start", "assert-status", "test-finish"}
        /\ m.type = "assert-status" => m.no \in Assertion /\ m.status \in Status
        /\ m.type = "assert-status" =>
              m = [type |-> "assert-status", id |-> m.id, no |-> m.no,
                   status |-> m.status]
        /\ m.type # "assert-status" => m.ts \in Second
        /\ m.type = "test-start" =>
              m = [type |-> "test-start", id |-> m.id, ts |-> m.ts]
        /\ m.type = "test-finish" =>
              m = [type |-> "test-finish", id |-> m.id, ts |-> m.ts]
  BY DEF Message, StartMsg, AssertMsg, FinishMsg

\* A test-id has the clock's second as its second part.
LEMMA TestIdFacts ==
    /\ \A id \in TestId : id[2] \in Second
    /\ \A r \in Run, t \in Second :
          <<ComboOf[r], t>> \in TestId /\ <<ComboOf[r], t>>[2] = t
  BY ConstantsAssumption DEF TestId

\* What the steps that touch a sequence of messages leave in it.
LEMMA AppendMessage ==
    ASSUME NEW s \in Seq(Message), NEW m \in Message
    PROVE  /\ Append(s, m) \in Seq(Message)
           /\ Len(Append(s, m)) = Len(s) + 1
           /\ \A i \in 1 .. Len(s) : Append(s, m)[i] = s[i]
           /\ Append(s, m)[Len(s) + 1] = m
           /\ Append(s, m) # <<>>
  OBVIOUS

LEMMA TailMessage ==
    ASSUME NEW s \in Seq(Message), Len(s) > 0
    PROVE  /\ Head(s) = s[1] /\ Head(s) \in Message
           /\ Tail(s) \in Seq(Message)
           /\ Len(Tail(s)) = Len(s) - 1
           /\ \A i \in 1 .. Len(s) - 1 : Tail(s)[i] = s[i + 1]
  OBVIOUS

\* The empty memory and the empty tables.
LEMMA EmptyTypes ==
    /\ EmptyResults \in [TestId -> Seq(Message)]
    /\ NoTests \in [TestId -> TestRow \cup {NoRow}]
    /\ NoAsserts \in [TestId -> [Assertion -> AssertRow \cup {NoRow}]]
    /\ <<>> \in Seq(Message)
  BY DEF EmptyResults, NoTests, NoAsserts

\* Init establishes the types.
LEMMA TypeInit == Init => TypeOK
  BY ConstantsAssumption DEF Init, TypeOK, Second, Phase, DaemonPc,
     EmptyResults, NoTests, NoAsserts

\* The messages the scripts send are messages.
LEMMA SentTypes ==
    ASSUME TypeOK, NamedInv, NEW r \in Run,
           phase[r] \in {"starting", "running", "finishing", "done"}
    PROVE  /\ \A a \in Assertion, s \in Status :
                [type |-> "assert-status", id |-> test_id[r], no |-> a,
                 status |-> s] \in Message
           /\ [type |-> "test-start", id |-> test_id[r], ts |-> now]
                 \in Message
           /\ [type |-> "test-finish", id |-> test_id[r], ts |-> now]
                 \in Message
  BY DEF TypeOK, NamedInv, Message, StartMsg, AssertMsg, FinishMsg

\* A datagram that arrives is a message.
LEMMA ArrivedType ==
    ASSUME TypeOK, NEW r \in Run, NEW i \in 1 .. Len(sent[r])
    PROVE  sent[r][i] \in Message
  BY DEF TypeOK

\* What is noted of a datagram that does not arrive.
LEMMA LoseFacts ==
    ASSUME NEW r \in Run, NEW i, Lose(r, i)
    PROVE  IF Ordered /\ Alive THEN lost' = [lost EXCEPT ![r] = @ \cup {i}]
           ELSE lost' = lost
  BY DEF Lose

\* Each step keeps the types.  The steps of test_finish() rely on TodoInv: the
\* batch being written is not empty, and its head has the expected type.
LEMMA TypeStep == TypeOK /\ NamedInv /\ TodoInv /\ [Next]_vars => TypeOK'
<1> SUFFICES ASSUME TypeOK, NamedInv, TodoInv, [Next]_vars PROVE TypeOK'
    OBVIOUS
<1> USE ConstantsAssumption DEF TypeOK, clientVars, netVars, dbVars,
        daemonVars, launchVars
<1>1. ASSUME NEW r \in Run, NEW a \in Assertion, AddAssertion(r, a)
      PROVE  TypeOK'
  BY <1>1 DEF AddAssertion, Status, SKIPPED
<1>2. ASSUME NEW r \in Run, NEW a \in Assertion, SendSkipped(r, a)
      PROVE  TypeOK'
  <2>1. [type |-> "assert-status", id |-> test_id[r], no |-> a,
         status |-> SKIPPED] \in Message
    BY <1>2, SentTypes DEF SendSkipped, Status
  <2> QED
    BY <1>2, <2>1, AppendMessage DEF SendSkipped, Send
<1>3. ASSUME NEW r \in Run, NEW a \in Assertion, NEW cond \in BOOLEAN,
             AssertTest(r, a, cond)
      PROVE  TypeOK'
  <2> DEFINE status == IF cond THEN PASSED ELSE FAILED
  <2>1. status \in Status
    BY DEF Status
  <2>2. [type |-> "assert-status", id |-> test_id[r], no |-> a,
         status |-> status] \in Message
    BY <1>3, <2>1, SentTypes DEF AssertTest
  <2> HIDE DEF status
  <2>3. sent' = [sent EXCEPT ![r] =
                   Append(@, [type |-> "assert-status", id |-> test_id[r],
                              no |-> a, status |-> status])]
        /\ assertions' = [assertions EXCEPT ![r][a] = status]
    BY <1>3 DEF AssertTest, Send, status
  <2>4. sent' \in [Run -> Seq(Message)]
    BY <2>2, <2>3, AppendMessage
  <2>5. assertions' \in [Run -> [Assertion -> Status \cup {NULL}]]
    BY <2>1, <2>3
  <2>6. phase' \in [Run -> Phase] /\ unsent' \in [Run -> SUBSET Assertion]
    <3> DEFINE rest == {b \in Declared(r) : b # a /\ assertions[r][b] = SKIPPED}
    <3>1. rest \in SUBSET Assertion
      BY DEF Declared
    <3>2. \/ /\ phase' = [phase EXCEPT ![r] = "finishing"]
             /\ unsent' = [unsent EXCEPT ![r] = rest]
          \/ phase' = phase /\ unsent' = unsent
      BY <1>3 DEF AssertTest
    <3> HIDE DEF rest
    <3> QED
      BY <3>1, <3>2 DEF Phase
  <2>7. calls' \in [Run -> Nat] /\ \A q \in Run : calls'[q] <= MaxAsserts[q]
    <3>1. calls' = [calls EXCEPT ![r] = @ + 1] /\ calls[r] < MaxAsserts[r]
      BY <1>3 DEF AssertTest
    <3>2. calls \in [Run -> Nat] /\ MaxAsserts \in [Run -> Nat]
      OBVIOUS
    <3>3. \A q \in Run : calls'[q] = IF q = r THEN calls[q] + 1 ELSE calls[q]
      BY <3>1, <3>2
    <3>4. calls' \in [Run -> Nat]
      BY <3>1, <3>2
    <3>5. \A q \in Run : calls[q] <= MaxAsserts[q]
      OBVIOUS
    <3>6. calls[r] \in Nat /\ MaxAsserts[r] \in Nat
      BY <3>2
    <3>7. calls[r] + 1 <= MaxAsserts[r]
      BY <3>1, <3>6
    <3> QED
      BY <3>3, <3>4, <3>5, <3>7
  <2>8. /\ now' = now /\ test_id' = test_id /\ got' = got /\ lost' = lost
        /\ UNCHANGED <<daemonVars, launchVars, dbVars>>
    BY <1>3 DEF AssertTest
  <2>9. /\ now' \in Second /\ test_id' \in [Run -> TestId \cup {NULL}]
        /\ got' \in [Run -> Nat] /\ lost' \in [Run -> SUBSET Nat]
    BY <2>8
  <2> QED
    BY <2>4, <2>5, <2>6, <2>7, <2>8, <2>9
<1>4. ASSUME NEW r \in Run, Start(r)
      PROVE  TypeOK'
  BY <1>4, TestIdFacts DEF Start, Phase
<1>4a. ASSUME NEW r \in Run, SendStart(r)
       PROVE  TypeOK'
  BY <1>4a, SentTypes, AppendMessage DEF SendStart, Send, Phase
<1>5. ASSUME NEW r \in Run, BeginFinish(r)
      PROVE  TypeOK'
  BY <1>5 DEF BeginFinish, Declared, Phase
<1>6. ASSUME NEW r \in Run, SendFinish(r)
      PROVE  TypeOK'
  BY <1>6, SentTypes, AppendMessage DEF SendFinish, Send, Phase
<1>7. ASSUME NEW r \in Run, Kill(r)
      PROVE  TypeOK'
  BY <1>7 DEF Kill, Phase
<1>8. ASSUME NEW r \in Run, Drop(r)
      PROVE  TypeOK'
  <2>1. /\ got[r] + 1 \in Nat
        /\ got' = [got EXCEPT ![r] = @ + 1]
        /\ lost' = lost \/ lost' = [lost EXCEPT ![r] = @ \cup {got[r] + 1}]
    BY <1>8, LoseFacts DEF Drop
  <2>2. got' \in [Run -> Nat] /\ lost' \in [Run -> SUBSET Nat]
    <3>1. lost[r] \cup {got[r] + 1} \in SUBSET Nat
      BY <2>1
    <3>2. got' \in [Run -> Nat]
      BY <2>1
    <3>3. lost' \in [Run -> SUBSET Nat]
      BY <2>1, <3>1
    <3> QED
      BY <3>2, <3>3
  <2>3. UNCHANGED <<now, clientVars, sent, daemonVars, launchVars, dbVars>>
    BY <1>8 DEF Drop
  <2> QED
    BY <2>2, <2>3
<1>8a. ASSUME NEW r \in Run, NEW i \in 1 .. Len(sent[r]), SigtermSwallowed(r, i)
       PROVE  TypeOK'
  <2>1. /\ got' = got \/ got' = [got EXCEPT ![r] = i]
        /\ lost' = lost \/ lost' = [lost EXCEPT ![r] = @ \cup {i}]
    BY <1>8a, LoseFacts DEF SigtermSwallowed, Delivered
  <2>2. got' \in [Run -> Nat] /\ lost' \in [Run -> SUBSET Nat]
    <3>0. i \in Nat
      OBVIOUS
    <3>1. lost[r] \cup {i} \in SUBSET Nat
      BY <3>0
    <3>2. got' \in [Run -> Nat]
      BY <2>1, <3>0
    <3>3. lost' \in [Run -> SUBSET Nat]
      BY <2>1, <3>1
    <3> QED
      BY <3>2, <3>3
  <2>3. UNCHANGED <<now, clientVars, sent, daemonVars, launchVars, dbVars>>
    BY <1>8a DEF SigtermSwallowed
  <2> QED
    BY <2>2, <2>3
<1>9. ASSUME NEW r \in Run, NEW i \in 1 .. Len(sent[r]),
             RecvStart(r, i) \/ RecvAssert(r, i)
      PROVE  TypeOK'
  <2>1. sent[r][i] \in Message /\ sent[r][i].id \in TestId
    BY ArrivedType, MessageFacts
  <2>2. <<sent[r][i]>> \in Seq(Message)
    BY <2>1
  <2>3. CASE RecvStart(r, i)
    BY <2>1, <2>2, <2>3 DEF RecvStart, Delivered
  <2>4. CASE RecvAssert(r, i)
    BY <2>1, <2>4, AppendMessage, SMTT(40) DEF RecvAssert, Delivered
  <2> QED
    BY <1>9, <2>3, <2>4
<1>10. ASSUME NEW r \in Run, NEW i \in 1 .. Len(sent[r]), RecvFinish(r, i)
       PROVE  TypeOK'
  <2>1. sent[r][i] \in Message /\ sent[r][i].id \in TestId
    BY ArrivedType, MessageFacts
  <2> QED
    BY <1>10, <2>1, AppendMessage, SMTT(40) DEF RecvFinish, Delivered, Arrives, DaemonPc
<1>11. ASSUME NEW r \in Run, NEW i \in 1 .. Len(sent[r]), RecvKeyError(r, i)
       PROVE  TypeOK'
  BY <1>11, EmptyTypes DEF RecvKeyError, Delivered, Arrives, DaemonPc
<1>12. ASSUME GetTest
       PROVE  TypeOK'
  <2>1. Cur \in TestId
    BY <1>12, MessageFacts DEF GetTest, TodoInv, Writing, Cur
  <2> QED
    BY <1>12, <2>1, TestRowFacts DEF GetTest, DaemonPc
<1>13. ASSUME DbTestStart
       PROVE  TypeOK'
  <2>1. Cur \in TestId /\ Head(todo).ts \in Second /\ Tail(todo) \in Seq(Message)
    BY <1>13, MessageFacts, TailMessage DEF DbTestStart, TodoInv, Writing, Cur
  <2> QED
    BY <1>13, <2>1, TestRowFacts DEF DbTestStart, UpdateTest
<1>14. ASSUME GetAssertion
       PROVE  TypeOK'
  <2>1. Cur \in TestId /\ Head(todo).no \in Assertion
    BY <1>14, MessageFacts, TailMessage DEF GetAssertion, TodoInv, Writing, Cur
  <2> QED
    BY <1>14, <2>1, AssertRowFacts DEF GetAssertion, DaemonPc
<1>15. ASSUME DbTestAssert
       PROVE  TypeOK'
  <2>1. /\ Cur \in TestId /\ Head(todo).no \in Assertion
        /\ Head(todo).status \in Status
        /\ Tail(todo) \in Seq(Message)
    BY <1>15, MessageFacts, TailMessage DEF DbTestAssert, TodoInv, Writing, Cur
  <2> QED
    BY <1>15, <2>1, AssertRowFacts DEF DbTestAssert, DaemonPc
<1>16. ASSUME DbTestFinish
       PROVE  TypeOK'
  <2>1. Cur \in TestId /\ Head(todo).ts \in Second
    BY <1>16, MessageFacts, TailMessage DEF DbTestFinish, TodoInv, Writing, Cur
  <2>2. tests' \in [TestId -> TestRow \cup {NoRow}]
    <3>1. tests[Cur] # NoRow =>
             ATestRow(tests[Cur].start, Head(todo).ts) \in TestRow
      BY <2>1, TestRowFacts
    <3> QED
      BY <1>16, <2>1, <3>1 DEF DbTestFinish, UpdateTest
  <2>3. /\ results' \in [TestId -> Seq(Message)] /\ todo' \in Seq(Message)
        /\ pc' \in DaemonPc
    BY <1>16, <2>1, EmptyTypes DEF DbTestFinish, DaemonPc
  <2> QED
    BY <1>16, <2>2, <2>3 DEF DbTestFinish
<1>17. ASSUME NoTableError \/ Sigterm
       PROVE  TypeOK'
  BY <1>17, EmptyTypes DEF NoTableError, Sigterm, DaemonPc
<1>18. ASSUME Startup
       PROVE  TypeOK'
  <2>1. CASE Launch
    BY <2>1 DEF Launch
  <2>2. CASE DropTables
    BY <2>2, EmptyTypes DEF DropTables
  <2>3. CASE InitTables
    BY <2>3 DEF InitTables
  <2>4. CASE Bind
    BY <2>4 DEF Bind, DaemonPc
  <2>5. CASE StarterKilled
    BY <2>5 DEF StarterKilled
  <2> QED
    BY <1>18, <2>1, <2>2, <2>3, <2>4, <2>5 DEF Startup
<1>19. ASSUME Tick
       PROVE  TypeOK'
  BY <1>19 DEF Tick, Second
<1>20. CASE UNCHANGED vars
  BY <1>20 DEF vars
<1> HIDE DEF TypeOK
<1> QED
  BY <1>1, <1>2, <1>3, <1>4, <1>4a, <1>5, <1>6, <1>7, <1>8, <1>8a, <1>9,
     <1>10, <1>11, <1>12, <1>13, <1>14, <1>15, <1>16, <1>17, <1>18, <1>19,
     <1>20 DEF Next, Client, Receive, Vanish, Replay

-----------------------------------------------------------------------------
(* How a step changes what was sent, the clock and the names. *)

\* Only a step of a script changes the scripts and sends something, and only
\* Tick moves the clock.
LEMMA ServerFrame ==
    ASSUME [Next]_vars
    PROVE  \/ \E r \in Run : Client(r)
           \/ /\ phase' = phase /\ test_id' = test_id /\ sent' = sent
              /\ assertions' = assertions /\ unsent' = unsent
              /\ now' = now \/ Tick
<1> DEFINE Frame == /\ phase' = phase /\ test_id' = test_id /\ sent' = sent
                    /\ assertions' = assertions /\ unsent' = unsent
                    /\ now' = now \/ Tick
<1> USE DEF clientVars, netVars
<1>1. ASSUME NEW r \in Run, Receive(r) \/ Vanish(r)
      PROVE  Frame
  <2>1. CASE Receive(r)
    BY <2>1 DEF Receive, RecvStart, RecvAssert, RecvFinish, RecvKeyError
  <2>2. CASE Vanish(r)
    BY <2>2 DEF Vanish, Drop, SigtermSwallowed
  <2> QED
    BY <1>1, <2>1, <2>2
<1>2. ASSUME Replay
      PROVE  Frame
  BY <1>2 DEF Replay, GetTest, DbTestStart, GetAssertion, DbTestAssert,
     DbTestFinish, NoTableError
<1>3. ASSUME Sigterm \/ Startup
      PROVE  Frame
  BY <1>3 DEF Sigterm, Startup, Launch, DropTables, InitTables, Bind,
     StarterKilled
<1>3a. ASSUME Tick
       PROVE  Frame
  <2>1. UNCHANGED <<clientVars, netVars>>
    BY <1>3a DEF Tick
  <2> QED
    BY <1>3a, <2>1
<1>4. ASSUME UNCHANGED vars
      PROVE  Frame
  BY <1>4 DEF vars
<1> HIDE DEF Frame
<1>5. (\E r \in Run : Client(r)) \/ Frame
  <2>1. CASE Next
    <3>1. CASE \E r \in Run : Client(r) \/ Receive(r) \/ Vanish(r)
      BY <1>1, <3>1
    <3>2. CASE Replay \/ Sigterm \/ Startup \/ Tick
      BY <1>2, <1>3, <1>3a, <3>2
    <3> QED
      BY <2>1, <3>1, <3>2 DEF Next
  <2> QED
    BY <1>4, <2>1
<1> QED
  BY <1>5 DEF Frame

\* A step sends at most one message, under the id of its sender and with the
\* clock's time; the first message of a script is the only test-start.
LEMMA SentStep ==
    ASSUME TypeOK, NamedInv, ClockInv, [Next]_vars
    PROVE  \/ sent' = sent
           \/ \E r \in Run, m \in Message :
                /\ sent' = [sent EXCEPT ![r] = Append(@, m)]
                /\ now' = now /\ test_id' = test_id /\ m.id = test_id[r]
                /\ m.type # "assert-status" => m.ts = now
                /\ m.type = "test-start" => sent[r] = <<>>
                /\ phase'[r] \notin {"new", "starting"}
                /\ \A q \in Run \ {r} : phase'[q] = phase[q]
<1> DEFINE Says(r, m) ==
                /\ sent' = [sent EXCEPT ![r] = Append(@, m)]
                /\ now' = now /\ test_id' = test_id /\ m.id = test_id[r]
                /\ m.type # "assert-status" => m.ts = now
                /\ m.type = "test-start" => sent[r] = <<>>
                /\ phase'[r] \notin {"new", "starting"}
                /\ \A q \in Run \ {r} : phase'[q] = phase[q]
<1>1. ASSUME NEW r \in Run, NEW a \in Assertion, NEW status \in Status,
             phase[r] \in {"running", "finishing"}, test_id' = test_id, now' = now,
             phase' = phase \/ phase' = [phase EXCEPT ![r] = "finishing"],
             Send(r, [type |-> "assert-status", id |-> test_id[r], no |-> a,
                      status |-> status])
      PROVE  \E m \in Message : Says(r, m)
  <2> DEFINE m == [type |-> "assert-status", id |-> test_id[r], no |-> a,
                   status |-> status]
  <2>1. m \in Message /\ m.type = "assert-status" /\ m.id = test_id[r]
    BY <1>1, SentTypes
  <2>2. sent' = [sent EXCEPT ![r] = Append(@, m)]
    BY <1>1 DEF Send
  <2>3. /\ phase'[r] \notin {"new", "starting"}
        /\ \A q \in Run \ {r} : phase'[q] = phase[q]
    BY <1>1 DEF TypeOK
  <2> HIDE DEF m
  <2> QED
    BY <1>1, <2>1, <2>2, <2>3
<1>2. ASSUME NEW r \in Run, SendStart(r)
      PROVE  \E m \in Message : Says(r, m)
  <2> DEFINE m == [type |-> "test-start", id |-> test_id[r], ts |-> now]
  <2>1. m \in Message /\ m.type = "test-start" /\ m.id = test_id[r] /\ m.ts = now
    BY <1>2, SentTypes DEF SendStart
  <2>2. sent' = [sent EXCEPT ![r] = Append(@, m)] /\ sent[r] = <<>>
    BY <1>2 DEF SendStart, Send, ClockInv
  <2>3. /\ phase'[r] \notin {"new", "starting"}
        /\ \A q \in Run \ {r} : phase'[q] = phase[q]
    BY <1>2 DEF SendStart, TypeOK
  <2> HIDE DEF m
  <2> QED
    BY <1>2, <2>1, <2>2, <2>3 DEF SendStart
<1>3. ASSUME NEW r \in Run, SendFinish(r)
      PROVE  \E m \in Message : Says(r, m)
  <2> DEFINE m == [type |-> "test-finish", id |-> test_id[r], ts |-> now]
  <2>1. m \in Message /\ m.type = "test-finish" /\ m.id = test_id[r] /\ m.ts = now
    BY <1>3, SentTypes DEF SendFinish
  <2>2. sent' = [sent EXCEPT ![r] = Append(@, m)]
    BY <1>3 DEF SendFinish, Send
  <2>3. /\ phase'[r] \notin {"new", "starting"}
        /\ \A q \in Run \ {r} : phase'[q] = phase[q]
    BY <1>3 DEF SendFinish, TypeOK
  <2> HIDE DEF m
  <2> QED
    BY <1>3, <2>1, <2>2, <2>3 DEF SendFinish
<1>4. ASSUME NEW r \in Run, NEW a \in Assertion, SendSkipped(r, a)
      PROVE  \E m \in Message : Says(r, m)
  <2>1. SKIPPED \in Status
    BY DEF Status
  <2> QED
    BY <1>1, <1>4, <2>1 DEF SendSkipped
<1>5. ASSUME NEW r \in Run, NEW a \in Assertion, NEW cond \in BOOLEAN,
             AssertTest(r, a, cond)
      PROVE  \E m \in Message : Says(r, m)
  <2> DEFINE status == IF cond THEN PASSED ELSE FAILED
  <2>1. status \in Status
    BY DEF Status
  <2>2. Send(r, [type |-> "assert-status", id |-> test_id[r], no |-> a,
                 status |-> status])
    BY <1>5 DEF AssertTest
  <2>3. phase' = phase \/ phase' = [phase EXCEPT ![r] = "finishing"]
    BY <1>5 DEF AssertTest
  <2> HIDE DEF status
  <2> QED
    BY <1>1, <1>5, <2>1, <2>2, <2>3 DEF AssertTest
<1> HIDE DEF Says
<1>6. \/ sent' = sent
      \/ \E r \in Run, m \in Message : Says(r, m)
  <2>1. ASSUME NEW r \in Run, Client(r)
        PROVE  sent' = sent \/ \E m \in Message : Says(r, m)
    <3>1. CASE \E a \in Assertion : AddAssertion(r, a)
      BY <3>1 DEF AddAssertion, netVars
    <3>2. CASE Start(r) \/ BeginFinish(r) \/ Kill(r)
      BY <3>2 DEF Start, BeginFinish, Kill, netVars
    <3> QED
      BY <1>2, <1>3, <1>4, <1>5, <2>1, <3>1, <3>2 DEF Client
  <2> QED
    BY <2>1, ServerFrame
<1> QED
  BY <1>6 DEF Says

\* Sent before or by this step.
SentNext(m) == \E r \in Run : \E i \in 1 .. Len(sent'[r]) : sent'[r][i] = m

\* What was sent stays sent.
LEMMA WasSentMono ==
    ASSUME TypeOK, NamedInv, ClockInv, [Next]_vars
    PROVE  \A m : WasSent(m) => SentNext(m)
<1> SUFFICES ASSUME NEW m, NEW r \in Run, NEW i \in 1 .. Len(sent[r]),
                    sent[r][i] = m
             PROVE  SentNext(m)
    BY DEF WasSent
<1>2. CASE sent' = sent
  BY <1>2 DEF SentNext
<1>3. ASSUME NEW q \in Run, NEW n \in Message,
             sent' = [sent EXCEPT ![q] = Append(@, n)]
      PROVE  SentNext(m)
  <2>1. Len(sent'[r]) >= Len(sent[r]) /\ sent'[r][i] = m
    BY <1>3, AppendMessage DEF TypeOK
  <2>2. i \in 1 .. Len(sent'[r])
    BY <1>3, <2>1, AppendMessage DEF TypeOK
  <2> QED
    BY <2>1, <2>2 DEF SentNext
<1> QED
  BY <1>2, <1>3, SentStep

LEMMA NamedStep == TypeOK /\ NamedInv /\ [Next]_vars => NamedInv'
<1> SUFFICES ASSUME TypeOK, NamedInv, [Next]_vars PROVE NamedInv'
    OBVIOUS
<1>1. ASSUME NEW r \in Run, Start(r)
      PROVE  NamedInv'
  BY <1>1, TestIdFacts DEF Start, NamedInv, TypeOK
<1>2. ASSUME NEW r \in Run, NEW a \in Assertion, NEW cond \in BOOLEAN,
             AssertTest(r, a, cond)
      PROVE  NamedInv'
  BY <1>2 DEF AssertTest, NamedInv, TypeOK
<1>3. ASSUME NEW r \in Run,
             SendStart(r) \/ BeginFinish(r) \/ SendFinish(r) \/ Kill(r)
      PROVE  NamedInv'
  BY <1>3 DEF SendStart, BeginFinish, SendFinish, Kill, NamedInv, TypeOK
<1>4. ASSUME NEW r \in Run, NEW a \in Assertion,
             AddAssertion(r, a) \/ SendSkipped(r, a)
      PROVE  NamedInv'
  BY <1>4 DEF AddAssertion, SendSkipped, NamedInv
<1>5. CASE phase' = phase /\ test_id' = test_id
  BY <1>5 DEF NamedInv
<1> QED
  BY <1>1, <1>2, <1>3, <1>4, <1>5, ServerFrame DEF Client

\* What a script has not yet sent after a step, it had not sent before.
LEMMA UnsentStep ==
    ASSUME TypeOK, [Next]_vars, NEW r \in Run, phase'[r] \in {"new", "starting"}
    PROVE  phase[r] \in {"new", "starting"}
<1>1. ASSUME NEW q \in Run, Client(q)
      PROVE  phase[r] \in {"new", "starting"}
  <2>1. ASSUME NEW a \in Assertion, NEW cond \in BOOLEAN, AssertTest(q, a, cond)
        PROVE  phase[r] \in {"new", "starting"}
    BY <2>1 DEF AssertTest, TypeOK
  <2>2. ASSUME NEW a \in Assertion, AddAssertion(q, a) \/ SendSkipped(q, a)
        PROVE  phase[r] \in {"new", "starting"}
    BY <2>2 DEF AddAssertion, SendSkipped
  <2>3. CASE Start(q) \/ SendStart(q) \/ BeginFinish(q) \/ SendFinish(q) \/ Kill(q)
    BY <2>3 DEF Start, SendStart, BeginFinish, SendFinish, Kill, TypeOK
  <2> QED
    BY <1>1, <2>1, <2>2, <2>3 DEF Client
<1> QED
  BY <1>1, ServerFrame

\* A script that has sent something keeps its test-id.
LEMMA SenderKeepsId ==
    ASSUME TypeOK, ClockInv, [Next]_vars, NEW r \in Run, sent[r] # <<>>
    PROVE  test_id'[r] = test_id[r]
<1>1. ASSUME NEW q \in Run, Client(q)
      PROVE  Start(q) \/ test_id' = test_id
  BY <1>1 DEF Client, AddAssertion, SendSkipped, AssertTest, SendStart,
     BeginFinish, SendFinish, Kill
<1>2. ASSUME NEW q \in Run, Start(q)
      PROVE  test_id'[r] = test_id[r]
  <2>1. q # r /\ test_id' = [test_id EXCEPT ![q] = <<ComboOf[q], now>>]
    BY <1>2 DEF Start, ClockInv
  <2> QED
    BY <2>1 DEF TypeOK
<1> QED
  BY <1>1, <1>2, ServerFrame

\* The clock does not go back.
LEMMA NowStep ==
    ASSUME TypeOK, [Next]_vars
    PROVE  now \in Nat /\ now' \in Nat /\ now <= now'
<1>1. now \in Nat
  BY ConstantsAssumption DEF TypeOK, Second
<1>2. now' = now \/ now' = now + 1
  <2>1. ASSUME NEW r \in Run, Client(r)
        PROVE  now' = now
    BY <2>1 DEF Client, AddAssertion, SendSkipped, AssertTest, Start, SendStart,
       BeginFinish, SendFinish, Kill
  <2> QED
    BY <2>1, ServerFrame DEF Tick
<1> QED
  BY <1>1, <1>2

LEMMA ClockStep ==
    TypeOK /\ NamedInv /\ ClockInv /\ [Next]_vars => ClockInv'
<1> SUFFICES ASSUME TypeOK, NamedInv, ClockInv, [Next]_vars PROVE ClockInv'
    OBVIOUS
<1> SUFFICES ASSUME NEW r \in Run
             PROVE  /\ phase'[r] \in {"new", "starting"} => sent'[r] = <<>>
                    /\ \A i \in 1 .. Len(sent'[r]) :
                          /\ sent'[r][i].id = test_id'[r]
                          /\ sent'[r][i].type # "assert-status" =>
                                sent'[r][i].ts <= now'
                    /\ \A i, j \in 1 .. Len(sent'[r]) :
                          sent'[r][i].type = "test-start"
                          /\ sent'[r][j].type = "test-finish"
                              => sent'[r][i].ts <= sent'[r][j].ts
    BY DEF ClockInv
<1> DEFINE Kept == /\ phase'[r] \in {"new", "starting"} => sent'[r] = <<>>
                   /\ \A i \in 1 .. Len(sent'[r]) :
                         /\ sent'[r][i].id = test_id'[r]
                         /\ sent'[r][i].type # "assert-status" =>
                               sent'[r][i].ts <= now'
                   /\ \A i, j \in 1 .. Len(sent'[r]) :
                         sent'[r][i].type = "test-start"
                         /\ sent'[r][j].type = "test-finish"
                             => sent'[r][i].ts <= sent'[r][j].ts
<1>1. now \in Nat /\ now' \in Nat /\ now <= now'
  BY NowStep
<1>2. sent[r] \in Seq(Message)
  BY DEF TypeOK
<1>3. \A i \in 1 .. Len(sent[r]) :
          sent[r][i].type # "assert-status" =>
              sent[r][i].ts \in Nat /\ sent[r][i].ts <= now
  BY ArrivedType, MessageFacts, ConstantsAssumption DEF ClockInv, Second
<1>4. \A i \in 1 .. Len(sent[r]) : sent[r][i].id = test_id[r]
  BY DEF ClockInv
<1>5. ASSUME sent'[r] = sent[r]
      PROVE  Kept
  <2>1. phase'[r] \in {"new", "starting"} => sent[r] = <<>>
    BY UnsentStep DEF ClockInv
  <2>2. sent[r] # <<>> => test_id'[r] = test_id[r]
    BY SenderKeepsId
  <2>3. ASSUME NEW i \in 1 .. Len(sent[r])
        PROVE  /\ sent[r][i].id = test_id'[r]
               /\ sent[r][i].type # "assert-status" => sent[r][i].ts <= now'
    <3>1. sent[r] # <<>>
      BY <1>2
    <3>2. sent[r][i].id = test_id'[r]
      BY <1>4, <2>2, <3>1
    <3>3. sent[r][i].type # "assert-status" => sent[r][i].ts <= now'
      BY <1>1, <1>3
    <3> QED
      BY <3>2, <3>3
  <2>4. \A i, j \in 1 .. Len(sent[r]) :
            sent[r][i].type = "test-start" /\ sent[r][j].type = "test-finish"
                => sent[r][i].ts <= sent[r][j].ts
    BY DEF ClockInv
  <2> QED
    BY <1>5, <2>1, <2>3, <2>4
<1>6. ASSUME NEW m \in Message, sent'[r] = Append(sent[r], m),
             now' = now, test_id' = test_id, m.id = test_id[r],
             m.type # "assert-status" => m.ts = now,
             m.type = "test-start" => sent[r] = <<>>,
             phase'[r] \notin {"new", "starting"}
      PROVE  Kept
  <2>1. \A i \in 1 .. Len(sent'[r]) :
            \/ i \in 1 .. Len(sent[r]) /\ sent'[r][i] = sent[r][i]
            \/ sent'[r][i] = m
    BY <1>2, <1>6, AppendMessage
  <2>2. ASSUME NEW i \in 1 .. Len(sent'[r])
        PROVE  /\ sent'[r][i].id = test_id'[r]
               /\ sent'[r][i].type # "assert-status" => sent'[r][i].ts <= now'
    BY <1>1, <1>3, <1>4, <1>6, <2>1
  <2>3. ASSUME NEW i \in 1 .. Len(sent'[r]), NEW j \in 1 .. Len(sent'[r]),
               sent'[r][i].type = "test-start", sent'[r][j].type = "test-finish"
        PROVE  sent'[r][i].ts <= sent'[r][j].ts
    <3>1. CASE i \in 1 .. Len(sent[r]) /\ sent'[r][i] = sent[r][i] /\ sent'[r][j] = m
      BY <1>1, <1>3, <1>6, <2>3, <3>1
    <3>2. CASE /\ i \in 1 .. Len(sent[r]) /\ sent'[r][i] = sent[r][i]
               /\ j \in 1 .. Len(sent[r]) /\ sent'[r][j] = sent[r][j]
      BY <2>3, <3>2 DEF ClockInv
    <3>3. CASE sent'[r][i] = m /\ j \in 1 .. Len(sent[r])
      <4>1. sent[r] = <<>>
        BY <1>6, <2>3, <3>3
      <4> QED
        BY <3>3, <4>1
    <3>4. CASE sent'[r][i] = m /\ sent'[r][j] = m
      BY <2>3, <3>4
    <3> QED
      BY <2>1, <3>1, <3>2, <3>3, <3>4
  <2>4. \A i, j \in 1 .. Len(sent'[r]) :
            sent'[r][i].type = "test-start" /\ sent'[r][j].type = "test-finish"
                => sent'[r][i].ts <= sent'[r][j].ts
    BY <2>3
  <2>5. \A i \in 1 .. Len(sent'[r]) :
            /\ sent'[r][i].id = test_id'[r]
            /\ sent'[r][i].type # "assert-status" => sent'[r][i].ts <= now'
    BY <2>2
  <2>6. phase'[r] \notin {"new", "starting"}
    BY <1>6
  <2> QED
    BY <2>4, <2>5, <2>6, Zenon
<1>7. ASSUME NEW q \in Run, NEW m \in Message,
             sent' = [sent EXCEPT ![q] = Append(@, m)],
             now' = now, test_id' = test_id, m.id = test_id[q],
             m.type # "assert-status" => m.ts = now,
             m.type = "test-start" => sent[q] = <<>>,
             phase'[q] \notin {"new", "starting"}
      PROVE  Kept
  <2>1. \/ sent'[r] = sent[r]
        \/ r = q /\ sent'[r] = Append(sent[r], m)
    BY <1>7 DEF TypeOK
  <2>2. CASE sent'[r] = sent[r]
    BY <1>5, <2>2
  <2>3. CASE r = q /\ sent'[r] = Append(sent[r], m)
    <3>1. /\ m.id = test_id[r] /\ m.type = "test-start" => sent[r] = <<>>
          /\ phase'[r] \notin {"new", "starting"}
      BY <1>7, <2>3
    <3> HIDE DEF Kept
    <3> QED
      BY <1>6, <1>7, <2>3, <3>1
  <2> QED
    BY <2>1, <2>2, <2>3
<1> HIDE DEF Kept
<1>8. Kept
  BY <1>5, <1>7, SentStep
<1> QED
  BY <1>8 DEF Kept

-----------------------------------------------------------------------------
(* The daemon's memory and the database. *)

\* The steps that change the daemon or the rows, one by one.
Quiet == /\ pc' = pc /\ results' = results /\ todo' = todo
         /\ tests' = tests /\ asserts' = asserts

\* The daemon ends, for whatever reason.
Ends == /\ pc' \in {"down", "dead"} /\ results' = EmptyResults /\ todo' = <<>>
        /\ tests' = tests /\ asserts' = asserts

\* A step that is not one of the daemon's own leaves its memory and the rows
\* alone, ends it, starts it afresh or purges the rows.
LEMMA DaemonCases ==
    ASSUME [Next]_vars
    PROVE  \/ Quiet \/ Ends \/ Bind \/ DropTables
           \/ GetTest \/ DbTestStart \/ GetAssertion \/ DbTestAssert
           \/ DbTestFinish
           \/ \E r \in Run : \E i \in 1 .. Len(sent[r]) :
                RecvStart(r, i) \/ RecvAssert(r, i) \/ RecvFinish(r, i)
<1> USE DEF daemonVars, dbVars
<1>1. ASSUME NEW r \in Run, Client(r) \/ Vanish(r)
      PROVE  Quiet
  <2>1. CASE Client(r)
    BY <2>1 DEF Client, AddAssertion, SendSkipped, AssertTest, Start, SendStart,
       BeginFinish, SendFinish, Kill, Quiet
  <2>2. CASE Vanish(r)
    BY <2>2 DEF Vanish, Drop, SigtermSwallowed, Quiet
  <2> QED
    BY <1>1, <2>1, <2>2
<1>2. ASSUME NEW r \in Run, NEW i \in 1 .. Len(sent[r]), RecvKeyError(r, i)
      PROVE  Ends
  BY <1>2 DEF RecvKeyError, Ends
<1>3. ASSUME NoTableError \/ Sigterm
      PROVE  Ends
  BY <1>3 DEF NoTableError, Sigterm, Ends
<1>4. ASSUME Launch \/ InitTables \/ StarterKilled \/ Tick
      PROVE  Quiet
  BY <1>4 DEF Launch, InitTables, StarterKilled, Tick, Quiet
<1>5. ASSUME UNCHANGED vars
      PROVE  Quiet
  BY <1>5 DEF vars, Quiet
<1>6. CASE \E r \in Run : Client(r) \/ Receive(r) \/ Vanish(r)
  BY <1>1, <1>2, <1>6 DEF Receive
<1>7. CASE Replay \/ Sigterm \/ Startup \/ Tick
  BY <1>3, <1>4, <1>7 DEF Replay, Startup
<1> QED
  BY <1>5, <1>6, <1>7 DEF Next

\* Writing one event moves on to the next event of the same test.
LEMMA CurStep ==
    ASSUME TypeOK, TodoInv, DbTestStart \/ DbTestAssert
    PROVE  Cur' = Cur
<1>1. Writing /\ todo' = Tail(todo) /\ todo[1].type # "test-finish"
  BY TailMessage DEF DbTestStart, DbTestAssert, Writing, TodoInv, TypeOK
<1>2. Len(todo) > 1 /\ 2 \in 1 .. Len(todo)
  BY <1>1 DEF TodoInv, TypeOK
<1>3. todo'[1] = todo[2]
  BY <1>1, <1>2, TailMessage DEF TypeOK
<1> QED
  BY <1>1, <1>2, <1>3 DEF Cur, TodoInv

LEMMA BatchStep ==
    TypeOK /\ NamedInv /\ ClockInv /\ TodoInv /\ BatchInv /\ [Next]_vars
        => BatchInv'
<1> SUFFICES ASSUME TypeOK, NamedInv, ClockInv, TodoInv, BatchInv, [Next]_vars,
                    NEW id \in TestId, NEW i \in 1 .. Len(results'[id])
             PROVE  /\ SentNext(results'[id][i])
                    /\ results'[id][i].id = id
                    /\ results'[id][i].type = "test-start" <=> i = 1
                    /\ results'[id][i].type = "test-finish" =>
                          Writing' /\ Cur' = id /\ i = Len(results'[id])
    BY DEF BatchInv, WasSent, SentNext
<1> DEFINE Fits == /\ SentNext(results'[id][i])
                   /\ results'[id][i].id = id
                   /\ results'[id][i].type = "test-start" <=> i = 1
<1>1. ASSUME results'[id] = results[id]
      PROVE  Fits
  BY <1>1, WasSentMono DEF BatchInv
<1>2. ASSUME results'[id] = <<>>
      PROVE  FALSE
  BY <1>2
<1>3. ASSUME NEW r \in Run, NEW j \in 1 .. Len(sent[r]), Arrives(r, j),
             sent[r][j].id = id, results'[id] = <<sent[r][j]>>,
             sent[r][j].type = "test-start"
      PROVE  Fits
  <2>1. i = 1 /\ results'[id][i] = sent[r][j] /\ WasSent(sent[r][j])
    BY <1>3 DEF WasSent
  <2> QED
    BY <1>3, <2>1, WasSentMono
<1>4. ASSUME NEW r \in Run, NEW j \in 1 .. Len(sent[r]),
             sent[r][j].id = id, results[id] # <<>>,
             results'[id] = Append(results[id], sent[r][j]),
             sent[r][j].type # "test-start"
      PROVE  Fits
  <2>1. sent[r][j] \in Message /\ WasSent(sent[r][j])
    BY ArrivedType DEF WasSent
  <2>2. results[id] \in Seq(Message) /\ Len(results[id]) > 0
    BY <1>4 DEF TypeOK
  <2>3. \/ i \in 1 .. Len(results[id]) /\ results'[id][i] = results[id][i]
        \/ i = Len(results[id]) + 1 /\ results'[id][i] = sent[r][j]
    BY <1>4, <2>1, <2>2, AppendMessage
  <2>4. CASE i \in 1 .. Len(results[id]) /\ results'[id][i] = results[id][i]
    BY <2>4, WasSentMono DEF BatchInv
  <2>5. CASE i = Len(results[id]) + 1 /\ results'[id][i] = sent[r][j]
    BY <1>4, <2>1, <2>2, <2>5, WasSentMono
  <2> QED
    BY <2>3, <2>4, <2>5
<1>5. ASSUME NEW r \in Run, NEW j \in 1 .. Len(sent[r]),
             RecvStart(r, j) \/ RecvAssert(r, j) \/ RecvFinish(r, j)
      PROVE  \/ results'[id] = results[id]
             \/ /\ Arrives(r, j) /\ sent[r][j].id = id
                /\ results'[id] = <<sent[r][j]>>
                /\ sent[r][j].type = "test-start"
             \/ /\ sent[r][j].id = id /\ results[id] # <<>>
                /\ results'[id] = Append(results[id], sent[r][j])
                /\ sent[r][j].type # "test-start"
  <2>1. sent[r][j].id \in TestId
    BY ArrivedType, MessageFacts
  <2> QED
    BY <1>5, <2>1 DEF RecvStart, RecvAssert, RecvFinish, TypeOK
<1> HIDE DEF Fits
<1>6. ASSUME \/ Quiet \/ Bind \/ DropTables \/ GetTest \/ DbTestStart
             \/ GetAssertion \/ DbTestAssert
      PROVE  results'[id] = results[id]
  BY <1>6 DEF Quiet, Bind, DropTables, GetTest, DbTestStart,
     GetAssertion, DbTestAssert, daemonVars
<1>7. ASSUME Ends
      PROVE  results'[id] = <<>>
  BY <1>7 DEF Ends, EmptyResults
<1>8. ASSUME DbTestFinish
      PROVE  results'[id] = <<>> \/ (results'[id] = results[id] /\ id # Cur)
  BY <1>8 DEF DbTestFinish, TypeOK
<1>9. Fits
  BY <1>1, <1>2, <1>3, <1>4, <1>5, <1>6, <1>7, <1>8, DaemonCases
<1>10. ASSUME results'[id][i].type = "test-finish"
       PROVE  Writing' /\ Cur' = id /\ i = Len(results'[id])
  <2>1. ASSUME results'[id] = results[id]
        PROVE  Writing /\ Cur = id /\ i = Len(results[id])
    BY <1>10, <2>1 DEF BatchInv
  <2>2. CASE Quiet \/ Bind \/ DropTables
    <3>1. Writing /\ Cur = id /\ i = Len(results'[id])
      BY <1>6, <2>1, <2>2
    <3>2. todo' = todo /\ pc' = pc
      BY <2>2, <3>1 DEF Quiet, Bind, DropTables, daemonVars, Writing, Alive
    <3> QED
      BY <3>1, <3>2 DEF Writing, Cur
  <2>3. CASE GetTest \/ GetAssertion
    <3>1. Writing /\ Cur = id /\ i = Len(results'[id])
      BY <1>6, <2>1, <2>3
    <3>2. todo' = todo /\ pc' \in {"replay", "update"}
      BY <2>3 DEF GetTest, GetAssertion
    <3> QED
      BY <3>1, <3>2 DEF Writing, Cur
  <2>4. CASE DbTestStart \/ DbTestAssert
    <3>1. Writing /\ Cur = id /\ i = Len(results'[id])
      BY <1>6, <2>1, <2>4
    <3>2. Cur' = Cur /\ pc' = "replay"
      BY <2>4, CurStep DEF DbTestStart, DbTestAssert
    <3> QED
      BY <3>1, <3>2 DEF Writing
  <2>5. CASE Ends
    BY <1>2, <1>7, <2>5
  <2>6. CASE DbTestFinish
    BY <1>2, <1>8, <2>1, <2>6
  <2>7. ASSUME NEW r \in Run, NEW j \in 1 .. Len(sent[r]),
               RecvStart(r, j) \/ RecvAssert(r, j) \/ RecvFinish(r, j)
        PROVE  Writing' /\ Cur' = id /\ i = Len(results'[id])
    <3>1. ~Writing
      BY <2>7 DEF RecvStart, RecvAssert, RecvFinish, Writing
    <3>2. results'[id] # results[id]
      BY <2>1, <3>1
    <3>3. sent[r][j] \in Message /\ sent[r][j].id \in TestId
      BY ArrivedType, MessageFacts
    <3>4. CASE RecvStart(r, j)
      <4>1. results'[id] = <<sent[r][j]>> /\ sent[r][j].type = "test-start"
        BY <3>2, <3>3, <3>4 DEF RecvStart, TypeOK
      <4>2. i = 1
        BY <4>1
      <4> QED
        BY <1>10, <4>1, <4>2
    <3>5. ASSUME RecvAssert(r, j) \/ RecvFinish(r, j)
          PROVE  /\ id = sent[r][j].id
                 /\ results'[id] = Append(results[id], sent[r][j])
                 /\ results[id] # <<>>
      BY <3>2, <3>3, <3>5 DEF RecvAssert, RecvFinish, TypeOK
    <3>6. ASSUME RecvAssert(r, j) \/ RecvFinish(r, j)
          PROVE  i = Len(results'[id]) /\ results'[id][i] = sent[r][j]
      <4>1. PICK b \in Seq(Message) : b = results[id]
        BY DEF TypeOK
      <4>2. results'[id] = Append(b, sent[r][j])
        BY <3>5, <3>6, <4>1
      <4>3. \/ i = Len(b) + 1 /\ results'[id][i] = sent[r][j]
            \/ i \in 1 .. Len(b) /\ results'[id][i] = b[i]
        BY <3>3, <4>2, AppendMessage
      <4>4. ~(i \in 1 .. Len(b) /\ results'[id][i] = b[i])
        BY <1>10, <3>1, <4>1 DEF BatchInv
      <4> QED
        BY <3>3, <4>2, <4>3, <4>4, AppendMessage
    <3>7. CASE RecvAssert(r, j)
      BY <1>10, <3>6, <3>7 DEF RecvAssert
    <3>8. CASE RecvFinish(r, j)
      <4>1. PICK b \in Seq(Message) : b = results[id]
        BY DEF TypeOK
      <4>2. b # <<>> /\ todo' = Append(b, sent[r][j]) /\ pc' = "getTest"
        BY <3>5, <3>8, <4>1 DEF RecvFinish
      <4>3. 1 \in 1 .. Len(b)
        BY <4>2
      <4>4. todo'[1] = b[1]
        BY <3>3, <4>2, <4>3, AppendMessage
      <4>5. b[1].id = id
        BY <4>1, <4>3 DEF BatchInv
      <4> QED
        BY <3>6, <3>8, <4>2, <4>4, <4>5 DEF Writing, Cur
    <3> QED
      BY <2>7, <3>4, <3>7, <3>8
  <2> QED
    BY <2>2, <2>3, <2>4, <2>5, <2>6, <2>7, DaemonCases
<1> QED
  BY <1>9, <1>10 DEF Fits

LEMMA TodoStep ==
    TypeOK /\ NamedInv /\ ClockInv /\ BatchInv /\ TodoInv /\ [Next]_vars
        => TodoInv'
<1> SUFFICES ASSUME TypeOK, NamedInv, ClockInv, BatchInv, TodoInv, [Next]_vars,
                    Writing'
             PROVE  /\ Len(todo') > 0
                    /\ todo'[Len(todo')].type = "test-finish"
                    /\ pc' = "getTest" => todo'[1].type = "test-start"
                    /\ pc' = "update" => todo'[1].type = "assert-status"
                    /\ \A i \in 1 .. Len(todo') :
                          /\ SentNext(todo'[i])
                          /\ todo'[i].id = todo'[1].id
                          /\ i > 1 => todo'[i].type # "test-start"
                          /\ i < Len(todo') => todo'[i].type # "test-finish"
    BY DEF TodoInv, WasSent, SentNext
<1>2. CASE Quiet \/ Bind \/ DropTables
  <2>1. todo' = todo /\ (pc' = pc \/ pc' = "recv")
    BY <1>2 DEF Quiet, Bind, DropTables, daemonVars
  <2>2. pc' = pc
    BY <2>1 DEF Writing
  <2> QED
    BY <2>1, <2>2, WasSentMono DEF TodoInv, Writing
<1>3. CASE Ends \/ DbTestFinish
  BY <1>3 DEF Ends, DbTestFinish, Writing
<1>4. CASE GetTest \/ GetAssertion
  <2>1. todo' = todo /\ Writing
    BY <1>4 DEF GetTest, GetAssertion, Writing
  <2>2. pc' # "getTest" /\ (pc' = "update" => todo[1].type = "assert-status")
    BY <1>4, <2>1, TailMessage DEF GetTest, GetAssertion, TodoInv, TypeOK
  <2> QED
    BY <2>1, <2>2, WasSentMono DEF TodoInv
<1>5. CASE DbTestStart \/ DbTestAssert
  <2>1. /\ Writing /\ todo' = Tail(todo) /\ pc' = "replay"
        /\ todo[1].type # "test-finish"
    BY <1>5, TailMessage DEF DbTestStart, DbTestAssert, Writing, TodoInv, TypeOK
  <2>2. Len(todo) > 1
    BY <2>1 DEF TodoInv, TypeOK
  <2>3. /\ Len(todo') = Len(todo) - 1
        /\ \A i \in 1 .. Len(todo') : todo'[i] = todo[i + 1]
    BY <2>1, <2>2, TailMessage DEF TypeOK
  <2>3a. /\ Len(todo) \in Nat /\ Len(todo') \in Nat /\ Len(todo') > 0
         /\ Len(todo') + 1 = Len(todo)
    BY <2>2, <2>3 DEF TypeOK
  <2>3b. 1 \in 1 .. Len(todo') /\ Len(todo') \in 1 .. Len(todo')
    BY <2>3a
  <2>4. todo'[Len(todo')] = todo[Len(todo)]
    BY <2>3, <2>3a, <2>3b
  <2>5. \A i \in 1 .. Len(todo') :
            i + 1 \in 1 .. Len(todo) /\ i + 1 > 1
    BY <2>2, <2>3 DEF TypeOK
  <2>6. \A i \in 1 .. Len(todo') :
            /\ SentNext(todo'[i])
            /\ todo'[i].id = todo[1].id
            /\ todo'[i].type # "test-start"
    BY <2>1, <2>3, <2>5, WasSentMono DEF TodoInv
  <2>7. ASSUME NEW i \in 1 .. Len(todo'), i < Len(todo')
        PROVE  todo'[i].type # "test-finish"
    <3>1. i + 1 \in 1 .. Len(todo) /\ i + 1 < Len(todo)
      BY <2>3a, <2>7
    <3> QED
      BY <2>1, <2>3, <3>1 DEF TodoInv
  <2> QED
    BY <2>1, <2>3a, <2>3b, <2>4, <2>6, <2>7 DEF TodoInv
<1>6. ASSUME NEW r \in Run, NEW j \in 1 .. Len(sent[r]), RecvFinish(r, j)
      PROVE  /\ Len(todo') > 0
             /\ todo'[Len(todo')].type = "test-finish"
             /\ pc' = "getTest" => todo'[1].type = "test-start"
             /\ pc' = "update" => todo'[1].type = "assert-status"
             /\ \A i \in 1 .. Len(todo') :
                   /\ SentNext(todo'[i])
                   /\ todo'[i].id = todo'[1].id
                   /\ i > 1 => todo'[i].type # "test-start"
                   /\ i < Len(todo') => todo'[i].type # "test-finish"
  <2> DEFINE m == sent[r][j]
             b == results[m.id]
  <2>1. m \in Message /\ m.id \in TestId /\ WasSent(m)
    BY ArrivedType, MessageFacts DEF WasSent
  <2>2. b \in Seq(Message) /\ Len(b) > 0 /\ todo' = Append(b, m)
        /\ pc' = "getTest" /\ m.type = "test-finish"
    <3>1. /\ b # <<>> /\ todo' = Append(b, m)
          /\ pc' = "getTest" /\ m.type = "test-finish"
      BY <1>6 DEF RecvFinish
    <3>2. b \in Seq(Message)
      BY <2>1 DEF TypeOK
    <3> HIDE DEF b, m
    <3> QED
      BY <3>1, <3>2
  <2>3. \A i \in 1 .. Len(b) : /\ WasSent(b[i]) /\ b[i].id = m.id
                               /\ b[i].type = "test-start" <=> i = 1
                               /\ b[i].type # "test-finish"
    <3>1. pc \notin {"getTest", "replay", "update"}
      BY <1>6 DEF RecvFinish
    <3>2. PICK id \in TestId : id = m.id
      BY <2>1
    <3>3. b = results[id]
      BY <3>2
    <3> HIDE DEF b, m
    <3> QED
      BY <3>1, <3>2, <3>3 DEF BatchInv, Writing
  <2> HIDE DEF b, m
  <2>4. /\ Len(todo') = Len(b) + 1 /\ todo'[Len(b) + 1] = m
        /\ \A i \in 1 .. Len(b) : todo'[i] = b[i]
    BY <2>1, <2>2, AppendMessage
  <2>5. \A i \in 1 .. Len(todo') : i \in 1 .. Len(b) \/ i = Len(b) + 1
    BY <2>2, <2>4
  <2>6. \A i \in 1 .. Len(todo') :
            /\ SentNext(todo'[i]) /\ todo'[i].id = m.id
            /\ i > 1 => todo'[i].type # "test-start"
            /\ i < Len(todo') => todo'[i].type # "test-finish"
    BY <2>1, <2>2, <2>3, <2>4, <2>5, WasSentMono
  <2>7. 1 \in 1 .. Len(b) /\ 1 \in 1 .. Len(todo')
    BY <2>2, <2>4
  <2> QED
    BY <2>2, <2>3, <2>4, <2>6, <2>7
<1>7. ASSUME NEW r \in Run, NEW j \in 1 .. Len(sent[r]),
             RecvStart(r, j) \/ RecvAssert(r, j)
      PROVE  FALSE
  BY <1>7 DEF RecvStart, RecvAssert, Writing
<1> QED
  BY <1>2, <1>3, <1>4, <1>5, <1>6, <1>7, DaemonCases

\* The head of the batch being written, and the test it belongs to.
LEMMA HeadFacts ==
    ASSUME TypeOK, TodoInv, Writing
    PROVE  /\ Head(todo) = todo[1] /\ todo[1] \in Message /\ WasSent(todo[1])
           /\ Cur \in TestId /\ todo[1].id = Cur
           /\ todo[1].type # "assert-status" => todo[1].ts \in Second
<1>1. Head(todo) = todo[1] /\ todo[1] \in Message /\ 1 \in 1 .. Len(todo)
  BY TailMessage DEF TodoInv, TypeOK
<1>2. WasSent(todo[1])
  BY <1>1 DEF TodoInv
<1> QED
  BY <1>1, <1>2, MessageFacts DEF Cur

\* How the row of a test changes.
LEMMA RowStep ==
    ASSUME TypeOK, TodoInv, [Next]_vars, NEW id \in TestId
    PROVE  \/ tests'[id] = tests[id]
           \/ DropTables /\ tests'[id] = NoRow
           \/ /\ GetTest /\ id = Cur /\ tests[id] = NoRow
              /\ tests'[id] = ATestRow(NULL, NULL)
           \/ /\ DbTestStart /\ id = Cur /\ tests[id] # NoRow
              /\ todo[1].type = "test-start"
              /\ tests'[id] = ATestRow(todo[1].ts, tests[id].finish)
           \/ /\ DbTestFinish /\ id = Cur /\ tests[id] # NoRow
              /\ todo[1].type = "test-finish"
              /\ tests'[id] = ATestRow(tests[id].start, todo[1].ts)
<1>1. CASE Quiet \/ Ends \/ Bind \/ GetAssertion \/ DbTestAssert
  BY <1>1 DEF Quiet, Ends, Bind, GetAssertion, DbTestAssert, dbVars
<1>2. CASE DropTables
  BY <1>2 DEF DropTables, NoTests
<1>3. CASE GetTest
  BY <1>3, HeadFacts DEF GetTest, Writing, TypeOK
<1>4. CASE DbTestStart
  BY <1>4, HeadFacts DEF DbTestStart, UpdateTest, Writing, TypeOK
<1>5. CASE DbTestFinish
  BY <1>5, HeadFacts DEF DbTestFinish, UpdateTest, Writing, TypeOK
<1>6. CASE \E r \in Run : \E i \in 1 .. Len(sent[r]) :
              RecvStart(r, i) \/ RecvAssert(r, i) \/ RecvFinish(r, i)
  BY <1>6 DEF RecvStart, RecvAssert, RecvFinish, dbVars
<1> QED
  BY <1>1, <1>2, <1>3, <1>4, <1>5, <1>6, DaemonCases

LEMMA StartedStep ==
    TypeOK /\ NamedInv /\ TodoInv /\ ClockInv /\ StartedInv /\ [Next]_vars
        => StartedInv'
<1> SUFFICES ASSUME TypeOK, NamedInv, TodoInv, ClockInv, StartedInv, [Next]_vars
             PROVE  StartedInv'
    OBVIOUS
<1>0. \A id \in TestId : tests[id] # NoRow => tests[id] \in TestRow
  BY DEF TypeOK
<1>1. ASSUME NEW id \in TestId,
             tests'[id] # NoRow, tests'[id].start # NULL
      PROVE  SentNext([type |-> "test-start", id |-> id, ts |-> tests'[id].start])
  <2>1. CASE tests[id] # NoRow /\ tests'[id].start = tests[id].start
    BY <1>1, <2>1, WasSentMono DEF StartedInv
  <2>2. CASE /\ DbTestStart /\ id = Cur /\ tests[id] # NoRow
             /\ todo[1].type = "test-start"
             /\ tests'[id] = ATestRow(todo[1].ts, tests[id].finish)
    <3>1. /\ todo[1] \in Message /\ WasSent(todo[1]) /\ todo[1].id = id
      BY <2>2, HeadFacts DEF DbTestStart, Writing
    <3>2. tests'[id].start = todo[1].ts
      BY <2>2, TestRowFacts
    <3>3. todo[1] = [type |-> "test-start", id |-> id, ts |-> tests'[id].start]
      BY <2>2, <3>1, <3>2, MessageFacts
    <3> QED
      BY <3>1, <3>3, WasSentMono
  <2>3. CASE /\ tests[id] # NoRow
             /\ tests'[id] = ATestRow(tests[id].start, todo[1].ts)
    BY <2>1, <2>3, TestRowFacts
  <2>4. CASE tests'[id] = ATestRow(NULL, NULL)
    BY <1>1, <2>4, TestRowFacts
  <2>5. CASE tests'[id] = tests[id]
    BY <1>1, <2>1, <2>5
  <2> QED
    BY <1>1, <2>2, <2>3, <2>4, <2>5, RowStep
<1>1a. ASSUME NEW id \in TestId, tests'[id] # NoRow, tests'[id].finish # NULL
       PROVE  tests'[id].start # NULL
  <2>1. CASE /\ DbTestStart /\ id = Cur /\ todo[1].type = "test-start"
             /\ tests'[id] = ATestRow(todo[1].ts, tests[id].finish)
    <3>1. todo[1].ts \in Second
      BY <2>1, HeadFacts DEF DbTestStart, Writing
    <3> QED
      BY <2>1, <3>1, TestRowFacts, ConstantsAssumption
  <2>2. CASE /\ DbTestFinish /\ id = Cur /\ tests[id] # NoRow
             /\ todo[1].type = "test-finish"
             /\ tests'[id] = ATestRow(tests[id].start, todo[1].ts)
    <3>1. tests[id].start # NULL
      BY <2>2 DEF StartedInv, DbTestFinish
    <3> QED
      BY <2>2, <3>1, TestRowFacts
  <2>3. CASE tests'[id] = ATestRow(NULL, NULL)
    BY <1>1a, <2>3, TestRowFacts
  <2>4. CASE tests'[id] = tests[id]
    BY <1>1a, <2>4 DEF StartedInv, Finished
  <2> QED
    BY <1>1a, <2>1, <2>2, <2>3, <2>4, RowStep
<1>2. ASSUME pc' = "replay" \/ pc' = "update"
      PROVE  /\ Purging \/ tests'[Cur'] # NoRow
             /\ tests'[Cur'] # NoRow /\ todo'[1].type # "test-start" =>
                   tests'[Cur'].start # NULL
  <2>1. CASE Quiet \/ Bind
    <3>1. pc' = pc /\ todo' = todo /\ tests' = tests
      BY <1>2, <2>1 DEF Quiet, Bind, dbVars
    <3> QED
      BY <1>2, <3>1 DEF StartedInv, Cur
  <2>2. CASE Ends \/ DbTestFinish
    BY <1>2, <2>2 DEF Ends, DbTestFinish
  <2>3. CASE DropTables
    <3>1. Purging /\ pc' = pc /\ todo' = todo /\ tests' = NoTests
      BY <2>3 DEF DropTables, daemonVars
    <3>2. Cur' = Cur /\ Cur \in TestId
      BY <1>2, <3>1, HeadFacts DEF Writing, Cur
    <3> QED
      BY <3>1, <3>2 DEF NoTests
  <2>4. CASE GetTest
    <3>1. /\ Cur' = Cur /\ Cur \in TestId /\ todo' = todo
          /\ todo[1].type = "test-start"
      BY <2>4, HeadFacts DEF GetTest, Writing, Cur, TodoInv
    <3>2. tests'[Cur] # NoRow
      BY <2>4, <3>1, TestRowFacts DEF GetTest, TypeOK
    <3> QED
      BY <3>1, <3>2
  <2>5. CASE DbTestStart
    <3>1. /\ Cur' = Cur /\ Cur \in TestId /\ pc = "replay"
          /\ todo[1].ts \in Second /\ Head(todo) = todo[1]
      BY <2>5, CurStep, HeadFacts DEF DbTestStart, Writing
    <3>2. tests[Cur] # NoRow =>
             tests'[Cur] # NoRow /\ tests'[Cur].start = todo[1].ts
      BY <2>5, <3>1, TestRowFacts DEF DbTestStart, UpdateTest, TypeOK
    <3>3. tests[Cur] = NoRow => tests'[Cur] = NoRow
      BY <2>5 DEF DbTestStart, UpdateTest
    <3>4. todo[1].ts # NULL
      BY <3>1, ConstantsAssumption
    <3> QED
      BY <3>1, <3>2, <3>3, <3>4 DEF StartedInv
  <2>6. CASE GetAssertion
    <3>1. /\ Cur' = Cur /\ todo' = todo /\ tests' = tests /\ pc = "replay"
      BY <2>6 DEF GetAssertion, Cur
    <3> QED
      BY <3>1 DEF StartedInv
  <2>7. CASE DbTestAssert
    <3>1. /\ Cur' = Cur /\ tests' = tests /\ pc = "update"
          /\ todo[1].type # "test-start"
      BY <2>7, CurStep DEF DbTestAssert, TodoInv, Writing
    <3> QED
      BY <3>1 DEF StartedInv
  <2>8. CASE \E r \in Run : \E i \in 1 .. Len(sent[r]) :
                RecvStart(r, i) \/ RecvAssert(r, i) \/ RecvFinish(r, i)
    BY <1>2, <2>8 DEF RecvStart, RecvAssert, RecvFinish
  <2> QED
    BY <2>1, <2>2, <2>3, <2>4, <2>5, <2>6, <2>7, <2>8, DaemonCases
<1> QED
  BY <1>1, <1>1a, <1>2 DEF StartedInv, Finished, WasSent, SentNext

\* How the row of an assertion changes.
LEMMA AssertRowStep ==
    ASSUME TypeOK, TodoInv, [Next]_vars, NEW id \in TestId, NEW a \in Assertion
    PROVE  \/ asserts'[id][a] = asserts[id][a]
           \/ DropTables /\ asserts'[id][a] = NoRow
           \/ /\ GetAssertion /\ id = Cur /\ asserts[id][a] = NoRow
              /\ asserts'[id][a] = [row |-> "assert", result |-> NULL]
           \/ /\ DbTestAssert /\ id = Cur /\ asserts[id][a] # NoRow
              /\ todo[1].no = a
              /\ asserts'[id][a] = [row |-> "assert", result |-> todo[1].status]
<1>1. CASE Quiet \/ Ends \/ Bind \/ GetTest \/ DbTestStart \/ DbTestFinish
  BY <1>1 DEF Quiet, Ends, Bind, GetTest, DbTestStart, DbTestFinish, dbVars
<1>2. CASE DropTables
  BY <1>2 DEF DropTables, NoAsserts
<1>3. CASE GetAssertion
  <2>1. Cur \in TestId /\ Head(todo) = todo[1] /\ todo[1].no \in Assertion
    BY <1>3, HeadFacts, MessageFacts DEF GetAssertion, Writing
  <2> QED
    BY <1>3, <2>1 DEF GetAssertion, TypeOK
<1>4. CASE DbTestAssert
  <2>1. Cur \in TestId /\ Head(todo) = todo[1] /\ todo[1].no \in Assertion
    BY <1>4, HeadFacts, MessageFacts DEF DbTestAssert, Writing, TodoInv
  <2> QED
    BY <1>4, <2>1 DEF DbTestAssert, TypeOK
<1>6. CASE \E r \in Run : \E i \in 1 .. Len(sent[r]) :
              RecvStart(r, i) \/ RecvAssert(r, i) \/ RecvFinish(r, i)
  BY <1>6 DEF RecvStart, RecvAssert, RecvFinish, dbVars
<1> QED
  BY <1>1, <1>2, <1>3, <1>4, <1>6, DaemonCases

LEMMA StoredStep ==
    /\ TypeOK /\ NamedInv /\ TodoInv /\ ClockInv /\ StoredWasSent
    /\ [Next]_vars
    => StoredWasSent'
<1> SUFFICES ASSUME TypeOK, NamedInv, TodoInv, ClockInv, StoredWasSent,
                    [Next]_vars, NEW id \in TestId
             PROVE  /\ \A a \in Assertion :
                          asserts'[id][a] # NoRow /\ asserts'[id][a].result # NULL
                          => SentNext([type |-> "assert-status", id |-> id,
                                no |-> a, status |-> asserts'[id][a].result])
                    /\ tests'[id] # NoRow /\ tests'[id].finish # NULL =>
                          SentNext([type |-> "test-finish", id |-> id,
                                    ts |-> tests'[id].finish])
    BY DEF StoredWasSent, Finished, WasSent, SentNext
<1>1. ASSUME NEW a \in Assertion,
             asserts'[id][a] # NoRow, asserts'[id][a].result # NULL
      PROVE  SentNext([type |-> "assert-status", id |-> id, no |-> a,
                       status |-> asserts'[id][a].result])
  <2>1. CASE asserts'[id][a] = asserts[id][a]
    BY <1>1, <2>1, WasSentMono DEF StoredWasSent
  <2>2. CASE /\ DbTestAssert /\ id = Cur /\ todo[1].no = a
             /\ asserts'[id][a] = [row |-> "assert", result |-> todo[1].status]
    <3>1. /\ todo[1] \in Message /\ WasSent(todo[1]) /\ todo[1].id = id
          /\ todo[1].type = "assert-status"
      BY <2>2, HeadFacts DEF DbTestAssert, Writing, TodoInv
    <3>2. todo[1] = [type |-> "assert-status", id |-> id, no |-> a,
                     status |-> asserts'[id][a].result]
      BY <2>2, <3>1, MessageFacts
    <3> QED
      BY <3>1, <3>2, WasSentMono
  <2>3. CASE asserts'[id][a] = [row |-> "assert", result |-> NULL]
    BY <1>1, <2>3
  <2> QED
    BY <1>1, <2>1, <2>2, <2>3, AssertRowStep
<1>2. ASSUME tests'[id] # NoRow, tests'[id].finish # NULL
      PROVE  SentNext([type |-> "test-finish", id |-> id,
                       ts |-> tests'[id].finish])
  <2>0. tests[id] # NoRow => tests[id] \in TestRow
    BY DEF TypeOK
  <2>1. CASE tests[id] # NoRow /\ tests'[id].finish = tests[id].finish
    BY <1>2, <2>1, WasSentMono DEF StoredWasSent, Finished
  <2>2. CASE /\ DbTestStart /\ tests[id] # NoRow /\ id = Cur
             /\ todo[1].type = "test-start"
             /\ tests'[id] = ATestRow(todo[1].ts, tests[id].finish)
    <3>1. todo[1].ts \in Second
      BY <2>2, HeadFacts DEF DbTestStart, Writing
    <3>2. tests'[id].finish = tests[id].finish
      BY <2>0, <2>2, <3>1, TestRowFacts
    <3> QED
      BY <2>1, <2>2, <3>2
  <2>3. CASE /\ DbTestFinish /\ id = Cur /\ tests[id] # NoRow
             /\ todo[1].type = "test-finish"
             /\ tests'[id] = ATestRow(tests[id].start, todo[1].ts)
    <3>1. /\ todo[1] \in Message /\ WasSent(todo[1]) /\ todo[1].id = id
          /\ todo[1].ts \in Second
      BY <2>3, HeadFacts DEF DbTestFinish, Writing
    <3>2. tests'[id].finish = todo[1].ts
      BY <2>0, <2>3, <3>1, TestRowFacts
    <3>3. todo[1] = [type |-> "test-finish", id |-> id,
                     ts |-> tests'[id].finish]
      BY <2>3, <3>1, <3>2, MessageFacts
    <3> QED
      BY <3>1, <3>3, WasSentMono
  <2>4. CASE tests'[id] = ATestRow(NULL, NULL)
    BY <1>2, <2>4, TestRowFacts
  <2>5. CASE tests'[id] = tests[id]
    BY <1>2, <2>1, <2>5
  <2> QED
    BY <1>2, <2>2, <2>3, <2>4, <2>5, RowStep
<1> QED
  BY <1>1, <1>2

\* The start and the finish of a row were sent, by the same run if only one has
\* the id of the row; and that run sent them in order.
LEMMA FinishAfterStartHolds == IInv => FinishAfterStart
<1> SUFFICES ASSUME IInv, NEW id \in TestId, Finished(id)
             PROVE  /\ tests[id].start # NULL
                    /\ \A r \in Run : test_id[r] = id /\ UniqueId(r) =>
                          tests[id].start <= tests[id].finish
    BY DEF FinishAfterStart
<1>1. tests[id].start # NULL
  BY DEF IInv, StartedInv
<1>2. ASSUME NEW r \in Run, test_id[r] = id, UniqueId(r)
      PROVE  tests[id].start <= tests[id].finish
  <2>1. \A q \in Run : \A i \in 1 .. Len(sent[q]) : sent[q][i].id = test_id[q]
    BY DEF IInv, ClockInv
  <2>2. ASSUME NEW m, WasSent(m), m.id = id
        PROVE  \E i \in 1 .. Len(sent[r]) : sent[r][i] = m
    <3>1. PICK q \in Run : \E i \in 1 .. Len(sent[q]) : sent[q][i] = m
      BY <2>2 DEF WasSent
    <3>2. test_id[q] = id
      BY <2>1, <2>2, <3>1
    <3>3. q = r
      BY <1>2, <3>2 DEF UniqueId
    <3> QED
      BY <3>1, <3>3
  <2>3. PICK i \in 1 .. Len(sent[r]) :
            sent[r][i] = [type |-> "test-start", id |-> id, ts |-> tests[id].start]
    <3>1. WasSent([type |-> "test-start", id |-> id, ts |-> tests[id].start])
      BY <1>1 DEF IInv, StartedInv, Finished
    <3> QED
      BY <2>2, <3>1
  <2>4. PICK j \in 1 .. Len(sent[r]) :
            sent[r][j] = [type |-> "test-finish", id |-> id,
                          ts |-> tests[id].finish]
    <3>1. WasSent([type |-> "test-finish", id |-> id, ts |-> tests[id].finish])
      BY DEF IInv, StoredWasSent
    <3> QED
      BY <2>2, <3>1
  <2>5. sent[r][i].ts <= sent[r][j].ts
    BY <2>3, <2>4 DEF IInv, ClockInv
  <2> QED
    BY <2>3, <2>4, <2>5
<1> QED
  BY <1>1, <1>2

-----------------------------------------------------------------------------
(* The invariance theorems. *)

LEMMA InvInit == Init => IInv
<1> SUFFICES ASSUME Init PROVE IInv
    OBVIOUS
<1>1. TypeOK
  BY TypeInit
<1>2. NamedInv /\ ClockInv
  BY DEF Init, NamedInv, ClockInv
<1>3. BatchInv
  BY DEF Init, BatchInv, EmptyResults
<1>4. TodoInv /\ StartedInv
  BY DEF Init, TodoInv, Writing, StartedInv, Finished, NoTests
<1>5. StoredWasSent
  BY DEF Init, StoredWasSent, Finished, NoTests, NoAsserts
<1> QED
  BY <1>1, <1>2, <1>3, <1>4, <1>5 DEF IInv

LEMMA InvStep == IInv /\ [Next]_vars => IInv'
  BY TypeStep, NamedStep, ClockStep, BatchStep, TodoStep, StartedStep,
     StoredStep DEF IInv

\* The inductive invariant holds in every reachable state.
THEOREM Invariance == Spec => []IInv
  BY InvInit, InvStep, PTL DEF Spec

\* Every reachable state of the pipeline is well typed; in particular tadad
\* never takes the head of an empty batch.
THEOREM TypeCorrect == Spec => []TypeOK
<1>1. IInv => TypeOK
  BY DEF IInv
<1> QED
  BY <1>1, Invariance, PTL

\* Whatever the network and the faults do, the database holds only verdicts and
\* finish times that a run with that test-id sent.
THEOREM StoredWasSentAlways == Spec => []StoredWasSent
<1>1. IInv => StoredWasSent
  BY DEF IInv
<1> QED
  BY <1>1, Invariance, PTL

\* A row with a finish time has a start time, and not a later one if the test-id
\* belongs to one run.
THEOREM FinishAfterStartAlways == Spec => []FinishAfterStart
  BY FinishAfterStartHolds, Invariance, PTL

\* As long as nobody purges, an assertion row always has its named test row.
LEMMA NoOrphanStep ==
    ~Purging /\ IInv /\ NoOrphanAssertion /\ [Next]_vars => NoOrphanAssertion'
<1> SUFFICES ASSUME ~Purging, IInv, NoOrphanAssertion, [Next]_vars,
                    NEW id \in TestId, NEW a \in Assertion,
                    asserts'[id][a] # NoRow
             PROVE  tests'[id] # NoRow /\ tests'[id].start # NULL
    BY DEF NoOrphanAssertion
<1>0. /\ TypeOK /\ TodoInv /\ ClockInv /\ StartedInv
      /\ tests[id] # NoRow => tests[id] \in TestRow
      /\ ~DropTables
  BY DEF IInv, TypeOK, DropTables
<1>1. tests[id] # NoRow /\ tests[id].start # NULL
  <2>1. CASE asserts'[id][a] = asserts[id][a]
    BY <2>1 DEF NoOrphanAssertion
  <2>2. CASE GetAssertion /\ id = Cur
    <3>1. pc = "replay" /\ todo[1].type = "assert-status"
      BY <1>0, <2>2, HeadFacts DEF GetAssertion, Writing
    <3> QED
      BY <1>0, <2>2, <3>1 DEF StartedInv
  <2>3. CASE DbTestAssert /\ asserts[id][a] # NoRow
    BY <2>3 DEF NoOrphanAssertion
  <2> QED
    BY <1>0, <2>1, <2>2, <2>3, AssertRowStep
<1>2. CASE tests'[id] = tests[id]
  BY <1>1, <1>2
<1>3. CASE DbTestStart /\ id = Cur
           /\ tests'[id] = ATestRow(todo[1].ts, tests[id].finish)
  <2>1. todo[1].ts \in Second
    BY <1>0, <1>3, HeadFacts DEF DbTestStart, Writing
  <2> QED
    BY <1>0, <1>1, <1>3, <2>1, TestRowFacts, ConstantsAssumption
<1>4. CASE DbTestFinish /\ id = Cur
           /\ tests'[id] = ATestRow(tests[id].start, todo[1].ts)
  <2>1. todo[1].ts \in Second
    BY <1>0, <1>4, HeadFacts DEF DbTestFinish, Writing
  <2> QED
    BY <1>0, <1>1, <1>4, <2>1, TestRowFacts
<1> QED
  BY <1>0, <1>1, <1>2, <1>3, <1>4, RowStep

\* Without --db-purge no assertion row is ever without the row of its test,
\* although tadad may be killed between any two commits.
THEOREM NoOrphanAlways == ~Purging /\ Spec => []NoOrphanAssertion
<1>1. Init => NoOrphanAssertion
  BY DEF Init, NoOrphanAssertion, NoAsserts
<1>2. ASSUME ~Purging
      PROVE  Spec => []NoOrphanAssertion
  <2>1. IInv /\ NoOrphanAssertion /\ [Next]_vars => NoOrphanAssertion'
    BY <1>2, NoOrphanStep
  <2> QED
    BY <1>1, <2>1, Invariance, PTL DEF Spec
<1> QED
  BY <1>2

-----------------------------------------------------------------------------
(* What sequences of events tell. *)

\* Two sequences that begin alike tell the same.
LEMMA TellsSame ==
    ASSUME NEW s, NEW t, NEW n \in Nat, \A i \in 1 .. n : t[i] = s[i], NEW a
    PROVE  /\ Silent(t, n, a) <=> Silent(s, n, a)
           /\ \A v : Tells(t, n, a, v) <=> Tells(s, n, a, v)
<1>1. \A i \in 1 .. n : \A j \in i + 1 .. n : j \in 1 .. n
  OBVIOUS
<1> QED
  BY <1>1 DEF Silent, Tells

\* One event more: a verdict on a replaces what was told of a.
LEMMA TellsNext ==
    ASSUME NEW t, NEW n \in Nat, NEW a
    PROVE  /\ Silent(t, n + 1, a) <=> Silent(t, n, a) /\ ~On(t[n + 1], a)
           /\ On(t[n + 1], a) =>
                 \A v : Tells(t, n + 1, a, v) <=> v = t[n + 1].status
           /\ ~On(t[n + 1], a) =>
                 \A v : Tells(t, n + 1, a, v) <=> Tells(t, n, a, v)
<1>1. \A i : i \in 1 .. n + 1 <=> i \in 1 .. n \/ i = n + 1
  OBVIOUS
<1>2. Silent(t, n + 1, a) <=> Silent(t, n, a) /\ ~On(t[n + 1], a)
  BY <1>1 DEF Silent
<1>3. ASSUME On(t[n + 1], a), NEW v
      PROVE  Tells(t, n + 1, a, v) <=> v = t[n + 1].status
  <2>1. \A i \in 1 .. n : n + 1 \in i + 1 .. n + 1
    OBVIOUS
  <2>2. (n + 1) + 1 .. n + 1 = {} /\ n + 1 \in 1 .. n + 1
    OBVIOUS
  <2>3. ~Silent(t, n + 1, a)
    BY <1>2, <1>3
  <2> QED
    BY <1>1, <1>3, <2>1, <2>2, <2>3 DEF Tells
<1>4. ASSUME ~On(t[n + 1], a), NEW v
      PROVE  Tells(t, n + 1, a, v) <=> Tells(t, n, a, v)
  <2>1. \A i \in 1 .. n : \A j : j \in i + 1 .. n + 1 <=> j \in i + 1 .. n \/ j = n + 1
    OBVIOUS
  <2> QED
    BY <1>1, <1>2, <1>4, <2>1 DEF Tells
<1> QED
  BY <1>2, <1>3, <1>4

\* The first event is taken off.
LEMMA TellsTail ==
    ASSUME NEW s \in Seq(Message), Len(s) > 0, NEW a
    PROVE  /\ Silent(s, Len(s), a) <=>
                 ~On(Head(s), a) /\ Silent(Tail(s), Len(Tail(s)), a)
           /\ \A v : Tells(s, Len(s), a, v) =>
                 \/ Silent(s, Len(s), a) /\ v = NULL
                 \/ /\ ~Silent(Tail(s), Len(Tail(s)), a)
                    /\ Tells(Tail(s), Len(Tail(s)), a, v)
                 \/ /\ Silent(Tail(s), Len(Tail(s)), a)
                    /\ On(Head(s), a) /\ v = Head(s).status
<1>1. PICK t : t = Tail(s)
  OBVIOUS
<1>2. PICK m : m = Len(t)
  OBVIOUS
<1>3. /\ m \in Nat /\ Len(s) = m + 1 /\ Head(s) = s[1]
      /\ \A i \in 1 .. m : t[i] = s[i + 1]
  BY <1>1, <1>2, TailMessage
<1>4. \A i \in 1 .. m : i + 1 \in 1 .. m + 1
  BY <1>3
<1>5. \A i \in 1 .. m + 1 : i = 1 \/ (i - 1 \in 1 .. m /\ s[i] = t[i - 1])
  <2>1. ASSUME NEW i \in 1 .. m + 1, i # 1
        PROVE  i - 1 \in 1 .. m /\ (i - 1) + 1 = i
    BY <1>3, <2>1
  <2> QED
    BY <1>3, <2>1
<1>6. 1 \in 1 .. m + 1
  BY <1>3
<1>7. Silent(s, m + 1, a) <=> ~On(s[1], a) /\ Silent(t, m, a)
  BY <1>3, <1>4, <1>5, <1>6 DEF Silent
<1>8. ASSUME NEW v, Tells(s, m + 1, a, v)
      PROVE  \/ Silent(s, m + 1, a) /\ v = NULL
             \/ ~Silent(t, m, a) /\ Tells(t, m, a, v)
             \/ Silent(t, m, a) /\ On(s[1], a) /\ v = s[1].status
  <2>1. CASE Silent(s, m + 1, a) /\ v = NULL
    BY <2>1
  <2>2. ASSUME NEW i \in 1 .. m + 1, On(s[i], a), s[i].status = v,
               \A j \in i + 1 .. m + 1 : ~On(s[j], a)
        PROVE  \/ ~Silent(t, m, a) /\ Tells(t, m, a, v)
               \/ Silent(t, m, a) /\ On(s[1], a) /\ v = s[1].status
    <3>1. ASSUME NEW j \in i .. m, j \in 1 .. m
          PROVE  ~On(t[j], a)
      <4>1. j + 1 \in i + 1 .. m + 1 /\ t[j] = s[j + 1]
        BY <1>3, <3>1
      <4> QED
        BY <2>2, <4>1
    <3>2. CASE i = 1
      BY <2>2, <3>1, <3>2 DEF Silent
    <3>3. CASE i # 1
      <4>1. PICK k : k = i - 1
        OBVIOUS
      <4>2. k \in 1 .. m /\ s[i] = t[k] /\ k + 1 = i
        BY <1>3, <1>5, <3>3, <4>1
      <4>3. \A j \in k + 1 .. m : j \in i .. m /\ j \in 1 .. m
        BY <1>3, <4>2
      <4> QED
        BY <2>2, <3>1, <4>2, <4>3 DEF Tells, Silent
    <3> QED
      BY <3>2, <3>3
  <2> QED
    BY <1>8, <2>1, <2>2 DEF Tells
<1> QED
  BY <1>1, <1>2, <1>3, <1>7, <1>8

-----------------------------------------------------------------------------
(* Complete rows: what the scripts send. *)

\* A test-id is given once.
LEMMA IdKept ==
    ASSUME TypeOK, NEW r \in Run, ScriptInv(r), [Next]_vars, test_id[r] # NULL
    PROVE  test_id'[r] = test_id[r]
<1>1. ASSUME NEW q \in Run, Start(q)
      PROVE  test_id'[r] = test_id[r]
  <2>1. phase[q] = "new" /\ test_id' = [test_id EXCEPT ![q] = <<ComboOf[q], now>>]
    BY <1>1 DEF Start
  <2>2. q # r
    BY <2>1 DEF ScriptInv, OrderInv
  <2> QED
    BY <2>1, <2>2 DEF TypeOK
<1>2. ASSUME NEW q \in Run, Client(q)
      PROVE  Start(q) \/ test_id' = test_id
  BY <1>2 DEF Client, AddAssertion, SendSkipped, AssertTest, SendStart,
     BeginFinish, SendFinish, Kill
<1> QED
  BY <1>1, <1>2, ServerFrame

\* An event that is being written was sent by a test that has its id.
LEMMA CurHasRun ==
    ASSUME TypeOK, TodoInv, ClockInv, Writing
    PROVE  \E r \in Run : test_id[r] = Cur
<1>1. WasSent(todo[1]) /\ todo[1].id = Cur
  BY HeadFacts
<1>2. PICK r \in Run : \E i \in 1 .. Len(sent[r]) : sent[r][i] = todo[1]
  BY <1>1 DEF WasSent
<1> QED
  BY <1>1, <1>2 DEF ClockInv

\* Rows appear only for the test whose batch is being written.
LEMMA CleanKept ==
    ASSUME TypeOK, TodoInv, [Next]_vars, NEW id \in TestId,
           Clean(id), Writing => id # Cur
    PROVE  Clean(id)'
<1>1. tests'[id] = NoRow
  <2>0. GetTest \/ DbTestStart \/ DbTestFinish => Writing
    BY DEF Writing, GetTest, DbTestStart, DbTestFinish
  <2>1. tests'[id] # tests[id] /\ ~DropTables => Writing /\ id = Cur
    BY <2>0, RowStep
  <2>2. tests[id] = NoRow
    BY DEF Clean
  <2>3. DropTables => tests'[id] = NoRow
    BY DEF DropTables, NoTests
  <2> QED
    BY <2>1, <2>2, <2>3
<1>2. ASSUME NEW a \in Assertion PROVE asserts'[id][a] = NoRow
  <2>0. GetAssertion \/ DbTestAssert => Writing
    BY DEF Writing, GetAssertion, DbTestAssert
  <2>1. asserts'[id][a] # asserts[id][a] /\ ~DropTables => Writing /\ id = Cur
    BY <2>0, AssertRowStep
  <2>2. asserts[id][a] = NoRow
    BY DEF Clean
  <2>3. DropTables => asserts'[id][a] = NoRow
    BY DEF DropTables, NoAsserts
  <2> QED
    BY <2>1, <2>2, <2>3
<1> QED
  BY <1>1, <1>2 DEF Clean

LEMMA FreshStep ==
    ASSUME TypeOK, TodoInv, ClockInv, \A r \in Run : ScriptInv(r), FreshInv,
           [Next]_vars
    PROVE  FreshInv'
<1>1. ASSUME NEW id \in TestId, \A r \in Run : test_id'[r] # id
      PROVE  Clean(id)'
  <2>1. id # NULL
    BY ConstantsAssumption
  <2>2. \A r \in Run : test_id[r] # id
    BY <1>1, <2>1, IdKept
  <2>3. Clean(id)
    BY <2>2 DEF FreshInv
  <2>4. Writing => id # Cur
    BY <2>2, CurHasRun
  <2> QED
    BY <2>3, <2>4, CleanKept
<1>2. ~Alive' => results' = EmptyResults
  <2>1. CASE Quiet
    BY <2>1 DEF Quiet, Alive, FreshInv
  <2>2. CASE Ends
    BY <2>2 DEF Ends
  <2>3. CASE Bind
    BY <2>3 DEF Bind, Alive
  <2>4. CASE DropTables
    BY <2>4 DEF DropTables, daemonVars, Alive, FreshInv
  <2>5. CASE GetTest \/ DbTestStart \/ GetAssertion \/ DbTestAssert \/ DbTestFinish
    BY <2>5 DEF GetTest, DbTestStart, GetAssertion, DbTestAssert, DbTestFinish, Alive
  <2>6. CASE \E r \in Run : \E i \in 1 .. Len(sent[r]) :
                RecvStart(r, i) \/ RecvAssert(r, i) \/ RecvFinish(r, i)
    BY <2>6, ZenonT(60) DEF RecvStart, RecvAssert, RecvFinish, Alive
  <2> QED
    BY <2>1, <2>2, <2>3, <2>4, <2>5, <2>6, DaemonCases
<1>3. EmptyResults' = EmptyResults
  BY DEF EmptyResults
<1> QED
  BY <1>1, <1>2, <1>3 DEF FreshInv

\* A step that is not one of r leaves r alone.
Untouched(r) ==
    /\ phase'[r] = phase[r] /\ test_id'[r] = test_id[r] /\ sent'[r] = sent[r]
    /\ assertions'[r] = assertions[r] /\ unsent'[r] = unsent[r]

\* One datagram of r leaves the network, to arrive or to be lost.
Passes(r) ==
    /\ got[r] < Len(sent[r]) /\ got'[r] = got[r] + 1
    /\ lost'[r] = lost[r] \/ lost'[r] = lost[r] \cup {got[r] + 1}

\* How the events of r and of the network move: r makes a step, or one datagram
\* of r leaves the network, or neither.
LEMMA TrafficStep ==
    ASSUME TypeOK, NEW r \in Run, [Next]_vars
    PROVE  \/ /\ got'[r] = got[r] /\ lost'[r] = lost[r]
              /\ Client(r) \/ Untouched(r)
           \/ Untouched(r) /\ Passes(r)
<1> DEFINE Still == got'[r] = got[r] /\ lost'[r] = lost[r]
           Result == \/ Still /\ (Client(r) \/ Untouched(r))
                     \/ Untouched(r) /\ Passes(r)
<1>0. got[r] \in Nat /\ Len(sent[r]) \in Nat
  BY DEF TypeOK
<1>1. ASSUME NEW q \in Run, Client(q)
      PROVE  got' = got /\ lost' = lost
  BY <1>1 DEF Client, AddAssertion, SendSkipped, AssertTest, Start, SendStart,
     BeginFinish, SendFinish, Kill, netVars
<1>2. ASSUME NEW q \in Run, Client(q), q # r
      PROVE  Untouched(r)
  <2>1. ASSUME NEW a \in Assertion, NEW cond \in BOOLEAN, AssertTest(q, a, cond)
        PROVE  Untouched(r)
    BY <1>2, <2>1 DEF AssertTest, Send, TypeOK, Untouched
  <2>2. ASSUME NEW a \in Assertion, AddAssertion(q, a) \/ SendSkipped(q, a)
        PROVE  Untouched(r)
    BY <1>2, <2>2 DEF AddAssertion, SendSkipped, Send, TypeOK, netVars, Untouched
  <2>3. CASE Start(q) \/ SendStart(q)
    BY <1>2, <2>3 DEF Start, SendStart, Send, TypeOK, netVars, Untouched
  <2>4. CASE BeginFinish(q) \/ SendFinish(q) \/ Kill(q)
    BY <1>2, <2>4 DEF BeginFinish, SendFinish, Kill, Send, TypeOK, netVars,
       Untouched
  <2> QED
    BY <1>2, <2>1, <2>2, <2>3, <2>4 DEF Client
<1>3. ASSUME NEW q \in Run, Receive(q) \/ Vanish(q)
      PROVE  Untouched(r)
  <2>1. UNCHANGED <<clientVars, sent>>
    <3>1. CASE Receive(q)
      BY <3>1 DEF Receive, RecvStart, RecvAssert, RecvFinish, RecvKeyError
    <3>2. CASE Vanish(q)
      BY <3>2 DEF Vanish, Drop, SigtermSwallowed
    <3> QED
      BY <1>3, <3>1, <3>2
  <2> QED
    BY <2>1 DEF clientVars, Untouched
<1>4. ASSUME NEW q \in Run, NEW i \in 1 .. Len(sent[q]), Arrives(q, i),
             Delivered(q, i), lost' = lost \/ Lose(q, i)
      PROVE  Still \/ Passes(r)
  <2>1. CASE ~Ordered
    BY <1>4, <2>1, LoseFacts DEF Delivered
  <2>2. CASE Ordered
    <3>1. got' = [got EXCEPT ![q] = i] /\ i = got[q] + 1
      BY <1>4, <2>2 DEF Delivered, Arrives
    <3>2. lost' = lost \/ lost' = [lost EXCEPT ![q] = @ \cup {i}]
      BY <1>4, LoseFacts
    <3>3. CASE q = r
      <4>1. got'[r] = got[r] + 1 /\ got[r] < Len(sent[r])
        BY <1>0, <1>4, <3>1, <3>3 DEF TypeOK
      <4>2. lost'[r] = lost[r] \/ lost'[r] = lost[r] \cup {got[r] + 1}
        BY <3>1, <3>2, <3>3 DEF TypeOK
      <4> QED
        BY <4>1, <4>2 DEF Passes
    <3>4. CASE q # r
      BY <3>1, <3>2, <3>4 DEF TypeOK
    <3> QED
      BY <3>3, <3>4
  <2> QED
    BY <2>1, <2>2 DEF TypeOK, ConstantsAssumption
<1>5. ASSUME NEW q \in Run, Drop(q)
      PROVE  Still \/ Passes(r)
  <2>1. /\ got[q] < Len(sent[q]) /\ got' = [got EXCEPT ![q] = got[q] + 1]
        /\ lost' = lost \/ lost' = [lost EXCEPT ![q] = @ \cup {got[q] + 1}]
    BY <1>5, LoseFacts DEF Drop
  <2>2. CASE q = r
    BY <2>1, <2>2 DEF TypeOK, Passes
  <2>3. CASE q # r
    BY <2>1, <2>3 DEF TypeOK
  <2> QED
    BY <2>2, <2>3
<1>6. ASSUME NEW q \in Run, Receive(q)
      PROVE  Still \/ Passes(r)
  <2>1. PICK i \in 1 .. Len(sent[q]) :
            Arrives(q, i) /\ Delivered(q, i) /\ lost' = lost
    BY <1>6 DEF Receive, RecvStart, RecvAssert, RecvFinish, RecvKeyError
  <2> HIDE DEF Still
  <2> QED
    BY <1>4, <2>1
<1>7. ASSUME NEW q \in Run, NEW i \in 1 .. Len(sent[q]), SigtermSwallowed(q, i)
      PROVE  Still \/ Passes(r)
  <2>1. Arrives(q, i) /\ Delivered(q, i) /\ Lose(q, i)
    BY <1>7 DEF SigtermSwallowed
  <2> HIDE DEF Still
  <2> QED
    BY <1>4, <2>1
<1>8. ASSUME Replay \/ Sigterm \/ Startup \/ Tick \/ UNCHANGED vars
      PROVE  Result
  <2>1. UNCHANGED <<clientVars, netVars>>
    BY <1>8 DEF Replay, GetTest, DbTestStart, GetAssertion, DbTestAssert,
       DbTestFinish, NoTableError, Sigterm, Startup, Launch, DropTables,
       InitTables, Bind, StarterKilled, Tick, vars
  <2> QED
    BY <2>1 DEF clientVars, netVars, Untouched
<1>9. ASSUME NEW q \in Run, Client(q) \/ Receive(q) \/ Vanish(q)
      PROVE  Result
  <2>1. CASE Client(q)
    BY <1>1, <1>2, <2>1
  <2>2. CASE Receive(q)
    BY <1>3, <1>6, <2>2
  <2>3. CASE Vanish(q)
    BY <1>3, <1>5, <1>7, <2>3 DEF Vanish
  <2> QED
    BY <1>9, <2>1, <2>2, <2>3
<1> HIDE DEF Result
<1>10. Result
  BY <1>8, <1>9 DEF Next
<1> QED
  BY <1>10 DEF Result

\* No datagram leaves the network before it was sent, and none is lost later.
LEMMA GotStep ==
    ASSUME TypeOK, NEW r \in Run, ScriptInv(r), [Next]_vars,
           NEW n \in Nat, Len(sent[r]) <= n
    PROVE  /\ got'[r] <= n
           /\ \A i \in lost'[r] : i \in 1 .. got'[r]
<1>1. /\ got[r] \in Nat /\ got[r] <= Len(sent[r]) /\ Len(sent[r]) \in Nat
      /\ \A i \in lost[r] : i \in 1 .. got[r]
  BY DEF TypeOK, ScriptInv, OrderInv
<1> QED
  BY <1>1, TrafficStep DEF Passes

\* One datagram more.
LEMMA SendAppends ==
    ASSUME TypeOK, NEW r \in Run, NEW m \in Message, Send(r, m),
           NEW n, n = Len(sent[r])
    PROVE  /\ n \in Nat /\ Len(sent'[r]) = n + 1 /\ sent'[r][n + 1] = m
           /\ \A i \in 1 .. n : sent'[r][i] = sent[r][i]
<1>1. sent[r] \in Seq(Message) /\ sent'[r] = Append(sent[r], m)
  BY DEF TypeOK, Send
<1> QED
  BY <1>1, AppendMessage

\* The verdicts among the datagrams after one more was sent.
LEMMA VerdictsAfterSend ==
    ASSUME TypeOK, NEW r \in Run, NEW m \in Message, Send(r, m), NEW b
    PROVE  /\ Reported(r, b)' <=> Reported(r, b) \/ On(m, b)
           /\ On(m, b) =>
                 \A v : Tells(sent'[r], Len(sent'[r]), b, v) <=> v = m.status
           /\ ~On(m, b) =>
                 \A v : Tells(sent'[r], Len(sent'[r]), b, v)
                          <=> Tells(sent[r], Len(sent[r]), b, v)
<1>1. PICK n : n = Len(sent[r])
  OBVIOUS
<1>2. PICK s, t : s = sent[r] /\ t = sent'[r]
  OBVIOUS
<1>3. /\ n \in Nat /\ Len(t) = n + 1 /\ t[n + 1] = m
      /\ \A i \in 1 .. n : t[i] = s[i]
  BY <1>1, <1>2, SendAppends
<1>4. /\ Silent(t, n, b) <=> Silent(s, n, b)
      /\ \A v : Tells(t, n, b, v) <=> Tells(s, n, b, v)
  BY <1>3, TellsSame
<1>5. /\ Silent(t, n + 1, b) <=> Silent(t, n, b) /\ ~On(m, b)
      /\ On(m, b) => \A v : Tells(t, n + 1, b, v) <=> v = m.status
      /\ ~On(m, b) => \A v : Tells(t, n + 1, b, v) <=> Tells(t, n, b, v)
  BY <1>3, TellsNext
<1>6. Reported(r, b)' <=> ~Silent(t, n + 1, b)
  BY <1>2, <1>3 DEF Reported
<1>7. Reported(r, b) <=> ~Silent(s, n, b)
  BY <1>1, <1>2 DEF Reported
<1> QED
  BY <1>1, <1>2, <1>3, <1>4, <1>5, <1>6, <1>7

\* A step that leaves a script and what it sent alone.
LEMMA ScriptSame ==
    ASSUME TypeOK, NEW r \in Run, ScriptInv(r), Untouched(r), [Next]_vars
    PROVE  ScriptInv(r)'
<1>0. Len(sent[r]) \in Nat /\ Len(sent[r]) <= Len(sent[r])
  BY DEF TypeOK
<1>1. got'[r] <= Len(sent[r]) /\ \A i \in lost'[r] : i \in 1 .. got'[r]
  BY <1>0, GotStep
<1>2. OrderInv(r)'
  BY <1>1 DEF ScriptInv, OrderInv, Untouched
<1>3. ASSUME NEW a \in Assertion
      PROVE  VerdictInv(r, a)'
  <2>1. VerdictInv(r, a)
    BY DEF ScriptInv
  <2> QED
    BY <2>1 DEF VerdictInv, Reported, Accounted, Untouched
<1> QED
  BY <1>2, <1>3 DEF ScriptInv

\* The order of the datagrams after one more was sent.
LEMMA OrderAfterSend ==
    ASSUME TypeOK, NEW r \in Run, OrderInv(r), NEW m \in Message, Send(r, m),
           got'[r] = got[r], lost'[r] = lost[r],
           test_id'[r] = test_id[r], test_id[r] # NULL,
           phase[r] # "done", phase'[r] # "new",
           m.type = "test-start" <=> sent[r] = <<>>,
           m.type = "test-finish" <=> phase'[r] = "done"
    PROVE  OrderInv(r)'
<1>0. PICK n : n = Len(sent[r])
  OBVIOUS
<1>1. /\ n \in Nat /\ Len(sent'[r]) = n + 1 /\ sent'[r][n + 1] = m
      /\ \A i \in 1 .. n : sent'[r][i] = sent[r][i]
  BY <1>0, SendAppends
<1>2. /\ sent[r] \in Seq(Message) /\ got[r] \in Nat /\ got[r] <= n
      /\ \A i \in lost[r] : i \in 1 .. got[r]
  BY <1>0 DEF TypeOK, OrderInv
<1>3. sent'[r] # <<>>
  BY <1>1
<1>4. n = 0 <=> sent[r] = <<>>
  BY <1>0, <1>2
<1>5. ASSUME NEW i \in 1 .. n + 1
      PROVE  /\ sent'[r][i].type = "test-start" <=> i = 1
             /\ sent'[r][i].type = "test-finish" <=> i = n + 1 /\ phase'[r] = "done"
  <2>1. CASE i = n + 1
    BY <1>1, <1>4, <2>1
  <2>2. CASE i \in 1 .. n
    <3>1. /\ sent[r][i].type # "test-finish"
          /\ sent[r][i].type = "test-start" <=> i = 1
      BY <1>0, <2>2 DEF OrderInv
    <3>2. i # n + 1
      BY <1>1, <2>2
    <3> QED
      BY <1>1, <2>2, <3>1, <3>2
  <2> QED
    BY <1>1, <2>1, <2>2
<1>6. got'[r] <= n + 1 /\ \A i \in lost'[r] : i \in 1 .. got'[r]
  BY <1>1, <1>2
<1> QED
  BY <1>1, <1>3, <1>5, <1>6 DEF OrderInv

\* What a script reports after one more datagram, when it goes on to status v of
\* the assertion b.
LEMMA VerdictAfterSend ==
    ASSUME TypeOK, NEW r \in Run, NEW b \in Assertion, VerdictInv(r, b),
           NEW m \in Message, Send(r, m),
           On(m, b) => m.status = assertions'[r][b] /\ assertions'[r][b] # NULL,
           ~On(m, b) => assertions'[r][b] = assertions[r][b],
           phase'[r] = "finishing" /\ b \in unsent'[r] =>
               assertions'[r][b] = SKIPPED,
           assertions[r][b] # NULL => Accounted(r, b)'
    PROVE  VerdictInv(r, b)'
<1>1. /\ Reported(r, b)' <=> Reported(r, b) \/ On(m, b)
      /\ On(m, b) =>
            \A v : Tells(sent'[r], Len(sent'[r]), b, v) <=> v = m.status
      /\ ~On(m, b) =>
            \A v : Tells(sent'[r], Len(sent'[r]), b, v)
                     <=> Tells(sent[r], Len(sent[r]), b, v)
  BY VerdictsAfterSend
<1>2. assertions'[r][b] # NULL => Accounted(r, b)'
  <2>1. CASE On(m, b)
    BY <1>1, <2>1 DEF Accounted
  <2>2. CASE ~On(m, b)
    BY <2>2
  <2> QED
    BY <2>1, <2>2
<1>3. Reported(r, b)' =>
          /\ assertions'[r][b] # NULL
          /\ Tells(sent'[r], Len(sent'[r]), b, assertions'[r][b])
  <2>1. CASE On(m, b)
    BY <1>1, <2>1
  <2>2. CASE ~On(m, b)
    BY <1>1, <2>2 DEF VerdictInv
  <2> QED
    BY <2>1, <2>2
<1> QED
  BY <1>2, <1>3 DEF VerdictInv

\* start() sends its event first.
LEMMA ScriptStart ==
    ASSUME TypeOK, NamedInv, ClockInv, NEW r \in Run, ScriptInv(r),
           SendStart(r)
    PROVE  ScriptInv(r)'
<1> DEFINE m == [type |-> "test-start", id |-> test_id[r], ts |-> now]
<1>1. /\ phase[r] = "starting" /\ phase'[r] = "running" /\ got' = got
      /\ lost' = lost /\ test_id' = test_id /\ assertions' = assertions
      /\ unsent' = unsent /\ Send(r, m)
  BY DEF SendStart, TypeOK
<1>2. /\ m \in Message /\ m.type = "test-start"
      /\ \A b : ~On(m, b)
  BY <1>1, SentTypes DEF On
<1> HIDE DEF m
<1>3. test_id[r] # NULL /\ sent[r] = <<>>
  BY <1>1, ConstantsAssumption DEF NamedInv, ClockInv
<1>4. OrderInv(r)'
  BY <1>1, <1>2, <1>3, OrderAfterSend DEF ScriptInv
<1>5. ASSUME NEW b \in Assertion
      PROVE  VerdictInv(r, b)'
  <2>1. VerdictInv(r, b)
    BY DEF ScriptInv
  <2>2. ~Reported(r, b)
    BY <1>3 DEF Reported, Silent
  <2>3. assertions[r][b] # NULL => Accounted(r, b)'
    BY <1>1, <2>1, <2>2 DEF VerdictInv, Accounted
  <2> QED
    BY <1>1, <1>2, <2>1, <2>3, VerdictAfterSend
<1> QED
  BY <1>4, <1>5 DEF ScriptInv

LEMMA ScriptAssert ==
    ASSUME TypeOK, NamedInv, NEW r \in Run, ScriptInv(r),
           NEW a \in Assertion, NEW cond \in BOOLEAN, AssertTest(r, a, cond)
    PROVE  ScriptInv(r)'
<1> DEFINE status == IF cond THEN PASSED ELSE FAILED
           m == [type |-> "assert-status", id |-> test_id[r], no |-> a,
                 status |-> status]
           rest == {b \in Declared(r) : b # a /\ assertions[r][b] = SKIPPED}
<1>1. /\ phase[r] = "running" /\ test_id' = test_id /\ got' = got /\ lost' = lost
      /\ a \in Declared(r) /\ Send(r, m)
      /\ assertions' = [assertions EXCEPT ![r][a] = status]
  BY DEF AssertTest
<1>2. \/ phase' = phase /\ unsent' = unsent
      \/ /\ phase' = [phase EXCEPT ![r] = "finishing"]
         /\ unsent' = [unsent EXCEPT ![r] = rest]
  BY DEF AssertTest
<1>3. status \in Status /\ status # NULL
  BY ConstantsAssumption DEF Status
<1>4. /\ m \in Message /\ m.type = "assert-status" /\ m.no = a
      /\ m.status = status
  BY <1>1, <1>3, SentTypes
<1>5. \A b : b \in rest <=> /\ b \in Assertion /\ assertions[r][b] # NULL
                            /\ b # a /\ assertions[r][b] = SKIPPED
  BY DEF Declared
<1> HIDE DEF status, m, rest
<1>6. \/ phase'[r] = "running"
      \/ phase'[r] = "finishing" /\ unsent'[r] = rest
  BY <1>1, <1>2 DEF TypeOK
<1>7. test_id[r] # NULL /\ sent[r] # <<>>
  BY <1>1, ConstantsAssumption DEF NamedInv, ScriptInv, OrderInv
<1>8. /\ assertions'[r][a] = status
      /\ \A b \in Assertion : b # a => assertions'[r][b] = assertions[r][b]
  BY <1>1 DEF TypeOK
<1>9. OrderInv(r)'
  BY <1>1, <1>4, <1>6, <1>7, OrderAfterSend DEF ScriptInv
<1>10. ASSUME NEW b \in Assertion
       PROVE  VerdictInv(r, b)'
  <2>1. VerdictInv(r, b)
    BY DEF ScriptInv
  <2>2. On(m, b) <=> b = a
    BY <1>4 DEF On
  <2>3. Reported(r, b)' <=> Reported(r, b) \/ b = a
    BY <1>1, <1>4, <2>2, VerdictsAfterSend
  <2>4. phase'[r] = "finishing" /\ b \in unsent'[r] => assertions'[r][b] = SKIPPED
    BY <1>5, <1>6, <1>8
  <2>5. assertions[r][b] # NULL => Reported(r, b) \/ assertions[r][b] = SKIPPED
    BY <1>1, <2>1 DEF VerdictInv, Accounted
  <2>6. assertions[r][b] # NULL => Accounted(r, b)'
    <3>1. CASE Reported(r, b)'
      BY <3>1 DEF Accounted
    <3>2. CASE ~Reported(r, b)'
      BY <1>5, <1>6, <1>8, <2>3, <2>5, <3>2 DEF Accounted
    <3> QED
      BY <3>1, <3>2
  <2>7. /\ On(m, b) => m.status = assertions'[r][b] /\ assertions'[r][b] # NULL
        /\ ~On(m, b) => assertions'[r][b] = assertions[r][b]
    BY <1>3, <1>4, <1>8, <2>2
  <2> QED
    BY <1>1, <1>4, <2>1, <2>4, <2>6, <2>7, VerdictAfterSend
<1> QED
  BY <1>9, <1>10 DEF ScriptInv

LEMMA ScriptFinish ==
    ASSUME TypeOK, NamedInv, NEW r \in Run, ScriptInv(r),
           SendFinish(r) \/ \E a \in Assertion : SendSkipped(r, a)
    PROVE  ScriptInv(r)'
<1>1. test_id[r] # NULL /\ phase[r] = "finishing" /\ sent[r] # <<>>
  BY ConstantsAssumption DEF NamedInv, SendFinish, SendSkipped, ScriptInv,
     OrderInv
<1>2. ASSUME SendFinish(r)
      PROVE  ScriptInv(r)'
  <2> DEFINE m == [type |-> "test-finish", id |-> test_id[r], ts |-> now]
  <2>1. /\ phase'[r] = "done" /\ unsent[r] = {} /\ test_id' = test_id
        /\ assertions' = assertions /\ got' = got /\ lost' = lost /\ Send(r, m)
    BY <1>2 DEF SendFinish, TypeOK
  <2>2. /\ m \in Message /\ m.type = "test-finish"
        /\ \A b : ~On(m, b)
    BY <1>1, SentTypes DEF On
  <2> HIDE DEF m
  <2>3. OrderInv(r)'
    BY <1>1, <2>1, <2>2, OrderAfterSend DEF ScriptInv
  <2>4. ASSUME NEW b \in Assertion
        PROVE  VerdictInv(r, b)'
    <3>1. VerdictInv(r, b)
      BY DEF ScriptInv
    <3>2. assertions[r][b] # NULL => Reported(r, b)
      BY <1>1, <2>1, <3>1 DEF VerdictInv, Accounted
    <3>3. Reported(r, b)' <=> Reported(r, b)
      BY <2>1, <2>2, VerdictsAfterSend
    <3>4. assertions[r][b] # NULL => Accounted(r, b)'
      BY <3>2, <3>3 DEF Accounted
    <3> QED
      BY <2>1, <2>2, <3>1, <3>4, VerdictAfterSend
  <2> QED
    BY <2>3, <2>4 DEF ScriptInv
<1>3. ASSUME NEW a \in Assertion, SendSkipped(r, a)
      PROVE  ScriptInv(r)'
  <2> DEFINE m == [type |-> "assert-status", id |-> test_id[r], no |-> a,
                   status |-> SKIPPED]
  <2>1. /\ phase' = phase /\ a \in unsent[r] /\ test_id' = test_id
        /\ unsent'[r] = unsent[r] \ {a}
        /\ assertions' = assertions /\ got' = got /\ lost' = lost /\ Send(r, m)
    BY <1>3 DEF SendSkipped, TypeOK
  <2>2. /\ m \in Message /\ m.type = "assert-status"
        /\ m.no = a /\ m.status = SKIPPED
    BY <1>1, SentTypes DEF Status
  <2> HIDE DEF m
  <2>3. OrderInv(r)'
    BY <1>1, <2>1, <2>2, OrderAfterSend DEF ScriptInv
  <2>4. SKIPPED # NULL /\ assertions[r][a] = SKIPPED
    BY <1>1, <2>1, ConstantsAssumption DEF Status, ScriptInv, VerdictInv
  <2>5. ASSUME NEW b \in Assertion
        PROVE  VerdictInv(r, b)'
    <3>1. VerdictInv(r, b)
      BY DEF ScriptInv
    <3>2. assertions[r][b] # NULL => Reported(r, b) \/ b \in unsent[r]
      BY <1>1, <3>1 DEF VerdictInv, Accounted
    <3>3. On(m, b) <=> b = a
      BY <2>2 DEF On
    <3>4. Reported(r, b)' <=> Reported(r, b) \/ b = a
      BY <2>1, <2>2, <3>3, VerdictsAfterSend
    <3>5. b \in unsent'[r] => assertions[r][b] = SKIPPED
      BY <1>1, <2>1, <3>1 DEF VerdictInv
    <3>6. assertions[r][b] # NULL => Accounted(r, b)'
      BY <1>1, <2>1, <3>2, <3>4 DEF Accounted
    <3> QED
      BY <2>1, <2>2, <2>4, <3>1, <3>3, <3>5, <3>6, VerdictAfterSend
  <2> QED
    BY <2>3, <2>5 DEF ScriptInv
<1> QED
  BY <1>2, <1>3

\* The steps of a script that send nothing.
LEMMA ScriptSilent ==
    ASSUME TypeOK, NamedInv, NEW r \in Run, ScriptInv(r),
           \/ Start(r) \/ BeginFinish(r) \/ Kill(r)
           \/ \E a \in Assertion : AddAssertion(r, a)
    PROVE  ScriptInv(r)'
<1>1. /\ sent' = sent /\ got' = got /\ lost' = lost
      /\ phase[r] \in {"new", "starting", "running", "finishing"}
  BY DEF Start, BeginFinish, Kill, AddAssertion, netVars
<1>2. \/ phase[r] = "new" /\ phase'[r] = "starting" /\ test_id'[r] # NULL
      \/ /\ test_id'[r] = test_id[r]
         /\ \/ phase'[r] = phase[r]
            \/ phase'[r] = "finishing" /\ phase[r] = "running"
            \/ phase'[r] = "killed"
  <2>1. CASE Start(r)
    <3>1. <<ComboOf[r], now>> \in TestId
      BY TestIdFacts DEF TypeOK
    <3> QED
      BY <2>1, <3>1, ConstantsAssumption DEF Start, TypeOK
  <2>2. CASE BeginFinish(r) \/ Kill(r) \/ \E a \in Assertion : AddAssertion(r, a)
    BY <2>2 DEF BeginFinish, Kill, AddAssertion, TypeOK
  <2> QED
    BY <2>1, <2>2
<1>3. OrderInv(r)'
  <2>1. /\ phase'[r] # "done" /\ phase[r] # "done"
        /\ phase'[r] = "new" => phase[r] = "new" /\ test_id'[r] = test_id[r]
        /\ phase'[r] \notin {"new", "starting", "killed"} =>
              phase[r] \notin {"new", "starting", "killed"}
        /\ test_id'[r] = NULL => test_id[r] = NULL
    BY <1>1, <1>2
  <2> QED
    BY <1>1, <2>1 DEF ScriptInv, OrderInv
<1>4. ASSUME NEW b \in Assertion
      PROVE  VerdictInv(r, b)'
  <2>1. VerdictInv(r, b)
    BY DEF ScriptInv
  <2>2. /\ Reported(r, b)' <=> Reported(r, b)
        /\ \A v : Tells(sent'[r], Len(sent'[r]), b, v)
                    <=> Tells(sent[r], Len(sent[r]), b, v)
    BY <1>1 DEF Reported
  <2>3. CASE Kill(r)
    <3>1. phase'[r] = "killed" /\ assertions' = assertions
      BY <2>3 DEF Kill, TypeOK
    <3> QED
      BY <1>1, <2>1, <2>2, <3>1 DEF VerdictInv, Accounted
  <2>4. CASE BeginFinish(r)
    <3>1. /\ phase[r] = "running" /\ phase'[r] = "finishing"
          /\ assertions' = assertions
          /\ unsent'[r] = {a \in Declared(r) : assertions[r][a] = SKIPPED}
      BY <2>4 DEF BeginFinish, TypeOK
    <3>2. b \in unsent'[r] <=> assertions[r][b] # NULL /\ assertions[r][b] = SKIPPED
      BY <3>1 DEF Declared
    <3>3. assertions[r][b] # NULL => Reported(r, b) \/ b \in unsent'[r]
      BY <2>1, <3>1, <3>2 DEF VerdictInv, Accounted
    <3> QED
      BY <1>1, <2>1, <2>2, <3>1, <3>2, <3>3 DEF VerdictInv, Accounted
  <2>5. ASSUME NEW a \in Assertion, AddAssertion(r, a)
        PROVE  VerdictInv(r, b)'
    <3>1. /\ phase[r] \in {"new", "running"} /\ phase' = phase
          /\ assertions[r][a] = NULL /\ assertions'[r][a] = SKIPPED
          /\ \A c \in Assertion : c # a => assertions'[r][c] = assertions[r][c]
      BY <2>5 DEF AddAssertion, TypeOK
    <3>2. CASE b = a
      <4>1. ~Reported(r, b)
        BY <2>1, <3>1, <3>2 DEF VerdictInv
      <4> QED
        BY <1>1, <2>2, <3>1, <3>2, <4>1 DEF VerdictInv, Accounted
    <3>3. CASE b # a
      BY <1>1, <2>1, <2>2, <3>1, <3>3 DEF VerdictInv, Accounted
    <3> QED
      BY <3>2, <3>3
  <2>6. CASE Start(r)
    <3>1. phase[r] = "new" /\ phase'[r] = "starting" /\ assertions' = assertions
      BY <2>6 DEF Start, TypeOK
    <3> QED
      BY <1>1, <2>1, <2>2, <3>1 DEF VerdictInv, Accounted
  <2> QED
    BY <2>3, <2>4, <2>5, <2>6
<1> QED
  BY <1>3, <1>4 DEF ScriptInv

LEMMA ScriptStep ==
    ASSUME TypeOK, NamedInv, ClockInv, NEW r \in Run, ScriptInv(r), [Next]_vars
    PROVE  ScriptInv(r)'
<1>1. CASE Client(r)
  BY <1>1, ScriptStart, ScriptAssert, ScriptFinish, ScriptSilent DEF Client
<1>2. CASE Untouched(r)
  BY <1>2, ScriptSame
<1> QED
  BY <1>1, <1>2, TrafficStep

-----------------------------------------------------------------------------
(* Complete rows: what tadad makes of what a script sends. *)

\* A test that has an id of its own after a step, and had one before, had one of
\* its own before.
LEMMA UniqueKept ==
    ASSUME TypeOK, \A q \in Run : ScriptInv(q), [Next]_vars, NEW r \in Run,
           test_id[r] # NULL, UniqueId(r)'
    PROVE  UniqueId(r)
<1> SUFFICES ASSUME NEW q \in Run \ {r}, test_id[q] = test_id[r]
             PROVE  FALSE
    BY DEF UniqueId
<1>1. test_id'[q] = test_id[q] /\ test_id'[r] = test_id[r]
  BY IdKept
<1> QED
  BY <1>1 DEF UniqueId

\* What a script has sent stays.
LEMMA SentGrows ==
    ASSUME TypeOK, NamedInv, ClockInv, [Next]_vars, NEW r \in Run
    PROVE  \A i \in 1 .. Len(sent[r]) : sent'[r][i] = sent[r][i]
<1>1. CASE sent' = sent
  BY <1>1
<1>2. ASSUME NEW q \in Run, NEW m \in Message,
             sent' = [sent EXCEPT ![q] = Append(@, m)]
      PROVE  \A i \in 1 .. Len(sent[r]) : sent'[r][i] = sent[r][i]
  BY <1>2, AppendMessage DEF TypeOK
<1> QED
  BY <1>1, <1>2, SentStep

\* What was lost stays lost, and what is lost anew is the next datagram.
LEMMA LostStep ==
    ASSUME TypeOK, NamedInv, ClockInv, NEW r \in Run, ScriptInv(r),
           [Next]_vars, NEW a
    PROVE  /\ LostOn(r, a) => LostOn(r, a)'
           /\ LostOn(r, a)' /\ ~LostOn(r, a) =>
                 /\ Untouched(r) /\ got[r] < Len(sent[r])
                 /\ got'[r] = got[r] + 1
                 /\ lost'[r] = lost[r] \cup {got[r] + 1}
                 /\ On(sent[r][got[r] + 1], a)
<1>1. /\ got[r] \in Nat /\ Len(sent[r]) \in Nat /\ got[r] <= Len(sent[r])
      /\ \A i \in lost[r] : i \in 1 .. got[r]
  BY DEF TypeOK, ScriptInv, OrderInv
<1>2. \A i \in lost[r] : i \in 1 .. Len(sent[r])
  BY <1>1
<1>3. \A i \in lost[r] : On(sent'[r][i], a) <=> On(sent[r][i], a)
  BY <1>2, SentGrows
<1>4. LostOn(r, a)' <=> \E i \in lost'[r] : On(sent'[r][i], a)
  BY DEF LostOn
<1>5. CASE lost'[r] = lost[r]
  BY <1>3, <1>4, <1>5 DEF LostOn
<1>6. CASE Untouched(r) /\ Passes(r) /\ lost'[r] = lost[r] \cup {got[r] + 1}
  <2>1. sent'[r] = sent[r] /\ got[r] < Len(sent[r]) /\ got'[r] = got[r] + 1
    BY <1>6 DEF Untouched, Passes
  <2> QED
    BY <1>4, <1>6, <2>1 DEF LostOn
<1> QED
  BY <1>5, <1>6, TrafficStep DEF Passes

\* A test whose every event was handed over is left alone by scripts and network.
LEMMA HandedStep ==
    ASSUME TypeOK, NEW r \in Run, [Next]_vars, HandedOver(r)
    PROVE  Untouched(r) /\ got'[r] = got[r] /\ lost'[r] = lost[r]
<1>1. phase[r] = "done" /\ got[r] = Len(sent[r]) /\ got[r] \in Nat
  BY DEF HandedOver, TypeOK
<1>2. ~Client(r)
  BY <1>1 DEF Client, AddAssertion, SendSkipped, AssertTest, Start, SendStart,
     BeginFinish, SendFinish, Kill
<1>3. ~Passes(r)
  BY <1>1 DEF Passes
<1> QED
  BY <1>2, <1>3, TrafficStep

LEMMA HandedKept ==
    ASSUME TypeOK, NEW r \in Run, [Next]_vars, HandedOver(r)
    PROVE  HandedOver(r)' /\ \A a : LostOn(r, a)' <=> LostOn(r, a)
  BY HandedStep DEF HandedOver, LostOn, Untouched

\* Only r sends datagrams with an id that only r has.
LEMMA OwnDatagrams ==
    ASSUME ClockInv, NEW r \in Run, UniqueId(r), NEW q \in Run,
           NEW i \in 1 .. Len(sent[q]), sent[q][i].id = test_id[r]
    PROVE  q = r
  BY DEF UniqueId, ClockInv

\* The id a run has is one of the ids.
LEMMA IdType ==
    ASSUME TypeOK, NEW r \in Run, test_id[r] # NULL
    PROVE  test_id[r] \in TestId
  BY DEF TypeOK

\* The datagram that tadad takes of those that r sent.
LEMMA MemoryAfter ==
    ASSUME NEW s \in Seq(Message), NEW g \in Nat, g < Len(s),
           NEW b \in Seq(Message), NEW a, NEW v,
           Tells(s, g, a, v) => Tells(b, Len(b), a, v),
           Tells(s, g + 1, a, v),
           NEW c, c = Append(b, s[g + 1])
    PROVE  Tells(c, Len(c), a, v)
<1>1. PICK m : m = s[g + 1]
  OBVIOUS
<1>2. PICK n : n = Len(b)
  OBVIOUS
<1>3. m \in Message
  BY <1>1
<1>4. /\ n \in Nat /\ Len(c) = n + 1 /\ c[n + 1] = m
      /\ \A i \in 1 .. n : c[i] = b[i]
  BY <1>1, <1>2, <1>3, AppendMessage
<1>5. Tells(c, n, a, v) <=> Tells(b, n, a, v)
  BY <1>4, TellsSame
<1>5a. /\ On(c[n + 1], a) => \A w : Tells(c, n + 1, a, w) <=> w = c[n + 1].status
       /\ ~On(c[n + 1], a) => \A w : Tells(c, n + 1, a, w) <=> Tells(c, n, a, w)
  <2>1. n \in Nat
    BY <1>4
  <2> QED
    BY <2>1, TellsNext
<1>6. CASE On(m, a)
  <2>1. v = m.status
    BY <1>1, <1>6, TellsNext
  <2> QED
    BY <1>4, <1>5a, <1>6, <2>1
<1>7. CASE ~On(m, a)
  <2>1. Tells(s, g, a, v)
    BY <1>1, <1>7, TellsNext
  <2> QED
    BY <1>2, <1>4, <1>5, <1>5a, <1>7, <2>1
<1> QED
  BY <1>6, <1>7

\* The daemon's memory of r after a step.
LEMMA MemoryStep ==
    ASSUME Ordered, TypeOK, NamedInv, ClockInv, FreshInv, [Next]_vars,
           NEW r \in Run, ScriptInv(r), test_id[r] # NULL, UniqueId(r),
           MemoryInv(r)
    PROVE  MemoryInv(r)'
<1>0. PICK id \in TestId : id = test_id[r]
  BY IdType
<1>1. test_id'[r] = id
  BY <1>0, IdKept
<1> SUFFICES ASSUME results'[id] # <<>>,
                    NEW a \in Assertion, NEW v \in Status \cup {NULL},
                    ~LostOn(r, a)', Tells(sent'[r], got'[r], a, v)
             PROVE  Tells(results'[id], Len(results'[id]), a, v)
    BY <1>1 DEF MemoryInv
<1>2. PICK g \in Nat : g = got[r]
  BY DEF TypeOK
<1>3. /\ results[id] \in Seq(Message) /\ sent[r] \in Seq(Message)
      /\ g <= Len(sent[r]) /\ Len(sent[r]) \in Nat
  BY <1>0, <1>2 DEF TypeOK, ScriptInv, OrderInv
<1>4. got'[r] \in {g, g + 1} /\ got'[r] <= Len(sent[r])
  <2>1. got'[r] <= Len(sent[r])
    BY <1>3, GotStep
  <2>2. got'[r] \in {g, g + 1}
    BY <1>2, TrafficStep DEF Passes
  <2> QED
    BY <2>1, <2>2
<1>5. Tells(sent[r], got'[r], a, v)
  <2>1. PICK n : n = got'[r]
    OBVIOUS
  <2>2. n \in Nat /\ \A i \in 1 .. n : i \in 1 .. Len(sent[r])
    BY <1>3, <1>4, <2>1
  <2>3. \A i \in 1 .. n : sent'[r][i] = sent[r][i]
    BY <2>2, SentGrows
  <2> QED
    BY <2>1, <2>2, <2>3, TellsSame
<1>6. ~LostOn(r, a)
  BY LostStep
<1>7. results[id] # <<>> /\ Tells(sent[r], g, a, v) =>
          Tells(results[id], Len(results[id]), a, v)
  BY <1>0, <1>2, <1>6 DEF MemoryInv
<1>8. CASE results'[id] = results[id] /\ got'[r] = got[r]
  <2>1. Tells(sent[r], g, a, v)
    BY <1>2, <1>5, <1>8
  <2> QED
    BY <1>7, <1>8, <2>1
<1>9. CASE /\ results'[id] = results[id] /\ got'[r] = g + 1
           /\ g + 1 \in lost'[r]
  <2>1. g + 1 \in 1 .. Len(sent[r])
    BY <1>3, <1>4, <1>9
  <2>2. sent'[r][g + 1] = sent[r][g + 1]
    BY <2>1, SentGrows
  <2>3. ~On(sent[r][g + 1], a)
    BY <1>9, <2>2 DEF LostOn
  <2>4. Tells(sent[r], g, a, v)
    BY <1>5, <1>9, <2>3, TellsNext
  <2> QED
    BY <1>7, <1>9, <2>4
<1>10. ASSUME NEW i \in 1 .. Len(sent[r]), got'[r] = i, i = g + 1,
              RecvStart(r, i) \/ RecvAssert(r, i) \/ RecvFinish(r, i)
       PROVE  Tells(results'[id], Len(results'[id]), a, v)
  <2>0. sent[r][i].id = id /\ sent[r][i] \in Message /\ g < Len(sent[r])
    BY <1>0, <1>3, <1>10, ArrivedType DEF ClockInv
  <2>1. CASE RecvStart(r, i)
    <3>1. results'[id] = <<sent[r][i]>> /\ sent[r][i].type = "test-start"
      BY <2>0, <2>1 DEF RecvStart, TypeOK
    <3>2. i = 1
      BY <3>1 DEF ScriptInv, OrderInv
    <3>3. PICK c : c = results'[id]
      OBVIOUS
    <3>4. Len(c) = 1 /\ \A k \in 1 .. 1 : c[k] = sent[r][k]
      BY <3>1, <3>2, <3>3
    <3>5. Tells(sent[r], 1, a, v)
      BY <1>5, <1>10, <3>2
    <3>6. Tells(c, 1, a, v)
      BY <3>4, <3>5, TellsSame
    <3> QED
      BY <3>3, <3>4, <3>6
  <2>2. CASE RecvAssert(r, i) \/ RecvFinish(r, i)
    <3>1. results[id] # <<>> /\ results'[id] = Append(results[id], sent[r][i])
      BY <2>0, <2>2 DEF RecvAssert, RecvFinish, TypeOK
    <3>2. Tells(sent[r], g + 1, a, v)
      BY <1>5, <1>10
    <3>3. PICK c : c = results'[id]
      OBVIOUS
    <3>4. c = Append(results[id], sent[r][g + 1])
      BY <1>10, <3>1, <3>3
    <3>5. Tells(sent[r], g, a, v) => Tells(results[id], Len(results[id]), a, v)
      BY <1>7, <3>1
    <3>6. Tells(c, Len(c), a, v)
      BY <1>3, <2>0, <3>2, <3>4, <3>5, MemoryAfter
    <3> QED
      BY <3>3, <3>6
  <2> QED
    BY <1>10, <2>1, <2>2
<1>11. ASSUME NEW q \in Run, Receive(q)
       PROVE  Tells(results'[id], Len(results'[id]), a, v)
  <2>1. PICK i \in 1 .. Len(sent[q]) : RecvStart(q, i) \/ RecvAssert(q, i)
                                        \/ RecvFinish(q, i) \/ RecvKeyError(q, i)
    BY <1>11 DEF Receive
  <2>2. ~RecvKeyError(q, i)
    BY DEF RecvKeyError, EmptyResults
  <2>3. /\ i = got[q] + 1 /\ got' = [got EXCEPT ![q] = i]
        /\ sent[q][i].id \in TestId
    BY <2>1, <2>2, ArrivedType, MessageFacts
       DEF RecvStart, RecvAssert, RecvFinish, Arrives, Delivered
  <2>4. CASE q # r
    <3>1. sent[q][i].id # id
      BY <1>0, <2>4, OwnDatagrams
    <3>2. results'[id] = results[id]
      BY <2>1, <2>2, <2>3, <3>1 DEF RecvStart, RecvAssert, RecvFinish, TypeOK
    <3>3. got'[r] = got[r]
      BY <2>3, <2>4 DEF TypeOK
    <3> QED
      BY <1>8, <3>2, <3>3
  <2>5. CASE q = r
    <3>1. got'[r] = i /\ i = g + 1
      BY <1>2, <2>3, <2>5 DEF TypeOK
    <3> QED
      BY <1>10, <2>1, <2>2, <2>5, <3>1
  <2> QED
    BY <2>4, <2>5
<1>12. ASSUME NEW q \in Run, Vanish(q)
       PROVE  Tells(results'[id], Len(results'[id]), a, v)
  <2>1. results' = results
    BY <1>12 DEF Vanish, Drop, SigtermSwallowed, daemonVars
  <2>2. Alive
    <3>1. results # EmptyResults
      BY <2>1 DEF EmptyResults
    <3> QED
      BY <3>1 DEF FreshInv
  <2>3. PICK i \in Nat : /\ i = got[q] + 1 /\ got' = [got EXCEPT ![q] = i]
                         /\ lost' = [lost EXCEPT ![q] = @ \cup {i}]
    <3>1. got[q] + 1 \in Nat
      BY DEF TypeOK
    <3>2. CASE Drop(q)
      BY <2>2, <3>1, <3>2, LoseFacts DEF Drop
    <3>3. CASE \E i \in 1 .. Len(sent[q]) : SigtermSwallowed(q, i)
      BY <2>2, <3>1, <3>3, LoseFacts DEF SigtermSwallowed, Arrives, Delivered
    <3> QED
      BY <1>12, <3>2, <3>3 DEF Vanish
  <2>4. CASE q # r
    BY <1>8, <2>1, <2>3, <2>4 DEF TypeOK
  <2>5. CASE q = r
    <3>1. got'[r] = g + 1 /\ g + 1 \in lost'[r]
      BY <1>2, <2>3, <2>5 DEF TypeOK
    <3> QED
      BY <1>9, <2>1, <3>1
  <2> QED
    BY <2>4, <2>5
<1>13. ASSUME NEW q \in Run, Client(q)
       PROVE  Tells(results'[id], Len(results'[id]), a, v)
  <2>1. results' = results /\ got' = got
    BY <1>13 DEF Client, AddAssertion, SendSkipped, AssertTest, Start, SendStart,
       BeginFinish, SendFinish, Kill, netVars, daemonVars
  <2> QED
    BY <1>8, <2>1
<1>14. ASSUME Replay \/ Sigterm \/ Startup \/ Tick \/ UNCHANGED vars
       PROVE  Tells(results'[id], Len(results'[id]), a, v)
  <2>1. got' = got
    BY <1>14 DEF Replay, GetTest, DbTestStart, GetAssertion, DbTestAssert,
       DbTestFinish, NoTableError, Sigterm, Startup, Launch, DropTables,
       InitTables, Bind, StarterKilled, Tick, vars, netVars
  <2>2. CASE DbTestFinish
    BY <1>8, <2>1, <2>2 DEF DbTestFinish, TypeOK
  <2>3. CASE ~DbTestFinish
    <3>1. results' = results \/ results' = EmptyResults
      BY <1>14, <2>3 DEF Replay, GetTest, DbTestStart, GetAssertion, DbTestAssert,
         NoTableError, Sigterm, Startup, Launch, DropTables,
         InitTables, Bind, StarterKilled, Tick, vars, daemonVars
    <3> QED
      BY <1>8, <2>1, <3>1 DEF EmptyResults
  <2> QED
    BY <2>2, <2>3
<1> QED
  BY <1>11, <1>12, <1>13, <1>14 DEF Next

\* The status that a row of TADAAssertion holds.
StatusOf(row) == IF row = NoRow THEN NULL ELSE row.result

LEMMA StatusIs ==
    ASSUME NEW id, NEW a \in Assertion
    PROVE  /\ StoredStatus(id)[a] = StatusOf(asserts[id][a])
           /\ StoredStatus(id)'[a] = StatusOf(asserts'[id][a])
  BY DEF StoredStatus, StatusOf

\* A script that is done has reported every assertion that it declared.
LEMMA DoneTells ==
    ASSUME NEW r \in Run, ScriptInv(r), phase[r] = "done", NEW a \in Assertion
    PROVE  Tells(sent[r], Len(sent[r]), a, assertions[r][a])
<1>1. VerdictInv(r, a)
  BY DEF ScriptInv
<1>2. CASE Reported(r, a)
  BY <1>1, <1>2 DEF VerdictInv
<1>3. CASE ~Reported(r, a)
  <2>1. assertions[r][a] = NULL
    BY <1>1, <1>3 DEF VerdictInv, Accounted
  <2> QED
    BY <1>3, <2>1 DEF Reported, Tells
<1> QED
  BY <1>2, <1>3

\* One event of the batch is written: st is what the row held, and new what it
\* holds now.
LEMMA SettlesTail ==
    ASSUME NEW s \in Seq(Message), Len(s) > 0, NEW a, NEW v, NEW st, NEW new,
           IF Silent(s, Len(s), a) THEN st = v ELSE Tells(s, Len(s), a, v),
           IF On(Head(s), a) THEN new = Head(s).status ELSE new = st
    PROVE  IF Silent(Tail(s), Len(Tail(s)), a) THEN new = v
           ELSE Tells(Tail(s), Len(Tail(s)), a, v)
<1>1. CASE On(Head(s), a)
  BY <1>1, TellsTail
<1>2. CASE ~On(Head(s), a)
  BY <1>2, TellsTail
<1> QED
  BY <1>1, <1>2

\* A batch is handed over to test_finish() whole.
LEMMA WriteBegins ==
    ASSUME Ordered, TypeOK, ClockInv, BatchInv, [Next]_vars,
           NEW r \in Run, ScriptInv(r), test_id[r] # NULL, UniqueId(r),
           MemoryInv(r)', RowsInv(r),
           NEW q \in Run, NEW i \in 1 .. Len(sent[q]), RecvFinish(q, i),
           BeingWritten(r)'
    PROVE  WriteInv(r)'
<1>0. PICK id \in TestId : id = test_id[r]
  BY IdType
<1>1. test_id'[r] = id
  BY <1>0, IdKept
<1>2. /\ sent[q][i] \in Message /\ sent[q][i].id \in TestId
      /\ pc' = "getTest" /\ tests' = tests /\ asserts' = asserts
      /\ results[sent[q][i].id] # <<>> /\ results[sent[q][i].id] \in Seq(Message)
      /\ results'[sent[q][i].id] = Append(results[sent[q][i].id], sent[q][i])
      /\ todo' = Append(results[sent[q][i].id], sent[q][i])
      /\ sent[q][i].type = "test-finish"
      /\ i = got[q] + 1 /\ got' = [got EXCEPT ![q] = i]
      /\ sent' = sent /\ phase' = phase /\ assertions' = assertions
  BY ArrivedType, MessageFacts
     DEF RecvFinish, TypeOK, dbVars, clientVars, Arrives, Delivered
<1>3. sent[q][i].id = id
  <2>1. PICK b \in Seq(Message) : b = results[sent[q][i].id]
    BY <1>2
  <2>1a. b # <<>>
    BY <1>2, <2>1
  <2>1b. 1 \in 1 .. Len(b)
    BY <2>1a
  <2>1c. b[1].id = sent[q][i].id
    <3>1. PICK k \in TestId : k = sent[q][i].id
      BY <1>2
    <3>2. results[k] = b /\ 1 \in 1 .. Len(results[k])
      BY <2>1, <2>1b, <3>1
    <3>3. results[k][1].id = k
      BY <3>2 DEF BatchInv
    <3> QED
      BY <3>1, <3>2, <3>3
  <2>2. 1 \in 1 .. Len(b) /\ b[1].id = sent[q][i].id
    BY <2>1b, <2>1c
  <2>3. todo' = Append(b, sent[q][i])
    BY <1>2, <2>1
  <2>4. todo'[1] = b[1]
    <3>1. Append(b, sent[q][i])[1] = b[1]
      BY <1>2, <2>2, AppendMessage
    <3> QED
      BY <2>3, <3>1
  <2> QED
    BY <1>1, <2>2, <2>4 DEF BeingWritten, Cur
<1>4. q = r
  BY <1>0, <1>3, OwnDatagrams
<1>5. i = Len(sent[r]) /\ phase[r] = "done"
  BY <1>2, <1>4 DEF ScriptInv, OrderInv
<1>6. HandedOver(r)' /\ ~HandedOver(r)
  <2>1. got'[r] = i /\ got[r] \in Nat
    BY <1>2, <1>4 DEF TypeOK
  <2>2. got[r] # Len(sent[r]) /\ got'[r] = Len(sent'[r]) /\ phase'[r] = "done"
    <3>1. i = got[r] + 1 /\ sent'[r] = sent[r] /\ phase'[r] = phase[r]
      BY <1>2, <1>4
    <3>2. got[r] # i
      BY <2>1, <3>1
    <3>3. got'[r] = Len(sent'[r])
      BY <1>5, <2>1, <3>1
    <3> QED
      BY <1>5, <3>1, <3>2, <3>3
  <2> QED
    BY <2>2 DEF HandedOver
<1>7. Clean(id)
  BY <1>0, <1>6 DEF RowsInv
<1>8. tests'[id] = NoRow /\ \A a \in Assertion : asserts'[id][a] = NoRow
  BY <1>2, <1>7 DEF Clean
<1>9. results'[id] = todo' /\ todo' # <<>>
  BY <1>2, <1>3, AppendMessage
<1>10. ASSUME NEW a \in Assertion, ~LostOn(r, a)'
       PROVE  Settles(r, a)'
  <2>1. Tells(sent'[r], got'[r], a, assertions'[r][a])
    <3>1. Tells(sent[r], Len(sent[r]), a, assertions[r][a])
      BY <1>5, DoneTells
    <3>2. got'[r] = Len(sent'[r])
      BY <1>6 DEF HandedOver
    <3> QED
      BY <1>2, <3>1, <3>2
  <2>2. assertions'[r][a] \in Status \cup {NULL}
    <3>1. assertions[r][a] \in Status \cup {NULL}
      BY DEF TypeOK
    <3>2. assertions' = assertions
      BY <1>2
    <3> QED
      BY <3>1, <3>2
  <2>3. Tells(todo', Len(todo'), a, assertions'[r][a])
    BY <1>1, <1>9, <1>10, <2>1, <2>2 DEF MemoryInv
  <2>4. StoredStatus(id)'[a] = NULL
    BY <1>8, StatusIs DEF StatusOf
  <2>5. CASE Silent(todo', Len(todo'), a)
    <3>1. assertions'[r][a] = NULL
      BY <2>3, <2>5 DEF Tells, Silent
    <3> QED
      BY <1>1, <2>4, <2>5, <3>1 DEF Settles, StoredStatus
  <2>6. CASE ~Silent(todo', Len(todo'), a)
    BY <2>3, <2>6 DEF Settles
  <2> QED
    BY <2>5, <2>6
<1> QED
  BY <1>1, <1>2, <1>6, <1>8, <1>10 DEF WriteInv, Clean

\* WriteInv after a step of test_finish(), part by part.
LEMMA WriteKept ==
    ASSUME NEW r \in Run, NEW id \in TestId, test_id'[r] = id,
           HandedOver(r)', pc' # "getTest",
           tests'[id] # NoRow => tests'[id].finish = NULL,
           pc' = "update" /\ tests'[id] # NoRow =>
               asserts'[id][todo'[1].no] # NoRow,
           tests'[id] # NoRow =>
               \A a \in Assertion : ~LostOn(r, a)' =>
                   IF Silent(todo', Len(todo'), a)
                   THEN StatusOf(asserts'[id][a]) = assertions'[r][a]
                   ELSE Tells(todo', Len(todo'), a, assertions'[r][a])
    PROVE  WriteInv(r)'
<1>1. ASSUME tests'[id] # NoRow, NEW a \in Assertion, ~LostOn(r, a)'
      PROVE  Settles(r, a)'
  <2>1. StoredStatus(test_id[r])'[a] = StatusOf(asserts'[id][a])
    BY StatusIs DEF StoredStatus
  <2> QED
    BY <1>1, <2>1 DEF Settles
<1> QED
  BY <1>1 DEF WriteInv

\* What WriteInv says of the status of one assertion.
LEMMA WriteSettles ==
    ASSUME NEW r \in Run, WriteInv(r), BeingWritten(r),
           NEW id, id = test_id[r],
           pc = "getTest" \/ tests[id] # NoRow,
           NEW a \in Assertion, ~LostOn(r, a)
    PROVE  IF Silent(todo, Len(todo), a)
           THEN StatusOf(asserts[id][a]) = assertions[r][a]
           ELSE Tells(todo, Len(todo), a, assertions[r][a])
<1>1. Settles(r, a)
  BY DEF WriteInv
<1>2. StoredStatus(test_id[r])[a] = StatusOf(asserts[id][a])
  BY StatusIs
<1> QED
  BY <1>1, <1>2 DEF Settles

\* While a batch is written, each step of test_finish() takes the status that
\* the script ended with from the batch to the rows.
LEMMA WriteGoesOn ==
    ASSUME TypeOK, TodoInv, [Next]_vars, NEW r \in Run, test_id[r] # NULL,
           test_id'[r] = test_id[r], WriteInv(r), BeingWritten(r),
           GetTest \/ DbTestStart \/ GetAssertion \/ DbTestAssert
    PROVE  WriteInv(r)'
<1>0. PICK id \in TestId : id = test_id[r]
  BY IdType
<1>1. /\ test_id'[r] = id /\ Cur = id /\ Writing
      /\ Head(todo) = todo[1] /\ todo[1] \in Message
  BY <1>0, HeadFacts DEF BeingWritten
<1>2. /\ HandedOver(r)' /\ assertions'[r] = assertions[r]
      /\ \A a : LostOn(r, a)' <=> LostOn(r, a)
  BY HandedStep, HandedKept DEF WriteInv, Untouched
<1>3. tests[id] # NoRow => tests[id].finish = NULL
  BY <1>0 DEF WriteInv
<1>4. todo \in Seq(Message) /\ Len(todo) > 0
  BY <1>1 DEF TypeOK, TodoInv
<1>5. CASE GetTest
  <2>1. /\ pc = "getTest" /\ pc' = "replay" /\ todo' = todo /\ asserts' = asserts
        /\ tests'[id] = tests[id] \/ tests'[id] = ATestRow(NULL, NULL)
    BY <1>1, <1>5 DEF GetTest, TypeOK
  <2>2. tests'[id] # NoRow => tests'[id].finish = NULL
    BY <1>3, <2>1, TestRowFacts
  <2>3. ASSUME NEW a \in Assertion, ~LostOn(r, a)'
        PROVE  IF Silent(todo', Len(todo'), a)
               THEN StatusOf(asserts'[id][a]) = assertions'[r][a]
               ELSE Tells(todo', Len(todo'), a, assertions'[r][a])
    BY <1>0, <1>2, <2>1, <2>3, WriteSettles
  <2> QED
    BY <1>1, <1>2, <2>1, <2>2, <2>3, WriteKept
<1>6. CASE DbTestStart
  <2>1. /\ pc = "replay" /\ pc' = "replay" /\ todo' = Tail(todo)
        /\ asserts' = asserts /\ Head(todo).type = "test-start"
        /\ tests'[id] = tests[id]
           \/ (tests[id] # NoRow
               /\ tests'[id] = ATestRow(Head(todo).ts, tests[id].finish))
    BY <1>1, <1>6 DEF DbTestStart, UpdateTest, TypeOK
  <2>2. tests'[id] # NoRow => tests[id] # NoRow /\ tests'[id].finish = NULL
    BY <1>3, <2>1, TestRowFacts
  <2>3. \A a : ~On(Head(todo), a)
    BY <2>1 DEF On
  <2>4. ASSUME tests'[id] # NoRow, NEW a \in Assertion, ~LostOn(r, a)'
        PROVE  IF Silent(todo', Len(todo'), a)
               THEN StatusOf(asserts'[id][a]) = assertions'[r][a]
               ELSE Tells(todo', Len(todo'), a, assertions'[r][a])
    <3>1. IF Silent(todo, Len(todo), a)
          THEN StatusOf(asserts[id][a]) = assertions[r][a]
          ELSE Tells(todo, Len(todo), a, assertions[r][a])
      BY <1>0, <1>2, <2>2, <2>4, WriteSettles
    <3>2. IF On(Head(todo), a)
          THEN StatusOf(asserts'[id][a]) = Head(todo).status
          ELSE StatusOf(asserts'[id][a]) = StatusOf(asserts[id][a])
      BY <2>1, <2>3
    <3> QED
      BY <1>2, <1>4, <2>1, <3>1, <3>2, SettlesTail
  <2> QED
    BY <1>1, <1>2, <2>1, <2>2, <2>4, WriteKept
<1>7. CASE GetAssertion
  <2>1. /\ pc = "replay" /\ pc' = "update" /\ todo' = todo /\ tests' = tests
        /\ Head(todo).no \in Assertion
        /\ asserts'[id][todo[1].no] # NoRow
    BY <1>1, <1>7, MessageFacts, AssertRowFacts, ConstantsAssumption
       DEF GetAssertion, TypeOK
  <2>2. \A a \in Assertion : StatusOf(asserts'[id][a]) = StatusOf(asserts[id][a])
    <3>1. ASSUME NEW a \in Assertion
          PROVE  \/ asserts'[id][a] = asserts[id][a]
                 \/ /\ asserts[id][a] = NoRow
                    /\ asserts'[id][a] = [row |-> "assert", result |-> NULL]
      <4>1. ~DropTables /\ ~DbTestAssert
        BY <2>1 DEF DropTables, DbTestAssert, daemonVars
      <4> QED
        BY <4>1, AssertRowStep
    <3>2. /\ [row |-> "assert", result |-> NULL] # NoRow
          /\ [row |-> "assert", result |-> NULL].result = NULL
      BY DEF NoRow
    <3> QED
      BY <3>1, <3>2 DEF StatusOf
  <2>3. ASSUME tests'[id] # NoRow, NEW a \in Assertion, ~LostOn(r, a)'
        PROVE  IF Silent(todo', Len(todo'), a)
               THEN StatusOf(asserts'[id][a]) = assertions'[r][a]
               ELSE Tells(todo', Len(todo'), a, assertions'[r][a])
    <3>1. IF Silent(todo, Len(todo), a)
          THEN StatusOf(asserts[id][a]) = assertions[r][a]
          ELSE Tells(todo, Len(todo), a, assertions[r][a])
      BY <1>0, <1>2, <2>1, <2>3, WriteSettles
    <3> QED
      BY <1>2, <2>1, <2>2, <3>1
  <2> QED
    BY <1>1, <1>2, <1>3, <2>1, <2>3, WriteKept
<1>8. CASE DbTestAssert
  <2>1. /\ pc = "update" /\ pc' = "replay" /\ todo' = Tail(todo)
        /\ tests' = tests /\ Head(todo).type = "assert-status"
        /\ Head(todo).no \in Assertion
    BY <1>1, <1>8, MessageFacts DEF DbTestAssert, TodoInv
  <2>2. ASSUME tests[id] # NoRow, NEW a \in Assertion
        PROVE  IF On(Head(todo), a)
               THEN StatusOf(asserts'[id][a]) = Head(todo).status
               ELSE StatusOf(asserts'[id][a]) = StatusOf(asserts[id][a])
    <3>1. asserts[id][todo[1].no] # NoRow
      BY <1>0, <2>1, <2>2 DEF WriteInv
    <3>2. asserts' = [asserts EXCEPT ![id][todo[1].no] =
                        [row |-> "assert", result |-> todo[1].status]]
      BY <1>1, <1>8, <3>1 DEF DbTestAssert
    <3>3. /\ [row |-> "assert", result |-> todo[1].status] # NoRow
          /\ [row |-> "assert", result |-> todo[1].status].result = todo[1].status
      BY DEF NoRow
    <3>4. CASE a = todo[1].no
      <4>1. asserts'[id][a] = [row |-> "assert", result |-> todo[1].status]
        BY <3>2, <3>4 DEF TypeOK
      <4> QED
        BY <1>1, <2>1, <3>3, <3>4, <4>1 DEF On, StatusOf
    <3>5. CASE a # todo[1].no
      <4>1. asserts'[id][a] = asserts[id][a]
        BY <3>2, <3>5 DEF TypeOK
      <4> QED
        BY <1>1, <3>5, <4>1 DEF On
    <3> QED
      BY <3>4, <3>5
  <2>3. ASSUME tests'[id] # NoRow, NEW a \in Assertion, ~LostOn(r, a)'
        PROVE  IF Silent(todo', Len(todo'), a)
               THEN StatusOf(asserts'[id][a]) = assertions'[r][a]
               ELSE Tells(todo', Len(todo'), a, assertions'[r][a])
    <3>1. IF Silent(todo, Len(todo), a)
          THEN StatusOf(asserts[id][a]) = assertions[r][a]
          ELSE Tells(todo, Len(todo), a, assertions[r][a])
      BY <1>0, <1>2, <2>1, <2>3, WriteSettles
    <3>2. IF On(Head(todo), a)
          THEN StatusOf(asserts'[id][a]) = Head(todo).status
          ELSE StatusOf(asserts'[id][a]) = StatusOf(asserts[id][a])
      BY <2>1, <2>2, <2>3
    <3>3. PICK v, st, new : /\ v = assertions[r][a] /\ st = StatusOf(asserts[id][a])
                            /\ new = StatusOf(asserts'[id][a])
      OBVIOUS
    <3>4. IF Silent(Tail(todo), Len(Tail(todo)), a) THEN new = v
          ELSE Tells(Tail(todo), Len(Tail(todo)), a, v)
      BY <1>4, <3>1, <3>2, <3>3, SettlesTail
    <3> QED
      BY <1>2, <2>1, <3>3, <3>4
  <2> QED
    BY <1>1, <1>2, <1>3, <2>1, <2>3, WriteKept
<1> QED
  BY <1>5, <1>6, <1>7, <1>8

\* WriteInv is left alone by what does not touch the daemon; a purge takes the
\* row away.
LEMMA WriteStays ==
    ASSUME TypeOK, [Next]_vars, NEW r \in Run, test_id[r] # NULL,
           test_id'[r] = test_id[r], WriteInv(r), BeingWritten(r),
           Quiet \/ (DropTables /\ pc' = pc /\ todo' = todo)
    PROVE  WriteInv(r)'
<1>0. PICK id \in TestId : id = test_id[r]
  BY IdType
<1>1. test_id'[r] = id /\ pc' = pc /\ todo' = todo
  BY <1>0 DEF Quiet
<1>2. /\ HandedOver(r)' /\ assertions'[r] = assertions[r]
      /\ \A a : LostOn(r, a)' <=> LostOn(r, a)
  BY HandedStep, HandedKept DEF WriteInv, Untouched
<1>3. \/ tests' = tests /\ asserts' = asserts
      \/ tests'[id] = NoRow /\ \A a \in Assertion : asserts'[id][a] = NoRow
  BY DEF Quiet, DropTables, NoTests, NoAsserts
<1>4. pc = "getTest" =>
          tests[id] = NoRow /\ \A a \in Assertion : asserts[id][a] = NoRow
  BY <1>0 DEF WriteInv, Clean
<1>5. pc' = "getTest" => Clean(test_id[r])'
  BY <1>1, <1>3, <1>4 DEF Clean
<1>6. tests'[id] # NoRow => tests'[id].finish = NULL
  BY <1>0, <1>3 DEF WriteInv
<1>7. pc' = "update" /\ tests'[id] # NoRow => asserts'[id][todo'[1].no] # NoRow
  BY <1>0, <1>1, <1>3 DEF WriteInv
<1>8. ASSUME pc' = "getTest" \/ tests'[id] # NoRow,
             NEW a \in Assertion, ~LostOn(r, a)'
      PROVE  Settles(r, a)'
  <2>1. StatusOf(asserts'[id][a]) = StatusOf(asserts[id][a])
    BY <1>1, <1>3, <1>4, <1>8
  <2>2. IF Silent(todo, Len(todo), a)
        THEN StatusOf(asserts[id][a]) = assertions[r][a]
        ELSE Tells(todo, Len(todo), a, assertions[r][a])
    BY <1>0, <1>1, <1>2, <1>3, <1>8, WriteSettles
  <2>3. StoredStatus(test_id[r])'[a] = StatusOf(asserts'[id][a])
    BY <1>1, StatusIs DEF StoredStatus
  <2> QED
    BY <1>1, <1>2, <2>1, <2>2, <2>3 DEF Settles
<1> QED
  BY <1>1, <1>2, <1>5, <1>6, <1>7, <1>8 DEF WriteInv

LEMMA WriteStep ==
    ASSUME Ordered, TypeOK, TodoInv, ClockInv, BatchInv, [Next]_vars,
           NEW r \in Run, ScriptInv(r), test_id[r] # NULL,
           UniqueId(r), MemoryInv(r)', WriteInv(r), RowsInv(r)
    PROVE  WriteInv(r)'
<1>0. PICK id \in TestId : id = test_id[r]
  BY IdType
<1>1. test_id'[r] = id /\ test_id'[r] = test_id[r]
  BY <1>0, IdKept
<1>2. CASE ~BeingWritten(r)'
  BY <1>2 DEF WriteInv
<1> SUFFICES ASSUME Writing', Cur' = id PROVE WriteInv(r)'
  BY <1>1, <1>2 DEF BeingWritten
<1>3. BeingWritten(r)'
  BY <1>1 DEF BeingWritten
<1>4. CASE Quiet \/ Bind \/ DropTables
  <2>1. todo' = todo /\ (pc' = pc \/ pc' = "recv")
    BY <1>4 DEF Quiet, Bind, DropTables, daemonVars
  <2>2. pc' = pc
    BY <2>1 DEF Writing
  <2>3. BeingWritten(r)
    BY <1>0, <2>1, <2>2 DEF BeingWritten, Writing, Cur
  <2>4. Quiet \/ DropTables
    BY <1>4, <2>1, <2>2 DEF Quiet, Bind, dbVars
  <2> QED
    BY <1>1, <2>1, <2>2, <2>3, <2>4, WriteStays
<1>5. CASE Ends \/ DbTestFinish
  BY <1>5 DEF Ends, DbTestFinish, Writing
<1>6. CASE GetTest \/ DbTestStart \/ GetAssertion \/ DbTestAssert
  <2>1. Writing
    BY <1>6 DEF GetTest, DbTestStart, GetAssertion, DbTestAssert, Writing
  <2>2. Cur = id
    <3>1. CASE GetTest \/ GetAssertion
      BY <3>1 DEF GetTest, GetAssertion, Cur
    <3>2. CASE DbTestStart \/ DbTestAssert
      BY <3>2, CurStep
    <3> QED
      BY <1>6, <3>1, <3>2
  <2>3. BeingWritten(r)
    BY <1>0, <2>1, <2>2 DEF BeingWritten
  <2> QED
    BY <1>1, <1>6, <2>3, WriteGoesOn
<1>7. ASSUME NEW q \in Run, NEW i \in 1 .. Len(sent[q]),
             RecvStart(q, i) \/ RecvAssert(q, i) \/ RecvFinish(q, i)
      PROVE  WriteInv(r)'
  <2>1. RecvFinish(q, i)
    BY <1>7 DEF RecvStart, RecvAssert, Writing
  <2> QED
    BY <1>3, <2>1, WriteBegins
<1> QED
  BY <1>4, <1>5, <1>6, <1>7, DaemonCases

\* The rows of r after a step.
LEMMA RowsStep ==
    ASSUME TypeOK, NamedInv, ClockInv, TodoInv, [Next]_vars,
           NEW r \in Run, ScriptInv(r), test_id[r] # NULL,
           WriteInv(r), RowsInv(r)
    PROVE  RowsInv(r)'
<1>0. PICK id \in TestId : id = test_id[r]
  BY IdType
<1>1. test_id'[r] = id
  BY <1>0, IdKept
<1>2. HandedOver(r) => HandedOver(r)'
  BY HandedKept
<1>3. ~HandedOver(r) => Clean(id)
  BY <1>0 DEF RowsInv
<1>4. Writing /\ id = Cur => BeingWritten(r) /\ HandedOver(r)
  BY <1>0 DEF WriteInv, BeingWritten
<1>5. ~HandedOver(r) => Clean(id)'
  BY <1>3, <1>4, CleanKept
<1>6. ASSUME tests'[id] # NoRow, tests'[id].finish # NULL,
             NEW a \in Assertion, ~LostOn(r, a)'
      PROVE  StatusOf(asserts'[id][a]) = assertions'[r][a]
  <2>1. HandedOver(r)
    BY <1>5, <1>6 DEF Clean
  <2>2. assertions'[r] = assertions[r] /\ ~LostOn(r, a)
    BY <1>6, <2>1, HandedStep, HandedKept DEF Untouched
  <2>3. ~DropTables
    BY <1>6 DEF DropTables, NoTests
  <2>4. asserts'[id][a] = asserts[id][a]
    <3>1. CASE (GetAssertion \/ DbTestAssert) /\ id = Cur
      <4>1. BeingWritten(r)
        BY <1>4, <3>1 DEF GetAssertion, DbTestAssert, Writing
      <4>2. tests' = tests
        BY <3>1 DEF GetAssertion, DbTestAssert
      <4>3. tests[id] # NoRow => tests[id].finish = NULL
        BY <1>0, <4>1 DEF WriteInv
      <4> QED
        BY <1>6, <4>2, <4>3
    <3> QED
      BY <2>3, <3>1, AssertRowStep
  <2>5. StatusOf(asserts[id][a]) = assertions[r][a]
    <3>1. CASE tests'[id] = tests[id]
      <4>1. StoredStatus(id)[a] = assertions[r][a]
        BY <1>0, <1>6, <2>2, <3>1 DEF RowsInv, Finished
      <4> QED
        BY <4>1, StatusIs
    <3>2. CASE tests'[id] = ATestRow(NULL, NULL)
      BY <1>6, <3>2, TestRowFacts
    <3>3. CASE /\ DbTestStart /\ id = Cur /\ tests[id] # NoRow
               /\ tests'[id] = ATestRow(todo[1].ts, tests[id].finish)
      <4>1. BeingWritten(r)
        BY <1>4, <3>3 DEF DbTestStart, Writing
      <4>2. tests[id].finish = NULL
        BY <1>0, <3>3, <4>1 DEF WriteInv
      <4>3. tests'[id].finish = tests[id].finish
        BY <3>3, TestRowFacts
      <4> QED
        BY <1>6, <4>2, <4>3
    <3>4. CASE /\ DbTestFinish /\ id = Cur /\ tests[id] # NoRow
               /\ todo[1].type = "test-finish"
      <4>1. Writing /\ BeingWritten(r)
        BY <1>4, <3>4 DEF DbTestFinish, Writing
      <4>2. todo \in Seq(Message) /\ Len(todo) \in Nat
        BY DEF TypeOK
      <4>3. Len(todo) > 0 /\ ~(1 < Len(todo))
        <5>1. todo[1].type = "test-finish"
          BY <3>4
        <5>2. Len(todo) > 0 /\ (1 < Len(todo) => todo[1].type # "test-finish")
          BY <4>1, <4>2 DEF TodoInv
        <5> QED
          BY <5>1, <5>2
      <4>4. Len(todo) = 1
        BY <4>2, <4>3
      <4>5. Silent(todo, Len(todo), a)
        BY <3>4, <4>4 DEF Silent, On
      <4> QED
        BY <1>0, <2>2, <3>4, <4>1, <4>5, WriteSettles
    <3> QED
      BY <2>3, <3>1, <3>2, <3>3, <3>4, RowStep
  <2> QED
    BY <2>2, <2>4, <2>5
<1>7. ASSUME Finished(test_id[r])', NEW a \in Assertion, ~LostOn(r, a)'
      PROVE  StoredStatus(test_id[r])'[a] = assertions'[r][a]
  <2>1. tests'[id] # NoRow /\ tests'[id].finish # NULL
    BY <1>1, <1>7 DEF Finished
  <2>2. StatusOf(asserts'[id][a]) = assertions'[r][a]
    BY <1>6, <1>7, <2>1
  <2>3. StoredStatus(id)'[a] = StatusOf(asserts'[id][a])
    BY StatusIs
  <2> QED
    BY <1>1, <2>2, <2>3 DEF StoredStatus
<1>8. ~HandedOver(r)' => Clean(test_id[r])'
  BY <1>1, <1>2, <1>5 DEF Clean
<1> QED
  BY <1>7, <1>8 DEF RowsInv

\* A test that starts under an id that no other test has finds no trace of it in
\* the daemon's memory or in the database.
LEMMA RunStarts ==
    ASSUME TypeOK, TodoInv, ClockInv, BatchInv, FreshInv,
           NEW r \in Run, ScriptInv(r), Start(r), UniqueId(r)'
    PROVE  RunInv(r)'
<1>0. PICK id : id = <<ComboOf[r], now>>
  OBVIOUS
<1>1. /\ id \in TestId /\ phase[r] = "new" /\ phase'[r] = "starting"
      /\ test_id'[r] = id /\ \A q \in Run : q # r => test_id'[q] = test_id[q]
      /\ Quiet
  BY <1>0, TestIdFacts DEF Start, TypeOK, Quiet, daemonVars, dbVars
<1>2. id # NULL /\ test_id[r] = NULL
  BY <1>1, ConstantsAssumption DEF ScriptInv, OrderInv
<1>3. \A q \in Run : test_id[q] # id
  BY <1>1, <1>2 DEF UniqueId
<1>4. Clean(id)
  BY <1>1, <1>3 DEF FreshInv
<1>5. Writing => Cur # id
  BY <1>3, CurHasRun
<1>6. results[id] = <<>>
  <2> SUFFICES ASSUME results[id] # <<>> PROVE FALSE
    OBVIOUS
  <2>1. results[id] \in Seq(Message) /\ 1 \in 1 .. Len(results[id])
    BY <1>1 DEF TypeOK
  <2>2. WasSent(results[id][1]) /\ results[id][1].id = id
    BY <1>1, <2>1 DEF BatchInv
  <2>3. PICK q \in Run : \E i \in 1 .. Len(sent[q]) : sent[q][i] = results[id][1]
    BY <2>2 DEF WasSent
  <2> QED
    BY <1>3, <2>2, <2>3 DEF ClockInv
<1>7. Clean(id)' /\ results'[id] = <<>>
  BY <1>1, <1>4, <1>6 DEF Quiet, Clean
<1>8. MemoryInv(r)'
  BY <1>1, <1>7 DEF MemoryInv
<1>9. ~BeingWritten(r)'
  BY <1>1, <1>5 DEF Quiet, BeingWritten, Writing, Cur
<1>10. RowsInv(r)'
  BY <1>1, <1>7 DEF RowsInv, Clean, Finished
<1> QED
  BY <1>8, <1>9, <1>10 DEF RunInv, WriteInv

LEMMA CompleteStep ==
    ASSUME Ordered, IInv, CompleteInv, [Next]_vars
    PROVE  CompleteInv'
<1>0. /\ TypeOK /\ NamedInv /\ BatchInv /\ TodoInv /\ ClockInv
      /\ FreshInv /\ \A r \in Run : ScriptInv(r)
  BY DEF IInv, CompleteInv
<1>1. FreshInv'
  BY <1>0, FreshStep
<1>2. ASSUME NEW r \in Run PROVE ScriptInv(r)'
  BY <1>0, ScriptStep
<1>3. ASSUME NEW r \in Run, test_id'[r] # NULL, UniqueId(r)'
      PROVE  RunInv(r)'
  <2>1. CASE test_id[r] = NULL
    <3>1. \E q \in Run : Client(q)
      BY <1>3, <2>1, ServerFrame
    <3>2. ASSUME NEW q \in Run, Client(q)
          PROVE  test_id' = test_id \/ Start(q)
      BY <3>2 DEF Client, AddAssertion, SendSkipped, AssertTest, SendStart,
         BeginFinish, SendFinish, Kill
    <3>3. PICK q \in Run : Start(q)
      BY <1>3, <2>1, <3>1, <3>2
    <3>4. q = r
      <4>1. test_id' = [test_id EXCEPT ![q] = <<ComboOf[q], now>>]
        BY <3>3 DEF Start
      <4> QED
        BY <1>0, <1>3, <2>1, <4>1 DEF TypeOK
    <3> QED
      BY <1>0, <1>3, <3>3, <3>4, RunStarts
  <2>2. CASE test_id[r] # NULL
    <3>1. UniqueId(r)
      BY <1>0, <1>3, <2>2, UniqueKept
    <3>2. MemoryInv(r) /\ WriteInv(r) /\ RowsInv(r)
      BY <2>2, <3>1 DEF CompleteInv, RunInv
    <3>3. MemoryInv(r)'
      BY <1>0, <2>2, <3>1, <3>2, MemoryStep
    <3>4. WriteInv(r)'
      BY <1>0, <2>2, <3>1, <3>2, <3>3, WriteStep
    <3>5. RowsInv(r)'
      BY <1>0, <2>2, <3>2, RowsStep
    <3> QED
      BY <3>3, <3>4, <3>5 DEF RunInv
  <2> QED
    BY <2>1, <2>2
<1> QED
  BY <1>1, <1>2, <1>3 DEF CompleteInv

LEMMA CompleteInit == Init => CompleteInv
<1> SUFFICES ASSUME Init PROVE CompleteInv
    OBVIOUS
<1>1. FreshInv
  BY DEF Init, FreshInv, Clean, NoTests, NoAsserts, Alive
<1>2. ASSUME NEW r \in Run
      PROVE  ScriptInv(r) /\ test_id[r] = NULL
  <2>1. /\ phase[r] = "new" /\ test_id[r] = NULL /\ sent[r] = <<>>
        /\ got[r] = 0 /\ lost[r] = {} /\ \A a \in Assertion : assertions[r][a] = NULL
    BY DEF Init
  <2>2. Len(sent[r]) = 0 /\ 1 .. Len(sent[r]) = {}
    BY <2>1
  <2>3. OrderInv(r)
    BY <2>1, <2>2 DEF OrderInv
  <2>4. \A a \in Assertion : VerdictInv(r, a)
    BY <2>1, <2>2 DEF VerdictInv, Reported, Silent
  <2> QED
    BY <2>1, <2>3, <2>4 DEF ScriptInv
<1> QED
  BY <1>1, <1>2 DEF CompleteInv

LEMMA CompleteImplies == IInv /\ CompleteInv => FinishedRowComplete
<1> SUFFICES ASSUME IInv, CompleteInv, NEW r \in Run, test_id[r] # NULL,
                    UniqueId(r), Finished(test_id[r])
             PROVE  /\ phase[r] = "done"
                    /\ \A a \in Assertion : ~LostOn(r, a) =>
                          StoredStatus(test_id[r])[a] = assertions[r][a]
                    /\ (\A a \in Assertion : ~LostOn(r, a)) =>
                          (exit_code(r) = 0 <=>
                             \A a \in Assertion :
                                 StoredStatus(test_id[r])[a] \in {PASSED, NULL})
    BY DEF FinishedRowComplete
<1>1. RowsInv(r)
  BY DEF CompleteInv, RunInv
<1>2. phase[r] = "done"
  BY <1>1 DEF RowsInv, Finished, Clean, HandedOver
<1>3. \A a \in Assertion : ~LostOn(r, a) =>
          StoredStatus(test_id[r])[a] = assertions[r][a]
  BY <1>1 DEF RowsInv
<1>4. exit_code(r) = 0 <=> \A a \in Assertion : assertions[r][a] \in {PASSED, NULL}
  <2>1. exit_code(r) = 0 <=> \A a \in Declared(r) : assertions[r][a] = PASSED
    BY DEF exit_code
  <2>2. \A a : a \in Declared(r) <=> a \in Assertion /\ assertions[r][a] # NULL
    BY DEF Declared
  <2> QED
    BY <2>1, <2>2
<1> QED
  BY <1>2, <1>3, <1>4

\* On a network that keeps order, a row with a finish time holds the status its
\* script ended with for every assertion of which no verdict was lost under a
\* running tadad, whatever losses, kills, relaunches and purges happen, for any
\* number of scripts and assertions.
THEOREM FinishedRowCompleteAlways ==
    Ordered /\ Spec => []FinishedRowComplete
<1>1. ASSUME Ordered
      PROVE  Spec => []FinishedRowComplete
  <2>1. IInv /\ CompleteInv /\ [Next]_vars => CompleteInv'
    BY <1>1, CompleteStep
  <2> QED
    BY <2>1, CompleteInit, CompleteImplies, Invariance, PTL DEF Spec
<1> QED
  BY <1>1

-----------------------------------------------------------------------------
(* The pipeline implements the board. *)

LEMMA ComboStep ==
    ASSUME TypeOK, ComboInv, [Next]_vars
    PROVE  ComboInv'
<1>1. ASSUME NEW r \in Run, Start(r)
      PROVE  ComboInv'
  <2>1. test_id' = [test_id EXCEPT ![r] = <<ComboOf[r], now>>]
    BY <1>1 DEF Start
  <2> QED
    BY <2>1 DEF ComboInv, TypeOK
<1>2. ASSUME NEW r \in Run, Client(r)
      PROVE  Start(r) \/ test_id' = test_id
  BY <1>2 DEF Client, AddAssertion, SendSkipped, AssertTest, SendStart,
     BeginFinish, SendFinish, Kill
<1>3. ASSUME test_id' = test_id
      PROVE  ComboInv'
  BY <1>3 DEF ComboInv
<1> QED
  BY <1>1, <1>2, <1>3, ServerFrame

\* With one run per combination every test has an id of its own.
LEMMA AllUnique ==
    ASSUME DistinctTests, ComboInv
    PROVE  \A r \in Run : test_id[r] # NULL => UniqueId(r)
  BY DEF DistinctTests, ComboInv, UniqueId

LEMMA DecidedHolds ==
    ASSUME DistinctTests, NamedInv, ComboInv
    PROVE  DecidedInv
<1> SUFFICES ASSUME NEW r \in Run, phase[r] = "done"
             PROVE  Decided(test_id[r]) = assertions[r]
    BY DEF DecidedInv
<1>1. test_id[r] # NULL
  BY ConstantsAssumption DEF NamedInv
<1>2. UniqueId(r)
  BY <1>1, AllUnique
<1>3. PICK id : id = test_id[r]
  OBVIOUS
<1>4. \A q \in Run : phase[q] = "done" /\ test_id[q] = id <=> q = r
  BY <1>2, <1>3 DEF UniqueId
<1>5. (CHOOSE q \in Run : phase[q] = "done" /\ test_id[q] = id) = r
  BY <1>4
<1>6. Decided(id) = assertions[r]
  BY <1>4, <1>5 DEF Decided
<1> QED
  BY <1>3, <1>6

\* A script that is done keeps what it ended with.
LEMMA DoneKept ==
    ASSUME TypeOK, NamedInv, [Next]_vars, NEW r \in Run, ScriptInv(r),
           phase[r] = "done"
    PROVE  /\ phase'[r] = "done" /\ assertions'[r] = assertions[r]
           /\ test_id'[r] = test_id[r]
<1>1. ~Client(r)
  BY DEF Client, AddAssertion, SendSkipped, AssertTest, Start, SendStart,
     BeginFinish, SendFinish, Kill
<1> QED
  BY <1>1, TrafficStep DEF Untouched

\* A script becomes done in one way.
LEMMA DoneBy ==
    ASSUME TypeOK, [Next]_vars, NEW r \in Run, phase'[r] = "done",
           phase[r] # "done"
    PROVE  SendFinish(r) /\ test_id' = test_id
<1>1. ASSUME NEW q \in Run, Client(q)
      PROVE  q = r /\ SendFinish(q)
  <2>1. ASSUME NEW a \in Assertion, NEW cond \in BOOLEAN, AssertTest(q, a, cond)
        PROVE  FALSE
    BY <2>1 DEF AssertTest, TypeOK
  <2>2. ASSUME NEW a \in Assertion, AddAssertion(q, a) \/ SendSkipped(q, a)
        PROVE  FALSE
    BY <2>2 DEF AddAssertion, SendSkipped, TypeOK
  <2>3. CASE Start(q) \/ SendStart(q) \/ BeginFinish(q) \/ Kill(q)
    BY <2>3 DEF Start, SendStart, BeginFinish, Kill, TypeOK
  <2>4. CASE SendFinish(q)
    BY <2>4 DEF SendFinish, TypeOK
  <2> QED
    BY <1>1, <2>1, <2>2, <2>3, <2>4 DEF Client
<1>2. SendFinish(r)
  BY <1>1, ServerFrame
<1> QED
  BY <1>2 DEF SendFinish

\* What a test decided stays.
LEMMA DecidedStep ==
    ASSUME TypeOK, NamedInv, CompleteInv, DecidedInv, DecidedInv',
           [Next]_vars, NEW id \in TestId,
           ~\E r \in Run : SendFinish(r) /\ test_id[r] = id
    PROVE  Decided(id)' = Decided(id)
<1>1. ASSUME NEW r \in Run, phase[r] = "done"
      PROVE  /\ phase'[r] = "done" /\ assertions'[r] = assertions[r]
             /\ test_id'[r] = test_id[r]
  BY <1>1, DoneKept DEF CompleteInv
<1>3. CASE \E r \in Run : phase[r] = "done" /\ test_id[r] = id
  <2>1. PICK r \in Run : phase[r] = "done" /\ test_id[r] = id
    BY <1>3
  <2>2. Decided(id) = assertions[r]
    BY <2>1 DEF DecidedInv
  <2>3. phase'[r] = "done" /\ test_id'[r] = id /\ assertions'[r] = assertions[r]
    BY <1>1, <2>1
  <2>4. Decided(test_id[r])' = assertions'[r]
    BY <2>3 DEF DecidedInv
  <2>5. Decided(id)' = Decided(test_id[r])'
    BY <2>3 DEF Decided
  <2> QED
    BY <2>2, <2>3, <2>4, <2>5
<1>4. CASE ~\E r \in Run : phase[r] = "done" /\ test_id[r] = id
  <2>1. ~\E r \in Run : phase'[r] = "done" /\ test_id'[r] = id
    BY <1>1, <1>4, DoneBy
  <2> QED
    BY <1>4, <2>1 DEF Decided
<1> QED
  BY <1>3, <1>4

\* A finish time is set by db_test_finish() and removed by a purge only.
LEMMA FinishedStep ==
    ASSUME TypeOK, TodoInv, [Next]_vars, NEW id \in TestId,
           ~DropTables, ~(DbTestFinish /\ id = Cur)
    PROVE  Finished(id)' <=> Finished(id)
<1>1. CASE tests'[id] = tests[id]
  BY <1>1 DEF Finished
<1>2. CASE tests[id] = NoRow /\ tests'[id] = ATestRow(NULL, NULL)
  BY <1>2, TestRowFacts DEF Finished
<1>3. CASE /\ DbTestStart /\ tests[id] # NoRow /\ id = Cur
           /\ tests'[id] = ATestRow(todo[1].ts, tests[id].finish)
           /\ todo[1].type = "test-start"
  <2>1. Writing
    BY <1>3 DEF DbTestStart, Writing
  <2>2. todo[1].ts \in Second /\ tests[id].finish \in Second \cup {NULL}
    BY <1>3, <2>1, HeadFacts, TestRowFacts DEF TypeOK
  <2>3. tests'[id] \in TestRow /\ tests'[id].finish = tests[id].finish
    BY <1>3, <2>2, TestRowFacts
  <2> QED
    BY <1>3, <2>3, TestRowFacts DEF Finished
<1> QED
  BY <1>1, <1>2, <1>3, RowStep

\* What is published changes only when db_test_finish() publishes it and when it
\* is purged.
LEMMA PublishedStep ==
    ASSUME TypeOK, TodoInv, ClockInv, [Next]_vars, NEW id \in TestId,
           ~DropTables, ~(DbTestFinish /\ id = Cur),
           \A r \in Run : test_id[r] = id => WriteInv(r)
    PROVE  Published'[id] = Published[id]
<1>1. Finished(id)' <=> Finished(id)
  BY FinishedStep
<1>2. ASSUME Finished(id), NEW a \in Assertion
      PROVE  asserts'[id][a] = asserts[id][a]
  <2>1. Writing => id # Cur
    <3> SUFFICES ASSUME Writing, id = Cur PROVE FALSE
      OBVIOUS
    <3>1. PICK r \in Run : test_id[r] = id
      BY CurHasRun
    <3>2. BeingWritten(r) /\ WriteInv(r)
      BY <3>1 DEF BeingWritten
    <3> QED
      BY <1>2, <3>1, <3>2 DEF WriteInv, Finished
  <2>2. GetAssertion \/ DbTestAssert => Writing
    BY DEF Writing, GetAssertion, DbTestAssert
  <2> QED
    BY <2>1, <2>2, AssertRowStep
<1>3. Finished(id) => StoredStatus(id)' = StoredStatus(id)
  BY <1>2 DEF StoredStatus
<1> QED
  BY <1>1, <1>3 DEF Published

\* At most one datagram is lost in a step, and nothing else happens in it.
LEMMA VanishStep ==
    ASSUME TypeOK, [Next]_vars
    PROVE  \/ lost' = lost
           \/ \E r \in Run : /\ \A q \in Run : q # r => lost'[q] = lost[q]
                             /\ UNCHANGED <<clientVars, sent, daemonVars,
                                            launchVars, dbVars>>
<1>1. ASSUME NEW r \in Run, Client(r)
      PROVE  lost' = lost
  BY <1>1 DEF Client, AddAssertion, SendSkipped, AssertTest, Start, SendStart,
     BeginFinish, SendFinish, Kill, netVars
<1>2. ASSUME NEW r \in Run, Receive(r)
      PROVE  lost' = lost
  BY <1>2 DEF Receive, RecvStart, RecvAssert, RecvFinish, RecvKeyError
<1>3. ASSUME Replay \/ Sigterm \/ Startup \/ Tick \/ UNCHANGED vars
      PROVE  lost' = lost
  <2>1. UNCHANGED netVars
    BY <1>3 DEF Replay, GetTest, DbTestStart, GetAssertion, DbTestAssert,
       DbTestFinish, NoTableError, Sigterm, Startup, Launch, DropTables,
       InitTables, Bind, StarterKilled, Tick, vars
  <2> QED
    BY <2>1 DEF netVars
<1>4. ASSUME NEW r \in Run, Vanish(r)
      PROVE  /\ \A q \in Run : q # r => lost'[q] = lost[q]
             /\ UNCHANGED <<clientVars, sent, daemonVars, launchVars, dbVars>>
  <2>1. PICK i : /\ Lose(r, i)
                 /\ UNCHANGED <<clientVars, sent, daemonVars, launchVars, dbVars>>
    BY <1>4 DEF Vanish, Drop, SigtermSwallowed
  <2>2. lost' = lost \/ lost' = [lost EXCEPT ![r] = @ \cup {i}]
    BY <2>1, LoseFacts
  <2> QED
    BY <2>1, <2>2 DEF TypeOK
<1> QED
  BY <1>1, <1>2, <1>3, <1>4 DEF Next

\* A test of which something was lost has an id.
LEMMA LostHasId ==
    ASSUME TypeOK, NEW r \in Run, ScriptInv(r), NEW a, LostOn(r, a)
    PROVE  test_id[r] # NULL
<1>1. PICK i \in lost[r] : i \in 1 .. got[r]
  BY DEF LostOn, ScriptInv, OrderInv
<1>2. got[r] \in Nat /\ Len(sent[r]) \in Nat /\ got[r] <= Len(sent[r])
  BY DEF TypeOK, ScriptInv, OrderInv
<1>3. Len(sent[r]) # 0
  BY <1>1, <1>2
<1>4. sent[r] # <<>>
  BY <1>3
<1> QED
  BY <1>4 DEF ScriptInv, OrderInv

\* A step spoils nothing, or one verdict of a test that still sends.
LEMMA SpoiltStep ==
    ASSUME TypeOK, NamedInv, ClockInv, \A q \in Run : ScriptInv(q), [Next]_vars
    PROVE  \/ Spoilt' = Spoilt
           \/ \E r \in Run, a \in Assertion :
                 /\ got[r] < Len(sent[r]) /\ test_id[r] \in TestId
                 /\ Spoilt' = Spoilt \cup {<<test_id[r], a>>}
                 /\ UNCHANGED <<clientVars, sent, daemonVars, launchVars, dbVars>>
<1>1. ASSUME NEW r \in Run, NEW a, LostOn(r, a)
      PROVE  LostOn(r, a)' /\ test_id[r] \in TestId /\ test_id'[r] = test_id[r]
  BY <1>1, LostStep, LostHasId, IdType, IdKept
<1>2. \A d : d \in Spoilt <=>
          /\ d \in TestId \X Assertion
          /\ \E r \in Run : test_id[r] = d[1] /\ LostOn(r, d[2])
  BY DEF Spoilt
<1>3. \A d : d \in Spoilt' <=>
          /\ d \in TestId \X Assertion
          /\ \E r \in Run : test_id'[r] = d[1] /\ LostOn(r, d[2])'
  BY DEF Spoilt
<1>4. CASE \A r \in Run, a \in Assertion : LostOn(r, a)' => LostOn(r, a)
  <2>1. \A d : d \in Spoilt' <=> d \in Spoilt
    BY <1>1, <1>2, <1>3, <1>4
  <2> QED
    BY <2>1 DEF Spoilt
<1>5. CASE \E r \in Run, a \in Assertion : LostOn(r, a)' /\ ~LostOn(r, a)
  <2>1. PICK r \in Run, a \in Assertion : LostOn(r, a)' /\ ~LostOn(r, a)
    BY <1>5
  <2>2. /\ Untouched(r) /\ got[r] < Len(sent[r]) /\ got'[r] = got[r] + 1
        /\ lost'[r] = lost[r] \cup {got[r] + 1}
        /\ On(sent[r][got[r] + 1], a)
    BY <2>1, LostStep
  <2>3. got[r] + 1 \notin lost[r]
    <3>1. got[r] \in Nat /\ \A i \in lost[r] : i \in 1 .. got[r]
      BY DEF TypeOK, ScriptInv, OrderInv
    <3> QED
      BY <3>1
  <2>4. /\ \A q \in Run : q # r => lost'[q] = lost[q]
        /\ UNCHANGED <<clientVars, sent, daemonVars, launchVars, dbVars>>
    <3>1. lost' # lost
      BY <2>2, <2>3
    <3>2. PICK p \in Run : /\ \A q \in Run : q # p => lost'[q] = lost[q]
                           /\ UNCHANGED <<clientVars, sent, daemonVars,
                                          launchVars, dbVars>>
      BY <3>1, VanishStep
    <3>3. p = r
      BY <2>2, <2>3, <3>2
    <3> QED
      BY <3>2, <3>3
  <2>5. ASSUME NEW q \in Run, NEW b \in Assertion, LostOn(q, b)', ~LostOn(q, b)
        PROVE  q = r /\ b = a
    <3>1. q = r
      BY <2>4, <2>5 DEF LostOn
    <3>2. On(sent[r][got[r] + 1], b)
      BY <2>5, <3>1, LostStep
    <3> QED
      BY <2>2, <3>1, <3>2 DEF On
  <2>6. test_id'[r] = test_id[r] /\ test_id[r] \in TestId
    <3>1. got[r] \in Nat /\ Len(sent[r]) # 0
      BY <2>2 DEF TypeOK
    <3>2. test_id[r] # NULL
      BY <3>1 DEF ScriptInv, OrderInv
    <3> QED
      BY <2>2, <3>2, IdType DEF Untouched
  <2>7. PICK d0 : d0 = <<test_id[r], a>>
    OBVIOUS
  <2>8. d0 \in TestId \X Assertion /\ d0[1] = test_id[r] /\ d0[2] = a
    BY <2>6, <2>7
  <2>9. d0 \in Spoilt'
    BY <1>3, <2>1, <2>6, <2>8
  <2>10. ASSUME NEW d, d \in Spoilt', d \notin Spoilt
         PROVE  d = d0
    <3>1. PICK q \in Run : test_id'[q] = d[1] /\ LostOn(q, d[2])'
      BY <1>3, <2>10
    <3>2. d \in TestId \X Assertion
      BY <1>3, <2>10
    <3>3. ~LostOn(q, d[2])
      BY <1>1, <1>2, <2>10, <3>1, <3>2
    <3>4. q = r /\ d[2] = a
      BY <2>5, <3>1, <3>2, <3>3
    <3> QED
      BY <2>6, <2>7, <3>1, <3>2, <3>4
  <2>11. \A d : d \in Spoilt => d \in Spoilt'
    BY <1>1, <1>2, <1>3
  <2>12. Spoilt' = Spoilt \cup {d0}
    BY <2>9, <2>10, <2>11
  <2> QED
    BY <2>2, <2>4, <2>6, <2>7, <2>12
<1> QED
  BY <1>4, <1>5

\* Every step of the pipeline is a step of the board, or none.
LEMMA BoardStep ==
    ASSUME Ordered, DistinctTests, IInv, CompleteInv, ComboInv, DecidedInv,
           DecidedInv', FinishedRowComplete', [Next]_vars
    PROVE  \/ Board!Next
           \/ Decisions' = Decisions /\ Spoilt' = Spoilt /\ Published' = Published
<1>0. /\ TypeOK /\ NamedInv /\ TodoInv /\ ClockInv
      /\ \A r \in Run : ScriptInv(r)
  BY DEF IInv, CompleteInv
<1>1. ASSUME \A r \in Run : ~SendFinish(r)
      PROVE  Decisions' = Decisions
  <2>1. \A id \in TestId : Decided(id)' = Decided(id)
    BY <1>0, <1>1, DecidedStep
  <2> QED
    BY <2>1 DEF Decisions
<1>2. ASSUME NEW r \in Run, test_id[r] # NULL
      PROVE  UniqueId(r) /\ WriteInv(r) /\ RowsInv(r)
  BY <1>2, AllUnique DEF CompleteInv, RunInv
<1>3. ASSUME NEW id \in TestId, ~DropTables, ~(DbTestFinish /\ id = Cur)
      PROVE  Published'[id] = Published[id]
  <2>1. \A r \in Run : test_id[r] = id => WriteInv(r)
    BY <1>2, ConstantsAssumption
  <2> QED
    BY <1>0, <1>3, <2>1, PublishedStep
<1>4. /\ Published = [id \in TestId |-> Published[id]]
      /\ Published' = [id \in TestId |-> Published'[id]]
      /\ Decisions = [id \in TestId |-> Decisions[id]]
      /\ Decisions' = [id \in TestId |-> Decisions'[id]]
  BY DEF Published, Decisions
<1>5. ASSUME ~DropTables, ~DbTestFinish
      PROVE  Published' = Published
  <2>1. \A id \in TestId : Published'[id] = Published[id]
    BY <1>3, <1>5
  <2> QED
    BY <1>4, <2>1
<1>6. CASE /\ Spoilt' # Spoilt
  <2>1. PICK r \in Run, a \in Assertion :
            /\ got[r] < Len(sent[r]) /\ test_id[r] \in TestId
            /\ Spoilt' = Spoilt \cup {<<test_id[r], a>>}
            /\ UNCHANGED <<clientVars, sent, daemonVars, launchVars, dbVars>>
    BY <1>0, <1>6, SpoiltStep
  <2>2. PICK id \in TestId : id = test_id[r]
    BY <2>1
  <2>3. Decisions' = Decisions /\ Published' = Published
    BY <2>1 DEF clientVars, dbVars, Decisions, Decided, Published, Finished,
       StoredStatus
  <2>4. Published[id] = NULL
    <3>1. got[r] \in Nat /\ got[r] # Len(sent[r])
      BY <1>0, <2>1 DEF TypeOK
    <3>2. test_id[r] # NULL
      BY <2>1, ConstantsAssumption
    <3>3. Clean(id)
      BY <1>2, <2>2, <3>1, <3>2 DEF RowsInv, HandedOver
    <3> QED
      BY <3>3 DEF Published, Finished, Clean
  <2>5. Board!Spoil(id, a)
    BY <2>1, <2>2, <2>3, <2>4 DEF Board!Spoil
  <2> QED
    BY <2>5 DEF Board!Next
<1>7. ASSUME Spoilt' = Spoilt, NEW r \in Run, SendFinish(r)
      PROVE  Board!Next
  <2>1. PICK id \in TestId : id = test_id[r]
    BY <1>0, <1>7 DEF SendFinish, NamedInv
  <2>2. /\ phase[r] = "finishing" /\ phase'[r] = "done" /\ assertions' = assertions
        /\ test_id' = test_id /\ tests' = tests /\ asserts' = asserts
    BY <1>0, <1>7 DEF SendFinish, dbVars, TypeOK
  <2>3. id # NULL /\ \A q \in Run : test_id[q] = id => q = r
    BY <2>1, AllUnique, ConstantsAssumption DEF UniqueId
  <2>4. Decided(id) = NULL
    BY <2>2, <2>3 DEF Decided
  <2>5. Decided(id)' = assertions[r]
    <3>1. Decided(test_id[r])' = assertions'[r]
      BY <2>2 DEF DecidedInv
    <3>2. Decided(test_id[r])' = Decided(id)'
      BY <2>1, <2>2 DEF Decided
    <3> QED
      BY <2>2, <3>1, <3>2
  <2>6. ASSUME NEW i \in TestId, i # id
        PROVE  Decided(i)' = Decided(i)
    <3>1. ASSUME NEW q \in Run, SendFinish(q)
          PROVE  q = r
      <4>1. phase'[q] = "done" /\ phase[q] # "done"
        BY <1>0, <3>1 DEF SendFinish, TypeOK
      <4>2. q # r => phase'[q] = phase[q]
        BY <1>0, <1>7 DEF SendFinish, TypeOK
      <4> QED
        BY <4>1, <4>2
    <3>2. ~\E q \in Run : SendFinish(q) /\ test_id[q] = i
      BY <2>1, <2>6, <3>1
    <3> QED
      BY <1>0, <3>2, DecidedStep
  <2>7. Published' = Published
    BY <2>2 DEF Published, Finished, StoredStatus
  <2>8. Decisions' = [Decisions EXCEPT ![id] = assertions[r]]
    BY <2>5, <2>6 DEF Decisions
  <2>9. assertions[r] \in [Assertion -> Status \cup {NULL}] /\ Decisions[id] = NULL
    BY <1>0, <2>4 DEF TypeOK, Decisions
  <2>10. Board!Decide(id)
    BY <1>7, <2>7, <2>8, <2>9 DEF Board!Decide, Board!Outcome
  <2> QED
    BY <2>10 DEF Board!Next
<1>8. ASSUME Spoilt' = Spoilt, DropTables
      PROVE  Board!Next
  <2>1. \A r \in Run : ~SendFinish(r)
    BY <1>8 DEF DropTables, SendFinish, launchVars
  <2>2. \A id \in TestId : ~Finished(id)'
    BY <1>8 DEF DropTables, Finished, NoTests
  <2>3. Published' = [id \in TestId |-> NULL]
    BY <2>2 DEF Published
  <2>4. Board!Purge
    BY <1>1, <1>8, <2>1, <2>3 DEF Board!Purge, Board!Nothing
  <2> QED
    BY <2>4 DEF Board!Next
<1>9. ASSUME Spoilt' = Spoilt, DbTestFinish
      PROVE  Board!Next \/ (Decisions' = Decisions /\ Published' = Published)
  <2>1. pc = "replay" /\ pc' = "recv" /\ Writing
    BY <1>9 DEF DbTestFinish, Writing
  <2>2. Decisions' = Decisions
    <3>1. \A r \in Run : ~SendFinish(r)
      BY <2>1 DEF SendFinish, daemonVars
    <3> QED
      BY <1>1, <3>1
  <2>3. PICK id \in TestId : id = Cur
    BY <1>0, <2>1, HeadFacts
  <2>4. ASSUME NEW i \in TestId, i # id
        PROVE  Published'[i] = Published[i]
    <3>1. ~DropTables
      BY <2>1 DEF DropTables, daemonVars
    <3> QED
      BY <1>3, <2>3, <2>4, <3>1
  <2>5. PICK r \in Run : test_id[r] = id
    BY <1>0, <2>1, <2>3, CurHasRun
  <2>6. test_id[r] # NULL /\ UniqueId(r) /\ WriteInv(r)
    BY <1>2, <2>5, ConstantsAssumption
  <2>7. HandedOver(r) /\ phase[r] = "done" /\ ~Finished(id)
    BY <2>1, <2>3, <2>5, <2>6 DEF WriteInv, BeingWritten, HandedOver, Finished
  <2>8. CASE ~Finished(id)'
    <3>1. Published'[id] = NULL /\ Published[id] = NULL
      BY <2>7, <2>8 DEF Published
    <3> QED
      BY <1>4, <2>2, <2>4, <3>1
  <2>9. CASE Finished(id)'
    <3>1. Published[id] = NULL /\ Published'[id] = StoredStatus(id)'
      BY <2>7, <2>9 DEF Published
    <3>2. Decisions[id] = assertions[r]
      BY <2>5, <2>7 DEF Decisions, DecidedInv
    <3>3. Decisions[id] \in [Assertion -> Status \cup {NULL}] /\ Decisions[id] # NULL
      BY <1>0, <3>2, NullAssumption DEF TypeOK
    <3>4. /\ test_id'[r] = id /\ UniqueId(r)' /\ assertions'[r] = assertions[r]
          /\ \A a : LostOn(r, a)' <=> LostOn(r, a)
      <4>1. test_id' = test_id /\ assertions' = assertions
        BY <1>9 DEF DbTestFinish, clientVars
      <4> QED
        BY <1>0, <2>5, <2>6, <2>7, <4>1, HandedKept DEF UniqueId
    <3>5. ASSUME NEW a \in Assertion, <<id, a>> \notin Spoilt
          PROVE  StoredStatus(id)'[a] = Decisions[id][a]
      <4>1. ~LostOn(r, a)'
        BY <2>5, <3>4, <3>5 DEF Spoilt
      <4>2. StoredStatus(test_id[r])'[a] = assertions'[r][a]
        BY <2>6, <2>9, <3>4, <4>1, <2>5 DEF FinishedRowComplete, Finished
      <4>3. StoredStatus(test_id[r])' = StoredStatus(id)'
        BY <3>4 DEF StoredStatus
      <4> QED
        BY <3>2, <3>4, <4>2, <4>3
    <3>6. StoredStatus(id)' \in [Assertion -> Status \cup {NULL}]
      <4>1. TypeOK'
        BY <1>0, TypeStep
      <4>2. \A a \in Assertion : asserts'[id][a] \in AssertRow \cup {NoRow}
        BY <4>1 DEF TypeOK
      <4>3. \A t \in AssertRow : t.result \in Status \cup {NULL}
        BY DEF AssertRow
      <4> QED
        BY <4>2, <4>3 DEF StoredStatus
    <3>7. Published' = [Published EXCEPT ![id] = StoredStatus(id)']
      BY <1>4, <2>4, <3>1
    <3>8. Board!Publish(id)
      <4>1. PICK o : o = StoredStatus(id)'
        OBVIOUS
      <4>2. /\ o \in Board!Outcome
            /\ \A p \in Assertion : <<id, p>> \notin Spoilt => o[p] = Decisions[id][p]
            /\ Published' = [Published EXCEPT ![id] = o]
        BY <3>5, <3>6, <3>7, <4>1 DEF Board!Outcome
      <4> QED
        BY <1>9, <2>2, <3>1, <3>3, <4>2 DEF Board!Publish
    <3> QED
      BY <3>8 DEF Board!Next
  <2> QED
    BY <2>8, <2>9
<1>10. CASE /\ Spoilt' = Spoilt /\ \A r \in Run : ~SendFinish(r)
            /\ ~DropTables /\ ~DbTestFinish
  BY <1>1, <1>5, <1>10
<1> QED
  BY <1>6, <1>7, <1>8, <1>9, <1>10

\* For tests of different combinations, on a network that keeps order, scripts,
\* tadad and database together implement the board: a row becomes complete in one
\* step, with what its test decided but for the verdicts that were lost under a
\* running tadad before, and stays so until a purge.
THEOREM ImplementsBoardAlways ==
    Ordered /\ DistinctTests /\ Spec => ImplementsBoard
<1>1. ASSUME Ordered, DistinctTests
      PROVE  Spec => ImplementsBoard
  <2>1. IInv /\ CompleteInv /\ [Next]_vars => CompleteInv'
    BY <1>1, CompleteStep
  <2>2. IInv /\ ComboInv /\ [Next]_vars => ComboInv'
    BY ComboStep DEF IInv
  <2>3. Init => ComboInv
    BY DEF Init, ComboInv
  <2>4. IInv /\ CompleteInv /\ ComboInv => DecidedInv /\ FinishedRowComplete
    BY <1>1, DecidedHolds, CompleteImplies DEF IInv
  <2>5. /\ IInv /\ CompleteInv /\ ComboInv /\ DecidedInv /\ DecidedInv'
        /\ FinishedRowComplete' /\ [Next]_vars
        => [Board!Next]_(Board!vars)
    BY <1>1, BoardStep DEF Board!vars
  <2>6. Init => Board!Init
    <3> SUFFICES ASSUME Init PROVE Board!Init
      OBVIOUS
    <3>1. \A id \in TestId : Decided(id) = NULL /\ ~Finished(id)
      BY DEF Init, Decided, Finished, NoTests
    <3>2. Decisions = [id \in TestId |-> NULL] /\ Published = [id \in TestId |-> NULL]
      BY <3>1 DEF Decisions, Published
    <3>3. Spoilt = {}
      BY DEF Init, Spoilt, LostOn
    <3> QED
      BY <3>2, <3>3 DEF Board!Init, Board!Nothing
  <2> QED
    BY <2>1, <2>2, <2>3, <2>4, <2>5, <2>6, CompleteInit, Invariance, PTL
       DEF Spec, ImplementsBoard, Board!Spec
<1> QED
  BY <1>1

-----------------------------------------------------------------------------
(* The reader. *)

\* tadaq leaves the pipeline alone, except that it may create the tables.
Reads ==
    /\ now' = now /\ phase' = phase /\ test_id' = test_id
    /\ assertions' = assertions /\ unsent' = unsent /\ calls' = calls
    /\ sent' = sent /\ got' = got /\ lost' = lost /\ pc' = pc
    /\ results' = results /\ todo' = todo
    /\ launches' = launches /\ starter' = starter
    /\ tests' = tests /\ asserts' = asserts
    /\ tables' = tables \/ tables' = TRUE

LEMMA QueryReads ==
    ASSUME Query
    PROVE  Reads
<1> USE DEF Reads, vars, clientVars, netVars, daemonVars, launchVars, dbVars
<1>1. ASSUME NEW c \in Command, Open(c)
      PROVE  Reads
  BY <1>1 DEF Open
<1>2. ASSUME NEW o \in objs, PrintTest(o)
      PROVE  Reads
  <2>1. UNCHANGED vars
    BY <1>2 DEF PrintTest
  <2> QED
    BY <2>1
<1>3. ASSUME FindTests \/ Exit \/ QueryNoTable \/ PurgeOldTests
      PROVE  Reads
  <2>1. UNCHANGED vars
    BY <1>3 DEF FindTests, Exit, QueryNoTable, PurgeOldTests
  <2> QED
    BY <2>1
<1> QED
  BY <1>1, <1>2, <1>3 DEF Query

LEMMA ReadsKeepIInv ==
    ASSUME IInv, Reads
    PROVE  IInv'
<1> USE DEF Reads
<1>1. TypeOK'
  <2>1. tables' \in BOOLEAN
    BY DEF IInv, TypeOK
  <2> QED
    BY <2>1 DEF IInv, TypeOK
<1>2. NamedInv' /\ ClockInv'
  <2> NamedInv /\ ClockInv /\ phase' = phase /\ test_id' = test_id
      /\ sent' = sent /\ now' = now
    BY DEF IInv
  <2>1. NamedInv'
    BY DEF NamedInv
  <2>2. ClockInv'
    BY DEF ClockInv
  <2> QED
    BY <2>1, <2>2
<1>3. BatchInv'
  <2>1. BatchInv /\ results' = results /\ sent' = sent /\ pc' = pc /\ todo' = todo
    BY DEF IInv
  <2>2. \A m : WasSent(m)' <=> WasSent(m)
    BY <2>1 DEF WasSent
  <2>3. (Writing' <=> Writing) /\ Cur' = Cur
    BY <2>1 DEF Writing, Cur
  <2> HIDE DEF Reads
  <2> QED
    BY <2>1, <2>2, <2>3 DEF BatchInv
<1>4. TodoInv'
  BY DEF IInv, TodoInv, Writing, WasSent
<1>5. StartedInv'
  BY DEF IInv, StartedInv, Finished, WasSent, Cur
<1>6. StoredWasSent'
  BY DEF IInv, StoredWasSent, Finished, WasSent
<1> QED
  BY <1>1, <1>2, <1>3, <1>4, <1>5, <1>6 DEF IInv

LEMMA ReadsKeepCompleteInv ==
    ASSUME CompleteInv, Reads
    PROVE  CompleteInv'
<1> USE DEF Reads
<1>1. FreshInv'
  BY DEF CompleteInv, FreshInv, Clean, Alive
<1>2. ASSUME NEW r \in Run
      PROVE  ScriptInv(r)'
  <2>1. OrderInv(r)'
    BY DEF CompleteInv, ScriptInv, OrderInv
  <2>2. ASSUME NEW a \in Assertion
        PROVE  VerdictInv(r, a)'
    <3>1. VerdictInv(r, a)
      BY DEF CompleteInv, ScriptInv
    <3> QED
      BY <3>1 DEF VerdictInv, Reported, Accounted
  <2> QED
    BY <2>1, <2>2 DEF ScriptInv
<1>3. ASSUME NEW r \in Run, test_id'[r] # NULL, UniqueId(r)'
      PROVE  RunInv(r)'
  <2>1. RunInv(r)
    BY <1>3 DEF CompleteInv, UniqueId
  <2>2. \A a : LostOn(r, a)' <=> LostOn(r, a)
    BY DEF LostOn
  <2>3. MemoryInv(r)'
    <3>1. MemoryInv(r)
      BY <2>1 DEF RunInv
    <3> QED
      BY <2>2, <3>1 DEF MemoryInv
  <2>4. WriteInv(r)'
    <3>1. WriteInv(r)
      BY <2>1 DEF RunInv
    <3>2. /\ HandedOver(r)' <=> HandedOver(r)
          /\ BeingWritten(r)' <=> BeingWritten(r)
          /\ Clean(test_id[r])' <=> Clean(test_id[r])
      BY DEF HandedOver, BeingWritten, Writing, Cur, Clean
    <3>3. \A a : Settles(r, a)' <=> Settles(r, a)
      BY DEF Settles, StoredStatus
    <3> HIDE DEF Reads
    <3>4. /\ pc' = pc /\ tests' = tests /\ asserts' = asserts /\ todo' = todo
          /\ test_id' = test_id
      BY DEF Reads
    <3> QED
      BY <2>2, <3>1, <3>2, <3>3, <3>4 DEF WriteInv
  <2>5. RowsInv(r)'
    <3>1. RowsInv(r)
      BY <2>1 DEF RunInv
    <3>2. /\ HandedOver(r)' <=> HandedOver(r)
          /\ Clean(test_id[r])' <=> Clean(test_id[r])
          /\ Finished(test_id[r])' <=> Finished(test_id[r])
          /\ StoredStatus(test_id[r])' = StoredStatus(test_id[r])
      BY DEF HandedOver, Clean, Finished, StoredStatus
    <3> QED
      BY <2>2, <3>1, <3>2 DEF RowsInv
  <2> QED
    BY <2>3, <2>4, <2>5 DEF RunInv
<1> QED
  BY <1>1, <1>2, <1>3 DEF CompleteInv

\* A test that is written stays so: no event of it is left to start it again.
LEMMA SettledStep ==
    ASSUME Ordered, IInv, CompleteInv, [Next]_vars, NEW r \in Run,
           test_id[r] # NULL, UniqueId(r), Settled(r)
    PROVE  Settled(r)'
<1>0. /\ TypeOK /\ NamedInv /\ TodoInv /\ ClockInv /\ BatchInv
      /\ \A q \in Run : ScriptInv(q)
  BY DEF IInv, CompleteInv
<1>1. PICK id \in TestId : id = test_id[r]
  BY <1>0, IdType
<1>2. test_id'[r] = id
  BY <1>0, <1>1, IdKept
<1>3. HandedOver(r) /\ ~(Writing /\ Cur = id) /\ (Finished(id) \/ Clean(id))
  BY <1>1 DEF Settled, BeingWritten
<1>4. HandedOver(r)'
  BY <1>0, <1>3, HandedKept
<1>5. ASSUME Writing', Cur' = id
      PROVE  FALSE
  <2>1. CASE Quiet \/ Bind \/ DropTables
    <3>1. todo' = todo /\ (pc' = pc \/ pc' = "recv")
      BY <2>1 DEF Quiet, Bind, DropTables, daemonVars
    <3> QED
      BY <1>3, <1>5, <3>1 DEF Writing, Cur
  <2>2. CASE Ends \/ DbTestFinish
    BY <1>5, <2>2 DEF Ends, DbTestFinish, Writing
  <2>3. CASE GetTest \/ DbTestStart \/ GetAssertion \/ DbTestAssert
    <3>1. Writing
      BY <2>3 DEF GetTest, DbTestStart, GetAssertion, DbTestAssert, Writing
    <3>2. CASE GetTest \/ GetAssertion
      BY <1>3, <1>5, <3>1, <3>2 DEF GetTest, GetAssertion, Cur
    <3>3. CASE DbTestStart \/ DbTestAssert
      BY <1>0, <1>3, <1>5, <3>1, <3>3, CurStep
    <3> QED
      BY <2>3, <3>2, <3>3
  <2>4. ASSUME NEW q \in Run, NEW i \in 1 .. Len(sent[q]),
               RecvStart(q, i) \/ RecvAssert(q, i) \/ RecvFinish(q, i)
        PROVE  FALSE
    <3>1. RecvFinish(q, i)
      BY <1>5, <2>4 DEF RecvStart, RecvAssert, Writing
    <3>2. /\ sent[q][i] \in Message /\ sent[q][i].id \in TestId
          /\ i = got[q] + 1 /\ results[sent[q][i].id] # <<>>
          /\ todo' = Append(results[sent[q][i].id], sent[q][i])
      BY <1>0, <3>1, ArrivedType, MessageFacts DEF RecvFinish, Arrives
    <3>3. PICK b : b = results[sent[q][i].id]
      OBVIOUS
    <3>4. b \in Seq(Message) /\ 1 \in 1 .. Len(b)
      <4>1. b \in Seq(Message) /\ b # <<>>
        BY <1>0, <3>2, <3>3 DEF TypeOK
      <4> QED
        BY <4>1
    <3>5. todo'[1] = b[1]
      BY <3>2, <3>3, <3>4, AppendMessage
    <3>6. b[1].id = sent[q][i].id
      BY <1>0, <3>2, <3>3, <3>4 DEF BatchInv
    <3>7. todo'[1].id = test_id[r]
      BY <1>1, <1>5 DEF Cur
    <3>8. q = r
      BY <1>0, <3>5, <3>6, <3>7, OwnDatagrams
    <3> QED
      <4>1. got[r] \in Nat /\ got[r] = Len(sent[r])
        BY <1>0, <1>3 DEF HandedOver, TypeOK
      <4>2. i = got[r] + 1 /\ i \in 1 .. Len(sent[r])
        BY <2>4, <3>2, <3>8
      <4> QED
        BY <4>1, <4>2
  <2> QED
    BY <2>1, <2>2, <2>3, <2>4, DaemonCases
<1>6. Finished(id)' \/ Clean(id)'
  <2>1. CASE Clean(id)
    BY <1>0, <1>3, <2>1, CleanKept
  <2>2. CASE DropTables
    BY <2>2 DEF DropTables, Clean, NoTests, NoAsserts
  <2>3. CASE Finished(id) /\ ~DropTables
    <3>1. ~(DbTestFinish /\ id = Cur)
      BY <1>3 DEF DbTestFinish, Writing
    <3> QED
      BY <1>0, <2>3, <3>1, FinishedStep
  <2> QED
    BY <1>3, <2>1, <2>2, <2>3
<1>7. ~BeingWritten(r)'
  BY <1>2, <1>5 DEF BeingWritten
<1>8. Finished(test_id[r])' \/ Clean(test_id[r])'
  BY <1>2, <1>6 DEF Finished, Clean
<1> QED
  BY <1>4, <1>7, <1>8 DEF Settled

\* A finished row was written to its end.
LEMMA FinishedIsSettled ==
    ASSUME CompleteInv, NEW r \in Run, test_id[r] # NULL, UniqueId(r),
           Finished(test_id[r])
    PROVE  Settled(r)
<1>1. RowsInv(r) /\ WriteInv(r)
  BY DEF CompleteInv, RunInv
<1>2. HandedOver(r)
  BY <1>1 DEF RowsInv, Finished, Clean
<1>3. ~BeingWritten(r)
  BY <1>1 DEF WriteInv, Finished
<1> QED
  BY <1>2, <1>3 DEF Settled

\* What was printed as s is what r ended with.
Shows(r, s) ==
    /\ phase[r] = "done"
    /\ \A a \in Assertion : ~LostOn(r, a) =>
          /\ a \in DOMAIN s.result <=>
                /\ a \in Declared(r)
                /\ cmd.only # NULL => assertions[r][a] = cmd.only
          /\ a \in DOMAIN s.result => s.result[a] = assertions[r][a]

\* A step of the pipeline keeps what tadaq knows.
LEMMA QueryInvNext ==
    ASSUME Ordered, IInv, CompleteInv, QueryInv, [Next]_vars,
           UNCHANGED queryVars
    PROVE  QueryInv'
<1>0. /\ TypeOK /\ NamedInv /\ ClockInv /\ \A q \in Run : ScriptInv(q)
      /\ qpc' = qpc /\ cmd' = cmd /\ objs' = objs /\ shown' = shown
  BY DEF IInv, CompleteInv, queryVars
<1>1. ASSUME NEW id \in TestId, NEW q \in Run, test_id[q] = id
      PROVE  test_id'[q] = id
  BY <1>0, <1>1, IdKept, ConstantsAssumption
<1>2. ASSUME NEW id \in TestId, NEW q \in Run, test_id[q] = id,
             NEW r \in Run, test_id'[r] = id, UniqueId(r)'
      PROVE  test_id[r] = id /\ test_id[r] # NULL /\ UniqueId(r)
  <2>1. q = r
    BY <1>1, <1>2 DEF UniqueId
  <2>2. test_id[r] # NULL
    BY <1>2, <2>1, ConstantsAssumption
  <2>3. UniqueId(r)
    BY <1>0, <1>2, <2>2, UniqueKept
  <2> QED
    BY <1>2, <2>1, <2>2, <2>3
<1>3. ASSUME NEW o \in objs
      PROVE  /\ o.id \in TestId
             /\ \E q \in Run : test_id'[q] = o.id
             /\ \A r \in Run : test_id'[r] = o.id /\ UniqueId(r)'
                               /\ o.row.finish # NULL => Settled(r)'
  <2>1. PICK id \in TestId : id = o.id
    BY DEF QueryInv
  <2>2. PICK q \in Run : test_id[q] = id
    BY <2>1 DEF QueryInv
  <2>3. ASSUME NEW r \in Run, test_id'[r] = id, UniqueId(r)', o.row.finish # NULL
        PROVE  Settled(r)'
    <3>1. test_id[r] = id /\ test_id[r] # NULL /\ UniqueId(r)
      BY <1>2, <2>2, <2>3
    <3>2. Settled(r)
      BY <2>1, <2>3, <3>1 DEF QueryInv
    <3> QED
      BY <3>1, <3>2, SettledStep
  <2> QED
    BY <1>1, <2>1, <2>2, <2>3
<1>4. ASSUME NEW s \in shown
      PROVE  /\ s.id \in TestId /\ \E q \in Run : test_id'[q] = s.id
             /\ \A r \in Run : UniqueId(r)' /\ test_id'[r] = s.id =>
                  Shows(r, s)'
  <2>1. PICK id \in TestId : id = s.id
    BY DEF QueryInv
  <2>2. PICK q \in Run : test_id[q] = id
    BY <2>1 DEF QueryInv
  <2>3. ASSUME NEW r \in Run, test_id'[r] = id, UniqueId(r)'
        PROVE  Shows(r, s)'
    <3>1. test_id[r] = id /\ test_id[r] # NULL /\ UniqueId(r)
      BY <1>2, <2>2, <2>3
    <3>2. Shows(r, s)
      BY <2>1, <3>1 DEF QueryInv, ShownIsFinal, Shows
    <3>3. phase'[r] = "done" /\ assertions'[r] = assertions[r]
      BY <1>0, <3>2, DoneKept DEF Shows
    <3>4. \A a : LostOn(r, a) => LostOn(r, a)'
      BY <1>0, LostStep
    <3>5. Declared(r)' = Declared(r)
      BY <3>3 DEF Declared
    <3> QED
      BY <1>0, <3>2, <3>3, <3>4, <3>5 DEF Shows
  <2> QED
    BY <1>1, <2>1, <2>2, <2>3
<1>5. ShownIsFinal'
  BY <1>0, <1>4 DEF ShownIsFinal, Shows
<1> QED
  BY <1>0, <1>3, <1>4, <1>5 DEF QueryInv

\* What tadaq has in hand, o by o and s by s.
InHand(o) ==
    /\ o.id \in TestId
    /\ \E q \in Run : test_id[q] = o.id
    /\ \A r \in Run : test_id[r] = o.id /\ UniqueId(r)
                      /\ o.row.finish # NULL => Settled(r)
Final(s) ==
    /\ s.id \in TestId /\ \E q \in Run : test_id[q] = s.id
    /\ \A r \in Run : UniqueId(r) /\ test_id[r] = s.id => Shows(r, s)

LEMMA QueryInvParts ==
    QueryInv <=> /\ qpc = "idle" => objs = {} /\ shown = {}
                 /\ \A o \in objs : InHand(o)
                 /\ \A s \in shown : Final(s)
  BY DEF QueryInv, InHand, Final, ShownIsFinal, Shows

\* What tadaq prints of a test that is settled is what its script ended with.
LEMMA PrintedIsFinal ==
    ASSUME IInv, CompleteInv, NEW o, InHand(o), o.row.finish # NULL,
           Selected(o.id) # {},
           \A a \in Selected(o.id) : asserts[o.id][a].result # NULL,
           NEW r \in Run, UniqueId(r), test_id[r] = o.id,
           NEW s, s.result = [a \in Selected(o.id) |-> asserts[o.id][a].result]
    PROVE  Shows(r, s)
<1>1. PICK id \in TestId : id = o.id
  BY DEF InHand
<1>2. test_id[r] = id /\ test_id[r] # NULL
  BY <1>1, ConstantsAssumption
<1>3. Settled(r)
  BY DEF InHand
<1>4. \A a : a \in Selected(id) <=>
          /\ a \in Assertion /\ asserts[id][a] # NoRow
          /\ cmd.only # NULL => asserts[id][a].result = cmd.only
  BY DEF Selected
<1>5. ~Clean(id)
  BY <1>1, <1>4 DEF Clean
<1>6. Finished(id)
  BY <1>2, <1>3, <1>5 DEF Settled
<1>7. phase[r] = "done" /\ RowsInv(r)
  BY <1>2, <1>3 DEF Settled, HandedOver, CompleteInv, RunInv
<1>8. /\ DOMAIN s.result = Selected(id)
      /\ \A a \in Selected(id) :
            s.result[a] = asserts[id][a].result /\ asserts[id][a].result # NULL
  BY <1>1
<1>9. ASSUME NEW a \in Assertion, ~LostOn(r, a)
      PROVE  /\ a \in DOMAIN s.result <=>
                   /\ a \in Declared(r)
                   /\ cmd.only # NULL => assertions[r][a] = cmd.only
             /\ a \in DOMAIN s.result => s.result[a] = assertions[r][a]
  <2>1. assertions[r][a] = IF asserts[id][a] = NoRow THEN NULL
                           ELSE asserts[id][a].result
    <3>1. StoredStatus(id)[a] = assertions[r][a]
      BY <1>2, <1>6, <1>7, <1>9 DEF RowsInv
    <3> QED
      BY <3>1 DEF StoredStatus
  <2>2. a \in Declared(r) <=> assertions[r][a] # NULL
    BY DEF Declared
  <2>3. CASE asserts[id][a] = NoRow
    BY <1>4, <1>8, <2>1, <2>2, <2>3
  <2>4. CASE asserts[id][a] # NoRow
    <3>1. assertions[r][a] = asserts[id][a].result
      BY <2>1, <2>4
    <3>2. CASE a \in Selected(id)
      BY <1>4, <1>8, <2>2, <3>1, <3>2
    <3>3. CASE a \notin Selected(id)
      BY <1>4, <1>8, <2>4, <3>1, <3>3
    <3> QED
      BY <3>2, <3>3
  <2> QED
    BY <2>3, <2>4
<1> QED
  BY <1>7, <1>9 DEF Shows

\* A step of tadaq keeps what tadaq knows.
LEMMA QueryInvQuery ==
    ASSUME IInv, CompleteInv, QueryInv, Query
    PROVE  QueryInv'
<1>0. Reads
  BY QueryReads
<1>1. /\ qpc = "idle" => objs = {} /\ shown = {}
      /\ \A o \in objs : InHand(o)
      /\ \A s \in shown : Final(s)
  BY QueryInvParts
<1>2. \A r \in Run : (UniqueId(r)' <=> UniqueId(r)) /\ (Settled(r)' <=> Settled(r))
  BY <1>0 DEF Reads, UniqueId, Settled, HandedOver, BeingWritten, Writing, Cur,
     Finished, Clean
<1>3. \A o : InHand(o) => InHand(o)'
  BY <1>0, <1>2 DEF InHand, Reads
<1>4. cmd' = cmd => \A s : Final(s) => Final(s)'
  <2> SUFFICES ASSUME cmd' = cmd, NEW s, Final(s) PROVE Final(s)'
    OBVIOUS
  <2>1. \A r \in Run : Shows(r, s) => Shows(r, s)'
    BY <1>0 DEF Shows, Reads, Declared, LostOn
  <2> QED
    BY <1>0, <1>2, <2>1 DEF Final, Reads
<1>5. ASSUME qpc' # "idle", \A o \in objs' : InHand(o)', \A s \in shown' : Final(s)'
      PROVE  QueryInv'
  BY <1>5 DEF QueryInv, InHand, Final, ShownIsFinal, Shows
<1>6. ASSUME NEW c \in Command, Open(c)
      PROVE  QueryInv'
  <2>1. qpc' = "opened" /\ objs' = {} /\ shown' = {}
    BY <1>1, <1>6 DEF Open
  <2> QED
    BY <1>5, <2>1
<1>7. ASSUME Exit \/ QueryNoTable \/ PurgeOldTests
      PROVE  QueryInv'
  <2>1. qpc' # "idle" /\ cmd' = cmd /\ objs' = objs /\ shown' = shown
    BY <1>7 DEF Exit, QueryNoTable, PurgeOldTests
  <2> QED
    BY <1>1, <1>3, <1>4, <1>5, <2>1
<1>8. ASSUME FindTests
      PROVE  QueryInv'
  <2>1. qpc' # "idle" /\ cmd' = cmd /\ shown' = shown
    BY <1>8 DEF FindTests
  <2>2. \/ objs' = objs
        \/ \E keep \in SUBSET Find(cmd.fltr) :
              objs' = {[id |-> id, row |-> tests[id]] : id \in keep}
    BY <1>8 DEF FindTests, LatestOf
  <2>3. ASSUME NEW keep \in SUBSET Find(cmd.fltr),
               objs' = {[id |-> id, row |-> tests[id]] : id \in keep},
               NEW o \in objs'
        PROVE  InHand(o)
    <3>1. PICK id \in keep : o = [id |-> id, row |-> tests[id]]
      BY <2>3
    <3>2. id \in TestId /\ tests[id] # NoRow /\ o.id = id /\ o.row = tests[id]
      BY <2>3, <3>1 DEF Find
    <3>3. \E q \in Run : test_id[q] = id
      BY <3>2 DEF CompleteInv, FreshInv, Clean
    <3>4. ASSUME NEW r \in Run, test_id[r] = id, UniqueId(r), o.row.finish # NULL
          PROVE  Settled(r)
      <4>1. test_id[r] # NULL /\ Finished(test_id[r])
        BY <3>2, <3>4, ConstantsAssumption DEF Finished
      <4> QED
        BY <3>4, <4>1, FinishedIsSettled
    <3> QED
      BY <3>2, <3>3, <3>4 DEF InHand
  <2> QED
    BY <1>1, <1>3, <1>4, <1>5, <2>1, <2>2, <2>3
<1>9. ASSUME NEW o \in objs, PrintTest(o)
      PROVE  QueryInv'
  <2>1. /\ qpc = "printing" /\ cmd' = cmd /\ objs' \subseteq objs
        /\ qpc' = qpc \/ qpc' = "failed"
    BY <1>9 DEF PrintTest
  <2> DEFINE new == [id |-> o.id,
                     result |-> [a \in Selected(o.id) |-> asserts[o.id][a].result]]
  <2>2. \/ shown' = shown
        \/ /\ Selected(o.id) # {} /\ Printable(o)
           /\ shown' = shown \cup {new}
    BY <1>9 DEF PrintTest
  <2>3. ASSUME Selected(o.id) # {}, Printable(o)
        PROVE  Final(new)
    <3>1. o.row.finish # NULL
          /\ \A a \in Selected(o.id) : asserts[o.id][a].result # NULL
      BY <2>3 DEF Printable
    <3>2. InHand(o)
      BY <1>1
    <3>3. /\ new.id = o.id
          /\ new.result = [a \in Selected(o.id) |-> asserts[o.id][a].result]
      OBVIOUS
    <3> HIDE DEF new
    <3>4. ASSUME NEW r \in Run, UniqueId(r), test_id[r] = o.id
          PROVE  Shows(r, new)
      BY <2>3, <3>1, <3>2, <3>3, <3>4, PrintedIsFinal
    <3>5. o.id \in TestId /\ \E q \in Run : test_id[q] = o.id
      BY <3>2 DEF InHand
    <3> QED
      BY <3>3, <3>4, <3>5 DEF Final
  <2> HIDE DEF new
  <2>4. \A s \in shown' : Final(s)
    BY <1>1, <2>2, <2>3
  <2>5. \A s \in shown' : Final(s)'
    BY <1>4, <2>1, <2>4
  <2>6. \A x \in objs' : InHand(x)'
    BY <1>1, <1>3, <2>1
  <2> QED
    BY <1>5, <2>1, <2>5, <2>6
<1> QED
  BY <1>6, <1>7, <1>8, <1>9 DEF Query

\* On a network that keeps order, what tadaq prints of the assertions of a test
\* that lost no verdict under a running tadad is what its script ended with,
\* wherever tadad commits or purges between the reads of tadaq.
THEOREM ShownIsFinalAlways ==
    Ordered /\ QuerySpec => []ShownIsFinal
<1>1. ASSUME Ordered
      PROVE  QuerySpec => []ShownIsFinal
  <2> DEFINE Inv == IInv /\ CompleteInv /\ QueryInv
  <2>1. QueryInit => Inv
    <3> SUFFICES ASSUME QueryInit PROVE Inv
      OBVIOUS
    <3>1. Init /\ qpc = "idle" /\ objs = {} /\ shown = {}
      BY DEF QueryInit
    <3>2. QueryInv
      BY <3>1 DEF QueryInv, ShownIsFinal
    <3> QED
      BY <3>1, <3>2, InvInit, CompleteInit
  <2>2. Inv /\ [QueryNext]_allVars => Inv'
    <3> SUFFICES ASSUME Inv, [QueryNext]_allVars PROVE Inv'
      OBVIOUS
    <3>1. CASE [Next]_vars /\ UNCHANGED queryVars
      BY <1>1, <3>1, InvStep, CompleteStep, QueryInvNext
    <3>2. CASE Query
      BY <3>2, QueryReads, ReadsKeepIInv, ReadsKeepCompleteInv, QueryInvQuery
    <3> QED
      BY <3>1, <3>2 DEF QueryNext, allVars
  <2>3. Inv => ShownIsFinal
    BY DEF QueryInv
  <2> QED
    BY <2>1, <2>2, <2>3, PTL DEF QuerySpec
<1> QED
  BY <1>1
=============================================================================
