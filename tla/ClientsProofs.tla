--------------------------- MODULE ClientsProofs ---------------------------
(***************************************************************************)
(* CountsTrue and TallyWindow for any number of producers, threads,        *)
(* windows and messages.  Each program has an inductive invariant of its   *)
(* own, in its module, and no step of one program touches the variables of *)
(* another.                                                                *)
(***************************************************************************)
EXTENDS Clients, FiniteSetTheorems, WellFoundedInduction, TLAPS
-----------------------------------------------------------------------------
(* The publisher.                                                          *)

(* start() and stop() keep the only live thread in self.thr.               *)
LEMMA PublisherMain ==
    ASSUME PublisherInv, StartRaises \/ Stop \/ StopSet \/ StopJoin
    PROVE  PublisherInv'
<1>. USE PublisherAssumption DEF PublisherInv, PublisherTypeOK, Worker, Live
<1>1. CASE StartRaises
  BY <1>1 DEF StartRaises
<1>2. CASE Stop
  BY <1>2 DEF Stop
<1>3. CASE StopSet
  <2>1. PublisherTypeOK'
    BY <1>3 DEF StopSet, Notified
  <2>2. Live' = Live
    BY <1>3 DEF StopSet, Notified
  <2>. QED BY <1>3, <2>1, <2>2 DEF StopSet
<1>4. CASE StopJoin
  <2>1. Live = {}
    BY <1>4 DEF StopJoin
  <2>. QED BY <1>4, <2>1 DEF StopJoin
<1>. QED BY <1>1, <1>2, <1>3, <1>4

(* A new thread starts when no other lives; a live one stays the only one. *)
LEMMA PublisherThread ==
    ASSUME PublisherInv, NEW w \in Worker, Start(w) \/ ProcStep(w)
    PROVE  PublisherInv'
<1>. USE PublisherAssumption DEF PublisherInv, PublisherTypeOK, Worker, Live
<1>1. CASE Start(w)
  BY <1>1 DEF Start
<1>2. CASE Acquire(w)
  BY <1>2 DEF Acquire
<1>3. CASE Turn(w)
  BY <1>3 DEF Turn
<1>4. CASE TimedOut(w)
  BY <1>4 DEF TimedOut
<1>5. CASE ProcEnd(w)
  BY <1>5 DEF ProcEnd
<1>. QED BY <1>1, <1>2, <1>3, <1>4, <1>5 DEF ProcStep

(* The invariant of the publisher says what OnePublisher does.             *)
LEMMA PublisherCounts ==
    ASSUME PublisherInv
    PROVE  OnePublisher
<1>1. Live = {} \/ Live = {thr}
  BY DEF PublisherInv, Live
<1>2. Cardinality({}) = 0 /\ Cardinality({thr}) = 1
  BY FS_EmptySet, FS_Singleton
<1>3. Cardinality(Live) \in {0, 1}
  BY <1>1, <1>2
<1>. QED BY <1>3 DEF PublisherInv, OnePublisher
-----------------------------------------------------------------------------
(* The producers.                                                          *)

(* The producer that prdcr_thread is at is one of the list.                *)
LEMMA CurIsPrdcr ==
    ASSUME turn \in 0 .. Len(Prdcrs), turn # 0
    PROVE  Cur \in Prdcr
BY PrdcrAssumption DEF Cur, Prdcr

(* NextTurn stays in the list or goes to sleep.                            *)
LEMMA TurnRange ==
    ASSUME turn \in 0 .. Len(Prdcrs), NextTurn
    PROVE  turn' \in 0 .. Len(Prdcrs)
<1>1. Len(Prdcrs) \in Nat
  BY PrdcrAssumption
<1>2. turn + 1 \in 0 .. Len(Prdcrs) + 1
  BY <1>1
<1>3. CASE turn + 1 = Len(Prdcrs) + 1
  BY <1>1, <1>3 DEF NextTurn
<1>4. CASE turn + 1 < Len(Prdcrs) + 1
  BY <1>1, <1>4 DEF NextTurn
<1>. QED BY <1>1, <1>2, <1>3, <1>4

(* prdcr_thread opens a transport only when none is open.                  *)
LEMMA PrdcrThread ==
    ASSUME PrdcrInv, ThreadStep
    PROVE  PrdcrInv'
<1>. USE DEF PrdcrInv, PrdcrStateOK, Open
<1>1. CASE Skip
  <2>1. turn' \in 0 .. Len(Prdcrs)
    BY <1>1, TurnRange DEF Skip
  <2>. QED BY <1>1, <2>1 DEF Skip
<1>2. CASE Connect
  <2>1. Cur \in Prdcr
    BY <1>2, CurIsPrdcr DEF Connect
  <2>2. Open(Cur) = {}
    BY <1>2, <2>1 DEF Connect
  <2>. DEFINE u == Unused(Cur)
  <2>3. x' = [x EXCEPT ![Cur] = u]
    BY <1>2 DEF Connect
  <2>. HIDE DEF u
  <2>4. /\ state' = [state EXCEPT ![Cur] = "CONNECTING"]
        /\ thread' = "call" /\ turn # 0
        /\ UNCHANGED <<xprt, turn, failed>>
    BY <1>2 DEF Connect, Moved
  <2>5. Cur' = Cur
    BY <2>4 DEF Cur
  <2>6. PrdcrStateOK'
    BY <2>1, <2>3, <2>4
  <2>7. \A p \in Prdcr : p # Cur => x'[p] = x[p] /\ state'[p] = state[p]
    BY <2>3, <2>4
  <2>8. \A p \in Prdcr : Open(p)' = Open(p)
    BY <2>4
  <2>. QED BY <2>1, <2>2, <2>4, <2>5, <2>6, <2>7, <2>8
<1>3. CASE Requested
  <2>1. Cur \in Prdcr
    BY <1>3, CurIsPrdcr DEF Requested
  <2>2. /\ xprt' = [xprt EXCEPT ![Cur][x[Cur]] = "connecting"]
        /\ thread' = "scan" /\ UNCHANGED <<state, x, failed>>
    BY <1>3 DEF Requested, Set
  <2>3. turn' \in 0 .. Len(Prdcrs)
    BY <1>3, TurnRange DEF Requested
  <2>4. PrdcrStateOK'
    BY <2>1, <2>2, <2>3
  <2>5. \A p \in Prdcr : p # Cur => xprt'[p] = xprt[p]
    BY <2>2
  <2>6. \A n \in Xprt : n # x[Cur] => xprt'[Cur][n] = xprt[Cur][n]
    BY <2>1, <2>2
  <2>7. state[Cur] = "CONNECTING" /\ Open(Cur) = {}
    BY <1>3 DEF Requested
  <2>8. \A n \in Xprt : n = x[Cur] => xprt'[Cur][n] = "connecting"
    BY <2>1, <2>2
  <2>. QED BY <2>1, <2>2, <2>4, <2>5, <2>6, <2>7, <2>8
<1>4. CASE ConnectRaises
  <2>1. Cur \in Prdcr
    BY <1>4, CurIsPrdcr DEF ConnectRaises
  <2>. QED BY <1>4, <2>1 DEF ConnectRaises, Moved
<1>. QED BY <1>1, <1>2, <1>3, <1>4 DEF ThreadStep

(* An event of the transport n moves the state of its producer with it.    *)
LEMMA PrdcrEvent ==
    ASSUME PrdcrInv, NEW p \in Prdcr, NEW n \in Xprt,
           Connected(p, n) \/ Refused(p, n) \/ Disconnected(p, n)
    PROVE  PrdcrInv'
<1>. USE DEF PrdcrInv, PrdcrStateOK, Open
<1>1. n \in Open(p) /\ n = x[p] /\ ~(thread = "call" /\ p = Cur)
  BY DEF Connected, Refused, Disconnected
<1>2. UNCHANGED <<x, turn, thread>> /\ Cur' = Cur
  BY DEF Connected, Refused, Disconnected, Cur
<1>3. PICK s \in {"connected", "closed"}, t \in {"CONNECTED", "DISCONNECTED"} :
        /\ s = "connected" <=> t = "CONNECTED"
        /\ xprt' = [xprt EXCEPT ![p][n] = s]
        /\ state' = [state EXCEPT ![p] = t]
        /\ ~failed'
  <2>1. CASE Connected(p, n)
    BY <1>1, <2>1 DEF Connected, Set, Moved
  <2>2. CASE Refused(p, n) \/ Disconnected(p, n)
    BY <2>2 DEF Refused, Disconnected, Set, Moved
  <2>. QED BY <2>1, <2>2
<1>4. PrdcrStateOK'
  BY <1>2, <1>3
<1>5. \A q \in Prdcr : q # p => xprt'[q] = xprt[q] /\ state'[q] = state[q]
  BY <1>3
<1>6. /\ xprt'[p][n] = s /\ state'[p] = t
      /\ \A m \in Xprt : m # n => xprt'[p][m] = xprt[p][m]
  BY <1>3
<1>7. \A q \in Prdcr : q # p => Open(q)' = Open(q)
  BY <1>5
<1>8. Open(p)' = IF s = "closed" THEN {} ELSE {n}
  BY <1>1, <1>3, <1>6
<1>9. thread = "call" => Cur \in Prdcr
  BY CurIsPrdcr
<1>. QED BY <1>1, <1>2, <1>3, <1>4, <1>5, <1>6, <1>7, <1>8, <1>9

(* What the peer and the network do opens nothing.                         *)
LEMMA PrdcrPeer ==
    ASSUME PrdcrInv, NEW p \in Prdcr,
           \/ Break(p) \/ PeerEnds(p) \/ PeerStarts(p)
           \/ \E n \in Xprt : PeerConnected(p, n) \/ PeerDisconnected(p, n)
    PROVE  PrdcrInv'
<1>. USE DEF PrdcrInv, PrdcrStateOK
<1>1. UNCHANGED <<state, x, turn, thread, failed>> /\ Cur' = Cur
  BY DEF Break, PeerEnds, PeerStarts, PeerConnected, PeerDisconnected, Cur
<1>2. xprt' = xprt \/ xprt' = [xprt EXCEPT ![p] = Broken(p)]
  BY DEF Break, PeerEnds, PeerStarts, PeerConnected, PeerDisconnected
<1>3. CASE xprt' = xprt
  BY <1>1, <1>3 DEF Open
<1>4. CASE xprt' = [xprt EXCEPT ![p] = Broken(p)]
  <2>1. Broken(p) \in [Xprt -> {"connecting", "connected", "broken", "closed"}]
    BY DEF Broken
  <2>2. PrdcrStateOK'
    BY <1>1, <1>4, <2>1
  <2>3. \A q \in Prdcr, n \in Xprt :
          xprt'[q][n] = xprt[q][n] \/ (xprt[q][n] = "connected" /\ xprt'[q][n] = "broken")
    BY <1>4 DEF Broken
  <2>4. \A q \in Prdcr : Open(q)' = Open(q)
    BY <2>2, <2>3 DEF Open
  <2>5. thread = "call" => Cur \in Prdcr
    BY CurIsPrdcr
  <2>. QED BY <1>1, <2>2, <2>3, <2>4, <2>5 DEF Open
<1>. QED BY <1>2, <1>3, <1>4

(* The invariant of the producers says what OneTransport does.             *)
LEMMA PrdcrCounts ==
    ASSUME PrdcrInv
    PROVE  OneTransport
<1>1. SUFFICES ASSUME NEW p \in Prdcr
               PROVE  /\ Cardinality(Open(p)) <= 1
                      /\ state[p] = "DISCONNECTED" => Open(p) = {}
  BY DEF PrdcrInv, OneTransport
<1>2. Open(p) = {} \/ Open(p) = {x[p]}
  BY DEF PrdcrInv, Open
<1>3. Cardinality({}) = 0 /\ Cardinality({x[p]}) = 1
  BY FS_EmptySet, FS_Singleton
<1>4. Cardinality(Open(p)) \in {0, 1}
  BY <1>2, <1>3
<1>. QED BY <1>4 DEF PrdcrInv
-----------------------------------------------------------------------------
(* The blocked receiver.                                                   *)

(* One message more or less spends its cost more or less.                  *)
LEMMA CostOfOne ==
    ASSUME NEW a \in Nat, NEW b \in Nat, b = a + 1
    PROVE  Cost * b = Cost * a + Cost /\ Cost * a \in Nat /\ Cost * b \in Nat
BY RailAssumption

(* Every step keeps the books.                                             *)
LEMMA RailStep ==
    ASSUME RailInv, RailNext
    PROVE  RailInv'
<1>. DEFINE spent == wire + recv_data - returned
            bill(k) == Cost * k
<1>. USE RailAssumption
<1>1. spent \in Nat
  BY DEF RailInv, RailTypeOK
<1>2. \A k \in Nat : bill(k) \in Nat /\ bill(k + 1) = bill(k) + Cost
  BY CostOfOne
<1>3. send_quota + bill(spent) = Limit
  BY DEF RailInv
<1>4. ASSUME spent' \in Nat, send_quota' + bill(spent') = Limit
      PROVE  send_quota' + Cost * (wire' + recv_data' - returned') = Limit
  BY <1>4
<1>. HIDE DEF bill
<1>. USE DEF RailInv, RailTypeOK
<1>5. CASE Publish
  <2>1. spent' = spent + 1
    BY <1>5 DEF Publish
  <2>2. send_quota' + bill(spent') = Limit
    BY <1>1, <1>2, <1>3, <1>5, <2>1 DEF Publish
  <2>. QED BY <1>1, <1>4, <1>5, <2>1, <2>2 DEF Publish
<1>6. CASE Receive \/ Block \/ Unblock
  <2>1. spent' = spent /\ send_quota' = send_quota
    BY <1>6 DEF Receive, Block, Unblock
  <2>2. send_quota' + Cost * (wire' + recv_data' - returned') = Limit
    BY <1>1, <1>3, <1>4, <2>1
  <2>3. CASE Receive
    BY <2>2, <2>3 DEF Receive
  <2>4. CASE Block
    BY <2>2, <2>4 DEF Block
  <2>5. CASE Unblock
    <3>1. call = "wait" => call' = "wake" /\ opened' = opened + 1 /\ opened = returned
      BY <2>5 DEF Unblock
    <3>2. call # "wait" => call' = call /\ opened' = opened
      BY <2>5 DEF Unblock
    <3>3. is_blocking' \in BOOLEAN /\ ~is_blocking'
      BY <2>5 DEF Unblock
    <3>4. /\ unblocks < MaxUnblocks /\ unblocks' = unblocks + 1
          /\ UNCHANGED <<send_quota, wire, recv_data, returned>>
      BY <2>5 DEF Unblock
    <3>5. RailTypeOK'
      BY <3>1, <3>2, <3>3, <3>4
    <3>. QED BY <2>2, <3>1, <3>2, <3>3, <3>4, <3>5
  <2>. QED BY <1>6, <2>3, <2>4, <2>5
<1>7. CASE Wake
  <2>1. spent = spent' + 1 /\ spent' \in Nat
    BY <1>7 DEF Wake
  <2>2. send_quota' + bill(spent') = Limit /\ bill(spent') \in Nat
    BY <1>1, <1>2, <1>3, <1>7, <2>1 DEF Wake
  <2>3. send_quota' + Cost * (wire' + recv_data' - returned') = Limit
    BY <1>4, <2>1, <2>2
  <2>. QED BY <1>7, <2>2, <2>3 DEF Wake
<1>. QED BY <1>5, <1>6, <1>7 DEF RailNext

(* The invariant of the receiver says what OnePassage does.                *)
LEMMA RailCounts ==
    ASSUME RailInv
    PROVE  OnePassage
<1>. USE RailAssumption DEF RailInv, RailTypeOK
<1>1. CASE call # "wake"
  BY <1>1 DEF OnePassage
<1>2. CASE call = "wake"
  <2>. DEFINE a == wire + recv_data - opened
              b == wire + recv_data - returned
  <2>1. a \in Nat /\ b = a + 1
    BY <1>2
  <2>2. Cost * b = Cost * a + Cost /\ Cost * a \in Nat
    BY <2>1, CostOfOne
  <2>3. send_quota + Cost * b = Limit
    OBVIOUS
  <2>4. send_quota + Cost * a <= Limit
    BY <2>2, <2>3
  <2>. QED BY <1>2, <2>4 DEF OnePassage
<1>. QED BY <1>1, <1>2
-----------------------------------------------------------------------------
(* The three invariants are inductive for the programs together.           *)
LEMMA ProgramsInductive ==
    ClientSpec => [](PublisherInv /\ PrdcrInv /\ RailInv)
<1>. DEFINE Inv == PublisherInv /\ PrdcrInv /\ RailInv
<1>1. ClientInit => Inv
  <2>. SUFFICES ASSUME ClientInit PROVE Inv
    OBVIOUS
  <2>1. PublisherInv
    <3>. USE PublisherAssumption DEF Worker
    <3>1. /\ main = "prompt" /\ holder = Nobody /\ thr = 0 /\ published = 0
          /\ proc = [w \in 1 .. MaxStarts |-> "new"]
      BY DEF ClientInit, PublisherInit
    <3>2. is_running \in BOOLEAN /\ ~is_running
      BY DEF ClientInit, PublisherInit
    <3>3. PublisherTypeOK
      BY <3>1, <3>2 DEF PublisherTypeOK
    <3>4. Live = {}
      BY <3>1 DEF Live
    <3>. QED BY <3>1, <3>2, <3>3, <3>4 DEF PublisherInv
  <2>2. PrdcrInv
    <3>1. Len(Prdcrs) \in Nat \ {0}
      BY PrdcrAssumption
    <3>. QED BY <3>1 DEF ClientInit, PrdcrInit, PrdcrInv, PrdcrStateOK, Open
  <2>3. RailInv
    <3>. USE RailAssumption DEF ClientInit, RailInit
    <3>1. Cost * (wire + recv_data - returned) = 0
      <4>1. wire + recv_data - returned = 0
        OBVIOUS
      <4>. QED BY <4>1
    <3>2. is_blocking \in BOOLEAN /\ ~is_blocking
      OBVIOUS
    <3>3. /\ send_quota = Limit /\ wire = 0 /\ recv_data = 0 /\ call = "idle"
          /\ returned = 0 /\ unblocks = 0 /\ opened = 0
      OBVIOUS
    <3>. HIDE DEF ClientInit, RailInit
    <3>4. RailTypeOK
      BY <3>2, <3>3 DEF RailTypeOK
    <3>. QED BY <3>1, <3>2, <3>3, <3>4 DEF RailInv
  <2>. QED BY <2>1, <2>2, <2>3
<1>2. ASSUME Inv, [ClientNext]_clientVars
      PROVE  Inv'
  <2>1. PublisherInv'
    <3>1. CASE UNCHANGED publisherVars
      BY <1>2, <3>1 DEF publisherVars, PublisherInv, PublisherTypeOK, Live
    <3>2. CASE PublisherNext
      BY <1>2, <3>2, PublisherMain, PublisherThread DEF PublisherNext
    <3>. QED BY <1>2, <3>1, <3>2 DEF ClientNext, clientVars
  <2>2. PrdcrInv'
    <3>1. CASE UNCHANGED prdcrVars
      BY <1>2, <3>1 DEF prdcrVars, PrdcrInv, PrdcrStateOK, Open, Cur
    <3>2. CASE PrdcrNext
      BY <1>2, <3>2, PrdcrThread, PrdcrEvent, PrdcrPeer DEF PrdcrNext, Event
    <3>. QED BY <1>2, <3>1, <3>2 DEF ClientNext, clientVars
  <2>3. RailInv'
    <3>1. CASE UNCHANGED railVars
      BY <1>2, <3>1 DEF railVars, RailInv, RailTypeOK
    <3>2. CASE RailNext
      BY <1>2, <3>2, RailStep
    <3>. QED BY <1>2, <3>1, <3>2 DEF ClientNext, clientVars
  <2>. QED BY <2>1, <2>2, <2>3
<1>. QED BY <1>1, <1>2, PTL DEF ClientSpec

(* What the tests count was published by one thread, came over one         *)
(* transport, and gave its quota back for one unblock(), however many      *)
(* threads are started, producers listed, connections broken and messages  *)
(* sent (ldms_qgroup_app.py, ldms_qgroup_common.py,                        *)
(* ldms_rail_send_recv_server.py).                                         *)
THEOREM CountsAreTrue == ClientSpec => []CountsTrue
<1>1. PublisherInv /\ PrdcrInv /\ RailInv => CountsTrue
  BY PublisherCounts, PrdcrCounts, RailCounts DEF CountsTrue
<1>. QED BY <1>1, ProgramsInductive, PTL

-----------------------------------------------------------------------------
(* Sums.  Induction is over a set of numbers.                              *)

LEMMA SetInduction ==
  ASSUME NEW T, 0 \in T, \A k \in Nat : k \in T => k + 1 \in T
  PROVE  Nat \subseteq T
<1> DEFINE U == Nat \ T
           R == OpToRel(<, Nat)
<1>1. SUFFICES ASSUME U # {} PROVE FALSE
  OBVIOUS
<1>2. IsWellFoundedOn(R, Nat)
  BY NatLessThanWellFounded
<1>3. \A m, n \in Nat : m < n => <<m, n>> \in R
  BY DEF OpToRel
<1>4. U \subseteq Nat
  OBVIOUS
<1>5. PICK m \in U : \A n \in U : ~(<<n, m>> \in R)
  <2> HIDE DEF R, U
  <2> QED
    BY <1>1, <1>2, <1>4, WFMin
<1>6. m # 0 /\ m - 1 \in Nat /\ m - 1 < m /\ (m - 1) + 1 = m
  OBVIOUS
<1>7. m - 1 \in T
  BY <1>3, <1>5, <1>6
<1> QED
  BY <1>5, <1>6, <1>7

(* Partial sums up to n.                                                   *)
PartSums(f, n, g) ==
  /\ g \in [0 .. n -> Int]
  /\ g[0] = 0
  /\ \A k \in 1 .. n : g[k] = g[k - 1] + f[k]

LEMMA PartSumsExist ==
  ASSUME NEW f \in [Nat -> Int]
  PROVE  \A n \in Nat : \E g : PartSums(f, n, g)
<1> DEFINE T == {n \in Nat : \E g : PartSums(f, n, g)}
<1>1. 0 \in T
  <2>1. PartSums(f, 0, [k \in 0 .. 0 |-> 0])
    BY DEF PartSums
  <2> QED
    BY <2>1
<1>2. ASSUME NEW n \in Nat, n \in T
      PROVE  n + 1 \in T
  <2>1. PICK g : PartSums(f, n, g)
    BY <1>2
  <2>2. PICK h : h = [k \in 0 .. n + 1 |-> IF k = n + 1 THEN g[n] + f[n + 1] ELSE g[k]]
    OBVIOUS
  <2>3. \A k \in 0 .. n : k \in 0 .. n + 1 /\ h[k] = g[k] /\ g[k] \in Int
    BY <2>1, <2>2 DEF PartSums
  <2>4. h[n + 1] = g[n] + f[n + 1] /\ h[n + 1] \in Int
    <3>1. n \in 0 .. n /\ n + 1 \in 0 .. n + 1
      OBVIOUS
    <3>2. h[n + 1] = g[n] + f[n + 1]
      BY <2>2, <3>1
    <3> QED
      BY <2>3, <3>1, <3>2
  <2>5. h \in [0 .. n + 1 -> Int]
    <3>1. \A k \in 0 .. n + 1 : k = n + 1 \/ k \in 0 .. n
      OBVIOUS
    <3>2. \A k \in 0 .. n + 1 : h[k] \in Int
      BY <2>3, <2>4, <3>1
    <3> QED
      BY <2>2, <3>2
  <2>6. h[0] = 0
    BY <2>1, <2>3 DEF PartSums
  <2>7. \A k \in 1 .. n + 1 : h[k] = h[k - 1] + f[k]
    <3>1. SUFFICES ASSUME NEW k \in 1 .. n + 1 PROVE h[k] = h[k - 1] + f[k]
      OBVIOUS
    <3>2. CASE k = n + 1
      <4>1. k - 1 = n /\ n \in 0 .. n
        BY <3>2
      <4> QED
        BY <2>3, <2>4, <3>2, <4>1
    <3>3. CASE k # n + 1
      <4>1. k \in 1 .. n /\ k \in 0 .. n /\ k - 1 \in 0 .. n
        BY <3>3
      <4> QED
        BY <2>1, <2>3, <4>1 DEF PartSums
    <3> QED
      BY <3>2, <3>3
  <2>8. PartSums(f, n + 1, h)
    BY <2>5, <2>6, <2>7 DEF PartSums
  <2> QED
    BY <2>8
<1> HIDE DEF T
<1>3. Nat \subseteq T
  BY <1>1, <1>2, SetInduction
<1> QED
  BY <1>3 DEF T

LEMMA PartSumsSame ==
  ASSUME NEW f \in [Nat -> Int], NEW m \in Nat, NEW n \in Nat, m <= n, NEW g, NEW h,
         PartSums(f, m, g), PartSums(f, n, h)
  PROVE  \A k \in 0 .. m : g[k] = h[k]
<1> DEFINE T == {k \in Nat : k <= m => g[k] = h[k]}
<1>1. 0 \in T
  BY DEF PartSums
<1>2. ASSUME NEW k \in Nat, k \in T
      PROVE  k + 1 \in T
  <2>1. SUFFICES ASSUME k + 1 <= m PROVE g[k + 1] = h[k + 1]
    OBVIOUS
  <2>2. k + 1 \in 1 .. m /\ k + 1 \in 1 .. n /\ (k + 1) - 1 = k /\ k <= m
    BY <2>1
  <2>3. g[k + 1] = g[k] + f[k + 1] /\ h[k + 1] = h[k] + f[k + 1]
    BY <2>2 DEF PartSums
  <2> QED
    BY <1>2, <2>2, <2>3
<1> HIDE DEF T
<1>3. Nat \subseteq T
  BY <1>1, <1>2, SetInduction
<1> QED
  BY <1>3 DEF T

(* What SumTo computes.                                                    *)
LEMMA SumMeans ==
  ASSUME NEW f \in [Nat -> Int]
  PROVE  /\ SumTo(f, 0) = 0
         /\ \A n \in Nat : SumTo(f, n) \in Int /\ SumTo(f, n + 1) = SumTo(f, n) + f[n + 1]
<1> DEFINE Is(g) == g = [k \in Nat |-> IF k = 0 THEN 0 ELSE g[k - 1] + f[k]]
           G == [n \in Nat |-> (CHOOSE g : PartSums(f, n, g))[n]]
<1>1. \A n \in Nat : PartSums(f, n, CHOOSE g : PartSums(f, n, g))
  BY PartSumsExist
<1>2. ASSUME NEW n \in Nat, NEW g, PartSums(f, n, g)
      PROVE  \A k \in 0 .. n : g[k] = G[k]
  <2>1. SUFFICES ASSUME NEW k \in 0 .. n PROVE g[k] = G[k]
    OBVIOUS
  <2>2. k \in Nat /\ k <= n /\ k \in 0 .. k
    OBVIOUS
  <2>3. PICK h : h = CHOOSE p : PartSums(f, k, p)
    OBVIOUS
  <2>4. PartSums(f, k, h) /\ G[k] = h[k]
    BY <1>1, <2>2, <2>3
  <2> QED
    BY <1>2, <2>2, <2>4, PartSumsSame
<1> HIDE DEF G
<1>3. ASSUME NEW n \in Nat
      PROVE  /\ G[n] \in Int
             /\ G[n] = IF n = 0 THEN 0 ELSE G[n - 1] + f[n]
  <2>1. PICK g : PartSums(f, n, g)
    BY PartSumsExist
  <2>2. \A k \in 0 .. n : g[k] = G[k] /\ g[k] \in Int
    BY <1>2, <2>1 DEF PartSums
  <2>3. n \in 0 .. n /\ 0 \in 0 .. n /\ (n # 0 => n \in 1 .. n /\ n - 1 \in 0 .. n)
    OBVIOUS
  <2> QED
    BY <2>1, <2>2, <2>3 DEF PartSums
<1>4. Is(G)
  <2>1. G = [n \in Nat |-> G[n]]
    BY DEF G
  <2> QED
    BY <1>3, <2>1
<1>5. PICK S : S = CHOOSE g : Is(g)
  OBVIOUS
<1>6. Is(S)
  <2> HIDE DEF Is
  <2> QED
    BY <1>4, <1>5
<1>7. \A n \in Nat : SumTo(f, n) = S[n]
  BY <1>5 DEF SumTo
<1>8. S[0] = 0 /\ \A n \in Nat : S[n + 1] = S[n] + f[n + 1]
  <2>1. S = [k \in Nat |-> IF k = 0 THEN 0 ELSE S[k - 1] + f[k]]
    BY <1>6
  <2>2. \A n \in Nat : n + 1 \in Nat /\ n + 1 # 0 /\ (n + 1) - 1 = n
    OBVIOUS
  <2> QED
    BY <2>1, <2>2
<1> DEFINE T == {n \in Nat : S[n] \in Int}
<1>9. Nat \subseteq T
  <2>1. 0 \in T /\ \A k \in Nat : k \in T => k + 1 \in T
    BY <1>8
  <2> HIDE DEF T
  <2> QED
    BY <2>1, SetInduction
<1> QED
  BY <1>7, <1>8, <1>9

LEMMA SumLeq ==
  ASSUME NEW f \in [Nat -> Int], NEW g \in [Nat -> Int], NEW n \in Nat,
         \A k \in 1 .. n : f[k] <= g[k]
  PROVE  SumTo(f, n) <= SumTo(g, n)
<1> DEFINE T == {k \in Nat : k <= n => SumTo(f, k) <= SumTo(g, k)}
<1>1. 0 \in T
  BY SumMeans
<1>2. ASSUME NEW k \in Nat, k \in T
      PROVE  k + 1 \in T
  <2>1. SUFFICES ASSUME k + 1 <= n PROVE SumTo(f, k + 1) <= SumTo(g, k + 1)
    OBVIOUS
  <2>2. k <= n /\ k + 1 \in 1 .. n /\ f[k + 1] \in Int /\ g[k + 1] \in Int
    BY <2>1
  <2>3. SumTo(f, k) <= SumTo(g, k) /\ f[k + 1] <= g[k + 1]
    BY <1>2, <2>2
  <2>4. /\ SumTo(f, k) \in Int /\ SumTo(f, k + 1) = SumTo(f, k) + f[k + 1]
        /\ SumTo(g, k) \in Int /\ SumTo(g, k + 1) = SumTo(g, k) + g[k + 1]
    BY SumMeans
  <2> QED
    BY <2>2, <2>3, <2>4
<1> HIDE DEF T
<1>3. Nat \subseteq T
  BY <1>1, <1>2, SetInduction
<1> QED
  BY <1>3 DEF T

LEMMA SumSame ==
  ASSUME NEW f \in [Nat -> Int], NEW g \in [Nat -> Int], NEW n \in Nat,
         \A k \in 1 .. n : f[k] = g[k]
  PROVE  SumTo(f, n) = SumTo(g, n)
<1>1. \A k \in 1 .. n : f[k] <= g[k] /\ g[k] <= f[k]
  OBVIOUS
<1>2. SumTo(f, n) <= SumTo(g, n) /\ SumTo(g, n) <= SumTo(f, n)
  BY <1>1, SumLeq
<1>3. SumTo(f, n) \in Int /\ SumTo(g, n) \in Int
  BY SumMeans
<1> QED
  BY <1>2, <1>3

(* One summand makes the difference.                                       *)
LEMMA SumDiffers ==
  ASSUME NEW f \in [Nat -> Int], NEW g \in [Nat -> Int], NEW n \in Nat, NEW j \in 1 .. n,
         \A k \in 1 .. n : k # j => f[k] = g[k]
  PROVE  SumTo(f, n) = SumTo(g, n) + f[j] - g[j]
<1> DEFINE T == {k \in Nat : k <= n =>
                    SumTo(f, k) = SumTo(g, k) + IF k < j THEN 0 ELSE f[j] - g[j]}
<1>1. 0 \in T
  BY SumMeans
<1>2. ASSUME NEW k \in Nat, k \in T
      PROVE  k + 1 \in T
  <2>1. SUFFICES ASSUME k + 1 <= n
                 PROVE  SumTo(f, k + 1) = SumTo(g, k + 1) + IF k + 1 < j THEN 0 ELSE f[j] - g[j]
    OBVIOUS
  <2>2. /\ k <= n /\ k + 1 \in 1 .. n /\ f[k + 1] \in Int /\ g[k + 1] \in Int
        /\ f[j] \in Int /\ g[j] \in Int
    BY <2>1
  <2>3. SumTo(f, k) = SumTo(g, k) + IF k < j THEN 0 ELSE f[j] - g[j]
    BY <1>2, <2>2
  <2>4. /\ SumTo(f, k) \in Int /\ SumTo(f, k + 1) = SumTo(f, k) + f[k + 1]
        /\ SumTo(g, k) \in Int /\ SumTo(g, k + 1) = SumTo(g, k) + g[k + 1]
    BY SumMeans
  <2>5. k + 1 # j => f[k + 1] = g[k + 1]
    BY <2>2
  <2> HIDE DEF T
  <2>6. CASE k + 1 < j
    BY <2>2, <2>3, <2>4, <2>5, <2>6
  <2>7. CASE k + 1 = j
    BY <2>2, <2>3, <2>4, <2>7
  <2>8. CASE k >= j
    BY <2>2, <2>3, <2>4, <2>5, <2>8
  <2> QED
    BY <2>6, <2>7, <2>8
<1> HIDE DEF T
<1>3. Nat \subseteq T
  BY <1>1, <1>2, SetInduction
<1>4. SumTo(f, n) = SumTo(g, n) + (IF n < j THEN 0 ELSE f[j] - g[j])
  BY <1>3 DEF T
<1>5. SumTo(g, n) \in Int /\ f[j] \in Int /\ g[j] \in Int /\ ~(n < j)
  BY SumMeans
<1> QED
  BY <1>4, <1>5

-----------------------------------------------------------------------------
(* The counters.                                                           *)

(* The load of the messages j .. c of m that come from S.                  *)
Upto(m, S, j, c) ==
  [k \in Nat |-> IF k \in j .. c /\ m[k].src \in S THEN m[k].load ELSE 0]
Share(d, S) == IF d.src \in S THEN d.load ELSE 0

LEMMA DataMeans ==
  \A d \in Data : d.ts \in 0 .. MaxClock /\ d.ts \in Nat /\ d.load \in Nat /\ d.src \in Sources
<1>1. \A d \in Data : d.ts \in 0 .. MaxClock /\ d.load \in Loads /\ d.src \in Sources
  BY DEF Data
<1>2. (\A n \in 0 .. MaxClock : n \in Nat) /\ \A n \in Loads : n \in Nat
  BY TallyAssumption
<1> QED
  BY <1>1, <1>2

LEMMA UptoTypes ==
  ASSUME NEW m \in Seq(Data), NEW S, NEW j \in Nat, j >= 1, NEW c \in Nat, c <= Len(m)
  PROVE  Upto(m, S, j, c) \in [Nat -> Int]
<1>1. \A k \in j .. c : k \in 1 .. Len(m) /\ m[k] \in Data
  OBVIOUS
<1>2. \A k \in j .. c : m[k].load \in Int
  BY <1>1, DataMeans
<1> QED
  BY <1>2 DEF Upto

LEMMA UptoAppend ==
  ASSUME NEW m \in Seq(Data), NEW d \in Data, NEW S, NEW j \in 1 .. Len(m) + 1
  PROVE  /\ SumTo(Upto(Append(m, d), S, j, Len(m)), Len(m) + 1)
              = SumTo(Upto(m, S, j, Len(m)), Len(m))
         /\ SumTo(Upto(Append(m, d), S, j, Len(m) + 1), Len(m) + 1)
              = SumTo(Upto(m, S, j, Len(m)), Len(m)) + Share(d, S)
<1>0. PICK n \in Nat : n = Len(m)
  OBVIOUS
<1>1. PICK w : w = Append(m, d)
  OBVIOUS
<1>2. Len(w) = n + 1 /\ w[n + 1] = d /\ \A k \in 1 .. n : w[k] = m[k]
  BY <1>0, <1>1
<1>3. PICK f : f = Upto(m, S, j, n)
  OBVIOUS
<1>4. PICK g : g = Upto(w, S, j, n)
  OBVIOUS
<1>5. PICK h : h = Upto(w, S, j, n + 1)
  OBVIOUS
<1>6. f \in [Nat -> Int] /\ g \in [Nat -> Int] /\ h \in [Nat -> Int]
  <2>1. w \in Seq(Data)
    BY <1>1
  <2>2. /\ j \in Nat /\ j >= 1 /\ n \in Nat /\ n <= Len(m) /\ n + 1 \in Nat
        /\ n <= Len(w) /\ n + 1 <= Len(w)
    BY <1>0, <1>2
  <2> QED
    BY <1>3, <1>4, <1>5, <2>1, <2>2, UptoTypes
<1>7. \A k \in 1 .. n : f[k] = g[k] /\ f[k] = h[k]
  <2>1. \A k \in 1 .. n : k \in Nat /\ (k \in j .. n <=> k \in j .. n + 1)
    BY <1>0
  <2> QED
    BY <1>2, <1>3, <1>4, <1>5, <2>1 DEF Upto
<1>8. g[n + 1] = 0 /\ h[n + 1] = Share(d, S)
  <2>1. n + 1 \in Nat /\ n + 1 \notin j .. n /\ n + 1 \in j .. n + 1
    BY <1>0
  <2> QED
    BY <1>2, <1>4, <1>5, <2>1 DEF Upto, Share
<1>9. SumTo(f, n) = SumTo(g, n) /\ SumTo(f, n) = SumTo(h, n)
  BY <1>6, <1>7, SumSame
<1>10. /\ SumTo(g, n) \in Int /\ SumTo(g, n + 1) = SumTo(g, n) + g[n + 1]
       /\ SumTo(h, n + 1) = SumTo(h, n) + h[n + 1]
  BY <1>6, SumMeans
<1> QED
  BY <1>0, <1>1, <1>3, <1>4, <1>5, <1>8, <1>9, <1>10

LEMMA UptoDrop ==
  ASSUME NEW m \in Seq(Data), NEW S, NEW c \in 0 .. Len(m), NEW j \in 1 .. c
  PROVE  SumTo(Upto(m, S, j + 1, c), Len(m)) = SumTo(Upto(m, S, j, c), Len(m)) - Share(m[j], S)
<1>1. PICK f : f = Upto(m, S, j, c)
  OBVIOUS
<1>2. PICK g : g = Upto(m, S, j + 1, c)
  OBVIOUS
<1>3. f \in [Nat -> Int] /\ g \in [Nat -> Int] /\ j \in 1 .. Len(m) /\ Len(m) \in Nat
  BY <1>1, <1>2, UptoTypes
<1>4. \A k \in 1 .. Len(m) : k # j => f[k] = g[k]
  <2>1. \A k \in 1 .. Len(m) : k \in Nat /\ (k # j => (k \in j .. c <=> k \in j + 1 .. c))
    OBVIOUS
  <2> QED
    BY <1>1, <1>2, <2>1 DEF Upto
<1>5. f[j] = Share(m[j], S) /\ g[j] = 0
  <2>1. j \in Nat /\ j \in j .. c /\ j \notin j + 1 .. c
    OBVIOUS
  <2> QED
    BY <1>1, <1>2, <2>1 DEF Upto, Share
<1>6. SumTo(g, Len(m)) = SumTo(f, Len(m)) + g[j] - f[j]
  BY <1>3, <1>4, SumDiffers
<1>7. SumTo(f, Len(m)) \in Int /\ f[j] \in Int
  <2>1. f[j] \in Int
    BY <1>3
  <2>2. SumTo(f, Len(m)) \in Int
    BY <1>3, SumMeans
  <2> QED
    BY <2>1, <2>2
<1> QED
  BY <1>1, <1>2, <1>5, <1>6, <1>7

LEMMA UptoCount ==
  ASSUME NEW m \in Seq(Data), NEW S, NEW n \in Nat, Len(m) = n + 1, NEW j \in 1 .. n + 1
  PROVE  SumTo(Upto(m, S, j, n + 1), n + 1) = SumTo(Upto(m, S, j, n), n + 1) + Share(m[n + 1], S)
<1>1. PICK f : f = Upto(m, S, j, n)
  OBVIOUS
<1>2. PICK g : g = Upto(m, S, j, n + 1)
  OBVIOUS
<1>3. f \in [Nat -> Int] /\ g \in [Nat -> Int]
  BY <1>1, <1>2, UptoTypes
<1>4. \A k \in 1 .. n + 1 : k # n + 1 => g[k] = f[k]
  <2>1. \A k \in 1 .. n + 1 : k \in Nat /\ (k # n + 1 => (k \in j .. n <=> k \in j .. n + 1))
    OBVIOUS
  <2> QED
    BY <1>1, <1>2, <2>1 DEF Upto
<1>5. g[n + 1] = Share(m[n + 1], S) /\ f[n + 1] = 0
  <2>1. n + 1 \in Nat /\ n + 1 \in j .. n + 1 /\ n + 1 \notin j .. n
    OBVIOUS
  <2> QED
    BY <1>1, <1>2, <2>1 DEF Upto, Share
<1>6. SumTo(g, n + 1) = SumTo(f, n + 1) + g[n + 1] - f[n + 1]
  <2>1. n + 1 \in 1 .. n + 1 /\ n + 1 \in Nat
    OBVIOUS
  <2> QED
    BY <1>3, <1>4, <2>1, SumDiffers
<1>7. SumTo(f, n + 1) \in Int /\ g[n + 1] \in Int
  <2>1. g[n + 1] \in Int /\ n + 1 \in Nat
    BY <1>3
  <2>2. SumTo(f, n + 1) \in Int
    BY <1>3, <2>1, SumMeans
  <2> QED
    BY <2>1, <2>2
<1> QED
  BY <1>1, <1>2, <1>5, <1>6, <1>7

LEMMA SecsMeans ==
  /\ Len(Secs) \in Nat /\ Len(Secs) >= 1 /\ Tally = 1 .. Len(Secs)
  /\ \A i \in Tally : Secs[i] \in Nat
  /\ \A i, j \in Tally : i < j => Secs[i] <= Secs[j]
  BY TallyAssumption DEF Tally

LEMMA CameMeans ==
  ASSUME TallyTypeOK, ClockInv
  PROVE  /\ Came \in Seq(Data) /\ seen \in Seq(Data) /\ Len(seen) \in Nat
         /\ Len(Came) = IF adding = "idle" THEN Len(seen) ELSE Len(seen) + 1
         /\ \A k \in 1 .. Len(seen) : Came[k] = seen[k]
         /\ adding # "idle" => Came[Len(seen) + 1] = data
         /\ \A k \in 1 .. Len(Came) : Came[k] \in Data /\ Came[k].ts \in Nat
         /\ \A j, k \in 1 .. Len(Came) : j <= k => Came[j].ts <= Came[k].ts
<1>1. seen \in Seq(Data) /\ Len(seen) \in Nat /\ DOMAIN seen = 1 .. Len(seen)
  BY DEF TallyTypeOK
<1>2. \A k \in 1 .. Len(seen) : seen[k] \in Data /\ seen[k].ts \in Nat
  BY <1>1, DataMeans
<1>3. CASE adding = "idle"
  BY <1>1, <1>2, <1>3 DEF Came, ClockInv
<1>4. CASE adding # "idle"
  <2>1. data \in Data /\ data.ts \in Nat /\ \A k \in 1 .. Len(seen) : seen[k].ts <= data.ts
    <3>1. data \in Data /\ data.ts \in pruned .. clock /\ pruned \in Nat /\ clock \in Nat
      BY <1>4, TallyAssumption DEF ClockInv, TallyTypeOK
    <3>2. data.ts \in Nat /\ data.ts >= pruned
      BY <3>1
    <3>3. \A k \in 1 .. Len(seen) : seen[k].ts <= pruned
      BY <1>1 DEF ClockInv
    <3> QED
      BY <1>2, <3>1, <3>2, <3>3
  <2>2. PICK m : m = Append(seen, data)
    OBVIOUS
  <2>3. Came = m
    BY <1>4, <2>2 DEF Came
  <2>4. m \in Seq(Data)
    BY <1>1, <2>1, <2>2
  <2>5. /\ Len(m) = Len(seen) + 1 /\ m[Len(seen) + 1] = data
        /\ \A k \in 1 .. Len(seen) : m[k] = seen[k]
    BY <1>1, <2>2
  <2>6. \A k \in 1 .. Len(m) : k = Len(seen) + 1 \/ k \in 1 .. Len(seen)
    BY <1>1, <2>5
  <2>7. \A k \in 1 .. Len(m) : m[k] \in Data /\ m[k].ts \in Nat
    BY <1>2, <2>1, <2>5, <2>6
  <2>8. \A j, k \in 1 .. Len(m) : j <= k => m[j].ts <= m[k].ts
    <3>1. SUFFICES ASSUME NEW j \in 1 .. Len(m), NEW k \in 1 .. Len(m), j <= k
                   PROVE  m[j].ts <= m[k].ts
      OBVIOUS
    <3>2. CASE k = Len(seen) + 1
      <4>1. m[k] = data
        BY <2>5, <3>2
      <4>2. CASE j = Len(seen) + 1
        BY <2>1, <2>5, <4>1, <4>2
      <4>3. CASE j \in 1 .. Len(seen)
        BY <2>1, <2>5, <4>1, <4>3
      <4> QED
        BY <2>6, <4>2, <4>3
    <3>3. CASE k \in 1 .. Len(seen)
      <4>1. j \in 1 .. Len(seen)
        BY <3>1, <3>3
      <4>2. seen[j].ts <= seen[k].ts
        BY <1>1, <3>1, <3>3, <4>1 DEF ClockInv
      <4> QED
        BY <2>5, <3>3, <4>1, <4>2
    <3> QED
      BY <2>6, <3>2, <3>3
  <2> QED
    BY <1>1, <1>4, <2>3, <2>4, <2>5, <2>7, <2>8
<1> QED
  BY <1>3, <1>4

LEMMA TallyIncMeans ==
  ASSUME TallyTypeOK, NEW i \in Tally, NEW s \in Sources, NEW v \in Int, tally_inc(i, s, v)
  PROVE  /\ tallies' \in [Tally -> [Sources -> Int]] /\ total' \in [Tally -> Int]
         /\ \A h \in Tally : total'[h] = IF h = i THEN total[h] + v ELSE total[h]
         /\ \A h \in Tally, z \in Sources :
              tallies'[h][z] = IF h = i /\ z = s THEN tallies[h][z] + v ELSE tallies[h][z]
<1>1. total' \in [Tally -> Int] /\ \A h \in Tally : total'[h] = IF h = i THEN total[h] + v ELSE total[h]
  BY DEF TallyTypeOK, tally_inc
<1>2. PICK g : g = [tallies[i] EXCEPT ![s] = tallies[i][s] + v]
  OBVIOUS
<1>3. tallies' = [tallies EXCEPT ![i] = g]
  BY <1>2 DEF tally_inc
<1>4. tallies[i] \in [Sources -> Int]
  BY DEF TallyTypeOK
<1>5. /\ g \in [Sources -> Int]
      /\ \A z \in Sources : g[z] = IF z = s THEN tallies[i][z] + v ELSE tallies[i][z]
  BY <1>2, <1>4
<1>6. tallies' \in [Tally -> [Sources -> Int]] /\ \A h \in Tally : tallies'[h] = IF h = i THEN g ELSE tallies[h]
  BY <1>3, <1>5 DEF TallyTypeOK
<1>7. \A h \in Tally, z \in Sources :
         tallies'[h][z] = IF h = i /\ z = s THEN tallies[h][z] + v ELSE tallies[h][z]
  BY <1>5, <1>6
<1> QED
  BY <1>1, <1>6, <1>7

(* What a tally is to read when it counts the messages j .. c of m.        *)
Reads(m, j, c, tot, tal) ==
  /\ tot = SumTo(Upto(m, Sources, j, c), Len(m))
  /\ \A s \in Sources : tal[s] = SumTo(Upto(m, {s}, j, c), Len(m))

(* The sums over w have the message d more, or less, than those over m.    *)
Adds(m, j, c, w, h, e, d) ==
  \A S : SumTo(Upto(w, S, h, e), Len(w)) = SumTo(Upto(m, S, j, c), Len(m)) + Share(d, S)
Takes(m, j, c, w, h, e, d) ==
  \A S : SumTo(Upto(w, S, h, e), Len(w)) = SumTo(Upto(m, S, j, c), Len(m)) - Share(d, S)

(* A tally that reads one message more, or less, than before.              *)
ReadMore(d, tot, tal, tot2, tal2) ==
  /\ tot2 = tot + d.load
  /\ \A s \in Sources : tal[s] \in Int
  /\ \A s \in Sources : tal2[s] = IF s = d.src THEN tal[s] + d.load ELSE tal[s]
ReadLess(d, tot, tal, tot2, tal2) ==
  /\ tot2 = tot - d.load
  /\ \A s \in Sources : tal[s] \in Int
  /\ \A s \in Sources : tal2[s] = IF s = d.src THEN tal[s] - d.load ELSE tal[s]

LEMMA CountReads ==
  ASSUME NEW i, NEW j
  PROVE  /\ CountInv(i, j) <=> Reads(Came, j, Counts(i), total[i], tallies[i])
         /\ CountInv(i, j)' <=> Reads(Came', j, Counts(i)', total'[i], tallies'[i])
  BY DEF CountInv, Counted, Upto, Reads

LEMMA ReadsMore ==
  ASSUME NEW m, NEW j, NEW c, NEW w, NEW h, NEW e, NEW d \in Data, Adds(m, j, c, w, h, e, d),
         NEW tot, NEW tal, Reads(m, j, c, tot, tal), NEW tot2, NEW tal2,
         ReadMore(d, tot, tal, tot2, tal2)
  PROVE  Reads(w, h, e, tot2, tal2)
<1>0. /\ tot2 = tot + d.load
      /\ \A s \in Sources : tal[s] \in Int
      /\ \A s \in Sources : tal2[s] = IF s = d.src THEN tal[s] + d.load ELSE tal[s]
  BY DEF ReadMore
<1>1. d.load \in Nat /\ d.src \in Sources
  BY DataMeans
<1>2. tot2 = SumTo(Upto(w, Sources, h, e), Len(w))
  <2>1. Share(d, Sources) = d.load
    BY <1>1 DEF Share
  <2> QED
    BY <1>0, <2>1 DEF Adds, Reads
<1>3. ASSUME NEW s \in Sources
      PROVE  tal2[s] = SumTo(Upto(w, {s}, h, e), Len(w))
  <2>1. Share(d, {s}) = IF s = d.src THEN d.load ELSE 0
    BY DEF Share
  <2>2. SumTo(Upto(w, {s}, h, e), Len(w)) = tal[s] + Share(d, {s})
    BY DEF Adds, Reads
  <2> QED
    BY <1>0, <1>1, <2>1, <2>2
<1> QED
  BY <1>2, <1>3 DEF Reads

LEMMA ReadsLess ==
  ASSUME NEW m, NEW j, NEW c, NEW w, NEW h, NEW e, NEW d \in Data,
         Takes(m, j, c, w, h, e, d),
         NEW tot, NEW tal, Reads(m, j, c, tot, tal), NEW tot2, NEW tal2,
         ReadLess(d, tot, tal, tot2, tal2)
  PROVE  Reads(w, h, e, tot2, tal2)
<1>0. /\ tot2 = tot - d.load
      /\ \A s \in Sources : tal[s] \in Int
      /\ \A s \in Sources : tal2[s] = IF s = d.src THEN tal[s] - d.load ELSE tal[s]
  BY DEF ReadLess
<1>1. d.load \in Nat /\ d.src \in Sources
  BY DataMeans
<1>2. tot2 = SumTo(Upto(w, Sources, h, e), Len(w))
  <2>1. Share(d, Sources) = d.load
    BY <1>1 DEF Share
  <2>2. SumTo(Upto(w, Sources, h, e), Len(w)) = tot - d.load
    BY <2>1 DEF Takes, Reads
  <2> QED
    BY <1>0, <1>1, <2>2
<1>3. ASSUME NEW s \in Sources
      PROVE  tal2[s] = SumTo(Upto(w, {s}, h, e), Len(w))
  <2>1. Share(d, {s}) = IF s = d.src THEN d.load ELSE 0
    BY DEF Share
  <2>2. SumTo(Upto(w, {s}, h, e), Len(w)) = tal[s] - Share(d, {s})
    BY DEF Takes, Reads
  <2> QED
    BY <1>0, <1>1, <2>1, <2>2
<1> QED
  BY <1>2, <1>3 DEF Reads

LEMMA TallyClock ==
  ASSUME TallyInv, TallyTick
  PROVE  TallyInv'
<1>1. TallyTypeOK' /\ ClockInv'
  <2>1. clock \in Nat /\ clock' = clock + 1 /\ clock' \in 0 .. MaxClock /\ pruned \in Nat
    BY TallyAssumption DEF TallyInv, TallyTypeOK, TallyTick
  <2>2. TallyTypeOK'
    BY <2>1 DEF TallyInv, TallyTypeOK, TallyTick
  <2>3. pruned' <= clock' /\ (adding # "idle" => data.ts \in pruned .. clock')
    BY <2>1 DEF TallyInv, ClockInv, TallyTick
  <2> QED
    BY <2>2, <2>3 DEF TallyInv, ClockInv, TallyTick
<1>2. /\ dq' = dq /\ tallies' = tallies /\ total' = total /\ adding' = adding /\ at' = at
      /\ data' = data /\ seen' = seen /\ pruned' = pruned
  BY DEF TallyTick
<1>3. PICK q \in [0 .. Len(Secs) -> 1 .. Len(Came) + 1] :
         q[0] = Len(Came) + 1 /\ \A i \in Tally : QueueInv(i, q) /\ CountInv(i, q[i])
  BY DEF TallyInv
<1>4. Came' = Came
  BY <1>2 DEF Came
<1>5. ASSUME NEW i \in Tally
      PROVE  QueueInv(i, q)' /\ CountInv(i, q[i])'
  <2>1. Counts(i)' = Counts(i) /\ LostBy(i)' = LostBy(i) /\ PrunedBy(i)' = PrunedBy(i)
    BY <1>2, <1>4 DEF Counts, LostBy, PrunedBy
  <2>2. QueueInv(i, q)'
    BY <1>2, <1>3, <1>4, <2>1 DEF QueueInv
  <2> QED
    BY <1>2, <1>3, <1>4, <2>1, <2>2, CountReads
<1> QED
  BY <1>1, <1>3, <1>4, <1>5 DEF TallyInv

LEMMA TallyAdd ==
  ASSUME TallyInv, NEW s \in Sources, NEW l \in Loads, AddData(s, l)
  PROVE  TallyInv'
<1>0. TallyTypeOK /\ ClockInv /\ l \in Nat /\ 1 \in Tally
  <2>1. l \in Nat
    BY TallyAssumption
  <2> QED
    BY <2>1, SecsMeans DEF TallyInv
<1>1. /\ adding = "idle" /\ clock' = clock /\ seen' = seen /\ pruned' = pruned
      /\ data' = [ts |-> clock, load |-> l, src |-> s]
      /\ dq' = [dq EXCEPT ![1] = Append(dq[1], data')]
  BY DEF AddData
<1>2. tally_inc(1, s, l)
  BY DEF AddData
<1>3. \/ Len(Secs) > 1 /\ adding' = "inc" /\ at' = 2
      \/ Len(Secs) = 1 /\ adding' = "prune" /\ at' = 1
  <2>1. IF Len(Secs) > 1 THEN adding' = "inc" /\ at' = 2 ELSE adding' = "prune" /\ at' = 1
    BY DEF AddData
  <2>0. PICK z \in Nat : z = Len(Secs) /\ z >= 1
    BY SecsMeans
  <2>2. Len(Secs) > 1 \/ (~(Len(Secs) > 1) /\ Len(Secs) = 1)
    BY <2>0
  <2> QED
    BY <2>1, <2>2
<1>4. PICK d : d = data'
  OBVIOUS
<1>5. d \in Data /\ d.ts = clock /\ d.load = l /\ d.src = s
  <2>1. clock \in 0 .. MaxClock
    BY <1>0 DEF TallyTypeOK
  <2> QED
    BY <1>1, <1>4, <2>1 DEF Data
<1>6. PICK n \in Nat : n = Len(seen)
  BY <1>0, CameMeans
<1>7. PICK m : m = seen
  OBVIOUS
<1>8. /\ Came = m /\ m \in Seq(Data) /\ Len(m) = n
      /\ \A k \in 1 .. n : m[k] \in Data /\ m[k].ts \in Nat
  BY <1>0, <1>1, <1>6, <1>7, CameMeans DEF Came
<1>9. PICK w : w = Append(m, d)
  OBVIOUS
<1>10. /\ Came' = w /\ w \in Seq(Data) /\ Len(w) = n + 1 /\ w[n + 1] = d
       /\ \A k \in 1 .. n : w[k] = m[k]
  <2>1. adding' # "idle"
    BY <1>3
  <2> QED
    BY <1>1, <1>4, <1>5, <1>7, <1>8, <1>9, <2>1 DEF Came
<1>11. /\ tallies' \in [Tally -> [Sources -> Int]] /\ total' \in [Tally -> Int]
       /\ \A h \in Tally : total'[h] = IF h = 1 THEN total[h] + l ELSE total[h]
       /\ \A h \in Tally, z \in Sources :
            tallies'[h][z] = IF h = 1 /\ z = s THEN tallies[h][z] + l ELSE tallies[h][z]
  <2>1. l \in Int
    BY <1>0
  <2> QED
    BY <1>0, <1>2, <2>1, TallyIncMeans
<1>12. dq \in [Tally -> Seq(Data)]
  BY <1>0 DEF TallyTypeOK
<1>13. /\ dq' \in [Tally -> Seq(Data)] /\ dq'[1] = Append(dq[1], d)
       /\ \A i \in Tally : i # 1 => dq'[i] = dq[i]
  BY <1>0, <1>1, <1>4, <1>5, <1>12
<1>14. TallyTypeOK'
  <2>1. at' \in Tally /\ adding' \in {"idle", "inc", "prune"}
    BY <1>3, SecsMeans
  <2>2. data' \in Data
    BY <1>4, <1>5
  <2> QED
    BY <1>0, <1>1, <1>11, <1>13, <2>1, <2>2 DEF TallyTypeOK
<1>15. ClockInv'
  <2>1. pruned \in Nat /\ clock \in Nat /\ pruned <= clock
    BY <1>0, TallyAssumption DEF TallyTypeOK, ClockInv
  <2>2. data' \in Data /\ data'.ts \in pruned' .. clock'
    BY <1>1, <1>4, <1>5, <2>1
  <2>3. adding' = "inc" => at' > 1
    BY <1>3
  <2> QED
    BY <1>0, <1>1, <2>2, <2>3 DEF ClockInv
<1>16. PICK q \in [0 .. Len(Secs) -> 1 .. n + 1] :
         q[0] = n + 1 /\ \A i \in Tally : QueueInv(i, q) /\ CountInv(i, q[i])
  BY <1>8 DEF TallyInv
<1>17. PICK r : r = [i \in 0 .. Len(Secs) |-> IF i = 0 THEN n + 2 ELSE q[i]]
  OBVIOUS
<1>18. /\ r \in [0 .. Len(Secs) -> 1 .. n + 2] /\ r[0] = n + 2
       /\ \A i \in Tally : r[i] = q[i] /\ i - 1 \in 0 .. Len(Secs)
       /\ \A i \in 1 .. Len(Secs) : q[i] \in 1 .. n + 1
  <2>1. \A i \in 0 .. Len(Secs) : q[i] \in 1 .. n + 1 /\ q[i] \in 1 .. n + 2
    BY <1>16
  <2>2. n + 2 \in 1 .. n + 2 /\ 0 \in 0 .. Len(Secs)
    BY SecsMeans
  <2>3. r \in [0 .. Len(Secs) -> 1 .. n + 2] /\ r[0] = n + 2
    BY <1>17, <2>1, <2>2
  <2>4. \A i \in 1 .. Len(Secs) : i # 0 /\ i \in 0 .. Len(Secs) /\ i - 1 \in 0 .. Len(Secs)
    BY SecsMeans
  <2>5. Tally = 1 .. Len(Secs)
    BY SecsMeans
  <2>6. \A i \in 1 .. Len(Secs) : r[i] = q[i] /\ i - 1 \in 0 .. Len(Secs) /\ q[i] \in 1 .. n + 1
    BY <1>17, <2>1, <2>4
  <2> QED
    BY <2>3, <2>5, <2>6
<1>19. ASSUME NEW i \in Tally
       PROVE  QueueInv(i, r)' /\ CountInv(i, r[i])'
  <2>1. Counts(i) = n /\ LostBy(i) = pruned /\ PrunedBy(i) = pruned
    BY <1>1, <1>8 DEF Counts, LostBy, PrunedBy
  <2>2. Counts(i)' = (IF i = 1 THEN n + 1 ELSE n) /\ PrunedBy(i)' = pruned
    <3>1. i \in 1 .. Len(Secs) /\ Len(seen') = n /\ Len(Came') = n + 1
      BY <1>1, <1>6, <1>10, SecsMeans
    <3>2. CASE Len(Secs) > 1 /\ adding' = "inc" /\ at' = 2
      BY <1>1, <3>1, <3>2 DEF Counts, PrunedBy
    <3>3. CASE Len(Secs) = 1 /\ adding' = "prune" /\ at' = 1
      BY <1>1, <3>1, <3>3 DEF Counts, PrunedBy
    <3> QED
      BY <1>3, <3>2, <3>3
  <2>3. pruned \in Nat /\ clock \in Nat /\ pruned <= clock
    BY <1>0, TallyAssumption DEF TallyTypeOK, ClockInv
  <2>4. LostBy(i)' \in Nat /\ LostBy(i)' >= pruned
    <3>1. LostBy(i)' = pruned \/ LostBy(i)' = clock
      BY <1>1, <1>4, <1>5 DEF LostBy
    <3> QED
      BY <2>3, <3>1
  <2>5. /\ q[i] \in 1 .. q[i - 1]
        /\ Len(dq[i]) = q[i - 1] - q[i]
        /\ \A k \in DOMAIN dq[i] : dq[i][k] = m[q[i] + k - 1]
        /\ \A k \in 1 .. n : IF k < q[i] THEN m[k].ts + Secs[i] < pruned
                                         ELSE m[k].ts + Secs[i] >= pruned
    BY <1>8, <1>16, <2>1 DEF QueueInv
  <2>6. /\ q[i] \in Nat /\ q[i] >= 1 /\ q[i] <= n + 1 /\ r[i] = q[i]
        /\ i = 1 => q[i - 1] = n + 1 /\ r[i - 1] = n + 2
        /\ i # 1 => r[i - 1] = q[i - 1] /\ q[i - 1] \in 1 .. n + 1
    <3>1. i \in 1 .. Len(Secs)
      BY SecsMeans
    <3>2. i # 1 => i - 1 \in Tally /\ i - 1 \in 1 .. Len(Secs)
      BY <3>1, SecsMeans
    <3>3. i = 1 => i - 1 = 0
      OBVIOUS
    <3> QED
      BY <1>16, <1>18, <3>1, <3>2, <3>3
  <2>7. Secs[i] \in Nat
    BY SecsMeans
  <2>8. QueueInv(i, r)'
    <3>1. r[i] \in 1 .. r[i - 1]
      BY <2>5, <2>6
    <3>2. Len(dq'[i]) = r[i - 1] - r[i] /\ \A k \in DOMAIN dq'[i] : dq'[i][k] = w[r[i] + k - 1]
      <4>1. CASE i = 1
        <5>1. PICK u : u = dq[i]
          OBVIOUS
        <5>2. u \in Seq(Data) /\ dq'[i] = Append(u, d) /\ Len(u) = n + 1 - q[i] /\ Len(u) \in Nat
          BY <1>0, <1>12, <1>13, <2>5, <2>6, <4>1, <5>1, SMTT(40)
        <5>3. Len(dq'[i]) = Len(u) + 1 /\ DOMAIN dq'[i] = 1 .. Len(u) + 1
          BY <1>5, <5>2
        <5>4. ASSUME NEW k \in 1 .. Len(u) + 1
              PROVE  dq'[i][k] = w[q[i] + k - 1]
          <6>1. CASE k = Len(u) + 1
            <7>1. q[i] + k - 1 = n + 1
              BY <2>6, <5>2, <6>1, SMTT(40)
            <7>2. dq'[i][k] = d
              BY <5>2, <6>1
            <7> QED
              BY <1>10, <7>1, <7>2
          <6>2. CASE k # Len(u) + 1
            <7>0. q[i] \in Nat /\ q[i] >= 1 /\ Len(u) = n + 1 - q[i] /\ Len(u) \in Nat
              BY <2>6, <5>2
            <7>1. k \in 1 .. Len(u) /\ q[i] + k - 1 \in 1 .. n
              BY <6>2, <7>0, SMTT(40)
            <7>2. dq'[i][k] = u[k] /\ k \in DOMAIN u
              BY <5>2, <7>1, SMTT(40)
            <7>3. u[k] = m[q[i] + k - 1]
              BY <2>5, <5>1, <7>2
            <7> QED
              BY <1>10, <7>1, <7>2, <7>3
          <6> QED
            BY <6>1, <6>2
        <5>5. r[i] = q[i] /\ r[i - 1] = n + 2 /\ q[i] \in Nat
          BY <2>6, <4>1
        <5>6. Len(dq'[i]) = r[i - 1] - r[i]
          BY <5>2, <5>3, <5>5, SMTT(40)
        <5> QED
          BY <5>3, <5>4, <5>5, <5>6
      <4>2. CASE i # 1
        <5>1. dq'[i] = dq[i] /\ dq[i] \in Seq(Data)
          BY <1>12, <1>13, <4>2
        <5>2. ASSUME NEW k \in DOMAIN dq[i] PROVE q[i] + k - 1 \in 1 .. n
          <6>1. k \in 1 .. Len(dq[i])
            BY <5>1
          <6>2. q[i - 1] \in 1 .. n + 1 /\ q[i] \in Nat /\ q[i] >= 1
            BY <2>6, <4>2
          <6>3. Len(dq[i]) = q[i - 1] - q[i]
            BY <2>5
          <6> QED
            BY <6>1, <6>2, <6>3, SMTT(40)
        <5> QED
          BY <1>10, <2>5, <2>6, <4>2, <5>1, <5>2
      <4> QED
        BY <4>1, <4>2
    <3>3. ASSUME NEW k \in 1 .. n + 1
          PROVE  IF k < r[i] THEN w[k].ts + Secs[i] < LostBy(i)'
                             ELSE w[k].ts + Secs[i] >= PrunedBy(i)'
      <4>1. CASE k = n + 1
        BY <1>5, <1>10, <2>2, <2>3, <2>6, <2>7, <4>1
      <4>2. CASE k # n + 1
        <5>1. k \in 1 .. n /\ w[k] = m[k] /\ m[k].ts \in Nat
          BY <1>8, <1>10, <4>2
        <5>2. IF k < q[i] THEN m[k].ts + Secs[i] < pruned ELSE m[k].ts + Secs[i] >= pruned
          BY <2>5, <5>1
        <5>3. q[i] \in Nat /\ r[i] = q[i]
          BY <2>6
        <5>4. PICK b \in Nat : b = m[k].ts + Secs[i]
          BY <2>7, <5>1
        <5>5. k < q[i] => b < LostBy(i)'
          BY <2>3, <2>4, <5>2, <5>4
        <5> QED
          BY <2>2, <5>1, <5>2, <5>3, <5>4, <5>5
      <4> QED
        BY <4>1, <4>2
    <3> QED
      BY <1>10, <3>1, <3>2, <3>3 DEF QueueInv
  <2>9. CountInv(i, r[i])'
    <3>1. Reads(m, q[i], n, total[i], tallies[i])
      <4>1. CountInv(i, q[i])
        BY <1>16
      <4> QED
        BY <1>8, <2>1, <4>1, CountReads
    <3>2. Len(m) + 1 = Len(w) /\ q[i] \in 1 .. Len(m) + 1
      BY <1>8, <1>10, <2>6
    <3>3. \A S : /\ SumTo(Upto(w, S, q[i], n), Len(w)) = SumTo(Upto(m, S, q[i], n), Len(m))
                 /\ SumTo(Upto(w, S, q[i], n + 1), Len(w))
                      = SumTo(Upto(m, S, q[i], n), Len(m)) + Share(d, S)
      BY <1>5, <1>8, <1>9, <1>10, <3>2, UptoAppend
    <3>4. Reads(w, q[i], Counts(i)', total'[i], tallies'[i])
      <4>1. CASE i = 1
        <5>1. Adds(m, q[i], n, w, q[i], n + 1, d)
          BY <3>3 DEF Adds
        <5>2. total'[i] = total[i] + d.load
          BY <1>5, <1>11, <4>1
        <5>3. \A z \in Sources : tallies[i][z] \in Int
          BY <1>0 DEF TallyTypeOK
        <5>4. \A z \in Sources :
                tallies'[i][z] = IF z = d.src THEN tallies[i][z] + d.load ELSE tallies[i][z]
          BY <1>5, <1>11, <4>1
        <5>5. ReadMore(d, total[i], tallies[i], total'[i], tallies'[i])
          BY <5>2, <5>3, <5>4 DEF ReadMore
        <5>6. Reads(w, q[i], n + 1, total'[i], tallies'[i])
          BY <1>5, <3>1, <5>1, <5>5, ReadsMore
        <5> QED
          BY <2>2, <4>1, <5>6
      <4>2. CASE i # 1
        <5>1. total'[i] = total[i] /\ \A z \in Sources : tallies'[i][z] = tallies[i][z]
          BY <1>11, <4>2
        <5>2. Reads(w, q[i], n, total'[i], tallies'[i])
          BY <3>1, <3>3, <5>1 DEF Reads
        <5> QED
          BY <2>2, <4>2, <5>2
      <4> QED
        BY <4>1, <4>2
    <3> QED
      BY <1>10, <2>6, <3>4, CountReads
  <2> QED
    BY <2>8, <2>9
<1>20. r \in [0 .. Len(Secs) -> 1 .. Len(Came') + 1] /\ r[0] = Len(Came') + 1
  <2>1. n + 2 = Len(Came') + 1
    BY <1>10
  <2> QED
    BY <1>18, <2>1
<1> QED
  BY <1>14, <1>15, <1>19, <1>20 DEF TallyInv

LEMMA TallyInc ==
  ASSUME TallyInv, IncNext
  PROVE  TallyInv'
<1>0. TallyTypeOK /\ ClockInv /\ at \in Tally
  BY DEF TallyInv, TallyTypeOK
<1>1. /\ adding = "inc" /\ clock' = clock /\ dq' = dq /\ data' = data /\ seen' = seen
      /\ pruned' = pruned
  BY DEF IncNext
<1>2. tally_inc(at, data.src, data.load)
  BY DEF IncNext
<1>3. PICK z \in Nat : z = Len(Secs) /\ z >= 1 /\ Tally = 1 .. z
  BY SecsMeans
<1>4. \/ at < z /\ adding' = "inc" /\ at' = at + 1
      \/ at = z /\ adding' = "prune" /\ at' = 1
  <2>1. IF at < z THEN at' = at + 1 /\ adding' = adding ELSE adding' = "prune" /\ at' = 1
    BY <1>3 DEF IncNext
  <2>2. at < z \/ (~(at < z) /\ at = z)
    BY <1>0, <1>3
  <2> QED
    BY <1>1, <2>1, <2>2
<1>5. PICK d : d = data
  OBVIOUS
<1>6. d \in Data /\ d.load \in Int /\ d.src \in Sources
  <2>1. d \in Data
    BY <1>0, <1>1, <1>5 DEF ClockInv
  <2> QED
    BY <2>1, DataMeans
<1>7. PICK n \in Nat : n = Len(seen)
  BY <1>0, CameMeans
<1>8. PICK m : m = Came
  OBVIOUS
<1>9. m \in Seq(Data) /\ Len(m) = n + 1 /\ m[n + 1] = d
  BY <1>0, <1>1, <1>5, <1>7, <1>8, CameMeans
<1>10. Came' = m
  <2>1. adding' # "idle"
    BY <1>4
  <2> QED
    BY <1>1, <1>8, <2>1 DEF Came
<1>11. /\ tallies' \in [Tally -> [Sources -> Int]] /\ total' \in [Tally -> Int]
       /\ \A h \in Tally : total'[h] = IF h = at THEN total[h] + d.load ELSE total[h]
       /\ \A h \in Tally, y \in Sources :
            tallies'[h][y] = IF h = at /\ y = d.src THEN tallies[h][y] + d.load ELSE tallies[h][y]
  BY <1>0, <1>2, <1>5, <1>6, TallyIncMeans
<1>12. TallyTypeOK'
  <2>1. at' \in Tally
    BY <1>0, <1>3, <1>4
  <2>2. adding' \in {"idle", "inc", "prune"}
    BY <1>4
  <2> QED
    BY <1>0, <1>1, <1>11, <2>1, <2>2 DEF TallyTypeOK
<1>13. ClockInv'
  <2>1. adding' = "inc" => at' > 1
    BY <1>0, <1>3, <1>4
  <2> QED
    BY <1>0, <1>1, <2>1 DEF ClockInv
<1>14. PICK q \in [0 .. Len(Secs) -> 1 .. Len(m) + 1] :
         q[0] = Len(m) + 1 /\ \A i \in Tally : QueueInv(i, q) /\ CountInv(i, q[i])
  BY <1>8 DEF TallyInv
<1>15. ASSUME NEW i \in Tally
       PROVE  QueueInv(i, q)' /\ CountInv(i, q[i])'
  <2>1. Counts(i) = (IF i >= at THEN n ELSE n + 1) /\ LostBy(i) = pruned /\ PrunedBy(i) = pruned
    BY <1>1, <1>7, <1>8, <1>9 DEF Counts, LostBy, PrunedBy
  <2>2. Counts(i)' = (IF i = at THEN n + 1 ELSE Counts(i)) /\ PrunedBy(i)' = pruned
    <3>1. i \in 1 .. z /\ at \in 1 .. z /\ Len(seen') = n /\ Len(Came') = n + 1
      BY <1>0, <1>1, <1>3, <1>7, <1>9, <1>10
    <3>2. CASE at < z /\ adding' = "inc" /\ at' = at + 1
      <4>1. Counts(i)' = IF i >= at + 1 THEN n ELSE n + 1
        BY <3>1, <3>2 DEF Counts
      <4>2. PrunedBy(i)' = pruned
        BY <1>1, <3>2 DEF PrunedBy
      <4> QED
        BY <2>1, <3>1, <4>1, <4>2
    <3>3. CASE at = z /\ adding' = "prune" /\ at' = 1
      <4>1. Counts(i)' = n + 1
        BY <3>1, <3>3 DEF Counts
      <4>2. PrunedBy(i)' = pruned
        BY <1>1, <3>1, <3>3 DEF PrunedBy
      <4> QED
        BY <2>1, <3>1, <3>3, <4>1, <4>2
    <3> QED
      BY <1>4, <3>2, <3>3
  <2>3. pruned \in Nat /\ LostBy(i)' \in Nat /\ LostBy(i)' >= pruned
    <3>1. pruned \in Nat /\ clock \in Nat /\ data.ts \in pruned .. clock
      BY <1>0, <1>1, TallyAssumption DEF TallyTypeOK, ClockInv
    <3>2. LostBy(i)' = pruned \/ LostBy(i)' = data.ts
      BY <1>1 DEF LostBy
    <3> QED
      BY <3>1, <3>2
  <2>4. Secs[i] \in Nat /\ \A k \in 1 .. Len(m) : m[k].ts \in Nat
    BY <1>0, <1>8, SecsMeans, CameMeans
  <2>5. /\ q[i] \in 1 .. q[i - 1]
        /\ Len(dq[i]) = q[i - 1] - q[i]
        /\ \A k \in DOMAIN dq[i] : dq[i][k] = m[q[i] + k - 1]
        /\ \A k \in 1 .. Len(m) : IF k < q[i] THEN m[k].ts + Secs[i] < pruned
                                              ELSE m[k].ts + Secs[i] >= pruned
    BY <1>8, <1>14, <2>1 DEF QueueInv
  <2>6. ASSUME NEW k \in 1 .. Len(m)
        PROVE  IF k < q[i] THEN m[k].ts + Secs[i] < LostBy(i)'
                           ELSE m[k].ts + Secs[i] >= PrunedBy(i)'
    <3>1. IF k < q[i] THEN m[k].ts + Secs[i] < pruned ELSE m[k].ts + Secs[i] >= pruned
      BY <2>5
    <3>2. PICK b \in Nat : b = m[k].ts + Secs[i]
      BY <2>4
    <3>3. k < q[i] => b < LostBy(i)'
      BY <2>3, <3>1, <3>2
    <3> QED
      BY <2>2, <3>1, <3>2, <3>3
  <2>7. QueueInv(i, q)'
    BY <1>1, <1>10, <2>5, <2>6 DEF QueueInv
  <2>8. Reads(m, q[i], Counts(i), total[i], tallies[i])
    BY <1>8, <1>14, CountReads
  <2>9. Reads(m, q[i], Counts(i)', total'[i], tallies'[i])
    <3>1. CASE i = at
      <4>1. Counts(i) = n /\ Counts(i)' = n + 1
        BY <1>0, <1>3, <2>1, <2>2, <3>1
      <4>2. q[i] \in 1 .. n + 1
        <5>1. i \in 0 .. Len(Secs)
          BY <1>3
        <5>2. q[i] \in 1 .. n + 2
          BY <1>9, <1>14, <5>1
        <5>3. d.ts \in Nat /\ d.ts >= pruned
          <6>1. pruned \in Nat /\ clock \in Nat /\ data.ts \in pruned .. clock
            BY <1>0, <1>1, TallyAssumption DEF TallyTypeOK, ClockInv
          <6> QED
            BY <1>5, <6>1
        <5>4. n + 1 \in 1 .. Len(m) /\ m[n + 1].ts = d.ts
          BY <1>9
        <5>5. ~(n + 1 < q[i])
          <6>1. n + 1 < q[i] => d.ts + Secs[i] < pruned
            BY <2>5, <5>4
          <6> QED
            BY <2>3, <2>4, <5>3, <6>1
        <5> QED
          BY <5>2, <5>5
      <4>3. \A S : SumTo(Upto(m, S, q[i], n + 1), n + 1) = SumTo(Upto(m, S, q[i], n), n + 1) + Share(m[n + 1], S)
        BY <1>9, <4>2, UptoCount
      <4>4. Adds(m, q[i], n, m, q[i], n + 1, d)
        BY <1>9, <4>3 DEF Adds
      <4>5. total'[i] = total[i] + d.load
        BY <1>11, <3>1
      <4>6. \A y \in Sources : tallies[i][y] \in Int
        BY <1>0 DEF TallyTypeOK
      <4>7. \A y \in Sources :
              tallies'[i][y] = IF y = d.src THEN tallies[i][y] + d.load ELSE tallies[i][y]
        BY <1>11, <3>1
      <4>8. Reads(m, q[i], n, total[i], tallies[i])
        BY <2>8, <4>1
      <4>9. ReadMore(d, total[i], tallies[i], total'[i], tallies'[i])
        BY <4>5, <4>6, <4>7 DEF ReadMore
      <4>10. Reads(m, q[i], n + 1, total'[i], tallies'[i])
        BY <1>6, <4>4, <4>8, <4>9, ReadsMore
      <4> QED
        BY <4>1, <4>10
    <3>2. CASE i # at
      <4>1. total'[i] = total[i] /\ \A y \in Sources : tallies'[i][y] = tallies[i][y]
        BY <1>11, <3>2
      <4>2. Counts(i)' = Counts(i)
        BY <2>2, <3>2
      <4> QED
        BY <2>8, <4>1, <4>2 DEF Reads
    <3> QED
      BY <3>1, <3>2
  <2> QED
    BY <1>10, <2>7, <2>9, CountReads
<1> QED
  BY <1>10, <1>12, <1>13, <1>14, <1>15 DEF TallyInv

LEMMA TallyPrune ==
  ASSUME TallyInv, Prune
  PROVE  TallyInv'
<1>0. TallyTypeOK /\ ClockInv /\ at \in Tally /\ dq \in [Tally -> Seq(Data)]
  BY DEF TallyInv, TallyTypeOK
<1>1. /\ adding = "prune" /\ clock' = clock /\ adding' = adding /\ at' = at /\ data' = data
      /\ seen' = seen /\ pruned' = pruned
  BY DEF Prune
<1>2. PICK old : old = Head(dq[at])
  OBVIOUS
<1>3. /\ dq[at] # <<>> /\ old.ts + Secs[at] < data.ts
      /\ dq' = [i \in Tally |-> IF i = at THEN Tail(dq[i])
                                ELSE IF i = at + 1 THEN Append(dq[i], old) ELSE dq[i]]
      /\ tally_inc(at, old.src, -old.load)
  BY <1>2 DEF Prune, Expired
<1>4. old \in Data /\ old.load \in Int /\ (-old.load) \in Int /\ old.src \in Sources
  <2>1. dq[at] \in Seq(Data)
    BY <1>0
  <2>2. old \in Data
    BY <1>2, <1>3, <2>1
  <2>3. old.load \in Nat /\ old.src \in Sources
    BY <2>2, DataMeans
  <2> QED
    BY <2>2, <2>3
<1>5. PICK z \in Nat : z = Len(Secs) /\ z >= 1 /\ Tally = 1 .. z
  BY SecsMeans
<1>6. PICK m : m = Came
  OBVIOUS
<1>7. PICK c \in Nat : c = Len(m)
  BY <1>0, <1>6, CameMeans
<1>8. /\ m \in Seq(Data) /\ Came' = m
      /\ \A k \in 1 .. c : m[k] \in Data /\ m[k].ts \in Nat
  BY <1>0, <1>1, <1>6, <1>7, CameMeans DEF Came
<1>9. /\ tallies' \in [Tally -> [Sources -> Int]] /\ total' \in [Tally -> Int]
      /\ \A h \in Tally : total'[h] = IF h = at THEN total[h] + (-old.load) ELSE total[h]
      /\ \A h \in Tally, y \in Sources :
           tallies'[h][y] = IF h = at /\ y = old.src THEN tallies[h][y] + (-old.load)
                                                     ELSE tallies[h][y]
  BY <1>0, <1>3, <1>4, TallyIncMeans, SMTT(40)
<1>10. \A i \in Tally : dq'[i] = IF i = at THEN Tail(dq[i])
                                 ELSE IF i = at + 1 THEN Append(dq[i], old) ELSE dq[i]
  BY <1>3
<1>11. TallyTypeOK' /\ ClockInv'
  <2>1. ASSUME NEW i \in Tally PROVE dq'[i] \in Seq(Data)
    <3>1. dq[i] \in Seq(Data)
      BY <1>0
    <3>2. CASE i = at
      <4>1. dq'[i] = Tail(dq[i]) /\ dq[i] # <<>>
        BY <1>3, <1>10, <3>2
      <4> QED
        BY <3>1, <4>1
    <3>3. CASE i # at
      <4>1. dq'[i] = Append(dq[i], old) \/ dq'[i] = dq[i]
        BY <1>10, <3>3
      <4> QED
        BY <1>4, <3>1, <4>1, SMTT(40)
    <3> QED
      BY <3>2, <3>3
  <2>2. dq' \in [Tally -> Seq(Data)]
    BY <1>3, <2>1
  <2> QED
    BY <1>0, <1>1, <1>9, <2>2 DEF TallyTypeOK, ClockInv
<1>12. PICK q \in [0 .. z -> 1 .. c + 1] :
         q[0] = c + 1 /\ \A i \in Tally : QueueInv(i, q) /\ CountInv(i, q[i])
  BY <1>5, <1>6, <1>7 DEF TallyInv
<1>13. ASSUME NEW i \in Tally
       PROVE  /\ q[i] \in 1 .. c + 1 /\ q[i - 1] \in 1 .. c + 1 /\ q[i] <= q[i - 1]
              /\ Len(dq[i]) = q[i - 1] - q[i]
              /\ dq[i] \in Seq(Data) /\ DOMAIN dq[i] = 1 .. Len(dq[i]) /\ Len(dq[i]) \in Nat
              /\ \A k \in 1 .. Len(dq[i]) : dq[i][k] = m[q[i] + k - 1]
              /\ \A k \in 1 .. c : IF k < q[i] THEN m[k].ts + Secs[i] < LostBy(i)
                                               ELSE m[k].ts + Secs[i] >= PrunedBy(i)
  <2>1. i \in 0 .. z /\ i - 1 \in 0 .. z
    BY <1>5
  <2>2. q[i] \in 1 .. c + 1 /\ q[i - 1] \in 1 .. c + 1
    BY <1>12, <2>1
  <2>3. dq[i] \in Seq(Data) /\ DOMAIN dq[i] = 1 .. Len(dq[i]) /\ Len(dq[i]) \in Nat
    BY <1>0
  <2>4. QueueInv(i, q)
    BY <1>12
  <2>5. q[i] <= q[i - 1]
    BY <2>2, <2>4 DEF QueueInv
  <2> QED
    BY <1>6, <1>7, <2>2, <2>3, <2>4, <2>5 DEF QueueInv
<1>14. PICK j \in Nat : j = q[at]
  <2>1. q[at] \in 1 .. c + 1
    BY <1>0, <1>13
  <2>2. q[at] \in Nat
    BY <2>1
  <2> QED
    BY <2>2
<1>15. j \in 1 .. c /\ j + 1 <= q[at - 1] /\ old = m[j] /\ j + 1 \in 1 .. c + 1
  <2>1. Len(dq[at]) # 0
    BY <1>0, <1>3, <1>13
  <2>2. Len(dq[at]) \in Nat /\ Len(dq[at]) = q[at - 1] - j /\ q[at - 1] \in 1 .. c + 1 /\ j \in 1 .. c + 1
    BY <1>0, <1>13, <1>14
  <2>3. j \in 1 .. c /\ j + 1 <= q[at - 1] /\ j + 1 \in 1 .. c + 1
    BY <2>1, <2>2
  <2>4. 1 \in 1 .. Len(dq[at]) /\ old = dq[at][1]
    BY <1>0, <1>2, <1>13, <2>1
  <2>5. dq[at][1] = m[q[at] + 1 - 1]
    BY <1>0, <1>13, <2>4
  <2>6. q[at] + 1 - 1 = j
    BY <1>14
  <2> QED
    BY <2>3, <2>4, <2>5, <2>6
<1>16. PICK r : r = [i \in 0 .. z |-> IF i = at THEN j + 1 ELSE q[i]]
  OBVIOUS
<1>17. /\ r \in [0 .. z -> 1 .. c + 1] /\ r[0] = c + 1
       /\ \A i \in 0 .. z : r[i] = IF i = at THEN j + 1 ELSE q[i]
  <2>1. 0 \in 0 .. z /\ at # 0
    BY <1>0, <1>5
  <2>2. \A i \in 0 .. z : q[i] \in 1 .. c + 1
    BY <1>12
  <2> QED
    BY <1>12, <1>15, <1>16, <2>1, <2>2
<1>18. ASSUME NEW i \in Tally
       PROVE  QueueInv(i, r)' /\ CountInv(i, r[i])'
  <2>1. /\ Counts(i) = c /\ Counts(i)' = c
        /\ LostBy(i)' = LostBy(i) /\ PrunedBy(i)' = PrunedBy(i)
    BY <1>1, <1>6, <1>7, <1>8 DEF Counts, LostBy, PrunedBy
  <2>2. /\ i \in 0 .. z /\ i - 1 \in 0 .. z /\ i \in Nat /\ at \in Nat
        /\ r[i] = IF i = at THEN j + 1 ELSE q[i]
        /\ r[i - 1] = IF i = at + 1 THEN j + 1 ELSE q[i - 1]
    <3>1. i \in 1 .. z /\ at \in 1 .. z
      BY <1>0, <1>5
    <3>2. i \in 0 .. z /\ i - 1 \in 0 .. z /\ (i - 1 = at <=> i = at + 1)
      BY <3>1
    <3> QED
      BY <1>17, <3>1, <3>2
  <2>3. QueueInv(i, r)'
    <3>1. CASE i = at
      <4>0. r[i] = j + 1 /\ r[i - 1] = q[i - 1] /\ dq'[i] = Tail(dq[i]) /\ q[i] = j
        <5>1. i # at + 1
          BY <2>2, <3>1
        <5> QED
          BY <1>10, <1>14, <2>2, <3>1, <5>1
      <4>1. PICK u : u = dq[i]
        OBVIOUS
      <4>2. /\ u \in Seq(Data) /\ u # <<>> /\ Len(u) = q[i - 1] - j /\ q[i - 1] \in 1 .. c + 1
            /\ \A k \in 1 .. Len(u) : u[k] = m[j + k - 1]
        BY <1>3, <1>13, <3>1, <4>0, <4>1
      <4>3. PICK v : v = Tail(u)
        OBVIOUS
      <4>4. v \in Seq(Data) /\ Len(v) = Len(u) - 1 /\ \A k \in 1 .. Len(v) : v[k] = u[k + 1]
        BY <4>2, <4>3
      <4>5. r[i] \in 1 .. r[i - 1]
        BY <1>15, <3>1, <4>0, <4>2
      <4>6. Len(v) = r[i - 1] - r[i]
        BY <4>0, <4>2, <4>4, SMTT(40)
      <4>7. ASSUME NEW k \in DOMAIN v PROVE v[k] = m[r[i] + k - 1]
        <5>0. u \in Seq(Data) /\ v \in Seq(Data) /\ Len(v) = Len(u) - 1
          BY <4>2, <4>4
        <5>1. k \in 1 .. Len(v) /\ Len(u) \in Nat
          BY <5>0
        <5>2. k + 1 \in 1 .. Len(u)
          BY <5>0, <5>1
        <5>3. v[k] = m[j + (k + 1) - 1]
          BY <4>2, <4>4, <5>1, <5>2
        <5>4. j + (k + 1) - 1 = r[i] + k - 1
          BY <4>0, <5>1
        <5> QED
          BY <5>3, <5>4
      <4>8. ASSUME NEW k \in 1 .. c
            PROVE  IF k < r[i] THEN m[k].ts + Secs[i] < LostBy(i) ELSE m[k].ts + Secs[i] >= PrunedBy(i)
        <5>1. CASE k = j
          <6>1. LostBy(i) = data.ts
            BY <1>0, <1>1, <1>5, <3>1 DEF LostBy
          <6>2. m[k].ts + Secs[i] < LostBy(i)
            BY <1>3, <1>15, <3>1, <5>1, <6>1
          <6>3. k < r[i]
            BY <4>0, <5>1
          <6> QED
            BY <6>2, <6>3
        <5>2. CASE k # j
          <6>1. k < r[i] <=> k < q[i]
            BY <4>0, <5>2
          <6> QED
            BY <1>13, <6>1
        <5> QED
          BY <5>1, <5>2
      <4>9. dq'[i] = v /\ Came' = m /\ Len(m) = c
        BY <1>7, <1>8, <4>0, <4>1, <4>3
      <4> QED
        BY <2>1, <4>5, <4>6, <4>7, <4>8, <4>9 DEF QueueInv
    <3>2. CASE i = at + 1
      <4>0. r[i] = q[i] /\ r[i - 1] = j + 1 /\ dq'[i] = Append(dq[i], old) /\ q[i - 1] = j
        <5>1. i # at /\ i - 1 = at
          BY <2>2, <3>2
        <5> QED
          BY <1>10, <1>14, <2>2, <3>2, <5>1
      <4>1. PICK u : u = dq[i]
        OBVIOUS
      <4>2. /\ u \in Seq(Data) /\ Len(u) = j - q[i] /\ Len(u) \in Nat /\ q[i] \in 1 .. c + 1 /\ q[i] <= j
            /\ \A k \in 1 .. Len(u) : u[k] = m[q[i] + k - 1]
        BY <1>13, <4>0, <4>1
      <4>3. PICK v : v = Append(u, old)
        OBVIOUS
      <4>4. /\ v \in Seq(Data) /\ Len(v) = Len(u) + 1 /\ v[Len(u) + 1] = old
            /\ \A k \in 1 .. Len(u) : v[k] = u[k]
        BY <1>4, <4>2, <4>3, SMTT(40)
      <4>5. r[i] \in 1 .. r[i - 1]
        BY <4>0, <4>2
      <4>6. Len(v) = r[i - 1] - r[i]
        BY <4>0, <4>2, <4>4, SMTT(40)
      <4>7. ASSUME NEW k \in DOMAIN v PROVE v[k] = m[r[i] + k - 1]
        <5>1. k \in 1 .. Len(u) + 1
          BY <4>4
        <5>2. CASE k = Len(u) + 1
          <6>1. r[i] + k - 1 = j
            BY <4>0, <4>2, <5>2
          <6> QED
            BY <1>15, <4>4, <5>2, <6>1
        <5>3. CASE k # Len(u) + 1
          <6>1. k \in 1 .. Len(u)
            BY <4>2, <5>1, <5>3
          <6> QED
            BY <4>0, <4>2, <4>4, <6>1
        <5> QED
          BY <5>2, <5>3
      <4>8. dq'[i] = v /\ Came' = m /\ Len(m) = c
        BY <1>7, <1>8, <4>0, <4>1, <4>3
      <4> QED
        BY <1>13, <2>1, <4>0, <4>5, <4>6, <4>7, <4>8 DEF QueueInv
    <3>3. CASE i # at /\ i # at + 1
      <4>1. r[i] = q[i] /\ r[i - 1] = q[i - 1] /\ dq'[i] = dq[i]
        BY <1>10, <2>2, <3>3
      <4>2. Came' = m /\ Came = m
        BY <1>6, <1>8
      <4> QED
        BY <1>12, <2>1, <4>1, <4>2 DEF QueueInv
    <3> QED
      BY <3>1, <3>2, <3>3
  <2>4. Reads(m, q[i], c, total[i], tallies[i])
    BY <1>6, <1>12, <2>1, CountReads
  <2>5. Reads(m, r[i], c, total'[i], tallies'[i])
    <3>1. CASE i = at
      <4>1. \A S : SumTo(Upto(m, S, j + 1, c), Len(m)) = SumTo(Upto(m, S, j, c), Len(m)) - Share(m[j], S)
        <5>1. c \in 0 .. Len(m) /\ j \in 1 .. c
          BY <1>7, <1>15
        <5> QED
          BY <1>8, <5>1, UptoDrop
      <4>2. Takes(m, j, c, m, j + 1, c, old)
        BY <1>15, <4>1 DEF Takes
      <4>3. total'[i] = total[i] - old.load
        <5>1. total[i] \in Int /\ total'[i] = total[i] + (-old.load)
          BY <1>0, <1>9, <3>1 DEF TallyTypeOK
        <5> QED
          BY <1>4, <5>1
      <4>4. \A y \in Sources : tallies[i][y] \in Int
        BY <1>0 DEF TallyTypeOK
      <4>5. \A y \in Sources :
              tallies'[i][y] = IF y = old.src THEN tallies[i][y] - old.load ELSE tallies[i][y]
        <5>1. \A y \in Sources :
                tallies'[i][y] = IF y = old.src THEN tallies[i][y] + (-old.load) ELSE tallies[i][y]
          BY <1>9, <3>1
        <5> QED
          BY <1>4, <4>4, <5>1
      <4>6. Reads(m, j, c, total[i], tallies[i])
        BY <1>14, <2>4, <3>1
      <4>7. ReadLess(old, total[i], tallies[i], total'[i], tallies'[i])
        BY <4>3, <4>4, <4>5 DEF ReadLess
      <4>8. Reads(m, j + 1, c, total'[i], tallies'[i])
        BY <1>4, <4>2, <4>6, <4>7, ReadsLess
      <4> QED
        BY <2>2, <3>1, <4>8
    <3>2. CASE i # at
      <4>1. total'[i] = total[i] /\ \A y \in Sources : tallies'[i][y] = tallies[i][y]
        BY <1>9, <3>2
      <4>2. r[i] = q[i]
        BY <2>2, <3>2
      <4> QED
        BY <2>4, <4>1, <4>2 DEF Reads
    <3> QED
      BY <3>1, <3>2
  <2> QED
    BY <1>8, <2>1, <2>3, <2>5, CountReads
<1>19. r \in [0 .. Len(Secs) -> 1 .. Len(Came') + 1] /\ r[0] = Len(Came') + 1
  BY <1>5, <1>7, <1>8, <1>17
<1> QED
  BY <1>11, <1>18, <1>19 DEF TallyInv

LEMMA TallyPruned ==
  ASSUME TallyInv, Pruned
  PROVE  TallyInv'
<1>0. TallyTypeOK /\ ClockInv /\ at \in Tally /\ dq \in [Tally -> Seq(Data)]
  BY DEF TallyInv, TallyTypeOK
<1>1. /\ adding = "prune" /\ ~Expired(at) /\ clock' = clock /\ dq' = dq /\ tallies' = tallies
      /\ total' = total /\ data' = data
  BY DEF Pruned
<1>2. PICK z \in Nat : z = Len(Secs) /\ z >= 1 /\ Tally = 1 .. z
  BY SecsMeans
<1>3. \/ at < z /\ at' = at + 1 /\ adding' = "prune" /\ seen' = seen /\ pruned' = pruned
      \/ at = z /\ at' = 1 /\ adding' = "idle" /\ seen' = Append(seen, data) /\ pruned' = data.ts
  <2>1. IF at < z THEN at' = at + 1 /\ adding' = adding /\ seen' = seen /\ pruned' = pruned
        ELSE adding' = "idle" /\ at' = 1 /\ seen' = Append(seen, data) /\ pruned' = data.ts
    BY <1>2 DEF Pruned
  <2>2. at < z \/ (~(at < z) /\ at = z)
    BY <1>0, <1>2
  <2> QED
    BY <1>1, <2>1, <2>2
<1>4. PICK m : m = Came
  OBVIOUS
<1>5. PICK c \in Nat : c = Len(m)
  BY <1>0, <1>4, CameMeans
<1>6. /\ m \in Seq(Data) /\ m = Append(seen, data)
      /\ \A k \in 1 .. c : m[k] \in Data /\ m[k].ts \in Nat
      /\ \A j, k \in 1 .. c : j <= k => m[j].ts <= m[k].ts
  BY <1>0, <1>1, <1>4, <1>5, CameMeans DEF Came
<1>7. Came' = m
  BY <1>1, <1>3, <1>6 DEF Came
<1>8. /\ data \in Data /\ data.ts \in Nat /\ pruned \in Nat /\ clock \in Nat
      /\ pruned <= data.ts /\ data.ts <= clock /\ data.ts \in 0 .. MaxClock
  <2>1. data \in Data /\ data.ts \in pruned .. clock /\ pruned \in Nat /\ clock \in Nat
    BY <1>0, <1>1, TallyAssumption DEF TallyTypeOK, ClockInv
  <2>2. data.ts \in 0 .. MaxClock
    BY <2>1, DataMeans
  <2> QED
    BY <2>1, <2>2
<1>9. TallyTypeOK'
  <2>1. at' \in Tally /\ adding' \in {"idle", "inc", "prune"}
    BY <1>0, <1>2, <1>3
  <2>2. seen' \in Seq(Data) /\ pruned' \in 0 .. MaxClock
    BY <1>0, <1>3, <1>6, <1>8 DEF TallyTypeOK
  <2> QED
    BY <1>0, <1>1, <2>1, <2>2 DEF TallyTypeOK
<1>10. ClockInv'
  <2>1. CASE at < z /\ at' = at + 1 /\ adding' = "prune" /\ seen' = seen /\ pruned' = pruned
    BY <1>0, <1>1, <2>1 DEF ClockInv
  <2>2. CASE at = z /\ at' = 1 /\ adding' = "idle" /\ seen' = Append(seen, data) /\ pruned' = data.ts
    <3>1. seen' = m /\ DOMAIN m = 1 .. c
      BY <1>5, <1>6, <2>2
    <3>2. c \in 1 .. c /\ m[c] = data
      BY <1>0, <1>1, <1>4, <1>5, CameMeans
    <3>3. \A k \in 1 .. c : m[k].ts <= data.ts
      <4>1. \A k \in 1 .. c : k <= c
        OBVIOUS
      <4>2. \A k \in 1 .. c : m[k].ts <= m[c].ts
        BY <1>6, <3>2, <4>1
      <4> QED
        BY <3>2, <4>2
    <3>4. \A j, k \in DOMAIN seen' : j <= k => seen'[j].ts <= seen'[k].ts
      BY <1>6, <3>1
    <3>5. \A k \in DOMAIN seen' : seen'[k].ts <= pruned'
      BY <2>2, <3>1, <3>3
    <3> QED
      BY <1>1, <1>8, <2>2, <3>4, <3>5 DEF ClockInv
  <2> QED
    BY <1>3, <2>1, <2>2
<1>11. PICK q \in [0 .. z -> 1 .. c + 1] :
         q[0] = c + 1 /\ \A i \in Tally : QueueInv(i, q) /\ CountInv(i, q[i])
  BY <1>2, <1>4, <1>5 DEF TallyInv
<1>12. \A i \in Tally : i \in 0 .. z /\ i - 1 \in 0 .. z /\ i \in Nat
  BY <1>2
<1>13. ASSUME NEW i \in Tally
       PROVE  /\ q[i] \in 1 .. c + 1 /\ q[i - 1] \in 1 .. c + 1
              /\ q[i] \in 1 .. q[i - 1]
              /\ Len(dq[i]) = q[i - 1] - q[i]
              /\ \A k \in DOMAIN dq[i] : dq[i][k] = m[q[i] + k - 1]
              /\ \A k \in 1 .. c : IF k < q[i] THEN m[k].ts + Secs[i] < LostBy(i)
                                               ELSE m[k].ts + Secs[i] >= PrunedBy(i)
  <2>1. q[i] \in 1 .. c + 1 /\ q[i - 1] \in 1 .. c + 1
    BY <1>11, <1>12
  <2>2. QueueInv(i, q)
    BY <1>11
  <2> QED
    BY <1>4, <1>5, <2>1, <2>2 DEF QueueInv
<1>14. ASSUME NEW k \in 1 .. c, ~(k < q[at])
       PROVE  m[k].ts + Secs[at] >= data.ts
  <2>0. m[k].ts \in Nat /\ Secs[at] \in Nat /\ q[at] \in Nat /\ q[at - 1] \in Nat /\ q[at] >= 1
    <3>1. q[at] \in 1 .. c + 1 /\ q[at - 1] \in 1 .. c + 1
      BY <1>0, <1>13
    <3>2. q[at] \in Nat /\ q[at - 1] \in Nat /\ q[at] >= 1
      BY <3>1
    <3>3. m[k].ts \in Nat
      BY <1>6
    <3>4. Secs[at] \in Nat
      BY <1>0, SecsMeans
    <3> QED
      BY <3>2, <3>3, <3>4
  <2>1. CASE dq[at] = <<>>
    <3>1. q[at - 1] = q[at]
      <4>1. Len(dq[at]) = 0
        BY <2>1
      <4> QED
        BY <1>0, <1>13, <2>0, <4>1
    <3>2. at # 1
      <4>1. at = 1 => at - 1 = 0
        OBVIOUS
      <4> QED
        BY <1>11, <1>14, <3>1, <4>1
    <3>3. at - 1 \in Tally /\ at - 1 < at
      BY <1>0, <1>2, <3>2
    <3>4. PrunedBy(at - 1) = data.ts
      BY <1>1, <3>3 DEF PrunedBy
    <3>5. m[k].ts + Secs[at - 1] >= data.ts
      BY <1>13, <1>14, <3>1, <3>3, <3>4
    <3>6. Secs[at - 1] \in Nat /\ Secs[at - 1] <= Secs[at]
      BY <1>0, <3>3, SecsMeans
    <3> QED
      <4>1. PICK a \in Nat : a = m[k].ts
        BY <2>0
      <4>2. PICK b \in Nat : b = Secs[at - 1]
        BY <3>6
      <4>3. PICK e \in Nat : e = Secs[at]
        BY <2>0
      <4>4. b <= e /\ a + b >= data.ts /\ data.ts \in Nat
        BY <1>8, <3>5, <3>6, <4>1, <4>2, <4>3
      <4>5. a + e >= data.ts
        BY <4>4
      <4> QED
        BY <4>1, <4>3, <4>5
  <2>2. CASE dq[at] # <<>>
    <3>1. dq[at] \in Seq(Data)
      BY <1>0
    <3>2. 1 \in DOMAIN dq[at] /\ Head(dq[at]) = dq[at][1]
      BY <2>2, <3>1
    <3>3. q[at] + 1 - 1 = q[at]
      BY <2>0
    <3>4. Head(dq[at]) = m[q[at]]
      BY <1>0, <1>13, <3>2, <3>3
    <3>5. q[at] \in 1 .. c /\ q[at] <= k
      BY <1>14, <2>0
    <3>6. m[q[at]].ts <= m[k].ts /\ m[q[at]].ts \in Nat
      BY <1>6, <3>5
    <3>7. ~(m[q[at]].ts + Secs[at] < data.ts)
      BY <1>1, <2>2, <3>4 DEF Expired
    <3> QED
      <4>1. PICK a \in Nat : a = m[q[at]].ts
        BY <3>6
      <4>2. PICK b \in Nat : b = m[k].ts
        BY <2>0
      <4>3. PICK e \in Nat : e = Secs[at]
        BY <2>0
      <4>4. a <= b /\ ~(a + e < data.ts) /\ data.ts \in Nat
        BY <1>8, <3>6, <3>7, <4>1, <4>2, <4>3
      <4>5. b + e >= data.ts
        BY <4>4
      <4> QED
        BY <4>2, <4>3, <4>5
  <2> QED
    BY <2>1, <2>2
<1>15. ASSUME NEW i \in Tally
       PROVE  QueueInv(i, q)' /\ CountInv(i, q[i])'
  <2>1. Counts(i)' = Counts(i)
    BY <1>1, <1>3, <1>4, <1>7 DEF Counts
  <2>2. i \in Nat /\ at \in Nat /\ i <= z /\ Secs[i] \in Nat
    BY <1>0, <1>2, SecsMeans
  <2>3. LostBy(i)' \in Nat /\ (LostBy(i)' = LostBy(i) \/ (LostBy(i) = pruned /\ LostBy(i)' = data.ts))
    <3>1. LostBy(i) = (IF i <= at THEN data.ts ELSE pruned)
      BY <1>1 DEF LostBy
    <3>2. CASE at < z /\ at' = at + 1 /\ adding' = "prune" /\ seen' = seen /\ pruned' = pruned
      <4>1. LostBy(i)' = IF i <= at + 1 THEN data.ts ELSE pruned
        BY <1>1, <3>2 DEF LostBy
      <4> QED
        BY <1>8, <2>2, <3>1, <4>1
    <3>3. CASE at = z /\ at' = 1 /\ adding' = "idle" /\ seen' = Append(seen, data) /\ pruned' = data.ts
      <4>1. LostBy(i)' = data.ts
        BY <1>1, <3>3 DEF LostBy
      <4> QED
        BY <1>8, <2>2, <3>1, <3>3, <4>1
    <3> QED
      BY <1>3, <3>2, <3>3
  <2>4. PrunedBy(i)' = PrunedBy(i) \/ (i = at /\ PrunedBy(i)' = data.ts)
    <3>1. PrunedBy(i) = (IF i < at THEN data.ts ELSE pruned)
      BY <1>1 DEF PrunedBy
    <3>2. CASE at < z /\ at' = at + 1 /\ adding' = "prune" /\ seen' = seen /\ pruned' = pruned
      <4>1. PrunedBy(i)' = IF i < at + 1 THEN data.ts ELSE pruned
        BY <1>1, <3>2 DEF PrunedBy
      <4> QED
        BY <2>2, <3>1, <4>1
    <3>3. CASE at = z /\ at' = 1 /\ adding' = "idle" /\ seen' = Append(seen, data) /\ pruned' = data.ts
      <4>1. PrunedBy(i)' = data.ts
        BY <1>1, <3>3 DEF PrunedBy
      <4> QED
        BY <2>2, <3>1, <3>3, <4>1
    <3> QED
      BY <1>3, <3>2, <3>3
  <2>5. ASSUME NEW k \in 1 .. c
        PROVE  IF k < q[i] THEN m[k].ts + Secs[i] < LostBy(i)'
                           ELSE m[k].ts + Secs[i] >= PrunedBy(i)'
    <3>0. m[k].ts \in Nat
      BY <1>6
    <3>1. PICK b \in Nat : b = m[k].ts + Secs[i]
      BY <2>2, <3>0
    <3>2. IF k < q[i] THEN b < LostBy(i) ELSE b >= PrunedBy(i)
      BY <1>13, <3>1
    <3>3. k < q[i] => b < LostBy(i)'
      BY <1>8, <2>3, <3>1, <3>2
    <3>4. ~(k < q[i]) => b >= PrunedBy(i)'
      BY <1>14, <2>4, <3>1, <3>2
    <3> QED
      BY <3>1, <3>3, <3>4
  <2>6. QueueInv(i, q)'
    BY <1>1, <1>5, <1>7, <1>13, <2>5 DEF QueueInv
  <2>7. CountInv(i, q[i])
    BY <1>11
  <2>8. CountInv(i, q[i])'
    BY <1>1, <1>4, <1>7, <2>1, <2>7, CountReads
  <2> QED
    BY <2>6, <2>8
<1>16. q \in [0 .. Len(Secs) -> 1 .. Len(Came') + 1] /\ q[0] = Len(Came') + 1
  BY <1>2, <1>5, <1>7, <1>11
<1> QED
  BY <1>9, <1>10, <1>15, <1>16 DEF TallyInv

LEMMA TallyStarts ==
  ASSUME TallyInit
  PROVE  TallyInv
<1>1. /\ clock = 0 /\ pruned = 0 /\ dq = [i \in Tally |-> <<>>] /\ adding = "idle" /\ at = 1
      /\ tallies = [i \in Tally |-> [s \in Sources |-> 0]] /\ total = [i \in Tally |-> 0]
      /\ data = NoData /\ seen = <<>>
  BY DEF TallyInit
<1>2. Came = <<>> /\ Len(Came) = 0
  BY <1>1 DEF Came
<1>3. TallyTypeOK /\ ClockInv
  <2>1. 0 \in 0 .. MaxClock /\ 1 \in Tally
    BY SecsMeans, TallyAssumption
  <2>2. tallies \in [Tally -> [Sources -> Int]] /\ total \in [Tally -> Int]
    BY <1>1
  <2>3. dq \in [Tally -> Seq(Data)] /\ seen \in Seq(Data)
    BY <1>1
  <2>4. TallyTypeOK
    BY <1>1, <2>1, <2>2, <2>3 DEF TallyTypeOK
  <2>5. DOMAIN seen = {}
    BY <1>1
  <2> QED
    BY <1>1, <2>4, <2>5 DEF ClockInv
<1>4. PICK q : q = [i \in 0 .. Len(Secs) |-> 1]
  OBVIOUS
<1>5. /\ q \in [0 .. Len(Secs) -> 1 .. Len(Came) + 1] /\ q[0] = Len(Came) + 1
      /\ \A i \in Tally : q[i] = 1 /\ q[i - 1] = 1
  <2>1. 0 \in 0 .. Len(Secs) /\ \A i \in Tally : i \in 0 .. Len(Secs) /\ i - 1 \in 0 .. Len(Secs)
    BY SecsMeans
  <2> QED
    BY <1>2, <1>4, <2>1
<1>6. ASSUME NEW i \in Tally
      PROVE  QueueInv(i, q) /\ CountInv(i, q[i])
  <2>1. dq[i] = <<>> /\ Len(dq[i]) = 0 /\ DOMAIN dq[i] = {}
    BY <1>1
  <2>2. QueueInv(i, q)
    BY <1>2, <1>5, <2>1 DEF QueueInv
  <2>3. Counts(i) = 0
    BY <1>1, <1>2 DEF Counts
  <2>4. \A S : SumTo(Upto(<<>>, S, 1, 0), 0) = 0
    <3>1. <<>> \in Seq(Data) /\ Len(<<>>) = 0
      OBVIOUS
    <3>2. 1 \in Nat /\ 1 >= 1 /\ 0 \in Nat /\ 0 <= 0
      OBVIOUS
    <3>3. PICK m \in Seq(Data) : m = <<>> /\ Len(m) = 0
      BY <3>1
    <3>4. \A S : Upto(m, S, 1, 0) \in [Nat -> Int]
      BY <3>2, <3>3, UptoTypes
    <3> QED
      BY <3>3, <3>4, SumMeans
  <2>5. total[i] = 0 /\ \A s \in Sources : tallies[i][s] = 0
    BY <1>1
  <2>6. Reads(<<>>, 1, 0, total[i], tallies[i])
    BY <2>4, <2>5 DEF Reads
  <2> QED
    BY <1>2, <1>5, <2>2, <2>3, <2>6, CountReads
<1> QED
  BY <1>3, <1>5, <1>6 DEF TallyInv

(* The messages of w that the sum of Within takes.                         *)
InWindow(w, i, S, ts) ==
  [k \in Nat |-> IF k \in DOMAIN w /\ w[k].src \in S /\ w[k].ts + Secs[i] >= ts
                   THEN w[k].load ELSE 0]

LEMMA InWindowTypes ==
  ASSUME NEW w \in Seq(Data), NEW i, NEW S, NEW ts
  PROVE  InWindow(w, i, S, ts) \in [Nat -> Int]
<1>1. \A k \in DOMAIN w : w[k].load \in Int
  <2>1. \A k \in DOMAIN w : w[k] \in Data
    OBVIOUS
  <2> QED
    BY <2>1, DataMeans
<1> QED
  BY <1>1 DEF InWindow

(* A tally that counts the messages j .. c of m, where w is the beginning  *)
(* of m, against the windows at a time by which all before j are too old,  *)
(* and at one by which none from j on is.                                  *)
LEMMA SumInWindow ==
  ASSUME NEW w \in Seq(Data), NEW m \in Seq(Data), NEW n \in Nat, Len(w) = n, n <= Len(m),
         \A k \in 1 .. n : m[k] = w[k],
         NEW i \in Tally, NEW S, NEW j \in Nat, j >= 1, NEW c \in Nat, n <= c, c <= Len(m),
         NEW late \in Nat, NEW early \in Nat,
         \A k \in 1 .. n : k < j => w[k].ts + Secs[i] < late,
         \A k \in 1 .. n : ~(k < j) => w[k].ts + Secs[i] >= early
  PROVE  /\ SumTo(InWindow(w, i, S, late), n) <= SumTo(Upto(m, S, j, c), n)
         /\ SumTo(Upto(m, S, j, c), n) <= SumTo(InWindow(w, i, S, early), n)
<1>1. PICK f : f = InWindow(w, i, S, late)
  OBVIOUS
<1>2. PICK g : g = Upto(m, S, j, c)
  OBVIOUS
<1>3. PICK h : h = InWindow(w, i, S, early)
  OBVIOUS
<1>4. f \in [Nat -> Int] /\ g \in [Nat -> Int] /\ h \in [Nat -> Int]
  BY <1>1, <1>2, <1>3, InWindowTypes, UptoTypes
<1>5. ASSUME NEW k \in 1 .. n
      PROVE  f[k] <= g[k] /\ g[k] <= h[k]
  <2>1. k \in Nat /\ k \in DOMAIN w /\ (k \in j .. c <=> ~(k < j)) /\ w[k] \in Data /\ m[k] = w[k]
    OBVIOUS
  <2>2. w[k].load \in Nat /\ w[k].ts \in Nat
    BY <2>1, DataMeans
  <2>3. Secs[i] \in Nat
    BY SecsMeans
  <2>4. f[k] = IF w[k].src \in S /\ w[k].ts + Secs[i] >= late THEN w[k].load ELSE 0
    BY <1>1, <2>1 DEF InWindow
  <2>5. g[k] = IF ~(k < j) /\ w[k].src \in S THEN w[k].load ELSE 0
    BY <1>2, <2>1 DEF Upto
  <2>6. h[k] = IF w[k].src \in S /\ w[k].ts + Secs[i] >= early THEN w[k].load ELSE 0
    BY <1>3, <2>1 DEF InWindow
  <2>7. PICK b \in Nat : b = w[k].ts + Secs[i]
    BY <2>2, <2>3
  <2>8. (k < j => b < late) /\ (~(k < j) => b >= early)
    BY <2>7
  <2>9. k < j => ~(b >= late)
    BY <2>8
  <2>10. f[k] <= g[k]
    <3>1. (w[k].src \in S /\ b >= late) => (~(k < j) /\ w[k].src \in S)
      BY <2>9
    <3> QED
      BY <2>2, <2>4, <2>5, <2>7, <3>1
  <2>11. g[k] <= h[k]
    <3>1. (~(k < j) /\ w[k].src \in S) => (w[k].src \in S /\ b >= early)
      BY <2>8
    <3> QED
      BY <2>2, <2>5, <2>6, <2>7, <3>1
  <2> QED
    BY <2>10, <2>11
<1> QED
  BY <1>1, <1>2, <1>3, <1>4, <1>5, SumLeq

LEMMA WindowOfTally ==
  ASSUME TallyInv
  PROVE  TallyWindow
<1>0. TallyTypeOK /\ ClockInv
  BY DEF TallyInv
<1>1. PICK m : m = Came
  OBVIOUS
<1>2. PICK w : w = seen
  OBVIOUS
<1>3. PICK n \in Nat : n = Len(w)
  BY <1>0, <1>2, CameMeans
<1>4. PICK c \in Nat : c = Len(m)
  BY <1>0, <1>1, CameMeans
<1>5. /\ m \in Seq(Data) /\ w \in Seq(Data) /\ \A k \in 1 .. n : m[k] = w[k]
      /\ adding = "idle" => c = n
      /\ adding # "idle" => c = n + 1 /\ m[n + 1] = data
      /\ \A k \in 1 .. c : m[k].ts \in Nat
  BY <1>0, <1>1, <1>2, <1>3, <1>4, CameMeans
<1>6. c = n \/ c = n + 1
  BY <1>5
<1>7. /\ clock \in Nat /\ pruned \in Nat /\ pruned <= clock
      /\ adding # "idle" => data \in Data /\ data.ts \in Nat /\ pruned <= data.ts /\ data.ts <= clock
  <2>1. clock \in Nat /\ pruned \in Nat
    BY <1>0, TallyAssumption DEF TallyTypeOK
  <2>2. adding # "idle" => data \in Data /\ data.ts \in pruned .. clock
    BY <1>0 DEF ClockInv
  <2> QED
    BY <1>0, <2>1, <2>2 DEF ClockInv
<1>8. PICK q \in [0 .. Len(Secs) -> 1 .. c + 1] :
         q[0] = c + 1 /\ \A i \in Tally : QueueInv(i, q) /\ CountInv(i, q[i])
  BY <1>1, <1>4 DEF TallyInv
<1>9. \A i, S, ts : Within(i, S, ts) = SumTo(InWindow(w, i, S, ts), n)
  BY <1>2, <1>3 DEF Within, InWindow
<1>10. ASSUME NEW i \in Tally
       PROVE  /\ adding = "idle" => total[i] = Within(i, Sources, pruned)
              /\ \A s \in Sources :
                   /\ adding = "idle" => tallies[i][s] = Within(i, {s}, pruned)
                   /\ Within(i, {s}, clock) <= tallies[i][s]
                   /\ tallies[i][s] <= Within(i, {s}, pruned)
                                         + IF adding # "idle" /\ s = data.src THEN data.load ELSE 0
  <2>1. PICK j \in Nat : j = q[i] /\ j >= 1
    <3>1. i \in 0 .. Len(Secs)
      BY SecsMeans
    <3>2. q[i] \in 1 .. c + 1
      BY <1>8, <3>1
    <3> QED
      BY <3>2
  <2>2. PICK e \in Nat : e = Counts(i) /\ n <= e /\ e <= c
    <3>1. Counts(i) = n \/ Counts(i) = c
      BY <1>1, <1>2, <1>3, <1>4 DEF Counts
    <3> QED
      BY <1>6, <3>1
  <2>3. Reads(m, j, e, total[i], tallies[i])
    BY <1>1, <1>8, <2>1, <2>2, CountReads
  <2>4. \A k \in 1 .. n : IF k < j THEN w[k].ts + Secs[i] < LostBy(i)
                                   ELSE w[k].ts + Secs[i] >= PrunedBy(i)
    <3>1. \A k \in 1 .. c : IF k < j THEN m[k].ts + Secs[i] < LostBy(i)
                                     ELSE m[k].ts + Secs[i] >= PrunedBy(i)
      BY <1>1, <1>4, <1>8, <2>1 DEF QueueInv
    <3>2. \A k \in 1 .. n : k \in 1 .. c
      BY <1>6
    <3> QED
      BY <1>5, <3>1, <3>2
  <2>5. LostBy(i) \in Nat /\ LostBy(i) <= clock
    <3>1. LostBy(i) = pruned \/ (adding # "idle" /\ LostBy(i) = data.ts)
      BY DEF LostBy
    <3> QED
      BY <1>7, <3>1
  <2>6. PrunedBy(i) \in Nat /\ pruned <= PrunedBy(i)
    <3>1. PrunedBy(i) = pruned \/ (adding # "idle" /\ PrunedBy(i) = data.ts)
      BY DEF PrunedBy
    <3> QED
      BY <1>7, <3>1
  <2>7. \A k \in 1 .. n : w[k].ts + Secs[i] \in Nat
    <3>1. Secs[i] \in Nat
      BY SecsMeans
    <3>2. ASSUME NEW k \in 1 .. n PROVE w[k].ts \in Nat
      <4>1. k \in 1 .. c
        BY <1>6
      <4> QED
        BY <1>5, <4>1
    <3> QED
      BY <3>1, <3>2
  <2>8. \A k \in 1 .. n : ~(k < j) => w[k].ts + Secs[i] >= pruned
    BY <1>7, <2>4, <2>6, <2>7
  <2>9. \A k \in 1 .. n : k < j => w[k].ts + Secs[i] < clock
    BY <1>7, <2>4, <2>5, <2>7
  <2>10. n <= Len(m) /\ e <= Len(m)
    BY <1>4, <1>6, <2>2
  <2>11. \A S : /\ SumTo(InWindow(w, i, S, clock), n) <= SumTo(Upto(m, S, j, e), n)
                /\ SumTo(Upto(m, S, j, e), n) <= SumTo(InWindow(w, i, S, pruned), n)
    BY <1>3, <1>5, <1>7, <2>1, <2>2, <2>8, <2>9, <2>10, SumInWindow
  <2>12. ASSUME adding = "idle", NEW S
         PROVE  SumTo(Upto(m, S, j, e), c) = Within(i, S, pruned)
    <3>1. LostBy(i) = pruned /\ c = n
      BY <1>5, <2>12 DEF LostBy
    <3>2. \A k \in 1 .. n : k < j => w[k].ts + Secs[i] < pruned
      BY <2>4, <3>1
    <3>3. SumTo(InWindow(w, i, S, pruned), n) <= SumTo(Upto(m, S, j, e), n)
      BY <1>3, <1>5, <1>7, <2>1, <2>2, <2>8, <2>10, <3>2, SumInWindow
    <3>4. SumTo(InWindow(w, i, S, pruned), n) \in Int /\ SumTo(Upto(m, S, j, e), n) \in Int
      <4>1. InWindow(w, i, S, pruned) \in [Nat -> Int]
        BY <1>5, InWindowTypes
      <4>2. Upto(m, S, j, e) \in [Nat -> Int]
        BY <1>5, <2>1, <2>2, <2>10, UptoTypes
      <4> QED
        BY <4>1, <4>2, SumMeans
    <3>5. SumTo(Upto(m, S, j, e), n) = SumTo(InWindow(w, i, S, pruned), n)
      BY <2>11, <3>3, <3>4
    <3> QED
      BY <1>9, <3>1, <3>5
  <2>13. adding = "idle" => total[i] = Within(i, Sources, pruned)
    BY <1>4, <2>3, <2>12 DEF Reads
  <2>14. ASSUME NEW s \in Sources
         PROVE  /\ adding = "idle" => tallies[i][s] = Within(i, {s}, pruned)
                /\ Within(i, {s}, clock) <= tallies[i][s]
                /\ tallies[i][s] <= Within(i, {s}, pruned)
                                      + IF adding # "idle" /\ s = data.src THEN data.load ELSE 0
    <3>1. tallies[i][s] = SumTo(Upto(m, {s}, j, e), c)
      BY <1>4, <2>3 DEF Reads
    <3>2. PICK f : f = Upto(m, {s}, j, e)
      OBVIOUS
    <3>3. f \in [Nat -> Int]
      BY <1>5, <2>1, <2>2, <2>10, <3>2, UptoTypes
    <3>4. PICK a \in Int : a = Within(i, {s}, clock)
      <4>1. InWindow(w, i, {s}, clock) \in [Nat -> Int]
        BY <1>5, InWindowTypes
      <4>2. SumTo(InWindow(w, i, {s}, clock), n) \in Int
        BY <4>1, SumMeans
      <4> QED
        BY <1>9, <4>2
    <3>5. PICK b \in Int : b = Within(i, {s}, pruned)
      <4>1. InWindow(w, i, {s}, pruned) \in [Nat -> Int]
        BY <1>5, InWindowTypes
      <4>2. SumTo(InWindow(w, i, {s}, pruned), n) \in Int
        BY <4>1, SumMeans
      <4> QED
        BY <1>9, <4>2
    <3>6. PICK y \in Int : y = SumTo(f, n)
      BY <3>3, SumMeans
    <3>7. a <= y /\ y <= b
      BY <1>9, <2>11, <3>2, <3>4, <3>5, <3>6
    <3>8. CASE adding = "idle"
      <4>1. tallies[i][s] = y
        BY <1>5, <3>1, <3>2, <3>6, <3>8
      <4>2. tallies[i][s] = b
        BY <2>12, <3>1, <3>5, <3>8
      <4>3. y <= b + 0
        BY <3>7
      <4> QED
        BY <3>4, <3>5, <3>7, <3>8, <4>1, <4>2, <4>3
    <3>9. CASE adding # "idle"
      <4>1. c = n + 1 /\ m[n + 1] = data /\ data \in Data
        BY <1>5, <1>7, <3>9
      <4>2. data.load \in Nat
        BY <4>1, DataMeans
      <4>3. PICK v \in Int : v = f[n + 1]
        <5>1. n + 1 \in Nat
          OBVIOUS
        <5> QED
          BY <3>3, <5>1
      <4>4. tallies[i][s] = y + v
        <5>1. SumTo(f, n + 1) = SumTo(f, n) + f[n + 1]
          BY <3>3, SumMeans
        <5> QED
          BY <3>1, <3>2, <3>6, <4>1, <4>3, <5>1
      <4>5. v = IF n + 1 \in j .. e /\ data.src \in {s} THEN data.load ELSE 0
        <5>1. n + 1 \in Nat
          OBVIOUS
        <5> QED
          BY <3>2, <4>1, <4>3, <5>1 DEF Upto
      <4>6. PICK p \in Int : p = IF adding # "idle" /\ s = data.src THEN data.load ELSE 0
        BY <4>2
      <4>7. 0 <= v /\ v <= p
        BY <3>9, <4>2, <4>5, <4>6
      <4>8. a <= y + v /\ y + v <= b + p
        BY <3>7, <4>7
      <4> QED
        BY <3>4, <3>5, <3>9, <4>4, <4>6, <4>8
    <3> QED
      BY <3>8, <3>9
  <2> QED
    BY <2>13, <2>14
<1> QED
  BY <1>10 DEF TallyWindow

(* The counters of the last aggregator: between two messages every one is  *)
(* the load of its window as of the last message, and what details() reads *)
(* in the middle of an add_data() is between the window now and the window *)
(* before with the message, for every sorted list of windows, any number   *)
(* of messages and any way the clock goes on                               *)
(* (ldms_qgroup_common.py:80-105).                                         *)
THEOREM CountersOfWindows == ClientSpec => []TallyWindow
<1>1. ClientInit => TallyInv
  BY TallyStarts DEF ClientInit
<1>2. TallyInv /\ [ClientNext]_clientVars => TallyInv'
  <2>1. SUFFICES ASSUME TallyInv, [ClientNext]_clientVars
                 PROVE  TallyInv'
    OBVIOUS
  <2>2. CASE UNCHANGED tallyVars
    <3>1. /\ clock' = clock /\ dq' = dq /\ tallies' = tallies /\ total' = total /\ adding' = adding
          /\ at' = at /\ data' = data /\ seen' = seen /\ pruned' = pruned
      BY <2>2 DEF tallyVars
    <3>2. TallyTypeOK' /\ ClockInv'
      BY <2>1, <3>1 DEF TallyInv, TallyTypeOK, ClockInv
    <3>3. PICK q \in [0 .. Len(Secs) -> 1 .. Len(Came) + 1] :
             q[0] = Len(Came) + 1 /\ \A i \in Tally : QueueInv(i, q) /\ CountInv(i, q[i])
      BY <2>1 DEF TallyInv
    <3>4. Came' = Came
      BY <3>1 DEF Came
    <3>5. ASSUME NEW i \in Tally
          PROVE  QueueInv(i, q)' /\ CountInv(i, q[i])'
      <4>1. Counts(i)' = Counts(i) /\ LostBy(i)' = LostBy(i) /\ PrunedBy(i)' = PrunedBy(i)
        BY <3>1, <3>4 DEF Counts, LostBy, PrunedBy
      <4>2. QueueInv(i, q)'
        BY <3>1, <3>3, <3>4, <4>1 DEF QueueInv
      <4> QED
        BY <3>1, <3>3, <3>4, <4>1, <4>2, CountReads
    <3> QED
      BY <3>2, <3>3, <3>4, <3>5 DEF TallyInv
  <2>3. CASE TallyNext
    <3>1. ASSUME NEW s \in Sources, NEW l \in Loads, AddData(s, l)
          PROVE  TallyInv'
      BY <2>1, <3>1, TallyAdd
    <3> QED
      BY <2>1, <2>3, <3>1, TallyClock, TallyInc, TallyPrune, TallyPruned DEF TallyNext
  <2> QED
    BY <2>1, <2>2, <2>3 DEF ClientNext, clientVars
<1>3. TallyInv => TallyWindow
  BY WindowOfTally
<1> QED
  BY <1>1, <1>2, <1>3, PTL DEF ClientSpec
=============================================================================
