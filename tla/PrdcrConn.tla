----------------------------- MODULE PrdcrConn -----------------------------
(***************************************************************************)
(* The producers of an aggregator of ldms_qgroup_test (class Prdcr of      *)
(* python/ldms_qgroup_common.py, prdcr_thread of ldms_qgroup_agg1.py and   *)
(* ldms_qgroup_agg2.py), and the list of transports that their peers keep  *)
(* (cbfn of ldms_qgroup_samp.py, agg1 and agg2).  One thread connects what *)
(* is disconnected, once a second; the thread of the LDMS library calls    *)
(* back.  The library is external: a transport that is connecting gets one *)
(* event, CONNECTED or a failure, and a connected one gets one             *)
(* DISCONNECTED at each end after the connection broke.                    *)
(***************************************************************************)
EXTENDS Naturals, Sequences, FiniteSets

CONSTANTS
  Prdcrs,     \* the list of producers
  MaxXprts,   \* bound on the transports to a peer that either end still has
  MaxDowns    \* bound on the times a peer goes down

ASSUME PrdcrAssumption ==
  /\ Prdcrs # <<>> /\ Prdcrs \in Seq({Prdcrs[i] : i \in DOMAIN Prdcrs})
  /\ MaxDowns \in Nat /\ MaxXprts \in Nat /\ MaxXprts > MaxDowns

VARIABLES
  state,    \* state[p]: self.state
  x,        \* x[p]: self.x, 0 for None
  xprt,     \* xprt[p][n]: the transport n as the library has it
  xset,     \* xset[p]: the transports in the list of the peer
  up,       \* up[p]: the peer runs and listens
  downs,    \* downs[p]: how often it went down
  turn,     \* the producer that prdcr_thread is at, 0 when it sleeps
  thread,   \* where prdcr_thread is
  failed    \* an assertion of ldms_cb failed

prdcrVars == <<state, x, xprt, xset, up, downs, turn, thread, failed>>

Prdcr == {Prdcrs[i] : i \in DOMAIN Prdcrs}
Xprt == 1 .. MaxXprts
Cur == Prdcrs[turn]

(* What the proof of OneTransport needs of the types.  Unused picks a      *)
(* transport without a proof that there is one, which the bounds grant.    *)
PrdcrStateOK ==
  /\ state \in [Prdcr -> {"DISCONNECTED", "CONNECTING", "CONNECTED"}]
  /\ xprt \in [Prdcr -> [Xprt -> {"connecting", "connected", "broken",
                                  "closed"}]]
  /\ x = [p \in Prdcr |-> x[p]]
  /\ turn \in 0 .. Len(Prdcrs) /\ thread \in {"scan", "call", "dead"}

PrdcrTypeOK ==
  /\ PrdcrStateOK
  /\ x \in [Prdcr -> 0 .. MaxXprts] /\ xset \in [Prdcr -> SUBSET Xprt]
  /\ up \in [Prdcr -> BOOLEAN] /\ downs \in [Prdcr -> 0 .. MaxDowns]
  /\ failed \in BOOLEAN

Set(p, n, s) == xprt' = [xprt EXCEPT ![p][n] = s]
Moved(p, s) == state' = [state EXCEPT ![p] = s]

(* A name for a new transport, one that neither end has any more.          *)
Unused(p) ==
  CHOOSE n \in Xprt :
    LET Free(k) == xprt[p][k] = "closed" /\ k \notin xset[p]
    IN  Free(n) /\ \A k \in 1 .. n - 1 : ~Free(k)

NextTurn == turn' = (turn + 1) % (Len(Prdcrs) + 1)
-----------------------------------------------------------------------------
(* prdcr_thread.  After the last producer it sleeps.                       *)
Skip ==
  /\ thread = "scan"
  /\ turn # 0 => state[Cur] # "DISCONNECTED"
  /\ NextTurn
  /\ UNCHANGED <<state, x, xprt, xset, up, downs, thread, failed>>

(* Mutant: the state is left alone until the library has the request.      *)
ConnectLate ==
  /\ thread = "scan" /\ turn # 0
  /\ state[Cur] = "DISCONNECTED"
  /\ x' = [x EXCEPT ![Cur] = Unused(Cur)]
  /\ Set(Cur, Unused(Cur), "connecting")
  /\ thread' = "call"
  /\ UNCHANGED <<state, xset, up, downs, turn, failed>>

(* connect: a new transport, and the state before the call.                *)
Connect ==
  /\ thread = "scan" /\ turn # 0
  /\ state[Cur] = "DISCONNECTED"
  /\ x' = [x EXCEPT ![Cur] = Unused(Cur)]
  /\ Moved(Cur, "CONNECTING")
  /\ thread' = "call"
  /\ UNCHANGED <<xprt, xset, up, downs, turn, failed>>

(* x.connect takes the request: what comes of it comes by an event.        *)
Requested ==
  /\ thread = "call"
  /\ Set(Cur, x[Cur], "connecting")
  /\ thread' = "scan"
  /\ NextTurn
  /\ UNCHANGED <<state, x, xset, up, downs, failed>>

(* x.connect raises, and nothing in prdcr_thread catches it: the thread    *)
(* ends, and with it the connecting of all producers.                      *)
ConnectRaises ==
  /\ thread = "call"
  /\ Moved(Cur, "DISCONNECTED")
  /\ thread' = "dead"
  /\ UNCHANGED <<x, xprt, xset, up, downs, turn, failed>>
-----------------------------------------------------------------------------
(* ldms_cb: CONNECTED.  The peer has listed the transport by its own       *)
(* event, or will.                                                         *)
Connected(p, n) ==
  /\ xprt[p][n] = "connecting" /\ up[p]
  /\ Set(p, n, "connected")
  /\ IF state[p] = "CONNECTING"
     THEN Moved(p, "CONNECTED") /\ UNCHANGED failed
     ELSE failed' = TRUE /\ UNCHANGED state
  /\ UNCHANGED <<x, xset, up, downs, turn, thread>>

(* Mutant: a failure to connect is ignored like SEND and RECV.             *)
RefusedIgnored(p, n) ==
  /\ xprt[p][n] = "connecting" /\ ~up[p]
  /\ Set(p, n, "closed")
  /\ UNCHANGED <<state, x, xset, up, downs, turn, thread, failed>>

(* ldms_cb: REJECTED or ERROR.                                             *)
Refused(p, n) ==
  /\ xprt[p][n] = "connecting" /\ ~up[p]
  /\ Set(p, n, "closed")
  /\ Moved(p, "DISCONNECTED")
  /\ UNCHANGED <<x, xset, up, downs, turn, thread, failed>>

(* ldms_cb: DISCONNECTED.                                                  *)
Disconnected(p, n) ==
  /\ xprt[p][n] = "broken"
  /\ Set(p, n, "closed")
  /\ Moved(p, "DISCONNECTED")
  /\ UNCHANGED <<x, xset, up, downs, turn, thread, failed>>

(* cbfn of the peer: it lists a transport at CONNECTED and drops it at     *)
(* DISCONNECTED, in its own time.                                          *)
PeerConnected(p, n) ==
  /\ xprt[p][n] = "connected" /\ up[p]
  /\ xset' = [xset EXCEPT ![p] = @ \cup {n}]
  /\ xset' # xset
  /\ UNCHANGED <<state, x, xprt, up, downs, turn, thread, failed>>

PeerDisconnected(p, n) ==
  /\ n \in xset[p] /\ xprt[p][n] \in {"broken", "closed"} /\ up[p]
  /\ xset' = [xset EXCEPT ![p] = @ \ {n}]
  /\ UNCHANGED <<state, x, xprt, up, downs, turn, thread, failed>>

Broken(p) == [n \in Xprt |->
                IF xprt[p][n] = "connected" THEN "broken" ELSE xprt[p][n]]

(* The network breaks the connections, or the peer ends and starts again.  *)
Break(p) ==
  /\ downs[p] < MaxDowns
  /\ downs' = [downs EXCEPT ![p] = @ + 1]
  /\ xprt' = [xprt EXCEPT ![p] = Broken(p)]
  /\ UNCHANGED <<state, x, xset, up, turn, thread, failed>>

PeerEnds(p) ==
  /\ up[p] /\ downs[p] < MaxDowns
  /\ downs' = [downs EXCEPT ![p] = @ + 1]
  /\ up' = [up EXCEPT ![p] = FALSE]
  /\ xset' = [xset EXCEPT ![p] = {}]
  /\ xprt' = [xprt EXCEPT ![p] = Broken(p)]
  /\ UNCHANGED <<state, x, turn, thread, failed>>

PeerStarts(p) ==
  /\ ~up[p]
  /\ up' = [up EXCEPT ![p] = TRUE]
  /\ UNCHANGED <<state, x, xprt, xset, downs, turn, thread, failed>>

PrdcrInit ==
  /\ state = [p \in Prdcr |-> "DISCONNECTED"]
  /\ x = [p \in Prdcr |-> 0]
  /\ xprt = [p \in Prdcr |-> [n \in Xprt |-> "closed"]]
  /\ xset = [p \in Prdcr |-> {}]
  /\ up \in [Prdcr -> BOOLEAN]
  /\ downs = [p \in Prdcr |-> 0]
  /\ turn = 1 /\ thread = "scan" /\ failed = FALSE

ThreadStep == Skip \/ Connect \/ Requested \/ ConnectRaises

Event(p, n) ==
  \/ Connected(p, n) \/ Refused(p, n) \/ Disconnected(p, n)
  \/ PeerConnected(p, n) \/ PeerDisconnected(p, n)

PrdcrNext ==
  \/ ThreadStep
  \/ \E p \in Prdcr : \/ Break(p) \/ PeerEnds(p) \/ PeerStarts(p)
                      \/ \E n \in Xprt : Event(p, n)

(* The thread goes on, and the library delivers every event.               *)
PrdcrFairness ==
  /\ WF_prdcrVars(ThreadStep)
  /\ \A p \in Prdcr, n \in Xprt : WF_prdcrVars(Event(p, n))
-----------------------------------------------------------------------------
Open(p) == {n \in Xprt : xprt[p][n] \in {"connecting", "connected", "broken"}}

(* A producer has one transport at a time, so that no message comes twice, *)
(* and says DISCONNECTED when it has none only; the assertion of ldms_cb   *)
(* holds whenever CONNECTED comes (ldms_qgroup_common.py:37-60).           *)
OneTransport ==
  /\ ~failed
  /\ \A p \in Prdcr :
       /\ Cardinality(Open(p)) <= 1
       /\ state[p] = "DISCONNECTED" => Open(p) = {}

(* A producer that is not connected to a peer that runs becomes connected, *)
(* however often the peer went away before, unless connect() raised.  The  *)
(* peer's list comes to be the transport that is open.                     *)
Reconnects ==
  \A p \in Prdcr :
    /\ (up[p] /\ state[p] # "CONNECTED")
         ~> (state[p] = "CONNECTED" \/ ~up[p] \/ thread = "dead")
    /\ (state[p] = "CONNECTED")
         ~> (state[p] # "CONNECTED" \/ xset[p] = Open(p))
-----------------------------------------------------------------------------
(* Why OneTransport holds: the only transport that can be open is self.x,  *)
(* in the state that self.state says, and before connect() is called none  *)
(* is.                                                                     *)
PrdcrInv ==
  /\ PrdcrStateOK /\ ~failed
  /\ \A p \in Prdcr : \A n \in Open(p) :
       /\ n = x[p]
       /\ state[p] = IF xprt[p][n] = "connecting" THEN "CONNECTING" ELSE "CONNECTED"
  /\ thread = "call" => turn # 0 /\ state[Cur] = "CONNECTING" /\ Open(Cur) = {}
=============================================================================
