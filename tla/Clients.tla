------------------------------ MODULE Clients ------------------------------
(***************************************************************************)
(* The Python programs that ldms_qgroup_test and ldms_rail_test run in the *)
(* containers: the application's publisher, the connections between the    *)
(* nodes, the counters of the last aggregator, and a receiver that keeps   *)
(* the quota.  They share no state, so that nothing is lost when a         *)
(* behaviour runs one of them and the others rest.                         *)
(***************************************************************************)
EXTENDS StreamTally, Publisher, PrdcrConn, RailBlocker

VARIABLE program

clientVars == <<program, tallyVars, publisherVars, prdcrVars, railVars>>

ClientInit ==
  /\ program \in {"app", "agg", "tally", "rail"}
  /\ TallyInit /\ PublisherInit /\ RailInit
  /\ PrdcrInit /\ (program = "agg" \/ up = [p \in Prdcr |-> TRUE])

ClientNext ==
  \/ /\ program = "app" /\ PublisherNext
     /\ UNCHANGED <<program, tallyVars, prdcrVars, railVars>>
  \/ /\ program = "agg" /\ PrdcrNext
     /\ UNCHANGED <<program, tallyVars, publisherVars, railVars>>
  \/ /\ program = "tally" /\ TallyNext
     /\ UNCHANGED <<program, publisherVars, prdcrVars, railVars>>
  \/ /\ program = "rail" /\ RailNext
     /\ UNCHANGED <<program, tallyVars, publisherVars, prdcrVars>>

ClientSpec ==
  /\ ClientInit /\ [][ClientNext]_clientVars
  /\ PublisherFairness /\ RailFairness
  /\ program = "agg" => PrdcrFairness
-----------------------------------------------------------------------------
(* What the tests count was published once and is paid for once: one       *)
(* thread publishes, one transport carries it, and one unblock() gives the *)
(* quota of one message back.  What the counters make of it is TallyWindow *)
(* of StreamTally.                                                         *)
CountsTrue == OnePublisher /\ OneTransport /\ OnePassage

(* The programs go on: stop() returns, producers reconnect, and a callback *)
(* that is unblocked returns.                                              *)
ClientsGoOn ==
  StopReturns /\ UnblockWorks /\ (program = "agg" => Reconnects)
=============================================================================
