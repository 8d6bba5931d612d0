----------------------------- MODULE Publisher -----------------------------
(***************************************************************************)
(* class Publisher of the application of ldms_qgroup_test                  *)
(* (python/ldms_qgroup_app.py): a thread that publishes a message every    *)
(* `interval`.  The script types p.start() and p.stop() at the             *)
(* interpreter of the application, in any order.                           *)
(***************************************************************************)
EXTENDS Naturals, FiniteSets

CONSTANTS
  MaxStarts,    \* bound on the threads that are started
  MaxPublished, \* bound on the messages
  Nobody        \* holder of a lock that is free

ASSUME PublisherAssumption ==
  MaxStarts \in Nat /\ MaxPublished \in Nat /\ Nobody \notin 1 .. MaxStarts

VARIABLES
  main,       \* the interpreter: at the prompt, or in stop()
  holder,     \* the thread that has the lock
  is_running,
  thr,        \* self.thr, 0 for None
  proc,       \* proc[w]: where thread w is
  published   \* self.count

publisherVars == <<main, holder, is_running, thr, proc, published>>

Worker == 1 .. MaxStarts
Live == {w \in Worker : proc[w] \notin {"new", "ended"}}

PublisherTypeOK ==
  /\ main \in {"prompt", "stop", "join"}
  /\ holder \in Worker \cup {Nobody}
  /\ is_running \in BOOLEAN /\ thr \in Worker \cup {0}
  /\ proc \in [Worker -> {"new", "begin", "loop", "wait", "wake", "ended"}]
  /\ published \in 0 .. MaxPublished
-----------------------------------------------------------------------------
(* start: the lock is held from the first line to the last.                *)
Start(w) ==
  /\ main = "prompt" /\ holder = Nobody
  /\ ~is_running
  /\ proc[w] = "new" /\ \A v \in 1 .. w - 1 : proc[v] # "new"
  /\ is_running' = TRUE
  /\ thr' = w
  /\ proc' = [proc EXCEPT ![w] = "begin"]
  /\ UNCHANGED <<main, holder, published>>

(* The thread cannot be started.                                           *)
StartRaises ==
  /\ main = "prompt" /\ holder = Nobody
  /\ ~is_running
  /\ thr' = 0
  /\ UNCHANGED <<main, holder, is_running, proc, published>>

(* stop.                                                                   *)
Stop ==
  /\ main = "prompt"
  /\ main' = "stop"
  /\ UNCHANGED <<holder, is_running, thr, proc, published>>

Notified(w) == IF proc[w] = "wait" THEN "wake" ELSE proc[w]

(* Mutant: stop does not join the thread.                                  *)
StopSetNoJoin ==
  /\ main = "stop" /\ holder = Nobody
  /\ main' = "prompt"
  /\ is_running' = FALSE
  /\ proc' = [w \in Worker |-> Notified(w)]
  /\ UNCHANGED <<holder, thr, published>>

(* Mutant: stop joins the thread before it releases the lock.              *)
StopSetKeepsLock ==
  /\ main = "stop" /\ holder = Nobody
  /\ main' = IF is_running THEN "join" ELSE "prompt"
  /\ is_running' = FALSE
  /\ holder' = IF is_running THEN 0 ELSE Nobody
  /\ proc' = [w \in Worker |-> Notified(w)]
  /\ UNCHANGED <<thr, published>>

(* "Thread is NOT running", or the thread is told to end.                  *)
StopSet ==
  /\ main = "stop" /\ holder = Nobody
  /\ main' = IF is_running THEN "join" ELSE "prompt"
  /\ is_running' = FALSE
  /\ proc' = [w \in Worker |-> Notified(w)]
  /\ UNCHANGED <<holder, thr, published>>

StopJoin ==
  /\ main = "join"
  /\ proc[thr] = "ended"
  /\ main' = "prompt"
  /\ UNCHANGED <<holder, is_running, thr, proc, published>>

(* proc: acquire the lock, at first and after each wait.                   *)
Acquire(w) ==
  /\ proc[w] \in {"begin", "wake"} /\ holder = Nobody
  /\ holder' = w
  /\ proc' = [proc EXCEPT ![w] = "loop"]
  /\ UNCHANGED <<main, is_running, thr, published>>

(* One turn: publish, which may fail, and wait.                            *)
Turn(w) ==
  /\ proc[w] = "loop"
  /\ is_running
  /\ published' \in {published, published + 1} /\ published' <= MaxPublished
  /\ holder' = Nobody
  /\ proc' = [proc EXCEPT ![w] = "wait"]
  /\ UNCHANGED <<main, is_running, thr>>

TimedOut(w) ==
  /\ proc[w] = "wait"
  /\ proc' = [proc EXCEPT ![w] = "wake"]
  /\ UNCHANGED <<main, holder, is_running, thr, published>>

ProcEnd(w) ==
  /\ proc[w] = "loop"
  /\ ~is_running
  /\ holder' = Nobody
  /\ proc' = [proc EXCEPT ![w] = "ended"]
  /\ UNCHANGED <<main, is_running, thr, published>>

PublisherInit ==
  /\ main = "prompt" /\ holder = Nobody
  /\ is_running = FALSE /\ thr = 0
  /\ proc = [w \in Worker |-> "new"]
  /\ published = 0

ProcStep(w) == Acquire(w) \/ Turn(w) \/ TimedOut(w) \/ ProcEnd(w)

PublisherNext ==
  \/ StartRaises \/ Stop \/ StopSet \/ StopJoin
  \/ \E w \in Worker : Start(w) \/ ProcStep(w)

(* Threads go on.  The lock is free for the whole of a wait, and the       *)
(* interpreter that waits for it gets it then.                             *)
PublisherFairness ==
  /\ SF_publisherVars(StopSet) /\ WF_publisherVars(StopJoin)
  /\ \A w \in Worker : WF_publisherVars(ProcStep(w))
-----------------------------------------------------------------------------
(* However often the script starts and stops it, one thread publishes at a *)
(* time, and none when p.stop() has returned: `interval` and the counts of *)
(* the quota test mean what they say (ldms_qgroup_app.py:81-107).          *)
OnePublisher ==
  /\ Cardinality(Live) <= 1
  /\ main = "prompt" /\ ~is_running => Live = {}

(* p.stop() comes back to the prompt.                                      *)
StopReturns == main = "stop" ~> main = "prompt"
-----------------------------------------------------------------------------
(* Why OnePublisher holds: a thread that has not ended is self.thr, and    *)
(* stop() has waited for it before there can be another.                   *)
PublisherInv ==
  /\ PublisherTypeOK
  /\ \A w \in Live : w = thr
  /\ is_running => main # "join"
  /\ is_running \/ main = "join" => thr \in Worker
  /\ ~is_running /\ main # "join" => Live = {}
=============================================================================
