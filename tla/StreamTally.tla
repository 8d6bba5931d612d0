---------------------------- MODULE StreamTally ----------------------------
(***************************************************************************)
(* The throughput counters of the second-level aggregator of               *)
(* ldms_qgroup_test (python/ldms_qgroup_common.py, python/                 *)
(* ldms_qgroup_agg2.py).  A StreamThroughput is a chain of tallies, one    *)
(* for each window; a message is in the queue of the first tally whose     *)
(* window it is still in, and is counted by that tally and by all later    *)
(* ones.  The script reads the counters with st.details() from the         *)
(* interpreter's thread, at any moment of an add_data() that the thread of *)
(* the LDMS library is in.                                                 *)
(***************************************************************************)
EXTENDS Integers, Sequences

CONSTANTS
  Secs,        \* the windows in seconds, sorted
  Sources,     \* addresses of the publishers
  Loads,       \* lengths of messages
  MaxMsgs,     \* bound on the messages
  MaxClock     \* bound on the clock

ASSUME TallyAssumption ==
  /\ Secs \in Seq(Nat) /\ Len(Secs) > 0
  /\ \A i, j \in DOMAIN Secs : i < j => Secs[i] <= Secs[j]
  /\ Loads \subseteq Nat /\ MaxMsgs \in Nat /\ MaxClock \in Nat

VARIABLES
  clock,    \* time.time()
  dq,       \* dq[i]: queue of the tally i
  tallies,  \* tallies[i][s]: load of source s in the window i
  total,    \* total[i]: load of all sources
  adding,   \* where add_data() is
  at,       \* the tally it is at
  data,     \* its message
  seen,     \* history: messages that were added
  pruned    \* history: the time of the add_data() before

tallyVars == <<clock, dq, tallies, total, adding, at, data, seen, pruned>>

Tally == DOMAIN Secs
Data == [ts : 0 .. MaxClock, load : Loads, src : Sources]
NoData == [ts |-> 0, load |-> 0, src |-> CHOOSE s \in Sources : TRUE]

TallyTypeOK ==
  /\ clock \in 0 .. MaxClock /\ pruned \in 0 .. MaxClock
  /\ dq \in [Tally -> Seq(Data)] /\ seen \in Seq(Data)
  /\ tallies \in [Tally -> [Sources -> Int]] /\ total \in [Tally -> Int]
  /\ adding \in {"idle", "inc", "prune"} /\ at \in Tally
  /\ data \in Data \cup {NoData}

(* tally_inc of the tally i.                                               *)
tally_inc(i, s, v) ==
  /\ tallies' = [tallies EXCEPT ![i][s] = @ + v]
  /\ total' = [total EXCEPT ![i] = @ + v]
-----------------------------------------------------------------------------
TallyTick ==
  /\ clock < MaxClock
  /\ clock' = clock + 1
  /\ UNCHANGED <<dq, tallies, total, adding, at, data, seen, pruned>>

(* stream_cb of a message of source s: add_data puts it in the queue of    *)
(* the first tally and counts it there.                                    *)
AddData(s, l) ==
  /\ adding = "idle"
  /\ Len(seen) < MaxMsgs
  /\ data' = [ts |-> clock, load |-> l, src |-> s]
  /\ dq' = [dq EXCEPT ![1] = Append(@, data')]
  /\ tally_inc(1, s, l)
  /\ IF Len(Secs) > 1 THEN adding' = "inc" /\ at' = 2
     ELSE adding' = "prune" /\ at' = 1
  /\ UNCHANGED <<clock, seen, pruned>>

(* The subsequent tallies count it too.                                    *)
IncNext ==
  /\ adding = "inc"
  /\ tally_inc(at, data.src, data.load)
  /\ IF at < Len(Secs) THEN at' = at + 1 /\ UNCHANGED adding
     ELSE adding' = "prune" /\ at' = 1
  /\ UNCHANGED <<clock, dq, data, seen, pruned>>

(* Mutant: a message is out of the window when it is as old as the window  *)
(* is long.                                                                *)
ExpiredEarly(i) == dq[i] # <<>> /\ Head(dq[i]).ts + Secs[i] <= data.ts

(* The oldest message of the tally i has left its window.                  *)
Expired(i) == dq[i] # <<>> /\ Head(dq[i]).ts + Secs[i] < data.ts

(* tally_prune: the message moves on to the next tally, if there is one.   *)
Prune ==
  /\ adding = "prune"
  /\ Expired(at)
  /\ LET old == Head(dq[at])
     IN  /\ dq' = [i \in Tally |-> IF i = at THEN Tail(dq[i])
                                   ELSE IF i = at + 1 THEN Append(dq[i], old)
                                   ELSE dq[i]]
         /\ tally_inc(at, old.src, -old.load)
  /\ UNCHANGED <<clock, adding, at, data, seen, pruned>>

(* tally_prune of the next tally, or the end of add_data.                  *)
Pruned ==
  /\ adding = "prune"
  /\ ~Expired(at)
  /\ IF at < Len(Secs)
     THEN at' = at + 1 /\ UNCHANGED <<adding, seen, pruned>>
     ELSE /\ adding' = "idle" /\ at' = 1
          /\ seen' = Append(seen, data)
          /\ pruned' = data.ts
  /\ UNCHANGED <<clock, dq, tallies, total, data>>

TallyInit ==
  /\ clock = 0 /\ pruned = 0
  /\ dq = [i \in Tally |-> <<>>]
  /\ tallies = [i \in Tally |-> [s \in Sources |-> 0]]
  /\ total = [i \in Tally |-> 0]
  /\ adding = "idle" /\ at = 1 /\ data = NoData
  /\ seen = <<>>

TallyNext ==
  \/ TallyTick \/ IncNext \/ Prune \/ Pruned
  \/ \E s \in Sources, l \in Loads : AddData(s, l)
-----------------------------------------------------------------------------
SumTo(f, n) == LET sum[k \in Nat] == IF k = 0 THEN 0 ELSE sum[k - 1] + f[k]
               IN  sum[n]

(* Reference: the load of the messages of the sources S that were added    *)
(* and are in the window i at time ts.                                     *)
Within(i, S, ts) ==
  SumTo([k \in Nat |-> IF k \in DOMAIN seen /\ seen[k].src \in S /\ seen[k].ts + Secs[i] >= ts
                         THEN seen[k].load ELSE 0], Len(seen))

(* Between two messages every counter is the load of its window as of the  *)
(* last message.  What details() reads in the middle of add_data() lies    *)
(* between the load of the window now and that of the window before the    *)
(* message, with the message (ldms_qgroup_common.py:80-105).               *)
TallyWindow ==
  \A i \in Tally :
    /\ adding = "idle" => total[i] = Within(i, Sources, pruned)
    /\ \A s \in Sources :
         LET new == IF adding # "idle" /\ s = data.src THEN data.load ELSE 0
         IN  /\ adding = "idle" => tallies[i][s] = Within(i, {s}, pruned)
             /\ Within(i, {s}, clock) <= tallies[i][s]
             /\ tallies[i][s] <= Within(i, {s}, pruned) + new
-----------------------------------------------------------------------------
(* Why TallyWindow holds: the queues, the last one first, are the end of   *)
(* the messages that came; that of the tally i begins with the message     *)
(* q[i], and the tally counts from there on.                               *)
Came == IF adding = "idle" THEN seen ELSE Append(seen, data)

(* The last message that the tally i counts, and the times as of which its *)
(* queue has lost what is too old, and has lost it all.                    *)
Counts(i) == IF adding = "inc" /\ i >= at THEN Len(seen) ELSE Len(Came)
LostBy(i) == IF adding = "prune" /\ i <= at THEN data.ts ELSE pruned
PrunedBy(i) == IF adding = "prune" /\ i < at THEN data.ts ELSE pruned

Counted(i, S, j) ==
  [k \in Nat |-> IF k \in j .. Counts(i) /\ Came[k].src \in S THEN Came[k].load ELSE 0]

QueueInv(i, q) ==
  /\ q[i] \in 1 .. q[i - 1]
  /\ Len(dq[i]) = q[i - 1] - q[i]
  /\ \A k \in DOMAIN dq[i] : dq[i][k] = Came[q[i] + k - 1]
  /\ \A k \in 1 .. Len(Came) : IF k < q[i] THEN Came[k].ts + Secs[i] < LostBy(i)
                                             ELSE Came[k].ts + Secs[i] >= PrunedBy(i)

CountInv(i, j) ==
  /\ total[i] = SumTo(Counted(i, Sources, j), Len(Came))
  /\ \A s \in Sources : tallies[i][s] = SumTo(Counted(i, {s}, j), Len(Came))

ClockInv ==
  /\ pruned <= clock
  /\ adding # "idle" => data \in Data /\ data.ts \in pruned .. clock
  /\ adding = "inc" => at > 1
  /\ \A j, k \in DOMAIN seen : j <= k => seen[j].ts <= seen[k].ts
  /\ \A k \in DOMAIN seen : seen[k].ts <= pruned

TallyInv ==
  /\ TallyTypeOK /\ ClockInv
  /\ \E q \in [0 .. Len(Secs) -> 1 .. Len(Came) + 1] :
        q[0] = Len(Came) + 1 /\ \A i \in Tally : QueueInv(i, q) /\ CountInv(i, q[i])
=============================================================================
