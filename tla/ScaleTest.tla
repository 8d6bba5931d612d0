----------------------------- MODULE ScaleTest -----------------------------
(***************************************************************************)
(* The scenario of src/scalability/test.py over the aggregation tree that  *)
(* src/scalability/ldmsdutils.py configures: samplers, two levels of       *)
(* aggregators and one L3.  The script kills and resurrects daemons and    *)
(* compares what each aggregator lists with what it should list.  Daemons  *)
(* are <<level, index>> as in NDL and DL, counted from 0.  The sets of one *)
(* sampler come and go together, so that a set is named by its sampler.    *)
(*                                                                         *)
(* How the commands reach the daemons is ScaleCtl's subject; here a        *)
(* command tells all the daemons that it names at once.                    *)
(***************************************************************************)
EXTENDS Naturals, FiniteSets, Sequences

CONSTANTS
  NSamp, NL1, NL2,  \* N_SAMP, N_L1, N_L2
  Debug,            \* DEBUG of config.py
  MaxCrashes        \* how many daemons die on their own

(* The script stops the second L1 and the second L2, and kills half of the *)
(* samplers of the first L1.                                               *)
ASSUME ScaleTestAssumption ==
  /\ NL2 \in Nat /\ NL2 >= 2
  /\ NL1 \in Nat /\ NL1 >= NL2
  /\ NSamp \in Nat /\ NSamp >= NL1
  /\ Debug \in BOOLEAN
  /\ MaxCrashes \in Nat

VARIABLES
  st,       \* st[d]: how far the process of daemon d is
  dirs,     \* dirs[a]: the sets that aggregator a has
  conn,     \* conn[a]: LDMSD._conn of a in the script
  pc,       \* the next step of the script
  todo,     \* the aggregators that dir_verify() still has to ask
  verdict,  \* verdict[n]: the status of assertion n
  outcome,  \* how the script ended
  want,     \* daemons that the script wants to run
  crashed,  \* daemons that died on their own
  downAt    \* daemons that were not running when the last sleep ended

script == <<pc, todo, verdict, outcome, want, downAt>>
vars == <<st, dirs, conn, crashed, script>>
-----------------------------------------------------------------------------
(* The tree.                                                               *)
NDL == [l \in 0..3 |-> CASE l = 0 -> NSamp [] l = 1 -> NL1 [] l = 2 -> NL2 [] l = 3 -> 1]
DL(l) == {<<l, i>> : i \in 0..(NDL[l] - 1)}
Samplers == DL(0)
Aggs == DL(1) \cup DL(2) \cup DL(3)
Daemons == Samplers \cup Aggs
agg_level(d) == d[1]
L3 == <<3, 0>>

(* LDMSD.getPrdcr: each daemon of a level has the same number of producers *)
(* of the level below; a remainder belongs to nobody.                      *)
getPrdcr(d) ==
  IF agg_level(d) = 0 THEN {}
  ELSE LET N_DIST == NDL[agg_level(d) - 1] \div NDL[agg_level(d)]
       IN  {<<agg_level(d) - 1, d[2] * N_DIST + i>> : i \in 0..(N_DIST - 1)}

(* getConfig: the producers in the configuration file of d.  That of L3    *)
(* lists L2_AGGS.                                                          *)
getConfig(d) == IF d = L3 THEN DL(2) ELSE getPrdcr(d)

(* getExpectedDir of the four classes; the last three are getPrdcrDir.      *)
L1Dir(d) == getPrdcr(d)
L2Dir(d) == UNION {L1Dir(p) : p \in getPrdcr(d)}
L3Dir(d) == UNION {L2Dir(p) : p \in getPrdcr(d)}
getExpectedDir(d) ==
  CASE agg_level(d) = 0 -> {d}
    [] agg_level(d) = 1 -> L1Dir(d)
    [] agg_level(d) = 2 -> L2Dir(d)
    [] agg_level(d) = 3 -> L3Dir(d)

(* The order of aggs of test.py, in which dir_verify() asks them.          *)
Precedes(a, b) == a[1] < b[1] \/ (a[1] = b[1] /\ a[2] < b[2])
-----------------------------------------------------------------------------
(* The scenario, as a program: what to do, to which daemons, which sets    *)
(* are missing above which level, and the assertion.                       *)
Step(do, ds) == [do |-> do, ds |-> ds, rm |-> {}, level |-> 0, n |-> 0]
Removed(rm) == [do |-> "removed", ds |-> {L3}, rm |-> rm, level |-> 0, n |-> 0]
Restored == Step("restored", {L3})
Sleep == Step("sleep", {})
Verify(n, ds, rm, level) == [do |-> "verify", ds |-> ds, rm |-> rm, level |-> level, n |-> n]

l10 == <<1, 0>>
l11 == <<1, 1>>
l21 == <<2, 1>>

(* prdcrs[len(prdcrs)//2:] of l10, and their sets.                         *)
half == {p \in getPrdcr(l10) : p[2] >= Cardinality(getPrdcr(l10)) \div 2}
halfSets == UNION {getExpectedDir(p) : p \in half}

Script ==
  << Step("stop", Daemons), Step("cleanup", Daemons), Step("start", Daemons),
     Restored, Sleep, Verify(1, Aggs, {}, 0), Sleep,

     Step("stop", half), Step("stopped", half), Removed(halfSets), Sleep,
     Verify(2, Aggs, halfSets, 0), Sleep,

     Step("start", half), Step("started", half), Restored, Sleep,
     Verify(3, Aggs, {}, 0), Sleep,

     Step("disconnect", {l11}), Step("stop", {l11}), Step("stopped", {l11}),
     Removed(getExpectedDir(l11)), Sleep,
     Verify(4, Aggs \ {l11}, getExpectedDir(l11), 1), Sleep,

     Step("start", {l11}), Step("started", {l11}), Restored, Sleep,
     Step("connect", {l11}), Verify(5, Aggs, {}, 0), Sleep,

     Step("disconnect", {l21}), Step("stop", {l21}), Step("stopped", {l21}),
     Removed(getExpectedDir(l21)), Sleep,
     Verify(6, Aggs \ {l21}, getExpectedDir(l21), 2), Sleep,

     Step("start", {l21}), Step("started", {l21}), Restored, Sleep,
     Step("connect", {l21}), Verify(7, Aggs, {}, 0), Sleep,

     Step("disconnect", {L3}), Step("stop", {L3}), Step("stopped", {L3}), Sleep,
     Verify(8, Aggs \ {L3}, {}, 3), Sleep,

     Step("start", {L3}), Step("started", {L3}), Sleep, Step("connect", {L3}),
     Restored, Sleep, Verify(9, Aggs, {}, 0), Sleep,

     Step("stop", Daemons) >>

I == Script[pc]
At(do) == outcome = "running" /\ I.do = do

TypeOK ==
  /\ st \in [Daemons -> {"down", "boot", "up", "dying"}]
  /\ dirs \in [Aggs -> SUBSET Samplers]
  /\ conn \in [Aggs -> {"none", "open", "dead"}]
  /\ pc \in DOMAIN Script
  /\ todo \subseteq Aggs
  /\ verdict \in [1..9 -> {"none", "passed", "failed"}]
  /\ outcome \in {"running", "finished", "raised"}
  /\ want \subseteq Daemons /\ crashed \subseteq Daemons /\ downAt \subseteq Daemons
-----------------------------------------------------------------------------
(* The daemons.                                                            *)
DirOf(d) == IF st[d] # "up" THEN {} ELSE IF d \in Samplers THEN {d} ELSE dirs[d]

(* What a gets when it asks its producer p, or finds it gone.              *)
Collected(a, p) == (dirs[a] \ getExpectedDir(p)) \cup DirOf(p)

(* The processes of ds are in state s; nothing is left of what they had,   *)
(* and connections to them are dead.                                       *)
Become(ds, s) ==
  /\ st' = [d \in Daemons |-> IF d \in ds THEN s ELSE st[d]]
  /\ dirs' = [a \in Aggs |-> IF a \in ds THEN {} ELSE dirs[a]]
  /\ conn' = [a \in Aggs |-> IF a \in ds /\ conn[a] = "open" THEN "dead" ELSE conn[a]]

Collect(a, p) ==
  /\ st[a] = "up"
  /\ p \in getConfig(a)
  /\ Collected(a, p) # dirs[a]
  /\ dirs' = [dirs EXCEPT ![a] = Collected(a, p)]
  /\ UNCHANGED <<st, conn, crashed, script>>

Boot(d) ==
  /\ st[d] = "boot"
  /\ st' = [st EXCEPT ![d] = "up"]
  /\ UNCHANGED <<dirs, conn, crashed, script>>

Exit(d) ==
  /\ st[d] = "dying"
  /\ Become({d}, "down")
  /\ UNCHANGED <<crashed, script>>

Crash(d) ==
  /\ st[d] \in {"boot", "up"}
  /\ Cardinality(crashed) < MaxCrashes
  /\ Become({d}, "down")
  /\ crashed' = crashed \cup {d}
  /\ UNCHANGED script

(* Nothing is under way: the timeouts of 10 and 60 seconds and STEADY_WAIT *)
(* are long against the intervals of CONN_INTERVAL and SAMP_INTERVAL, one  *)
(* second each.                                                            *)
Transit == {d \in Daemons : st[d] \in {"boot", "dying"}}
Steady ==
  /\ Transit = {}
  /\ \A a \in Aggs : st[a] = "up" => \A p \in getConfig(a) : Collected(a, p) = dirs[a]
-----------------------------------------------------------------------------
(* The script.                                                             *)
Continue ==
  /\ pc' = IF pc = Len(Script) THEN pc ELSE pc + 1
  /\ outcome' = IF pc = Len(Script) THEN "finished" ELSE outcome
  /\ todo' = IF pc < Len(Script) /\ Script[pc + 1].do = "verify"
               THEN Script[pc + 1].ds ELSE {}
Raise == outcome' = "raised" /\ UNCHANGED <<pc, todo>>

(* stop_all() and the first half of Control.stop().                        *)
Stop ==
  /\ At("stop")
  /\ Become({d \in I.ds : st[d] \in {"boot", "up"}}, "dying")
  /\ want' = want \ I.ds
  /\ Continue
  /\ UNCHANGED <<crashed, verdict, downAt>>

(* start_all() and the first half of Control.start(): a daemon that runs   *)
(* is left alone.                                                          *)
Start ==
  /\ At("start")
  /\ Become({d \in I.ds : st[d] = "down"}, "boot")
  /\ want' = want \cup I.ds
  /\ Continue
  /\ UNCHANGED <<crashed, verdict, downAt>>

(* cleanup(): ldmsd_ctl.py fails for a daemon that still runs, and run()   *)
(* raises.                                                                 *)
Cleanup ==
  /\ At("cleanup")
  /\ IF \A d \in I.ds : st[d] = "down" THEN Continue ELSE Raise
  /\ UNCHANGED <<st, dirs, conn, crashed, verdict, want, downAt>>

(* LDMSD.connect: an old connection is closed, the new one is refused when *)
(* nobody listens.  LDMSD.disconnect.                                      *)
Connect ==
  /\ At("connect")
  /\ \E a \in I.ds : /\ conn' = [conn EXCEPT ![a] = IF st[a] = "up" THEN "open" ELSE "dead"]
                     /\ IF st[a] = "up" THEN Continue ELSE Raise
  /\ UNCHANGED <<st, dirs, crashed, verdict, want, downAt>>

Disconnect ==
  /\ At("disconnect")
  /\ conn' = [a \in Aggs |-> IF a \in I.ds THEN "none" ELSE conn[a]]
  /\ Continue
  /\ UNCHANGED <<st, dirs, crashed, verdict, want, downAt>>

(* LDMSD.dir: connects on the first use; fails on a connection whose       *)
(* daemon is gone.                                                         *)
DirFails(a) == conn[a] = "dead" \/ st[a] # "up"
Opened(a) == conn' = [conn EXCEPT ![a] = IF DirFails(a) THEN "dead" ELSE "open"]

(* The conditions of Control.stop, Control.start, wait_set_removed and     *)
(* wait_set_restored.  The last compares numbers of sets.                  *)
CondHolds ==
  CASE I.do = "stopped" -> \A d \in I.ds : st[d] = "down"
    [] I.do = "started" -> \A d \in I.ds : st[d] = "up"
    [] I.do = "removed" -> IF I.rm # {} THEN DirOf(L3) \cap I.rm = {}
                           ELSE Cardinality(DirOf(L3)) < Cardinality(getExpectedDir(L3))
    [] I.do = "restored" -> Cardinality(DirOf(L3)) = Cardinality(getExpectedDir(L3))
    [] OTHER -> FALSE

(* Mutant: cond_wait() has no timeout.                                     *)
CondWaitForever ==
  /\ outcome = "running"
  /\ I.do \in {"stopped", "started", "removed", "restored"}
  /\ IF I.do \in {"removed", "restored"} THEN Opened(L3) ELSE UNCHANGED conn
  /\ \/ I.do \in {"removed", "restored"} /\ DirFails(L3) /\ Raise
     \/ ~(I.do \in {"removed", "restored"} /\ DirFails(L3)) /\ CondHolds /\ Continue
  /\ UNCHANGED <<st, dirs, crashed, verdict, want, downAt>>

(* cond_wait: go on when the condition holds; dir() may raise, and so does *)
(* the timeout.                                                            *)
CondWait ==
  /\ outcome = "running"
  /\ I.do \in {"stopped", "started", "removed", "restored"}
  /\ IF I.do \in {"removed", "restored"} THEN Opened(L3) ELSE UNCHANGED conn
  /\ \/ I.do \in {"removed", "restored"} /\ DirFails(L3) /\ Raise
     \/ ~(I.do \in {"removed", "restored"} /\ DirFails(L3)) /\ CondHolds /\ Continue
     \/ ~CondHolds /\ Steady /\ Raise
  /\ UNCHANGED <<st, dirs, crashed, verdict, want, downAt>>

(* time.sleep(STEADY_WAIT).                                                *)
SleepEnds ==
  /\ At("sleep")
  /\ Steady
  /\ downAt' = {d \in Daemons : st[d] # "up"}
  /\ Continue
  /\ UNCHANGED <<st, dirs, conn, crashed, verdict, want>>

(* Mutant: the missing sets are taken away at every level.                 *)
ExpectedAtAll(a) == getExpectedDir(a) \ I.rm

(* dir_verify: what aggregator a should list.                              *)
Expected(a) ==
  IF agg_level(a) > I.level THEN getExpectedDir(a) \ I.rm ELSE getExpectedDir(a)

(* Mutant: a bad result does not end the script.                           *)
BadDirGoesOn(a) ==
  /\ verdict' = [verdict EXCEPT ![I.n] = "failed"]
  /\ todo' = todo \ {a}
  /\ UNCHANGED <<pc, outcome>>

(* A bad result is reported; the loop goes on unless DEBUG is set.         *)
BadDir(a) ==
  /\ verdict' = [verdict EXCEPT ![I.n] = "failed"]
  /\ IF Debug THEN Raise ELSE todo' = todo \ {a} /\ UNCHANGED <<pc, outcome>>

(* dir_verify: one round of the loop.                                      *)
VerifyNext ==
  /\ At("verify")
  /\ \E a \in todo :
       /\ \A b \in todo \ {a} : Precedes(a, b)
       /\ Opened(a)
       /\ \/ DirFails(a) /\ Raise /\ UNCHANGED verdict
          \/ ~DirFails(a) /\ DirOf(a) # Expected(a) /\ BadDir(a)
          \/ /\ ~DirFails(a) /\ DirOf(a) = Expected(a)
             /\ todo' = todo \ {a}
             /\ UNCHANGED <<pc, verdict, outcome>>
  /\ UNCHANGED <<st, dirs, crashed, want, downAt>>

(* dir_verify: the loop has no break, so that its else part always runs.   *)
Verified ==
  /\ At("verify")
  /\ todo = {}
  /\ verdict' = [verdict EXCEPT ![I.n] = "passed"]
  /\ Continue
  /\ UNCHANGED <<st, dirs, conn, crashed, want, downAt>>
-----------------------------------------------------------------------------
(* Nothing runs, or all that a previous run left does.                     *)
Init ==
  /\ st \in {[d \in Daemons |-> "down"], [d \in Daemons |-> "up"]}
  /\ dirs = [a \in Aggs |-> {}]
  /\ conn = [a \in Aggs |-> "none"]
  /\ pc = 1
  /\ todo = {}
  /\ verdict = [n \in 1..9 |-> "none"]
  /\ outcome = "running"
  /\ want = {}
  /\ crashed = {}
  /\ downAt = {}

TestStep == Stop \/ Start \/ Cleanup \/ Connect \/ Disconnect \/ CondWait
              \/ SleepEnds \/ VerifyNext \/ Verified
Ldmsd == (\E d \in Daemons : Boot(d) \/ Exit(d)) \/ (\E a \in Aggs, p \in Daemons : Collect(a, p))

(* The daemons matter as long as the script runs.                          *)
Next ==
  /\ outcome = "running"
  /\ TestStep \/ Ldmsd \/ \E d \in Daemons : Crash(d)

(* Collection goes on at its intervals and processes come and go as they   *)
(* are told; nothing makes a daemon crash.                                 *)
Spec == Init /\ [][Next]_vars /\ WF_vars(outcome = "running" /\ TestStep)
                              /\ WF_vars(outcome = "running" /\ Ldmsd)
-----------------------------------------------------------------------------
(* The script raises only when a daemon died on its own, or when it did    *)
(* not wait for one that was about to come up or to go (test.py:140 and    *)
(* 175): what each aggregator is expected to list at every step of the     *)
(* scenario (test.py:84-101, ldmsdutils.py:384-419) is what the            *)
(* configurations written by getConfig() make it collect, through every    *)
(* kill and resurrection, and no connection to a killed daemon is used.    *)
NoFalseAlarm ==
  /\ outcome = "raised" => crashed # {} \/ Transit # {}
  /\ \A n \in 1..9 : verdict[n] = "failed" => crashed # {}

(* A passed assertion means that the daemons that the script wants were    *)
(* running when the steady state was reached: a dead aggregator is noticed *)
(* by its connection and a dead sampler by what is missing upstream        *)
(* (test.py:84-101).  Only a sampler that no running aggregator is         *)
(* configured for may be missed.                                           *)
PassMeansUp ==
  [][\A n \in 1..9 : verdict'[n] = "passed" /\ verdict[n] # "passed"
       => \A d \in downAt \cap want :
            d \in Samplers /\ \A a \in want : d \notin getConfig(a)]_vars

(* The script ends, with whatever outcome, also when a daemon it waits for *)
(* never comes back (ldmsdutils.py:67-77).                                 *)
ScriptEnds == <>(outcome # "running")

-----------------------------------------------------------------------------
(* Why NoFalseAlarm and PassMeansUp hold.                                  *)

(* What the script has achieved when it comes to step k: the daemons that  *)
(* it has told to stop, that these are gone, that nothing is under way.    *)
Down(k) ==
  CASE k <= 3 -> Daemons
    [] k \in 9..14 -> half
    [] k \in 22..27 -> {l11}
    [] k \in 36..41 -> {l21}
    [] k \in 50..54 -> {L3}
    [] OTHER -> {}
Gone(k) == k \notin {1, 2, 9, 22, 36, 50}
Calm(k) ==
  \/ k \in 6..8   \/ k \in 12..14 \/ k \in 18..21 \/ k \in 25..27 \/ k \in 31..35
  \/ k \in 39..41 \/ k \in 45..49 \/ k \in 52..54 \/ k \in 57..62

(* An aggregator has nothing that it should not list; a dead one, nothing. *)
DirsInv ==
  \A a \in Aggs : dirs[a] \subseteq getExpectedDir(a) /\ (st[a] # "up" => dirs[a] = {})

(* The script is where it believes to be.                                  *)
ScriptInv ==
  outcome = "running" =>
    /\ want = Daemons \ Down(pc)
    /\ todo \subseteq (IF I.do = "verify" THEN I.ds ELSE {})

(* As long as nothing dies on its own, the daemons obey and no connection  *)
(* to a killed one is left.                                                *)
ObeyInv ==
  outcome = "running" /\ crashed = {} =>
    /\ pc # 1 => \A d \in Daemons : st[d] \in IF d \in want THEN {"boot", "up"}
                                                             ELSE {"dying", "down"}
    /\ Gone(pc) => \A d \in Daemons \ want : st[d] = "down"
    /\ Calm(pc) => Steady
    /\ \A a \in Aggs : conn[a] # "dead" /\ (conn[a] = "open" => st[a] = "up")
    /\ I.do = "stop" /\ pc # 62 => \A a \in I.ds \cap Aggs : conn[a] = "none"

(* A daemon that was missing at the end of the last sleep is still missing *)
(* and leaves a trace in what is yet to be asked.                          *)
MissInv ==
  outcome = "running" /\ Calm(pc) =>
    \A d \in downAt \cap want :
      /\ st[d] = "down"
      /\ d \in Samplers => \A a \in Aggs : d \in getConfig(a) => d \notin dirs[a]
      /\ I.do = "verify" =>
           /\ d \in Aggs => d \in todo
           /\ d \in Samplers => \A a \in want : d \in getConfig(a) => a \in todo

IInv == TypeOK /\ DirsInv /\ ScriptInv /\ ObeyInv /\ NoFalseAlarm
=============================================================================
