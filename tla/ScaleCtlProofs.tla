--------------------------- MODULE ScaleCtlProofs ---------------------------
(***************************************************************************)
(* Proofs about ScaleCtl for any hosts, daemons, threads and pids.         *)
(***************************************************************************)
EXTENDS ScaleCtl, TLAPS

-----------------------------------------------------------------------------
(* The shares of the threads of cluster.py.                                *)

First(i) == LET M == Len(Hosts) \div NThreads
                R == Len(Hosts) % NThreads
            IN  (i - 1) * M + (IF i - 1 < R THEN i - 1 ELSE R)
Last(i) == First(i) + (Len(Hosts) \div NThreads)
             + (IF i <= Len(Hosts) % NThreads THEN 1 ELSE 0)

\* The slices of cluster.py follow each other and stay within the hosts.
LEMMA SlicesApart ==
    /\ \A i \in Threads : /\ First(i) \in Nat /\ Last(i) \in Nat
                          /\ First(i) <= Last(i) /\ Last(i) <= Len(Hosts)
    /\ \A i, j \in Threads : i < j => Last(i) <= First(j)
<1>. DEFINE M == Len(Hosts) \div NThreads
            R == Len(Hosts) % NThreads
<1>1. Len(Hosts) \in Nat /\ NThreads \in Nat /\ NThreads > 0
  BY ScaleCtlAssumption
<1>2. M \in Nat /\ R \in 0 .. NThreads - 1 /\ Len(Hosts) = NThreads * M + R
  BY <1>1
<1>. HIDE DEF M, R
<1>3. \A a, b \in Nat : a <= b => a * M <= b * M
  BY <1>2
<1>4. \A i \in Threads : (i - 1) * M + M = i * M /\ i \in Nat /\ i - 1 \in Nat /\ i <= NThreads
  BY <1>1, <1>2 DEF Threads
<1>5. \A i \in Threads : /\ First(i) = (i - 1) * M + (IF i - 1 < R THEN i - 1 ELSE R)
                         /\ Last(i) = First(i) + M + (IF i <= R THEN 1 ELSE 0)
  BY DEF First, Last, M, R
<1>6. \A i \in Threads : Last(i) = i * M + (IF i <= R THEN i ELSE R)
  <2>. TAKE i \in Threads
  <2>1. /\ i \in Nat /\ i - 1 \in Nat /\ R \in Nat /\ M \in Nat
        /\ (i - 1) * M \in Nat /\ i * M \in Nat /\ (i - 1) * M + M = i * M
    BY <1>2, <1>4
  <2>2. Last(i) = (i - 1) * M + (IF i - 1 < R THEN i - 1 ELSE R) + M
                    + (IF i <= R THEN 1 ELSE 0)
    BY <1>5
  <2>. HIDE DEF M, R
  <2>. QED
    BY <2>1, <2>2
<1>7. \A i \in Threads : i * M <= NThreads * M
  BY <1>1, <1>3, <1>4
<1>8. ASSUME NEW i \in Threads
      PROVE  /\ First(i) \in Nat /\ Last(i) \in Nat
             /\ First(i) <= Last(i) /\ Last(i) <= Len(Hosts)
  <2>1. /\ i * M \in Nat /\ (i - 1) * M \in Nat /\ NThreads * M \in Nat
        /\ i * M <= NThreads * M
        /\ i \in Nat /\ i - 1 \in Nat /\ i <= NThreads /\ M \in Nat /\ R \in Nat
    BY <1>1, <1>2, <1>4, <1>7
  <2>2. /\ First(i) = (i - 1) * M + (IF i - 1 < R THEN i - 1 ELSE R)
        /\ Last(i) = First(i) + M + (IF i <= R THEN 1 ELSE 0)
        /\ Last(i) = i * M + (IF i <= R THEN i ELSE R)
    BY <1>5, <1>6
  <2>. DEFINE A == i * M
              B == (i - 1) * M
              C == NThreads * M
  <2>3. /\ A \in Nat /\ B \in Nat /\ C \in Nat /\ A <= C
        /\ First(i) = B + (IF i - 1 < R THEN i - 1 ELSE R)
        /\ Last(i) = A + (IF i <= R THEN i ELSE R)
    BY <2>1, <2>2
  <2>. HIDE DEF A, B, C
  <2>4. First(i) \in Nat
    BY <2>1, <2>3
  <2>5. Last(i) \in Nat /\ First(i) <= Last(i)
    BY <2>1, <2>2, <2>4
  <2>6. Last(i) <= C + R
    BY <2>1, <2>3
  <2>. QED
    BY <2>4, <2>5, <2>6, <1>2 DEF C
<1>9. ASSUME NEW i \in Threads, NEW j \in Threads, i < j
      PROVE  Last(i) <= First(j)
  <2>1. /\ i * M \in Nat /\ (j - 1) * M \in Nat /\ i \in Nat /\ j \in Nat
        /\ R \in Nat /\ i <= j - 1 /\ j - 1 \in Nat
    <3>1. i \in Nat /\ j \in Nat /\ j - 1 \in Nat /\ R \in Nat /\ M \in Nat
      BY <1>2, <1>4
    <3>2. i <= j - 1
      BY <1>9, <3>1
    <3>3. i * M \in Nat /\ (j - 1) * M \in Nat
      BY <3>1
    <3>. QED
      BY <3>1, <3>2, <3>3
  <2>. DEFINE A == i * M
              B == (j - 1) * M
  <2>2. A <= B
    BY <1>3, <2>1
  <2>3. First(j) = B + (IF j - 1 < R THEN j - 1 ELSE R)
    BY <1>5
  <2>4. Last(i) = A + (IF i <= R THEN i ELSE R)
    BY <1>6
  <2>5. A \in Nat /\ B \in Nat
    BY <2>1
  <2>. HIDE DEF A, B
  <2>6. (IF i <= R THEN i ELSE R) <= (IF j - 1 < R THEN j - 1 ELSE R)
    BY <2>1
  <2>. QED
    BY <2>1, <2>2, <2>3, <2>4, <2>5, <2>6
<1>. QED
  BY <1>8, <1>9

\* A process belongs to one host.
LEMMA OneHost ==
    ASSUME NEW g \in HostSet, NEW h \in HostSet, NEW d \in Procs, On(g, d), On(h, d)
    PROVE  g = h
<1>1. d # None
  BY ScaleCtlAssumption
<1>2. d \in Range(DaemonsOf[g]) => d \in Daemons
  BY DEF Daemons
<1>3. d \in Range(DaemonsOf[h]) => d \in Daemons
  BY DEF Daemons
<1>4. d = MonOf[g] => d \in Mons
  BY <1>1 DEF Mons
<1>5. d = MonOf[h] => d \in Mons
  BY <1>1 DEF Mons
<1>. QED
  BY <1>1, <1>2, <1>3, <1>4, <1>5, ScaleCtlAssumption DEF On

\* cluster.py gives two threads no daemon in common.
LEMMA SharesApart ==
    ASSUME NEW i \in Threads, NEW j \in Threads, i # j, NEW names \in SUBSET Procs
    PROVE  Through(Load(i), names) \cap Through(Load(j), names) = {}
<1>1. \A k \in Threads : Load(k) = {Hosts[n] : n \in First(k) + 1 .. Last(k)}
  BY DEF Load, First, Last
<1>2. DOMAIN Hosts = 1 .. Len(Hosts) /\ Len(Hosts) \in Nat
  BY ScaleCtlAssumption
<1>3. SUFFICES ASSUME NEW d \in names, NEW g \in Load(i), NEW h \in Load(j),
                      On(g, d), On(h, d)
               PROVE  FALSE
  BY DEF Through
<1>4. PICK m \in First(i) + 1 .. Last(i) : g = Hosts[m]
  BY <1>1
<1>5. PICK n \in First(j) + 1 .. Last(j) : h = Hosts[n]
  BY <1>1
<1>6. m \in 1 .. Len(Hosts) /\ n \in 1 .. Len(Hosts)
  BY <1>2, SlicesApart
<1>7. g \in HostSet /\ h \in HostSet
  BY <1>2, <1>4, <1>5, <1>6 DEF HostSet, Range
<1>8. g = h
  BY <1>3, <1>7, OneHost
<1>9. m = n
  BY <1>2, <1>4, <1>5, <1>6, <1>8, ScaleCtlAssumption DEF IsInjective
<1>10. (i < j /\ Last(i) <= First(j)) \/ (j < i /\ Last(j) <= First(i))
  BY SlicesApart DEF Threads
<1>. QED
  BY <1>6, <1>9, <1>10, SlicesApart
-----------------------------------------------------------------------------
(* What the parts of a step do.                                            *)

States == {"none", "boot", "up", "dying"}
Pcs == {"check", "spawn", "pidfile", "kill", "unlink"}
WorkerType == [todo : SUBSET Procs, cur : Procs \cup {None}, pc : Pcs,
               pid : Pids \cup {None}, rc : {0, 1}]

\* The marks of ps are none of the daemons, and None is no pid and no daemon.
LEMMA Marks ==
    /\ Free \notin Procs /\ Dead \notin Procs
    /\ Other \notin Procs /\ Lookalike \notin Procs
    /\ Free # Dead /\ Free # Other /\ Dead # Other
    /\ Lookalike # Free /\ Lookalike # Dead
    /\ None \notin Pids /\ None \notin Procs
    /\ Daemons \subseteq Procs /\ Mons \subseteq Procs /\ Daemons \cap Mons = {}
    /\ \A d \in Procs : d \in Daemons \/ d \in Mons
BY ScaleCtlAssumption DEF Procs

\* One entry of the process table changes.
LEMMA PsUpdate ==
    ASSUME TypeOK, NEW p \in Pids, NEW o \in Owner, NEW s \in States,
           ps' = [ps EXCEPT ![p] = [of |-> o, st |-> s]]
    PROVE  /\ ps' \in [Pids -> [of : Owner, st : States]]
           /\ ps'[p].of = o /\ ps'[p].st = s
           /\ \A q \in Pids \ {p} : ps'[q].of = ps[q].of /\ ps'[q].st = ps[q].st
<1>1. ps \in [Pids -> [of : Owner, st : States]]
  BY DEF TypeOK, Owner, States
<1>2. ps'[p] = [of |-> o, st |-> s]
  BY <1>1
<1>. QED
  BY <1>1, <1>2

\* A thread goes on with the daemon it is at.
LEMMA GotoEffect ==
    ASSUME TypeOK, NEW i \in Threads, NEW d \in Procs, NEW q \in Pcs,
           NEW x \in Pids \cup {None}, Goto(i, d, q, x)
    PROVE  /\ worker' \in [Threads -> WorkerType]
           /\ worker'[i].todo = worker[i].todo /\ worker'[i].cur = d
           /\ worker'[i].pc = q /\ worker'[i].pid = x
           /\ \A j \in Threads \ {i} : worker'[j] = worker[j]
<1>1. worker \in [Threads -> WorkerType]
  BY DEF TypeOK, WorkerType, Pcs
<1>2. worker'[i] = [todo |-> worker[i].todo, cur |-> d, pc |-> q, pid |-> x,
                    rc |-> worker[i].rc]
  BY <1>1, ZenonT(60) DEF Goto, WorkerType
<1>3. worker'[i] \in WorkerType
  BY <1>1, <1>2 DEF WorkerType
<1>. QED
  BY <1>1, <1>2, <1>3 DEF Goto

\* A thread is done with d.
LEMMA DoneEffect ==
    ASSUME TypeOK, NEW i \in Threads, NEW d \in Procs, NEW rc \in {0, 1}, Done(i, d, rc)
    PROVE  /\ worker' \in [Threads -> WorkerType]
           /\ worker'[i].todo \subseteq worker[i].todo \ {d}
           /\ worker'[i].pc = "check" /\ worker'[i].pid = None
           /\ \A j \in Threads \ {i} : worker'[j] = worker[j]
<1>1. worker \in [Threads -> WorkerType]
  BY DEF TypeOK, WorkerType, Pcs
<1>2. PICK t \in SUBSET (worker[i].todo \ {d}), f \in {0, 1} :
        worker' = [worker EXCEPT ![i] = [todo |-> t, cur |-> None, pc |-> "check",
                                         pid |-> None, rc |-> f]]
  <2>. DEFINE rest == worker[i].todo \ {d}
              fail == IF op.tool = "Control" /\ rc = 1 THEN 1 ELSE worker[i].rc
              gaveUp == fail = 1 /\ \A e \in rest, h \in HostSet : On(h, d) => ~On(h, e)
              t == IF gaveUp THEN {} ELSE rest
  <2>1. t \in SUBSET rest /\ fail \in {0, 1}
    BY <1>1 DEF WorkerType
  <2>2. worker' = [worker EXCEPT ![i] = [todo |-> t, cur |-> None, pc |-> "check",
                                         pid |-> None, rc |-> fail]]
    BY DEF Done
  <2>. HIDE DEF t, fail, gaveUp
  <2>. QED
    BY <2>1, <2>2
<1>3. worker'[i] = [todo |-> t, cur |-> None, pc |-> "check", pid |-> None, rc |-> f]
  BY <1>1, <1>2
<1>4. worker'[i] \in WorkerType
  BY <1>1, <1>3 DEF WorkerType, Pcs
<1>. QED
  BY <1>1, <1>2, <1>3, <1>4

\* The types by their names.
LEMMA Typed ==
    TypeOK <=> /\ ps \in [Pids -> [of : Owner, st : States]]
               /\ pidFile \in [Procs -> Pids \cup {None}]
               /\ op \in [tool : {"none", "cluster", "Control"},
                          cmd : {"none", "start", "stop", "cleanup"},
                          names : SUBSET Procs, pc : {"idle", "run", "poll"},
                          left : SUBSET Procs, seen : SUBSET Procs]
               /\ worker \in [Threads -> WorkerType]
               /\ cache \in [Daemons -> Pids \cup {None}]
               /\ unseen \subseteq Daemons
BY DEF TypeOK, Owner, States, Pcs, WorkerType

\* Where a check finds no process of d, there is none: a daemon that is coming
\* up is nobody's work, and one that is up is in its pid file.
LEMMA NobodyThere ==
    ASSUME IInv, NEW i \in Threads, NEW d \in worker[i].todo, worker[i].pc = "check",
           \A p \in Pids : pidFile[d] = p => ps[p].of # d
    PROVE  NoneOf(d)
<1>1. SUFFICES ASSUME NEW p \in Pids, ps[p].of = d
               PROVE  FALSE
  BY DEF NoneOf
<1>2. d \in Procs
  BY Typed DEF IInv, WorkerType
<1>3. ps[p].st \in States /\ ps[p].st # "none" /\ ps[p].st # "boot"
  BY <1>1, <1>2, Marks, Typed DEF IInv, ProcessInv, BootInv
<1>4. ps[p].st \in {"up", "dying"}
  BY <1>3 DEF States
<1>5. pidFile[d] # p
  BY <1>1
<1>6. PICK j \in Threads : worker[j].pc = "pidfile" /\ Cur(j) = d
  BY <1>1, <1>2, <1>4, <1>5 DEF IInv, KnownInv
<1>7. j # i /\ d \in worker[j].todo
  BY <1>6 DEF IInv, ShareInv
<1>. QED
  BY <1>7 DEF IInv, ShareInv
-----------------------------------------------------------------------------
(* The steps of a thread.                                                  *)

\* What a thread works on is its own.
LEMMA OwnWork ==
    ASSUME IInv, NEW i \in Threads, worker[i].pc # "check"
    PROVE  /\ Cur(i) \in Procs /\ Cur(i) \in worker[i].todo
           /\ \A j \in Threads \ {i} : Cur(i) \notin worker[j].todo
           /\ \A p \in Pids : ps[p].st = "boot" => ps[p].of # Cur(i)
BY Typed DEF IInv, ShareInv, BootInv, WorkerType

\* A thread that is done leaves the shares as they are, with less in its own.
LEMMA DoneShares ==
    ASSUME IInv, NEW i \in Threads, NEW d \in Procs, NEW rc \in {0, 1}, Done(i, d, rc),
           op' = op
    PROVE  /\ ShareInv'
           /\ \A j \in Threads : worker'[j].todo \subseteq worker[j].todo
           /\ d \in worker[i].todo => \A j \in Threads : d \notin worker'[j].todo
           /\ \A j \in Threads : worker'[j].pc # "check" =>
                /\ j # i /\ worker'[j].pc = worker[j].pc /\ worker'[j].pid = worker[j].pid
                /\ worker'[j].cur = worker[j].cur
           /\ \A j \in Threads : worker[j].pc # "check" /\ j # i => worker'[j] = worker[j]
<1>. USE DoneEffect DEF IInv
<1>1. \A j \in Threads : worker'[j].todo \subseteq worker[j].todo
  OBVIOUS
<1>2. \A j \in Threads : worker'[j].pc # "check" =>
        /\ j # i /\ worker'[j].pc = worker[j].pc /\ worker'[j].pid = worker[j].pid
        /\ worker'[j].cur = worker[j].cur /\ worker'[j].todo = worker[j].todo
  OBVIOUS
<1>3. ShareInv'
  BY <1>1, <1>2 DEF ShareInv, Cur
<1>4. d \in worker[i].todo => \A j \in Threads : d \notin worker'[j].todo
  BY <1>1 DEF ShareInv
<1>. QED
  BY <1>1, <1>2, <1>3, <1>4

\* Done alone, as when there is nothing to do for a daemon.
LEMMA DoneStep ==
    ASSUME IInv, NEW i \in Threads, NEW d \in Procs, NEW rc \in {0, 1}, Done(i, d, rc),
           worker[i].pc = "check", UNCHANGED <<ps, pidFile, op, cache, unseen>>
    PROVE  IInv'
<1>1. TypeOK'
  BY DoneEffect, Typed DEF IInv, TypeOK, WorkerType, Pcs
<1>2. ShareInv'
  BY DoneShares
<1>3. ProcessInv' /\ CacheInv'
  BY DEF IInv, ProcessInv, CacheInv
<1>4. BootInv'
  BY DoneShares DEF IInv, BootInv
<1>5. SawInv'
  BY DoneShares DEF IInv, SawInv, Cur, Signals, NoneOf
<1>6. KnownInv'
  BY DoneShares DEF IInv, KnownInv, Cur
<1>. QED
  BY <1>1, <1>2, <1>3, <1>4, <1>5, <1>6 DEF IInv

\* start, stop and cleanup look for the process.
LEMMA CheckStep ==
    ASSUME IInv, NEW i \in Threads, NEW d \in worker[i].todo, Check(i, d)
    PROVE  IInv'
<1>1. /\ UNCHANGED <<ps, pidFile, op, cache, unseen>>
      /\ op.pc = "run" /\ worker[i].pc = "check"
  BY DEF Check, Turn, At
<1>2. d \in Procs
  BY Typed DEF IInv, WorkerType
<1>3. /\ getpid(d) \in Pids \cup {None}
      /\ getpid(d) # None => getpid(d) = pidFile[d] /\ Validates(getpid(d), d)
      /\ getpid(d) = None => \A p \in Pids : pidFile[d] = p => ps[p].of # d
  BY <1>2, Marks, Typed DEF IInv, getpid, Validates
<1>4. \/ Goto(i, d, "spawn", None) /\ getpid(d) = None
      \/ Goto(i, d, "kill", getpid(d)) /\ getpid(d) # None
      \/ Goto(i, d, "unlink", None) /\ getpid(d) = None
      \/ \E rc \in {0, 1} : Done(i, d, rc)
  BY DEF Check
<1>5. ASSUME NEW q \in {"spawn", "kill", "unlink"}, NEW x \in Pids \cup {None},
             Goto(i, d, q, x),
             q = "kill" => x # None /\ x = getpid(d),
             q # "kill" => getpid(d) = None
      PROVE  IInv'
  <2>1. /\ worker' \in [Threads -> WorkerType]
        /\ worker'[i].todo = worker[i].todo /\ worker'[i].cur = d
        /\ worker'[i].pc = q /\ worker'[i].pid = x
        /\ \A j \in Threads \ {i} : worker'[j] = worker[j]
    BY <1>2, <1>5, GotoEffect DEF IInv, Pcs
  <2>2. TypeOK'
    BY <1>1, <2>1, Typed DEF IInv, TypeOK, WorkerType, Pcs
  <2>3. ProcessInv' /\ CacheInv'
    BY <1>1 DEF IInv, ProcessInv, CacheInv
  <2>4. ShareInv'
    <3>1. \A j \in Threads : worker'[j].todo = worker[j].todo
      BY <2>1
    <3>. QED
      BY <1>1, <2>1, <3>1 DEF IInv, ShareInv, Cur
  <2>5. BootInv'
    BY <1>1, <2>1 DEF IInv, BootInv
  <2>6. SawInv'
    <3>1. q \in {"spawn", "unlink"} => \A p \in Pids : ps[p].of # d
      BY <1>1, <1>3, <1>5, NobodyThere DEF NoneOf
    <3>2. q = "kill" => x \in Pids /\ Signals(x, d)
      <4>1. SUFFICES ASSUME q = "kill" PROVE x \in Pids /\ Signals(x, d)
        OBVIOUS
      <4>2. x \in Pids /\ x = pidFile[d] /\ Validates(x, d)
        BY <1>3, <1>5, <4>1
      <4>3. CASE ps[x].of = d
        BY <4>2, <4>3 DEF Signals
      <4>4. CASE ps[x].of # d
        <5>1. d \in Mons /\ ps[x].of = Lookalike
          BY <4>2, <4>4 DEF Validates
        <5>2. NoneOf(d)
          BY <1>1, <4>2, <4>4, NobodyThere
        <5>. QED
          BY <4>2, <5>1, <5>2 DEF Signals
      <4>. QED
        BY <4>3, <4>4
    <3>. QED
      BY <1>1, <2>1, <3>1, <3>2 DEF IInv, SawInv, Cur, Signals, NoneOf
  <2>7. KnownInv'
    BY <1>1, <2>1 DEF IInv, KnownInv, Cur
  <2>. QED
    BY <2>2, <2>3, <2>4, <2>5, <2>6, <2>7 DEF IInv
<1>6. (Goto(i, d, "spawn", None) /\ getpid(d) = None) => IInv'
  BY <1>5
<1>7. (Goto(i, d, "kill", getpid(d)) /\ getpid(d) # None) => IInv'
  BY <1>3, <1>5
<1>8. (Goto(i, d, "unlink", None) /\ getpid(d) = None) => IInv'
  BY <1>5
<1>9. (\E rc \in {0, 1} : Done(i, d, rc)) => IInv'
  BY <1>1, <1>2, DoneStep
<1>. QED
  BY <1>4, <1>6, <1>7, <1>8, <1>9

\* LDMSD.start: there was no process of the daemon, and now there is one.
LEMMA StartLdmsdStep ==
    ASSUME IInv, NEW i \in Threads, StartLdmsd(i)
    PROVE  IInv'
<1>. DEFINE d == Cur(i)
<1>1. /\ worker[i].pc = "spawn" /\ d \in Daemons /\ Done(i, d, 0)
      /\ UNCHANGED <<pidFile, op, cache, unseen>>
  BY DEF StartLdmsd, At
<1>2. PICK p \in Pids : /\ ps[p].of = Free
                        /\ ps' = [ps EXCEPT ![p] = [of |-> d, st |-> "boot"]]
  BY DEF StartLdmsd
<1>. HIDE DEF d
<1>3. d \in Procs /\ d # Free /\ d # Dead
  BY <1>1, Marks
<1>4. /\ ps' \in [Pids -> [of : Owner, st : States]]
      /\ ps'[p].of = d /\ ps'[p].st = "boot"
      /\ \A q \in Pids \ {p} : ps'[q].of = ps[q].of /\ ps'[q].st = ps[q].st
  BY <1>2, <1>3, PsUpdate DEF IInv, Owner, States
<1>5. d \in worker[i].todo /\ \A q \in Pids : ps[q].of # d
  BY <1>1 DEF IInv, ShareInv, SawInv, d
<1>6. TypeOK'
  BY <1>1, <1>3, <1>4, DoneEffect, Typed
     DEF IInv, TypeOK, WorkerType, Pcs, Owner, States
<1>7. ShareInv'
  BY <1>1, <1>3, DoneShares
<1>8. ProcessInv'
  BY <1>1, <1>3, <1>4, <1>5 DEF IInv, ProcessInv
<1>9. BootInv'
  BY <1>1, <1>3, <1>4, <1>5, DoneShares DEF IInv, BootInv
<1>10. SawInv'
  <2>1. ASSUME NEW j \in Threads, worker'[j].pc # "check"
        PROVE  /\ worker[j].pc # "check"
               /\ worker'[j].pc = worker[j].pc /\ worker'[j].pid = worker[j].pid
               /\ Cur(j)' = Cur(j) /\ Cur(j) # d /\ Cur(j) \in Procs
    BY <1>1, <1>3, <1>5, <2>1, DoneShares, OwnWork DEF Cur
  <2>2. ASSUME NEW j \in Threads, worker'[j].pc \in {"spawn", "unlink"}
        PROVE  \A q \in Pids : ps'[q].of # Cur(j)'
    BY <1>4, <2>1, <2>2 DEF IInv, SawInv
  <2>3. ASSUME NEW j \in Threads, worker'[j].pc = "pidfile"
        PROVE  Cur(j)' \in Mons /\ \A q \in Pids : ps'[q].of = Cur(j)' => q = worker'[j].pid
    BY <1>4, <2>1, <2>3 DEF IInv, SawInv
  <2>4. ASSUME NEW j \in Threads, worker'[j].pc \in {"pidfile", "kill"}
        PROVE  worker'[j].pid \in Pids /\ ps'[worker'[j].pid].of = ps[worker[j].pid].of
    BY <1>2, <1>4, <2>1, <2>4, Marks DEF IInv, SawInv, Signals
  <2>5. ASSUME NEW j \in Threads, worker'[j].pc = "pidfile"
        PROVE  ps'[worker'[j].pid].of \in {Cur(j)', Dead}
    BY <2>1, <2>4, <2>5 DEF IInv, SawInv
  <2>6. ASSUME NEW j \in Threads, worker'[j].pc = "kill"
        PROVE  Signals(worker[j].pid, Cur(j))'
    BY <1>4, <2>1, <2>4, <2>6 DEF IInv, SawInv, Signals, NoneOf
  <2>. QED
    BY <2>2, <2>3, <2>4, <2>5, <2>6 DEF SawInv
<1>11. KnownInv'
  BY <1>1, <1>3, <1>4, DoneShares DEF IInv, KnownInv, Cur
<1>12. CacheInv'
  BY <1>1, <1>2, <1>4, Marks, Typed DEF IInv, CacheInv
<1>. QED
  BY <1>6, <1>7, <1>8, <1>9, <1>10, <1>11, <1>12 DEF IInv

\* LDMSDMon.start: the monitor runs, and the parent has its pid.
LEMMA ForkStep ==
    ASSUME IInv, NEW i \in Threads, Fork(i)
    PROVE  IInv'
<1>. DEFINE m == Cur(i)
<1>1. /\ worker[i].pc = "spawn" /\ m \in Mons /\ op.pc = "run"
      /\ UNCHANGED <<pidFile, op, cache, unseen>>
  BY DEF Fork, At
<1>2. PICK p \in Pids : /\ ps[p].of = Free
                        /\ ps' = [ps EXCEPT ![p] = [of |-> m, st |-> "up"]]
                        /\ Goto(i, m, "pidfile", p)
  BY DEF Fork
<1>3. /\ m \in worker[i].todo /\ \A q \in Pids : ps[q].of # m
      /\ \A j \in Threads : j # i /\ worker[j].pc # "check" =>
           Cur(j) # m /\ Cur(j) \in Procs
  BY <1>1, OwnWork DEF IInv, SawInv
<1>. HIDE DEF m
<1>4. m \in Procs /\ m # Free /\ m # Dead /\ m \notin Daemons
  BY <1>1, Marks
<1>5. /\ ps' \in [Pids -> [of : Owner, st : States]]
      /\ ps'[p].of = m /\ ps'[p].st = "up"
      /\ \A q \in Pids \ {p} : ps'[q].of = ps[q].of /\ ps'[q].st = ps[q].st
  BY <1>2, <1>4, PsUpdate DEF IInv, Owner, States
<1>6. /\ worker' \in [Threads -> WorkerType]
      /\ worker'[i].todo = worker[i].todo /\ worker'[i].cur = m
      /\ worker'[i].pc = "pidfile" /\ worker'[i].pid = p
      /\ \A j \in Threads \ {i} : worker'[j] = worker[j]
  BY <1>2, <1>4, GotoEffect DEF IInv, Pcs
<1>7. TypeOK'
  BY <1>1, <1>5, <1>6, Typed DEF IInv, TypeOK, WorkerType, Pcs, Owner, States
<1>8. \A j \in Threads : worker'[j].todo = worker[j].todo
  BY <1>6
<1>9. ShareInv'
  BY <1>1, <1>3, <1>6, <1>8 DEF IInv, ShareInv, Cur
<1>10. ProcessInv'
  BY <1>3, <1>4, <1>5 DEF IInv, ProcessInv
<1>11. BootInv'
  BY <1>5, <1>8 DEF IInv, BootInv
<1>12. SawInv'
  <2>1. ASSUME NEW j \in Threads, j # i, worker'[j].pc # "check"
        PROVE  /\ worker'[j].pc = worker[j].pc /\ worker'[j].pid = worker[j].pid
               /\ Cur(j)' = Cur(j) /\ Cur(j) # m /\ Cur(j) \in Procs
    BY <1>3, <1>6, <2>1 DEF Cur
  <2>2. ASSUME NEW j \in Threads, worker'[j].pc \in {"spawn", "unlink"}
        PROVE  \A q \in Pids : ps'[q].of # Cur(j)'
    BY <1>5, <1>6, <2>1, <2>2 DEF IInv, SawInv
  <2>3. ASSUME NEW j \in Threads, worker'[j].pc = "pidfile"
        PROVE  Cur(j)' \in Mons /\ \A q \in Pids : ps'[q].of = Cur(j)' => q = worker'[j].pid
    <3>1. CASE j = i
      BY <1>1, <1>3, <1>5, <1>6, <3>1 DEF Cur
    <3>2. CASE j # i
      BY <1>5, <2>1, <2>3, <3>2 DEF IInv, SawInv
    <3>. QED
      BY <3>1, <3>2
  <2>4. ASSUME NEW j \in Threads, j # i, worker'[j].pc \in {"pidfile", "kill"}
        PROVE  worker'[j].pid \in Pids /\ ps'[worker'[j].pid].of = ps[worker[j].pid].of
    BY <1>2, <1>5, <2>1, <2>4, Marks DEF IInv, SawInv, Signals
  <2>5. worker'[i].pid \in Pids /\ ps'[worker'[i].pid].of = Cur(i)'
    BY <1>5, <1>6 DEF Cur
  <2>6. ASSUME NEW j \in Threads, worker'[j].pc = "pidfile"
        PROVE  ps'[worker'[j].pid].of \in {Cur(j)', Dead}
    BY <2>1, <2>4, <2>5, <2>6 DEF IInv, SawInv
  <2>7. ASSUME NEW j \in Threads, worker'[j].pc = "kill"
        PROVE  Signals(worker[j].pid, Cur(j))'
    BY <1>5, <1>6, <2>1, <2>4, <2>7 DEF IInv, SawInv, Signals, NoneOf
  <2>. QED
    BY <2>2, <2>3, <2>4, <2>5, <2>6, <2>7 DEF SawInv
<1>13. KnownInv'
  <2>1. SUFFICES ASSUME NEW q \in Pids, ps'[q].of \in Procs, ps'[q].st \in {"up", "dying"},
                        pidFile'[ps'[q].of] # q
                 PROVE  \E j \in Threads : /\ worker'[j].pc = "pidfile"
                                           /\ worker'[j].pid = q /\ Cur(j)' = ps'[q].of
    BY DEF KnownInv
  <2>2. CASE q = p
    BY <1>5, <1>6, <2>2 DEF Cur
  <2>3. CASE q # p
    <3>1. PICK j \in Threads : /\ worker[j].pc = "pidfile"
                               /\ worker[j].pid = q /\ Cur(j) = ps[q].of
      BY <1>1, <1>5, <2>1, <2>3 DEF IInv, KnownInv
    <3>2. worker'[j] = worker[j]
      BY <1>1, <1>6, <3>1
    <3>. QED
      BY <1>5, <2>3, <3>1, <3>2 DEF Cur
  <2>. QED
    BY <2>2, <2>3
<1>14. CacheInv'
  BY <1>1, <1>2, <1>5, Marks, Typed DEF IInv, CacheInv
<1>. QED
  BY <1>7, <1>9, <1>10, <1>11, <1>12, <1>13, <1>14 DEF IInv

\* A thread is done with a daemon whose pid file it has written or removed.
LEMMA PidFileStep ==
    ASSUME IInv, NEW i \in Threads, worker[i].pc # "check", NEW x \in Pids \cup {None},
           pidFile' = [pidFile EXCEPT ![Cur(i)] = x], Done(i, Cur(i), 0),
           UNCHANGED <<ps, op, cache, unseen>>,
           \A p \in Pids : ps[p].of = Cur(i) => p = x
    PROVE  IInv'
<1>. DEFINE d == Cur(i)
<1>1. d \in Procs
  BY OwnWork
<1>2. /\ pidFile' \in [Procs -> Pids \cup {None}] /\ pidFile'[d] = x
      /\ \A e \in Procs \ {d} : pidFile'[e] = pidFile[e]
  BY <1>1, Typed DEF IInv
<1>3. Done(i, d, 0) /\ \A p \in Pids : ps[p].of = d => p = x
  OBVIOUS
<1>4. \A e \in Procs, p \in Pids : \A j \in Threads :
        worker[j].pc = "pidfile" /\ worker[j].pid = p /\ Cur(j) = e /\ e # d
          => j # i
  OBVIOUS
<1>. HIDE DEF d
<1>5. TypeOK'
  BY <1>1, <1>2, <1>3, DoneEffect, Typed DEF IInv, TypeOK, WorkerType, Pcs
<1>6. ShareInv'
  BY <1>1, <1>3, DoneShares
<1>7. ProcessInv' /\ CacheInv'
  BY DEF IInv, ProcessInv, CacheInv
<1>8. BootInv'
  BY <1>1, <1>3, DoneShares DEF IInv, BootInv
<1>9. SawInv'
  BY <1>1, <1>3, DoneShares DEF IInv, SawInv, Cur, Signals, NoneOf
<1>10. KnownInv'
  <2>1. SUFFICES ASSUME NEW q \in Pids, ps[q].of \in Procs, ps[q].st \in {"up", "dying"},
                        pidFile'[ps[q].of] # q
                 PROVE  \E j \in Threads : /\ worker'[j].pc = "pidfile"
                                           /\ worker'[j].pid = q /\ Cur(j)' = ps[q].of
    BY DEF KnownInv
  <2>2. ps[q].of # d /\ pidFile[ps[q].of] # q
    BY <1>2, <1>3, <2>1
  <2>3. PICK j \in Threads : /\ worker[j].pc = "pidfile"
                             /\ worker[j].pid = q /\ Cur(j) = ps[q].of
    BY <2>1, <2>2 DEF IInv, KnownInv
  <2>4. worker'[j] = worker[j]
    BY <1>1, <1>3, <1>4, <2>1, <2>2, <2>3, DoneShares
  <2>. QED
    BY <2>3, <2>4 DEF Cur
<1>. QED
  BY <1>5, <1>6, <1>7, <1>8, <1>9, <1>10 DEF IInv

\* Proc.stop: the process that is signalled is the daemon's, or gone.
LEMMA KillStep ==
    ASSUME IInv, NEW i \in Threads, Kill(i)
    PROVE  IInv'
<1>. DEFINE d == Cur(i)
            p == worker[i].pid
<1>1. /\ worker[i].pc = "kill" /\ UNCHANGED <<pidFile, op, cache, unseen>>
      /\ ps' = [ps EXCEPT ![p].st = IF Alive(p) THEN "dying" ELSE @]
      /\ Done(i, d, IF Alive(p) THEN 0 ELSE 1)
  BY DEF Kill, At
<1>2. PICK rc \in {0, 1} : Done(i, d, rc)
  BY <1>1
<1>3. /\ d \in Procs /\ p \in Pids /\ ps[p].of \in {d, Dead, Lookalike}
      /\ \A q \in Pids : ps[q].st = "boot" => ps[q].of # d /\ ps[q].of \in Procs
  BY <1>1, OwnWork, Marks DEF IInv, SawInv, Signals, ProcessInv
<1>. HIDE DEF d, p
<1>4. /\ ps' \in [Pids -> [of : Owner, st : States]]
      /\ \A q \in Pids : ps'[q].of = ps[q].of
      /\ \A q \in Pids : ps'[q].st = ps[q].st
                           \/ (ps'[q].st = "dying" /\ ps[q].st # "none" /\ ps[q].st # "boot")
  <2>. DEFINE s == IF Alive(p) THEN "dying" ELSE ps[p].st
  <2>1. ps \in [Pids -> [of : Owner, st : States]]
    BY Typed DEF IInv
  <2>2. s \in States /\ ps[p].of \in Owner
    BY <1>3, <2>1 DEF States
  <2>3. s = ps[p].st \/ (s = "dying" /\ ps[p].st # "none" /\ ps[p].st # "boot")
    BY <1>3, Marks DEF IInv, ProcessInv, Alive
  <2>4. ps' = [ps EXCEPT ![p].st = s]
    BY <1>1
  <2>. HIDE DEF s
  <2>5. ps' = [ps EXCEPT ![p] = [of |-> ps[p].of, st |-> s]]
    <3>1. [ps[p] EXCEPT !.st = s] = [of |-> ps[p].of, st |-> s]
      BY <1>3, <2>1
    <3>. QED
      BY <2>4, <3>1
  <2>6. /\ ps' \in [Pids -> [of : Owner, st : States]]
        /\ ps'[p].of = ps[p].of /\ ps'[p].st = s
        /\ \A q \in Pids \ {p} : ps'[q].of = ps[q].of /\ ps'[q].st = ps[q].st
    BY <1>3, <2>2, <2>5, PsUpdate DEF IInv
  <2>7. \A q \in Pids : ps'[q].of = ps[q].of
    BY <2>6
  <2>. QED
    BY <2>3, <2>6, <2>7
<1>5. TypeOK'
  BY <1>1, <1>2, <1>3, <1>4, DoneEffect, Typed
     DEF IInv, TypeOK, WorkerType, Pcs, Owner, States
<1>6. ShareInv'
  BY <1>1, <1>2, <1>3, DoneShares
<1>7. ProcessInv'
  BY <1>4 DEF IInv, ProcessInv
<1>8. BootInv'
  BY <1>1, <1>2, <1>3, <1>4, DoneShares DEF IInv, BootInv
<1>9. SawInv'
  BY <1>1, <1>2, <1>3, <1>4, DoneShares DEF IInv, SawInv, Cur, Signals, NoneOf
<1>10. KnownInv'
  <2>1. SUFFICES ASSUME NEW q \in Pids, ps[q].of \in Procs, ps'[q].st \in {"up", "dying"},
                        pidFile[ps[q].of] # q
                 PROVE  \E j \in Threads : /\ worker'[j].pc = "pidfile"
                                           /\ worker'[j].pid = q /\ Cur(j)' = ps[q].of
    BY <1>1, <1>4 DEF KnownInv
  <2>2. ps[q].st \in {"up", "dying"}
    BY <1>4, <2>1, Typed DEF IInv, States
  <2>3. PICK j \in Threads : /\ worker[j].pc = "pidfile"
                             /\ worker[j].pid = q /\ Cur(j) = ps[q].of
    BY <2>1, <2>2 DEF IInv, KnownInv
  <2>4. worker'[j] = worker[j]
    BY <1>1, <1>2, <1>3, <2>3, DoneShares
  <2>. QED
    BY <2>3, <2>4 DEF Cur
<1>11. CacheInv'
  BY <1>1, <1>4, Marks, Typed DEF IInv, CacheInv
<1>. QED
  BY <1>5, <1>6, <1>7, <1>8, <1>9, <1>10, <1>11 DEF IInv

\* Every step of a thread.
LEMMA WorkStep ==
    ASSUME IInv, NEW i \in Threads, Work(i)
    PROVE  IInv'
<1>1. CASE \E d \in worker[i].todo : Check(i, d)
  BY <1>1, CheckStep
<1>2. CASE StartLdmsd(i)
  BY <1>2, StartLdmsdStep
<1>3. CASE Fork(i)
  BY <1>3, ForkStep
<1>4. CASE MonPidFile(i)
  <2>1. /\ worker[i].pc = "pidfile" /\ worker[i].pid \in Pids \cup {None}
        /\ pidFile' = [pidFile EXCEPT ![Cur(i)] = worker[i].pid]
        /\ Done(i, Cur(i), 0) /\ UNCHANGED <<ps, op, cache, unseen>>
    BY <1>4, Typed DEF MonPidFile, At, IInv, WorkerType
  <2>2. \A p \in Pids : ps[p].of = Cur(i) => p = worker[i].pid
    BY <2>1 DEF IInv, SawInv
  <2>. QED
    BY <2>1, <2>2, PidFileStep
<1>5. CASE Kill(i)
  BY <1>5, KillStep
<1>6. CASE Unlink(i) \/ UnlinkMon(i)
  <2>1. /\ worker[i].pc = "unlink"
        /\ pidFile' = [pidFile EXCEPT ![Cur(i)] = None]
        /\ Done(i, Cur(i), 0) /\ UNCHANGED <<ps, op, cache, unseen>>
    BY <1>6 DEF Unlink, UnlinkMon, At
  <2>2. \A p \in Pids : ps[p].of = Cur(i) => p = None
    BY <2>1 DEF IInv, SawInv
  <2>. QED
    BY <2>1, <2>2, PidFileStep
<1>. QED
  BY <1>1, <1>2, <1>3, <1>4, <1>5, <1>6 DEF Work
-----------------------------------------------------------------------------
(* The steps of daemons, monitors and the kernel.                          *)

\* A process is gone; at most its own pid file is gone with it.
LEMMA GoneStep ==
    ASSUME IInv, NEW p \in Pids, ps[p].of \notin {Free, Dead}, Gone(p),
           pidFile' \in [Procs -> Pids \cup {None}],
           \A d \in Procs : pidFile'[d] = pidFile[d] \/ pidFile[d] = p,
           UNCHANGED <<op, worker>>
    PROVE  IInv'
<1>. DEFINE lost == UNION {Range(DaemonsOf[h]) :
                             h \in {g \in HostSet : MonOf[g] = ps[p].of}}
<1>1. /\ ps' = [ps EXCEPT ![p] = [of |-> Dead, st |-> "none"]]
      /\ cache' = [d \in Daemons |-> IF d \in lost THEN None ELSE cache[d]]
      /\ unseen' = {d \in Daemons \ lost : d \in unseen \/ cache[d] = p}
  BY DEF Gone, NoProc
<1>. HIDE DEF lost
<1>2. /\ ps' \in [Pids -> [of : Owner, st : States]]
      /\ ps'[p].of = Dead /\ ps'[p].st = "none"
      /\ \A q \in Pids \ {p} : ps'[q].of = ps[q].of /\ ps'[q].st = ps[q].st
  BY <1>1, PsUpdate DEF IInv, Owner, States
<1>3. TypeOK'
  BY <1>1, <1>2, Typed DEF IInv, TypeOK, Owner, States
<1>4. ProcessInv'
  BY <1>2, Marks DEF IInv, ProcessInv
<1>5. ShareInv'
  BY DEF IInv, ShareInv, Cur
<1>6. BootInv'
  BY <1>2 DEF IInv, BootInv
<1>7. SawInv'
  <2>1. \A j \in Threads : worker[j].pc # "check" => Cur(j) # Dead
    BY OwnWork, Marks
  <2>. QED
    BY <1>2, <2>1 DEF IInv, SawInv, Cur, Signals, NoneOf
<1>8. KnownInv'
  BY <1>2, Marks DEF IInv, KnownInv, Cur
<1>9. CacheInv'
  <2>1. SUFFICES ASSUME NEW d \in Daemons, cache'[d] # None
                 PROVE  \/ ps'[cache'[d]].of = d
                        \/ ps'[cache'[d]].of = Dead /\ d \in unseen'
    BY DEF CacheInv
  <2>2. d \notin lost /\ cache'[d] = cache[d] /\ cache[d] \in Pids
    BY <1>1, <2>1, Typed DEF IInv
  <2>. QED
    BY <1>1, <1>2, <2>1, <2>2 DEF IInv, CacheInv
<1>. QED
  BY <1>3, <1>4, <1>5, <1>6, <1>7, <1>8, <1>9 DEF IInv

\* Processes that change neither what the harness started nor its files.
LEMMA MarkStep ==
    ASSUME IInv, NEW p \in Pids, NEW o \in {Free, Other, Lookalike}, NEW s \in {"none", "up"},
           s = "none" <=> o = Free,
           ps[p].of \in {Free, Dead},
           \A i \in Threads : ps[p].of = Dead => worker[i].pid # p,
           \A d \in unseen : ps[p].of = Dead => cache[d] # p,
           ps' = [ps EXCEPT ![p] = [of |-> o, st |-> s]],
           UNCHANGED <<pidFile, op, worker, cache, unseen>>
    PROVE  IInv'
<1>1. /\ ps' \in [Pids -> [of : Owner, st : States]]
      /\ ps'[p].of = o /\ ps'[p].st = s
      /\ \A q \in Pids \ {p} : ps'[q].of = ps[q].of /\ ps'[q].st = ps[q].st
  BY PsUpdate DEF IInv, Owner, States
<1>2. o \notin Procs /\ o # Dead /\ (o \in {Free, Dead} <=> s = "none")
  BY Marks
<1>3. TypeOK'
  BY <1>1, Typed DEF IInv, TypeOK, Owner, States
<1>4. ProcessInv'
  BY <1>1, <1>2 DEF IInv, ProcessInv
<1>5. ShareInv'
  BY DEF IInv, ShareInv, Cur
<1>6. BootInv'
  BY <1>1 DEF IInv, BootInv
<1>7. SawInv'
  <2>1. \A j \in Threads : worker[j].pc # "check" => Cur(j) \in Procs
    BY OwnWork
  <2>2. \A j \in Threads : worker[j].pc \in {"pidfile", "kill"} => worker[j].pid # p
    BY <2>1, Marks DEF IInv, SawInv, Signals
  <2>. QED
    BY <1>1, <1>2, <2>1, <2>2 DEF IInv, SawInv, Cur, Signals, NoneOf
<1>8. KnownInv'
  BY <1>1, <1>2 DEF IInv, KnownInv, Cur
<1>9. CacheInv'
  <2>1. \A d \in Daemons : cache[d] # None => cache[d] \in Pids /\ cache[d] # p
    BY Marks, Typed DEF IInv, CacheInv
  <2>. QED
    BY <1>1, <2>1 DEF IInv, CacheInv
<1>. QED
  BY <1>3, <1>4, <1>5, <1>6, <1>7, <1>8, <1>9 DEF IInv

\* ldmsd writes its pid file when it is up.
LEMMA BootStep ==
    ASSUME IInv, NEW p \in Pids, Boot(p)
    PROVE  IInv'
<1>1. /\ ps[p].st = "boot" /\ ps' = [ps EXCEPT ![p].st = "up"]
      /\ pidFile' = [pidFile EXCEPT ![ps[p].of] = p]
      /\ UNCHANGED <<op, worker, cache, unseen>>
  BY DEF Boot
<1>2. ps \in [Pids -> [of : Owner, st : States]]
  BY Typed DEF IInv
<1>3. ps[p].of \in Procs /\ ps[p].of \in Owner /\ "up" \in States
  BY <1>1, Marks DEF IInv, ProcessInv, Owner, States
<1>4. ps' = [ps EXCEPT ![p] = [of |-> ps[p].of, st |-> "up"]]
  <2>1. [ps[p] EXCEPT !.st = "up"] = [of |-> ps[p].of, st |-> "up"]
    BY <1>2
  <2>. QED
    BY <1>1, <2>1
<1>5. /\ ps' \in [Pids -> [of : Owner, st : States]]
      /\ ps'[p].of = ps[p].of /\ ps'[p].st = "up"
      /\ \A q \in Pids \ {p} : ps'[q].of = ps[q].of /\ ps'[q].st = ps[q].st
  BY <1>3, <1>4, PsUpdate DEF IInv
<1>6. \A q \in Pids : ps'[q].of = ps[q].of
  BY <1>5
<1>7. /\ pidFile' \in [Procs -> Pids \cup {None}] /\ pidFile'[ps[p].of] = p
      /\ \A e \in Procs : e # ps[p].of => pidFile'[e] = pidFile[e]
  BY <1>1, <1>3, Typed DEF IInv
<1>8. TypeOK'
  BY <1>1, <1>5, <1>7, Typed DEF IInv, TypeOK, Owner, States
<1>9. ProcessInv'
  BY <1>1, <1>5, <1>6 DEF IInv, ProcessInv
<1>10. ShareInv' /\ BootInv'
  BY <1>1, <1>5 DEF IInv, ShareInv, BootInv, Cur
<1>11. SawInv' /\ CacheInv'
  <2>1. SawInv'
    BY <1>1, <1>6 DEF IInv, SawInv, Cur, Signals, NoneOf
  <2>2. CacheInv'
    BY <1>1, <1>6, Typed DEF IInv, CacheInv
  <2>. QED
    BY <2>1, <2>2
<1>12. KnownInv'
  <2>1. SUFFICES ASSUME NEW q \in Pids, ps[q].of \in Procs, ps'[q].st \in {"up", "dying"}
                 PROVE  \/ pidFile'[ps[q].of] = q
                        \/ \E i \in Threads : /\ worker[i].pc = "pidfile"
                                              /\ worker[i].pid = q /\ Cur(i) = ps[q].of
    BY <1>1, <1>6 DEF KnownInv, Cur
  <2>2. CASE q = p
    BY <1>7, <2>2
  <2>3. CASE q # p
    <3>1. ps[q].of # ps[p].of
      BY <2>1, <2>3 DEF IInv, ProcessInv
    <3>. QED
      BY <1>5, <1>7, <2>1, <2>3, <3>1 DEF IInv, KnownInv
  <2>. QED
    BY <2>2, <2>3
<1>. QED
  BY <1>8, <1>9, <1>10, <1>11, <1>12 DEF IInv

\* The monitor looks at a daemon.
LEMMA SampleStep ==
    ASSUME IInv, NEW h \in HostSet, NEW d \in Daemons, Sample(h, d)
    PROVE  IInv'
<1>. DEFINE x == IF Readable(d) THEN pid(d) ELSE None
<1>1. /\ cache' = [cache EXCEPT ![d] = x] /\ unseen' = unseen \ {d}
      /\ UNCHANGED <<ps, pidFile, op, worker>>
  BY DEF Sample
<1>2. d \in Procs
  BY Marks
<1>3. getpid(d) \in Pids \cup {None} /\ (getpid(d) # None => ps[getpid(d)].of = d)
  BY <1>2, Marks, Typed DEF IInv, getpid, Validates
<1>4. x \in Pids \cup {None} /\ (x # None => ps[x].of = d)
  <2>1. pid(d) \in Pids \cup {None}
    BY <1>3, Typed DEF IInv, pid
  <2>2. pid(d) # None => ps[pid(d)].of = d \/ ps[pid(d)].of = Dead
    BY <1>3 DEF IInv, CacheInv, pid
  <2>. QED
    BY <2>1, <2>2 DEF Readable, Alive
<1>. HIDE DEF x
<1>5. TypeOK'
  BY <1>1, <1>4, Typed DEF IInv, TypeOK
<1>6. CacheInv'
  BY <1>1, <1>4, Typed DEF IInv, CacheInv
<1>7. ProcessInv' /\ ShareInv' /\ BootInv'
  BY <1>1 DEF IInv, ProcessInv, ShareInv, BootInv, Cur
<1>8. SawInv' /\ KnownInv'
  BY <1>1 DEF IInv, SawInv, KnownInv, Cur, Signals, NoneOf
<1>. QED
  BY <1>5, <1>6, <1>7, <1>8 DEF IInv

\* Every step of a process, of the kernel or of a monitor.
LEMMA KernelStep ==
    ASSUME IInv, NEW p \in Pids,
           Boot(p) \/ Exit(p) \/ Crash(p) \/ Recycle(p) \/ Stranger(p) \/ StrangerEnds(p)
    PROVE  IInv'
<1>0. pidFile \in [Procs -> Pids \cup {None}]
  BY Typed DEF IInv
<1>1. CASE Boot(p)
  BY <1>1, BootStep
<1>2. CASE Exit(p)
  <2>1. Gone(p) /\ UNCHANGED <<op, worker>> /\ ps[p].st = "dying"
    BY <1>2 DEF Exit
  <2>2. ps[p].of \notin {Free, Dead}
    BY <2>1 DEF IInv, ProcessInv
  <2>3. \/ pidFile' = pidFile
        \/ pidFile' = [d \in Procs |-> IF d = ps[p].of /\ d \in Daemons /\ pidFile[d] = p
                                         THEN None ELSE pidFile[d]]
    BY <1>2 DEF Exit
  <2>4. /\ pidFile' \in [Procs -> Pids \cup {None}]
        /\ \A d \in Procs : pidFile'[d] = pidFile[d] \/ pidFile[d] = p
    BY <1>0, <2>3
  <2>. QED
    BY <2>1, <2>2, <2>4, GoneStep
<1>3. CASE Crash(p)
  BY <1>0, <1>3, Marks, GoneStep DEF Crash
<1>4. CASE Recycle(p)
  <2>1. ps' = [ps EXCEPT ![p] = [of |-> Free, st |-> "none"]]
    BY <1>4 DEF Recycle, NoProc
  <2>. QED
    BY <1>4, <2>1, MarkStep DEF Recycle
<1>5. CASE Stranger(p)
  <2>1. PICK o \in {Other, Lookalike} : ps' = [ps EXCEPT ![p] = [of |-> o, st |-> "up"]]
    BY <1>5 DEF Stranger
  <2>2. o # Free
    BY Marks
  <2>. QED
    BY <1>5, <2>1, <2>2, Marks, MarkStep DEF Stranger
<1>6. CASE StrangerEnds(p)
  BY <1>0, <1>6, Marks, GoneStep DEF StrangerEnds
<1>. QED
  BY <1>1, <1>2, <1>3, <1>4, <1>5, <1>6
-----------------------------------------------------------------------------
(* The steps of the operator.                                              *)

\* A command is given, waited for or ended: no thread is at work before, and
\* none has begun after.
LEMMA OperatorStep ==
    ASSUME IInv, TypeOK',
           \A i \in Threads : worker[i].todo = {},
           \A i \in Threads : worker'[i].pc = "check",
           \A i, j \in Threads : i # j => worker'[i].todo \cap worker'[j].todo = {},
           op'.pc # "run" => \A i \in Threads : worker'[i].todo = {},
           \A p \in Pids : ps[p].st = "boot" => \A i \in Threads : worker'[i].todo = {},
           UNCHANGED <<ps, pidFile, cache, unseen>>
    PROVE  IInv'
<1>1. \A i \in Threads : worker[i].pc = "check"
  BY DEF IInv, ShareInv
<1>2. ProcessInv' /\ CacheInv'
  BY DEF IInv, ProcessInv, CacheInv
<1>3. ShareInv' /\ BootInv' /\ SawInv'
  BY DEF ShareInv, BootInv, SawInv
<1>4. KnownInv'
  BY <1>1 DEF IInv, KnownInv
<1>. QED
  BY <1>2, <1>3, <1>4 DEF IInv

\* cluster.py and Control begin: what the threads are given.
LEMMA BeginStep ==
    ASSUME IInv, op.pc = "idle", Settled, NEW names \in SUBSET Procs,
           NEW tool \in {"cluster", "Control"}, NEW cmd \in {"start", "stop", "cleanup"},
           op' = [tool |-> tool, cmd |-> cmd, names |-> names, pc |-> "run",
                  left |-> {}, seen |-> {}],
           NEW share \in [Threads -> SUBSET Procs],
           \A i, j \in Threads : i # j => share[i] \cap share[j] = {},
           worker' = [i \in Threads |-> [todo |-> share[i], cur |-> None, pc |-> "check",
                                         pid |-> None, rc |-> 0]],
           UNCHANGED <<ps, pidFile, cache, unseen>>
    PROVE  IInv'
<1>1. /\ worker' \in [Threads -> WorkerType]
      /\ \A i \in Threads : worker'[i].pc = "check" /\ worker'[i].todo = share[i]
  BY DEF WorkerType, Pcs
<1>2. TypeOK'
  BY <1>1, Typed DEF IInv, TypeOK, WorkerType, Pcs
<1>3. \A i \in Threads : worker[i].todo = {}
  BY DEF IInv, ShareInv
<1>4. op'.pc = "run" /\ \A p \in Pids : ps[p].st # "boot"
  BY DEF Settled
<1>. QED
  BY <1>1, <1>2, <1>3, <1>4, OperatorStep

\* A thread that has been given its share.
LEMMA Given ==
    ASSUME NEW t
    PROVE  [Idle EXCEPT !.todo = t]
             = [todo |-> t, cur |-> None, pc |-> "check", pid |-> None, rc |-> 0]
BY DEF Idle

\* The steps of the operator.
LEMMA CommandStep ==
    ASSUME IInv,
           \/ \E cmd \in {"start", "stop", "cleanup"}, names \in {Daemons, Mons} :
                 Cluster(cmd, names)
           \/ \E cmd \in {"start", "stop"}, names \in SUBSET Daemons \ {{}} : Control(cmd, names)
    PROVE  IInv'
<1>1. ASSUME NEW cmd \in {"start", "stop", "cleanup"}, NEW names \in {Daemons, Mons},
             Cluster(cmd, names)
      PROVE  IInv'
  <2>. DEFINE share == [i \in Threads |-> Through(Load(i), names)]
  <2>1. names \in SUBSET Procs
    BY Marks
  <2>2. share \in [Threads -> SUBSET Procs]
    BY <2>1 DEF Through
  <2>3. \A i, j \in Threads : i # j => share[i] \cap share[j] = {}
    BY <2>1, SharesApart
  <2>4. worker' = [i \in Threads |-> [todo |-> share[i], cur |-> None, pc |-> "check",
                                      pid |-> None, rc |-> 0]]
    BY <1>1, Given DEF Cluster
  <2>. HIDE DEF share
  <2>5. /\ op.pc = "idle" /\ Settled /\ UNCHANGED <<ps, pidFile, cache, unseen>>
        /\ op' = [tool |-> "cluster", cmd |-> cmd, names |-> names, pc |-> "run",
                  left |-> {}, seen |-> {}]
    BY <1>1 DEF Cluster
  <2>. QED
    BY <2>1, <2>2, <2>3, <2>4, <2>5, BeginStep
<1>2. ASSUME NEW cmd \in {"start", "stop"}, NEW names \in SUBSET Daemons \ {{}},
             Control(cmd, names)
      PROVE  IInv'
  <2>. DEFINE share == [i \in Threads |-> IF i = 1 THEN Through(HostSet, names) ELSE {}]
  <2>1. names \in SUBSET Procs
    BY Marks
  <2>2. share \in [Threads -> SUBSET Procs]
    BY <2>1 DEF Through
  <2>3. \A i, j \in Threads : i # j => share[i] \cap share[j] = {}
    OBVIOUS
  <2>4. worker' = [i \in Threads |-> [todo |-> share[i], cur |-> None, pc |-> "check",
                                      pid |-> None, rc |-> 0]]
    <3>1. \A i \in Threads :
            (IF i = 1 THEN [Idle EXCEPT !.todo = Through(HostSet, names)] ELSE Idle)
              = [todo |-> share[i], cur |-> None, pc |-> "check", pid |-> None, rc |-> 0]
      BY Given DEF Idle
    <3>. HIDE DEF share
    <3>. QED
      BY <1>2, <3>1 DEF Control, Ctrl
  <2>. HIDE DEF share
  <2>5. /\ op.pc = "idle" /\ Settled /\ UNCHANGED <<ps, pidFile, cache, unseen>>
        /\ op' = [tool |-> "Control", cmd |-> cmd, names |-> names, pc |-> "run",
                  left |-> {}, seen |-> {}]
    BY <1>2 DEF Control
  <2>. QED
    BY <2>1, <2>2, <2>3, <2>4, <2>5, BeginStep
<1>. QED
  BY <1>1, <1>2

\* Joining the threads, polling the daemons and giving up.
LEMMA WaitStep ==
    ASSUME IInv, Operate \/ Timeout
    PROVE  IInv'
<1>. DEFINE OpType == [tool : {"none", "cluster", "Control"},
                       cmd : {"none", "start", "stop", "cleanup"},
                       names : SUBSET Procs, pc : {"idle", "run", "poll"},
                       left : SUBSET Procs, seen : SUBSET Procs]
<1>0. op \in OpType /\ NoCommand \in OpType /\ NoCommand.pc = "idle"
  BY Typed DEF IInv, NoCommand
<1>1. CASE Joined
  <2>1. op' \in OpType /\ op'.pc \in {"poll", "idle"}
    BY <1>0, <1>1 DEF Joined
  <2>2. /\ worker' = [i \in Threads |-> Idle] /\ UNCHANGED <<ps, pidFile, cache, unseen>>
        /\ \A i \in Threads : worker[i].todo = {}
    BY <1>1 DEF Joined
  <2>3. /\ worker' \in [Threads -> WorkerType]
        /\ \A i \in Threads : worker'[i].todo = {} /\ worker'[i].pc = "check"
    BY <2>2 DEF Idle, WorkerType, Pcs
  <2>4. TypeOK'
    BY <2>1, <2>2, <2>3, Typed DEF IInv, TypeOK, WorkerType, Pcs
  <2>. QED
    BY <2>2, <2>3, <2>4, OperatorStep
<1>2. CASE CondWait \/ Timeout \/ \E d \in Daemons : Status(d)
  <2>1. op.pc = "poll" /\ UNCHANGED <<ps, pidFile, worker, cache, unseen>>
    BY <1>2 DEF CondWait, Timeout, Status
  <2>2. op' \in OpType /\ op'.pc \in {"poll", "idle"}
    <3>1. CASE CondWait
      BY <1>0, <3>1 DEF CondWait
    <3>2. CASE Timeout
      BY <1>0, <3>2 DEF Timeout
    <3>3. ASSUME NEW d \in Daemons, Status(d)
          PROVE  op' \in OpType /\ op'.pc \in {"poll", "idle"}
      BY <1>0, <3>3, Marks DEF Status
    <3>. QED
      BY <1>2, <3>1, <3>2, <3>3
  <2>3. \A i \in Threads : worker[i].todo = {} /\ worker[i].pc = "check"
    BY <2>1 DEF IInv, ShareInv
  <2>4. TypeOK'
    BY <2>1, <2>2 DEF IInv, TypeOK
  <2>. QED
    BY <2>1, <2>3, <2>4, OperatorStep
<1>. QED
  BY <1>1, <1>2 DEF Operate
-----------------------------------------------------------------------------
(* The theorems.                                                           *)

\* The inductive invariant holds at first and is kept by every step.
LEMMA InvInductive ==
    /\ Init => IInv
    /\ IInv /\ [Next]_vars => IInv'
<1>1. Init => IInv
  <2>. SUFFICES ASSUME Init PROVE IInv
    OBVIOUS
  <2>1. /\ ps = [p \in Pids |-> [of |-> Free, st |-> "none"]]
        /\ \A p \in Pids : ps[p].of = Free /\ ps[p].st = "none"
    BY DEF Init, NoProc
  <2>2. /\ worker \in [Threads -> WorkerType]
        /\ \A i \in Threads : worker[i].todo = {} /\ worker[i].pc = "check"
    BY DEF Init, Idle, WorkerType, Pcs
  <2>3. TypeOK
    BY <2>1, <2>2, Typed DEF Init, NoCommand, Owner, States
  <2>4. ProcessInv /\ ShareInv /\ BootInv
    BY <2>1, <2>2, Marks DEF ProcessInv, ShareInv, BootInv
  <2>5. SawInv /\ KnownInv /\ CacheInv
    BY <2>1, <2>2, Marks DEF Init, SawInv, KnownInv, CacheInv
  <2>. QED
    BY <2>3, <2>4, <2>5 DEF IInv
<1>2. IInv /\ UNCHANGED vars => IInv'
  <2>. SUFFICES ASSUME IInv, UNCHANGED vars PROVE IInv'
    OBVIOUS
  <2>1. UNCHANGED <<ps, pidFile, op, worker, cache, unseen>>
    BY DEF vars
  <2>2. TypeOK' /\ ProcessInv' /\ ShareInv' /\ BootInv'
    BY <2>1 DEF IInv, TypeOK, ProcessInv, ShareInv, BootInv, Cur
  <2>3. SawInv'
    BY <2>1 DEF IInv, SawInv, Cur, Signals, NoneOf
  <2>4. KnownInv' /\ CacheInv'
    BY <2>1 DEF IInv, KnownInv, CacheInv, Cur
  <2>. QED
    BY <2>2, <2>3, <2>4 DEF IInv
<1>3. IInv /\ Next => IInv'
  <2>. SUFFICES ASSUME IInv, Next PROVE IInv'
    OBVIOUS
  <2>1. CASE \/ \E cmd \in {"start", "stop", "cleanup"}, names \in {Daemons, Mons} :
                  Cluster(cmd, names)
             \/ \E cmd \in {"start", "stop"}, names \in SUBSET Daemons \ {{}} :
                  Control(cmd, names)
    BY <2>1, CommandStep
  <2>2. CASE Operate \/ Timeout
    BY <2>2, WaitStep
  <2>3. CASE \E i \in Threads : Work(i)
    BY <2>3, WorkStep
  <2>4. CASE \E p \in Pids : Boot(p) \/ Exit(p) \/ Crash(p) \/ Recycle(p)
                               \/ Stranger(p) \/ StrangerEnds(p)
    BY <2>4, KernelStep
  <2>5. CASE \E h \in HostSet, d \in Daemons : Sample(h, d)
    BY <2>5, SampleStep
  <2>. QED
    BY <2>1, <2>2, <2>3, <2>4, <2>5 DEF Next
<1>. QED
  BY <1>1, <1>2, <1>3

\* The variables keep their types, and the threads, the process table, the pid
\* files and the pids that monitors keep agree, whatever boots, ends, crashes
\* or gets a pid again.
THEOREM AlwaysIInv == Spec => []IInv
BY InvInductive, PTL DEF Spec

\* A daemon or monitor that runs is named by its pid file, or by the parent
\* that is about to write it: cleanup() removes no file of a running one
\* (ldmsdutils.py:368-378), and start() starts no second one.
THEOREM RunningIsFindable == Spec => []Findable
<1>1. IInv => Findable
  BY DEF IInv, KnownInv, Findable
<1>. QED
  BY <1>1, AlwaysIInv, PTL

\* The monitor reads /proc of the daemon's own process or of none, although it
\* keeps pids between samples (ldmsdutils.py:198-223, 282-295).
THEOREM MonitorReportsOwn == Spec => []MonReportsOwn
<1>1. IInv => MonReportsOwn
  BY DEF IInv, CacheInv, MonReportsOwn
<1>. QED
  BY <1>1, AlwaysIInv, PTL

\* stop() signals the ldmsd it was asked to stop or none, however old the pid
\* file it read (ldmsdutils.py:187-193, 225-242), and for a monitor a look-alike
\* on the old pid only when no monitor runs (ldmsdutils.py:254-258).
THEOREM SignalsOnlyOwn == Spec => KillsOnlyOwn
<1>1. IInv /\ [Next]_vars =>
        [\A i \in Threads : At(i, "kill") /\ worker'[i].pc # "kill"
            => Signals(worker[i].pid, Cur(i))]_vars
  BY DEF IInv, SawInv, At
<1>. QED
  BY <1>1, AlwaysIInv, PTL DEF Spec, KillsOnlyOwn
=============================================================================
