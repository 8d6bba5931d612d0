------------------------------ MODULE ScaleCtl ------------------------------
(***************************************************************************)
(* Process control of the scalability harness: src/scalability/ldmsdutils  *)
(* (Proc, LDMSD, LDMSDMon, Control), ldmsd_ctl.py and ldmsd_mon.py, which  *)
(* work on one host, and cluster.py and Control, which run them on all     *)
(* hosts.  A daemon is known only by its pid file; a pid in that file is   *)
(* believed after a look at /proc/PID/comm and /proc/PID/cmdline.  Daemons *)
(* boot, end and crash on their own, and the kernel gives the pids of dead *)
(* processes to others.                                                    *)
(*                                                                         *)
(* One operator runs one command at a time, as test.py does.  Names of     *)
(* daemons, ports and file contents are model values.                      *)
(***************************************************************************)
EXTENDS Naturals, Sequences, Functions

CONSTANTS
  Hosts,      \* the participating hosts, sorted: a sequence
  DaemonsOf,  \* DaemonsOf[h]: the ldmsds of host h, in the order of get_daemons()
  MonOf,      \* MonOf[h]: the monitoring daemon of host h, None if it has none
  NThreads,   \* cluster.py --threads
  Pids,       \* process ids
  None,       \* no pid
  Free, Dead, \* a pid nobody has; of a process that is gone
  Other,      \* a process that has nothing to do with the harness
  Lookalike   \* one that passes for a monitor: a command of ldmsd_mon.py, also the
              \* one that is looking, or the monitor of another harness

HostSet == Range(Hosts)
Daemons == UNION {Range(DaemonsOf[h]) : h \in HostSet}
Mons == {MonOf[h] : h \in HostSet} \ {None}
Procs == Daemons \cup Mons

(* The ports of a host differ, and so do the names of its daemons.         *)
ASSUME ScaleCtlAssumption ==
  /\ IsInjective(Hosts) /\ Hosts \in Seq(HostSet)
  /\ NThreads \in Nat \ {0}
  /\ \A h \in HostSet : DaemonsOf[h] \in Seq(Daemons) /\ IsInjective(DaemonsOf[h])
  /\ Daemons \cap Mons = {}
  /\ \A h, g \in HostSet : h # g => /\ MonOf[h] # MonOf[g] \/ MonOf[h] = None
                                    /\ Range(DaemonsOf[h]) \cap Range(DaemonsOf[g]) = {}
  /\ None \notin Pids \cup Procs
  /\ {Free, Dead, Other, Lookalike} \cap Procs = {}
  /\ Free # Dead /\ {Free, Dead} \cap {Other, Lookalike} = {} /\ Other # Lookalike

VARIABLES
  ps,       \* ps[p]: whose process has pid p, and how far it is
  pidFile,  \* pidFile[d]: the contents of the pid file of d
  op,       \* the operator's command
  worker,   \* worker[i]: what thread i of the command is doing
  cache,    \* cache[d]: Proc._pid of d in the monitor of its host
  unseen    \* daemons whose cached process died since they were last sampled

vars == <<ps, pidFile, op, worker, cache, unseen>>

Threads == 1..NThreads
Owner == Procs \cup {Free, Dead, Other, Lookalike}
NoProc(o) == [of |-> o, st |-> "none"]
Alive(p) == ps[p].of \notin {Free, Dead}
Idle == [todo |-> {}, cur |-> None, pc |-> "check", pid |-> None, rc |-> 0]
NoCommand == [tool |-> "none", cmd |-> "none", names |-> {}, pc |-> "idle",
              left |-> {}, seen |-> {}]

TypeOK ==
  /\ ps \in [Pids -> [of : Owner, st : {"none", "boot", "up", "dying"}]]
  /\ pidFile \in [Procs -> Pids \cup {None}]
  /\ op \in [tool : {"none", "cluster", "Control"}, cmd : {"none", "start", "stop", "cleanup"},
             names : SUBSET Procs, pc : {"idle", "run", "poll"},
             left : SUBSET Procs, seen : SUBSET Procs]
  /\ worker \in [Threads -> [todo : SUBSET Procs, cur : Procs \cup {None},
                             pc : {"check", "spawn", "pidfile", "kill", "unlink"},
                             pid : Pids \cup {None}, rc : {0, 1}]]
  /\ cache \in [Daemons -> Pids \cup {None}]
  /\ unseen \subseteq Daemons
-----------------------------------------------------------------------------
(* Mutant: any live process with the pid in the file is taken for d's.     *)
getpidUnchecked(d) ==
  IF pidFile[d] # None /\ Alive(pidFile[d]) THEN pidFile[d] ELSE None

(* comm_validate and cmdline_validate: an ldmsd must be a process called   *)
(* ldmsd whose command line has its host and port, which no other on the   *)
(* host has; a monitor may be any Python script that has ldmsd_mon.py in   *)
(* its command line.                                                       *)
Validates(p, d) == ps[p].of = d \/ (d \in Mons /\ ps[p].of = Lookalike)

(* Proc.getpid: the pid in the file, if /proc says that it may be d's      *)
(* process.                                                                *)
getpid(d) ==
  IF pidFile[d] # None /\ Validates(pidFile[d], d) THEN pidFile[d] ELSE None

(* What a command on host h goes through, in this order: ldmsd_ctl.py the  *)
(* ldmsds of get_daemons() that are named, ldmsd_mon.py the monitor.       *)
get_daemons(h) == Append(DaemonsOf[h], MonOf[h])
On(h, d) == d \in Range(DaemonsOf[h]) \cup {MonOf[h]}

(* d comes before e: on an earlier host, or earlier on the same one.       *)
Before(d, e) ==
  \E j, k \in DOMAIN Hosts :
    /\ On(Hosts[j], d) /\ On(Hosts[k], e)
    /\ \/ j < k
       \/ j = k /\ \E m, n \in DOMAIN get_daemons(Hosts[j]) :
                      /\ get_daemons(Hosts[j])[m] = d
                      /\ get_daemons(Hosts[j])[n] = e
                      /\ m < n

(* The work of a thread that goes through hosts, one ssh after the other.  *)
Through(hosts, names) == {d \in names : \E h \in hosts : On(h, d)}

(* cluster.py: thread i gets the i-th slice of the hosts; the first        *)
(* Len(Hosts) % N slices are one longer than the others.                   *)
Load(i) ==
  LET M == Len(Hosts) \div NThreads
      R == Len(Hosts) % NThreads
      i0 == (i - 1) * M + (IF i - 1 < R THEN i - 1 ELSE R)
  IN  {Hosts[k] : k \in i0 + 1 .. i0 + M + (IF i <= R THEN 1 ELSE 0)}

(* The operator lets the daemons of one command come up before the next    *)
(* command: test.py waits for all sets to appear after start_all() and     *)
(* gives Control.start() a timeout.                                        *)
Settled == \A p \in Pids : ps[p].st # "boot"

(* cluster.py ldmsd-*, mon-* or all-*: every thread runs the command on    *)
(* its hosts, whatever the others meet.                                    *)
Cluster(cmd, names) ==
  /\ op.pc = "idle"
  /\ Settled
  /\ op' = [tool |-> "cluster", cmd |-> cmd, names |-> names, pc |-> "run",
            left |-> {}, seen |-> {}]
  /\ worker' = [i \in Threads |-> [Idle EXCEPT !.todo = Through(Load(i), names)]]
  /\ UNCHANGED <<ps, pidFile, cache, unseen>>

(* Control._ctrl: all hosts in one thread.                                 *)
Ctrl(names) ==
  worker' = [i \in Threads |->
               IF i = 1 THEN [Idle EXCEPT !.todo = Through(HostSet, names)] ELSE Idle]

(* Control.start and Control.stop with a timeout that is not negative.     *)
Control(cmd, names) ==
  /\ op.pc = "idle"
  /\ Settled
  /\ op' = [tool |-> "Control", cmd |-> cmd, names |-> names, pc |-> "run",
            left |-> {}, seen |-> {}]
  /\ Ctrl(names)
  /\ UNCHANGED <<ps, pidFile, cache, unseen>>

(* All threads are joined: cluster.py ends.  Control begins to wait for    *)
(* what it ordered, or raises RuntimeError when a command failed.          *)
Joined ==
  /\ op.pc = "run"
  /\ \A i \in Threads : worker[i].todo = {}
  /\ op' = IF op.tool = "Control" /\ worker[1].rc = 0
             THEN [op EXCEPT !.pc = "poll", !.left = op.names] ELSE NoCommand
  /\ worker' = [i \in Threads |-> Idle]
  /\ UNCHANGED <<ps, pidFile, cache, unseen>>

(* Control.status: ldmsd_ctl.py looks at one named daemon after the other. *)
Status(d) ==
  /\ op.pc = "poll"
  /\ d \in op.left
  /\ op' = [op EXCEPT !.left = @ \ {d},
                      !.seen = IF getpid(d) # None THEN @ \cup {d} ELSE @]
  /\ UNCHANGED <<ps, pidFile, worker, cache, unseen>>

(* Mutant: stop() waits as start() does.                                   *)
CondHoldsStarted == op.seen = op.names

(* cond_wait: the condition of Control.start and of Control.stop.          *)
CondHolds == IF op.cmd = "start" THEN op.seen = op.names ELSE op.seen = {}

CondWait ==
  /\ op.pc = "poll"
  /\ op.left = {}
  /\ op' = IF CondHolds THEN NoCommand ELSE [op EXCEPT !.left = op.names, !.seen = {}]
  /\ UNCHANGED <<ps, pidFile, worker, cache, unseen>>

(* cond_wait raises TimeoutError when the condition does not hold in time. *)
Timeout ==
  /\ op.pc = "poll"
  /\ op.left = {}
  /\ ~CondHolds
  /\ op' = NoCommand
  /\ UNCHANGED <<ps, pidFile, worker, cache, unseen>>
-----------------------------------------------------------------------------
(* What ldmsd_ctl.py and ldmsd_mon.py do on a host.                        *)
At(i, pc) == op.pc = "run" /\ worker[i].pc = pc
Cur(i) == worker[i].cur
Goto(i, d, pc, pid) ==
  worker' = [worker EXCEPT ![i].cur = d, ![i].pc = pc, ![i].pid = pid]

(* The loop goes on; an exception is printed and makes the exit code 1.    *)
(* When a host is finished with exit code 1, Control gives up the other    *)
(* hosts; cluster.py does not.                                             *)
Done(i, d, rc) ==
  LET rest == worker[i].todo \ {d}
      fail == IF op.tool = "Control" /\ rc = 1 THEN 1 ELSE worker[i].rc
      gaveUp == fail = 1 /\ \A e \in rest, h \in HostSet : On(h, d) => ~On(h, e)
  IN  worker' = [worker EXCEPT ![i] = [todo |-> IF gaveUp THEN {} ELSE rest, cur |-> None,
                                       pc |-> "check", pid |-> None, rc |-> fail]]

(* The next one of the loop.                                               *)
Turn(i, d) ==
  /\ At(i, "check")
  /\ d \in worker[i].todo
  /\ \A e \in worker[i].todo \ {d} : Before(d, e)

(* Mutant: cleanup does not look whether the daemon runs.                  *)
CheckCleansRunning(i, d) ==
  /\ Turn(i, d)
  /\ LET found == getpid(d) IN
       CASE op.cmd = "start" /\ found = None -> Goto(i, d, "spawn", None)
         [] op.cmd = "stop" /\ found # None -> Goto(i, d, "kill", found)
         [] op.cmd = "cleanup" -> Goto(i, d, "unlink", None)
         [] OTHER -> Done(i, d, 0)
  /\ UNCHANGED <<ps, pidFile, op, cache, unseen>>

(* start, stop and cleanup begin with getpid(); its answer is used later.  *)
Check(i, d) ==
  /\ Turn(i, d)
  /\ LET found == getpid(d) IN
       CASE op.cmd = "start" /\ found = None -> Goto(i, d, "spawn", None)
         [] op.cmd = "stop" /\ found # None -> Goto(i, d, "kill", found)
         [] op.cmd = "cleanup" /\ found = None -> Goto(i, d, "unlink", None)
         [] OTHER -> Done(i, d, IF op.cmd = "cleanup" THEN 1 ELSE 0)
  /\ UNCHANGED <<ps, pidFile, op, cache, unseen>>

(* LDMSD.start: run ldmsd, which daemonizes.  It writes its pid file only  *)
(* when it is up.                                                          *)
StartLdmsd(i) ==
  /\ At(i, "spawn")
  /\ Cur(i) \in Daemons
  /\ \E p \in Pids : /\ ps[p].of = Free
                     /\ ps' = [ps EXCEPT ![p] = [of |-> Cur(i), st |-> "boot"]]
  /\ Done(i, Cur(i), 0)
  /\ UNCHANGED <<pidFile, op, cache, unseen>>

(* LDMSDMon.start: fork; the child monitors, with handlers that know no    *)
(* pid yet.                                                                *)
Fork(i) ==
  /\ At(i, "spawn")
  /\ Cur(i) \in Mons
  /\ \E p \in Pids : /\ ps[p].of = Free
                     /\ ps' = [ps EXCEPT ![p] = [of |-> Cur(i), st |-> "up"]]
                     /\ Goto(i, Cur(i), "pidfile", p)
  /\ UNCHANGED <<pidFile, op, cache, unseen>>

(* LDMSDMon.start: the parent writes the pid file.                         *)
MonPidFile(i) ==
  /\ At(i, "pidfile")
  /\ pidFile' = [pidFile EXCEPT ![Cur(i)] = worker[i].pid]
  /\ Done(i, Cur(i), 0)
  /\ UNCHANGED <<ps, op, cache, unseen>>

(* Proc.stop: SIGTERM to the pid found before.  The process may be gone    *)
(* by now, which raises.  (A command that signals itself ends with an exit *)
(* code that cluster.py only prints; the monitor is the last one of its    *)
(* host.)                                                                  *)
Kill(i) ==
  /\ At(i, "kill")
  /\ LET p == worker[i].pid IN
       /\ ps' = [ps EXCEPT ![p].st = IF Alive(p) THEN "dying" ELSE @]
       /\ Done(i, Cur(i), IF Alive(p) THEN 0 ELSE 1)
  /\ UNCHANGED <<pidFile, op, cache, unseen>>

(* LDMSD.cleanup: remove the configuration, the pid file and the log.      *)
Unlink(i) ==
  /\ At(i, "unlink")
  /\ Cur(i) \in Daemons
  /\ pidFile' = [pidFile EXCEPT ![Cur(i)] = None]
  /\ Done(i, Cur(i), 0)
  /\ UNCHANGED <<ps, op, cache, unseen>>

(* LDMSDMon.cleanup: remove the pid file and the samples.                  *)
UnlinkMon(i) ==
  /\ At(i, "unlink")
  /\ Cur(i) \in Mons
  /\ pidFile' = [pidFile EXCEPT ![Cur(i)] = None]
  /\ Done(i, Cur(i), 0)
  /\ UNCHANGED <<ps, op, cache, unseen>>
-----------------------------------------------------------------------------
(* The daemons and the kernel.                                             *)
(* A process is gone.  With a monitor, its handlers are; the handlers of   *)
(* other monitors keep the pid until they are asked again.                 *)
Gone(p) ==
  LET lost == UNION {Range(DaemonsOf[h]) : h \in {g \in HostSet : MonOf[g] = ps[p].of}}
  IN  /\ ps' = [ps EXCEPT ![p] = NoProc(Dead)]
      /\ cache' = [d \in Daemons |-> IF d \in lost THEN None ELSE cache[d]]
      /\ unseen' = {d \in Daemons \ lost : d \in unseen \/ cache[d] = p}

(* ldmsd is up and writes its pid file.                                    *)
Boot(p) ==
  /\ ps[p].st = "boot"
  /\ ps' = [ps EXCEPT ![p].st = "up"]
  /\ pidFile' = [pidFile EXCEPT ![ps[p].of] = p]
  /\ UNCHANGED <<op, worker, cache, unseen>>

(* A process obeys SIGTERM; its pid file stays, or an ldmsd removes it.    *)
Exit(p) ==
  /\ ps[p].st = "dying"
  /\ Gone(p)
  /\ pidFile' \in {pidFile, [d \in Procs |->
                     IF d = ps[p].of /\ d \in Daemons /\ pidFile[d] = p THEN None ELSE pidFile[d]]}
  /\ UNCHANGED <<op, worker>>

(* A daemon or monitor dies on its own, or never comes up.                 *)
Crash(p) ==
  /\ ps[p].st \in {"boot", "up"}
  /\ ps[p].of \in Procs
  /\ Gone(p)
  /\ UNCHANGED <<pidFile, op, worker>>

(* The kernel goes through all pids before it gives one out again: nobody  *)
(* still holds it from a check, and each monitor has had its next round.   *)
Recycle(p) ==
  /\ ps[p].of = Dead
  /\ \A i \in Threads : worker[i].pid # p
  /\ \A d \in unseen : cache[d] # p
  /\ ps' = [ps EXCEPT ![p] = NoProc(Free)]
  /\ UNCHANGED <<pidFile, op, worker, cache, unseen>>

(* One process at a time that is no daemon of the harness.                 *)
Stranger(p) ==
  /\ ps[p].of = Free
  /\ \A q \in Pids : ps[q].of \notin {Other, Lookalike}
  /\ \E o \in {Other, Lookalike} : ps' = [ps EXCEPT ![p] = [of |-> o, st |-> "up"]]
  /\ UNCHANGED <<pidFile, op, worker, cache, unseen>>

StrangerEnds(p) ==
  /\ ps[p].of \in {Other, Lookalike} /\ ps[p].st = "up"
  /\ Gone(p)
  /\ UNCHANGED <<pidFile, op, worker>>

(* Proc.pid in the monitor: looked up once, and kept.                      *)
pid(d) == IF cache[d] # None THEN cache[d] ELSE getpid(d)

(* Mutant: the pid is kept when /proc/PID cannot be read.                  *)
SampleKeepsPid(h, d) ==
  /\ d \in Range(DaemonsOf[h])
  /\ \E p \in Pids : ps[p].of = MonOf[h] /\ ps[p].st = "up"
  /\ cache' = [cache EXCEPT ![d] = pid(d)]
  /\ unseen' = unseen \ {d}
  /\ UNCHANGED <<ps, pidFile, op, worker>>

(* Proc.fd_num and Proc.stat can read /proc/PID.                           *)
Readable(d) == pid(d) # None /\ Alive(pid(d))

(* LDMSDMon.routine: one sample of d, by fd_num() and stat(), which forget *)
(* a pid that they cannot read.                                            *)
Sample(h, d) ==
  /\ d \in Range(DaemonsOf[h])
  /\ \E p \in Pids : ps[p].of = MonOf[h] /\ ps[p].st = "up"
  /\ cache' = [cache EXCEPT ![d] = IF Readable(d) THEN pid(d) ELSE None]
  /\ unseen' = unseen \ {d}
  /\ UNCHANGED <<ps, pidFile, op, worker>>
-----------------------------------------------------------------------------
Init ==
  /\ ps = [p \in Pids |-> NoProc(Free)]
  /\ pidFile = [d \in Procs |-> None]
  /\ op = NoCommand
  /\ worker = [i \in Threads |-> Idle]
  /\ cache = [d \in Daemons |-> None]
  /\ unseen = {}

Work(i) == (\E d \in worker[i].todo : Check(i, d)) \/ StartLdmsd(i) \/ Fork(i) \/ MonPidFile(i)
             \/ Kill(i) \/ Unlink(i) \/ UnlinkMon(i)
Operate == Joined \/ CondWait \/ \E d \in Daemons : Status(d)

Next ==
  \/ \E cmd \in {"start", "stop", "cleanup"}, names \in {Daemons, Mons} : Cluster(cmd, names)
  \/ \E cmd \in {"start", "stop"}, names \in SUBSET Daemons \ {{}} : Control(cmd, names)
  \/ Operate \/ Timeout
  \/ \E i \in Threads : Work(i)
  \/ \E p \in Pids : Boot(p) \/ Exit(p) \/ Crash(p) \/ Recycle(p)
                         \/ Stranger(p) \/ StrangerEnds(p)
  \/ \E h \in HostSet, d \in Daemons : Sample(h, d)

(* Commands run on, and a process that was told to end does.  Nothing      *)
(* makes a daemon crash, a timeout expire or the operator begin a command. *)
Fairness ==
  /\ WF_vars(Operate)
  /\ \A i \in Threads : WF_vars(Work(i))
  /\ \A p \in Pids : WF_vars(Exit(p))

Spec == Init /\ [][Next]_vars /\ Fairness
-----------------------------------------------------------------------------
(* A daemon or monitor that runs, or that was told to end and has not, is  *)
(* named by its pid file, so that later commands find it: cleanup never    *)
(* removes the file of such a one (ldmsdutils.py:368-378), and no second   *)
(* one is started beside it.  A monitor is without its file only until the *)
(* parent that forked it has written it.                                   *)
Findable ==
  \A p \in Pids :
    ps[p].of \in Procs /\ ps[p].st \in {"up", "dying"}
      => \/ pidFile[ps[p].of] = p
         \/ \E i \in Threads : worker[i].pc = "pidfile" /\ worker[i].pid = p

(* A signal to p ends d, or nobody, or a look-alike where no d runs.       *)
NoneOf(d) == \A p \in Pids : ps[p].of # d
Signals(p, d) ==
  \/ ps[p].of \in {d, Dead}
  \/ (d \in Mons /\ ps[p].of = Lookalike /\ NoneOf(d))

(* stop() of an ldmsd signals that ldmsd or raises because it is gone;     *)
(* never a process that got the pid of a dead one, however old the pid     *)
(* file is (ldmsdutils.py:187-193, 225-242).  stop() of a monitor may take *)
(* a look-alike on the old pid for it (ldmsdutils.py:254-258), but only    *)
(* when no monitor runs: one that runs is never spared for a look-alike.   *)
KillsOnlyOwn ==
  [][\A i \in Threads : At(i, "kill") /\ worker'[i].pc # "kill"
        => Signals(worker[i].pid, Cur(i))]_vars

(* The monitor counts the descriptors of the daemon's own process or finds *)
(* no process, although it keeps pids between samples and daemons are      *)
(* restarted under other pids (ldmsdutils.py:198-223, 282-295).            *)
MonReportsOwn ==
  \A d \in Daemons : cache[d] # None => ps[cache[d]].of \in {d, Dead}

(* Control.stop() returns or raises even with no timeout, as long as the   *)
(* daemons obey SIGTERM (ldmsdutils.py:817-824): a stale pid file, a       *)
(* recycled pid or a crash must not keep it waiting.                       *)
StopEnds == (op.tool = "Control" /\ op.cmd = "stop") ~> (op.pc = "idle")
-----------------------------------------------------------------------------
(* Why Findable, KillsOnlyOwn and MonReportsOwn hold.                      *)

(* A daemon has one process, which boots only if it is an ldmsd.           *)
ProcessInv ==
  /\ \A p, q \in Pids : ps[p].of \in Procs /\ ps[p].of = ps[q].of => p = q
  /\ \A p \in Pids : /\ ps[p].st = "none" <=> ps[p].of \in {Free, Dead}
                     /\ ps[p].st = "boot" => ps[p].of \in Daemons

(* Threads work only while a command runs, each on daemons of its own.     *)
ShareInv ==
  /\ \A i, j \in Threads : i # j => worker[i].todo \cap worker[j].todo = {}
  /\ \A i \in Threads : /\ op.pc # "run" => worker[i].todo = {}
                        /\ worker[i].pc # "check" => Cur(i) \in worker[i].todo

(* Nobody works on a daemon that is coming up.                             *)
BootInv ==
  \A p \in Pids, i \in Threads : ps[p].st = "boot" => ps[p].of \notin worker[i].todo

(* What a thread saw at its check still holds as far as it relies on it.   *)
SawInv ==
  \A i \in Threads :
    /\ worker[i].pc \in {"spawn", "unlink"} => \A p \in Pids : ps[p].of # Cur(i)
    /\ worker[i].pc = "pidfile" =>
         /\ Cur(i) \in Mons
         /\ \A p \in Pids : ps[p].of = Cur(i) => p = worker[i].pid
    /\ worker[i].pc \in {"pidfile", "kill"} => worker[i].pid \in Pids
    /\ worker[i].pc = "pidfile" => ps[worker[i].pid].of \in {Cur(i), Dead}
    /\ worker[i].pc = "kill" => Signals(worker[i].pid, Cur(i))

(* A process that runs or is ending is named by its pid file, or about to  *)
(* be.                                                                     *)
KnownInv ==
  \A p \in Pids :
    ps[p].of \in Procs /\ ps[p].st \in {"up", "dying"}
      => \/ pidFile[ps[p].of] = p
         \/ \E i \in Threads : /\ worker[i].pc = "pidfile"
                               /\ worker[i].pid = p /\ Cur(i) = ps[p].of

(* A monitor that has a pid of a dead process has not looked since.        *)
CacheInv ==
  \A d \in Daemons : cache[d] # None =>
    \/ ps[cache[d]].of = d
    \/ ps[cache[d]].of = Dead /\ d \in unseen

IInv == TypeOK /\ ProcessInv /\ ShareInv /\ BootInv /\ SawInv /\ KnownInv /\ CacheInv
=============================================================================
