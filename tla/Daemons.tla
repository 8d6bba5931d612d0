------------------------------- MODULE Daemons -------------------------------
(***************************************************************************)
(* The daemons of one container (class LDMSDContainer and class Munged of   *)
(* LDMS_Test.py): a test script starts and kills them by commands it runs   *)
(* in the container, and tells by pgrep, or by munged's pid file, what is   *)
(* running.  The daemons boot, exit and die at their own pace, and the      *)
(* kernel gives the pid of an ended process to another one.                 *)
(***************************************************************************)
EXTENDS Integers, Sequences, FiniteSets

CONSTANTS
    Pid,         \* process ids of the container
    Specs,       \* what a container may have in spec["daemons"]: types, in order
    SpecKey,     \* the key of the munged entry, or NULL
    DefaultKey,  \* "0"*4096
    MaxCalls,    \* bound on the calls of the script
    Retries,     \* attempts to start slurmd
    NULL

Type == {"sshd", "munged", "slurmd", "ldmsd"}
Key  == {SpecKey, DefaultKey} \ {NULL}

ASSUME DaemonsAssumption ==
    /\ Specs \subseteq Seq(Type)
    /\ MaxCalls \in Nat /\ Retries \in Nat \ {0}
    /\ DefaultKey # NULL /\ NULL \notin Pid

VARIABLES
    spec,        \* spec["daemons"] of the container, which does not change
    procs,       \* processes of the container
    pidfile,     \* content of munged's pid file, NULL if there is none
    keyfile,     \* content of munged's key file, NULL if there is none
    munged,      \* self.munged: the handle the script has, with its key
    pc,          \* where the script is
    asked,       \* the daemons of the call it is in
    todo,        \* those it has yet to start
    retry,
    calls,
    lost,        \* history: types of the processes that ended during the call
    stale        \* history: munged crashed, and its pid file is still there

files == <<pidfile, keyfile>>
history == <<lost, stale>>
vars == <<spec, procs, files, munged, pc, asked, todo, retry, calls, history>>

Process == [pid : Pid, prog : Type \cup {"other"},
            state : {"boot", "up", "dying"}, key : Key \cup {NULL}]

NoHandle == [made |-> FALSE, key |-> NULL]

\* What pgrep finds: a process that is still booting or already dying counts.
Running(prog) == {x \in procs : x.prog = prog}

\* A new process under a pid that is free.
Spawn(prog, state, key) ==
    \E i \in Pid \ {x.pid : x \in procs} :
        procs' = procs \cup {[pid |-> i, prog |-> prog, state |-> state,
                              key |-> key]}

\* start_xxx() returns: start_daemons() goes on with the next daemon.
Started ==
    /\ todo' = Tail(todo)
    /\ pc' = IF Len(todo) = 1 THEN "idle" ELSE "start"

Raise == pc' = "error" /\ UNCHANGED todo

\* The container has an entry of this type.
InSpec(t) == \E i \in DOMAIN spec : spec[i] = t

-----------------------------------------------------------------------------
(* Calls of the script *)

Call(list) ==
    /\ pc = "idle"
    /\ calls < MaxCalls
    /\ list # <<>>
    /\ calls' = calls + 1
    /\ asked' = list
    /\ todo' = list
    /\ pc' = "start"
    /\ lost' = {}
    /\ UNCHANGED <<spec, procs, files, munged, retry, stale>>

StartDaemons == Call(spec)

\* Another script gets the cluster, with objects of its own.
NewScript ==
    /\ pc \in {"idle", "error"}
    /\ calls < MaxCalls
    /\ calls' = calls + 1
    /\ munged' = NoHandle
    /\ pc' = "idle"
    /\ todo' = <<>>
    /\ UNCHANGED <<spec, asked, procs, files, retry, history>>

Signal(S) == procs' = {IF x \in S THEN [x EXCEPT !.state = "dying"] ELSE x :
                          x \in procs}

\* pkill ldmsd
KillLdmsd ==
    /\ pc = "idle"
    /\ calls < MaxCalls
    /\ calls' = calls + 1
    /\ Signal(Running("ldmsd"))
    /\ UNCHANGED <<spec, asked, files, munged, pc, todo, retry, history>>

\* `pkill slurmd slurmctld`: pkill takes one pattern, and refuses two.
KillSlurm ==
    /\ pc = "idle"
    /\ calls < MaxCalls
    /\ calls' = calls + 1
    /\ UNCHANGED <<spec, asked, procs, files, munged, pc, todo, retry, history>>

\* Munged.kill(): the pid of the pid file, whosever it is.
KillMunged ==
    /\ pc = "idle"
    /\ calls < MaxCalls
    /\ munged.made
    /\ calls' = calls + 1
    /\ Signal({x \in procs : x.pid = pidfile})
    /\ UNCHANGED <<spec, asked, files, munged, pc, todo, retry, history>>

-----------------------------------------------------------------------------
(* Starting a daemon *)

StartSshd ==
    /\ pc = "start" /\ Head(todo) = "sshd"
    /\ IF Running("sshd") # {} THEN Started /\ UNCHANGED procs
       ELSE \/ Spawn("sshd", "up", NULL) /\ Started
            \/ Raise /\ UNCHANGED procs
    /\ UNCHANGED <<spec, asked, files, munged, retry, calls, history>>

\* Mutant: ldmsd is taken for running when it listens.
StartLdmsdByPort ==
    /\ pc = "start" /\ Head(todo) = "ldmsd"
    /\ IF \E x \in Running("ldmsd") : x.state = "up"
       THEN Started /\ UNCHANGED procs
       ELSE Spawn("ldmsd", "boot", NULL) /\ pc' = "wait" /\ UNCHANGED todo
    /\ UNCHANGED <<spec, asked, files, munged, retry, calls, history>>

\* start_ldmsd(): the configuration is written, and ldmsd runs in the
\* background.  Where the spec has no ldmsd, the call returns all the same.
StartLdmsd ==
    /\ pc = "start" /\ Head(todo) = "ldmsd"
    /\ IF Running("ldmsd") # {} \/ ~InSpec("ldmsd") THEN Started /\ UNCHANGED procs
       ELSE Spawn("ldmsd", "boot", NULL) /\ pc' = "wait" /\ UNCHANGED todo
    /\ UNCHANGED <<spec, asked, files, munged, retry, calls, history>>

\* cond_timedwait(_check_listen, 5): the result is not looked at.
Waited ==
    /\ pc = "wait"
    /\ Started
    /\ UNCHANGED <<spec, asked, procs, files, munged, retry, calls, history>>

\* start_munged(): start_daemons() passes the entry of the spec.  Without an
\* argument, from a script or from _start_slurmx(), the first daemon of the
\* spec that has no "dom" is taken for that entry, whatever its type.  A handle
\* that was made before is used again.
StartMunged ==
    /\ pc = "start" /\ Head(todo) \in {"munged", "slurmd"}
    /\ LET entry == \/ asked = spec /\ Head(todo) = "munged"
                    \/ spec # <<>> /\ Head(spec) = "munged"
       IN  munged' = IF munged.made THEN munged
                     ELSE [made |-> TRUE,
                           key  |-> IF entry THEN SpecKey ELSE NULL]
    /\ pc' = "munged"
    /\ UNCHANGED <<spec, asked, procs, files, todo, retry, calls, history>>

\* Mutant: a munged that is about to end does not count.
IsRunningUp == \E x \in procs : x.pid = pidfile /\ x.state = "up"

\* `ps -p` of the pid in the pid file.
IsRunning == \E x \in procs : x.pid = pidfile

\* slurmd goes on with its own start.
MungedStarted ==
    IF Head(todo) = "munged" THEN Started /\ UNCHANGED retry
    ELSE pc' = "slurm" /\ retry' = Retries /\ UNCHANGED todo

MungedRunning ==
    /\ pc = "munged"
    /\ IsRunning
    /\ MungedStarted
    /\ UNCHANGED <<spec, asked, procs, files, munged, calls, history>>

\* _prep_key_file(): a key that is given is written; otherwise the existing
\* one is used, and the default one when there is none.
PreparedKey ==
    IF munged.key # NULL THEN munged.key
    ELSE IF keyfile # NULL THEN keyfile ELSE DefaultKey

\* munged may fail, and does when another one has its socket.
MungedStart ==
    /\ pc = "munged"
    /\ ~IsRunning
    /\ keyfile' = PreparedKey
    /\ \/ /\ Running("munged") = {}
          /\ \E i \in Pid \ {x.pid : x \in procs} :
                /\ procs' = procs \cup {[pid |-> i, prog |-> "munged",
                                         state |-> "up", key |-> PreparedKey]}
                /\ pidfile' = i
          /\ stale' = FALSE
          /\ MungedStarted
       \/ Raise /\ UNCHANGED <<procs, pidfile, retry, stale>>
    /\ UNCHANGED <<spec, asked, munged, calls, lost>>

SlurmRunning ==
    /\ pc = "slurm"
    /\ Running("slurmd") # {}
    /\ Started
    /\ UNCHANGED <<spec, asked, procs, files, munged, retry, calls, history>>

\* The entry of slurmd is looked up without a default: StopIteration.
SlurmNotInSpec ==
    /\ pc = "slurm"
    /\ Running("slurmd") = {}
    /\ ~InSpec("slurmd")
    /\ Raise
    /\ UNCHANGED <<spec, asked, procs, files, munged, retry, calls, history>>

SlurmStart ==
    /\ pc = "slurm"
    /\ Running("slurmd") = {}
    /\ InSpec("slurmd")
    /\ retry > 0
    /\ Spawn("slurmd", "up", NULL)
    /\ Started
    /\ UNCHANGED <<spec, asked, files, munged, retry, calls, history>>

\* Mutant: the last failure is not raised.
SlurmFailsQuietly ==
    /\ pc = "slurm"
    /\ Running("slurmd") = {}
    /\ InSpec("slurmd")
    /\ retry' = retry - 1
    /\ IF retry = 1 THEN Started ELSE UNCHANGED <<pc, todo>>
    /\ UNCHANGED <<spec, asked, procs, files, munged, calls, history>>

\* An attempt that fails: the last one raises.
SlurmFails ==
    /\ pc = "slurm"
    /\ Running("slurmd") = {}
    /\ InSpec("slurmd")
    /\ retry' = retry - 1
    /\ IF retry = 1 THEN Raise ELSE UNCHANGED <<pc, todo>>
    /\ UNCHANGED <<spec, asked, procs, files, munged, calls, history>>

-----------------------------------------------------------------------------
(* The processes *)

Booted(x) ==
    /\ x.state = "boot"
    /\ procs' = (procs \ {x}) \cup {[x EXCEPT !.state = "up"]}
    /\ UNCHANGED <<spec, asked, files, munged, pc, todo, retry, calls, history>>

\* After a SIGTERM; munged takes its pid file with it.
Exit(x) ==
    /\ x.state = "dying"
    /\ procs' = procs \ {x}
    /\ pidfile' = IF x.prog = "munged" THEN NULL ELSE pidfile
    /\ lost' = lost \cup {x.prog}
    /\ UNCHANGED <<spec, asked, keyfile, munged, pc, todo, retry, calls, stale>>

\* A daemon crashes; the pid file stays.
Die(x) ==
    /\ procs' = procs \ {x}
    /\ lost' = lost \cup {x.prog}
    /\ stale' = (stale \/ x.prog = "munged")
    /\ UNCHANGED <<spec, asked, files, munged, pc, todo, retry, calls>>

\* Something else runs in the container, such as a program of the test.
Other ==
    /\ Running("other") = {}
    /\ Spawn("other", "up", NULL)
    /\ UNCHANGED <<spec, asked, files, munged, pc, todo, retry, calls, history>>

Init ==
    /\ spec \in Specs
    /\ procs = {}
    /\ pidfile = NULL
    /\ keyfile \in Key \cup {NULL}
    /\ munged = NoHandle
    /\ pc = "idle"
    /\ asked = <<>> /\ todo = <<>>
    /\ retry = Retries
    /\ calls = 0
    /\ lost = {} /\ stale = FALSE

Script ==
    \/ StartSshd \/ StartLdmsd \/ Waited \/ StartMunged \/ MungedRunning
    \/ MungedStart \/ SlurmRunning \/ SlurmNotInSpec \/ SlurmStart \/ SlurmFails

Next ==
    \/ StartDaemons \/ \E t \in Type : Call(<<t>>)
    \/ NewScript \/ KillLdmsd \/ KillSlurm \/ KillMunged
    \/ Script
    \/ \E x \in procs : Booted(x) \/ Exit(x) \/ Die(x)
    \/ Other

Spec == Init /\ [][Next]_vars

-----------------------------------------------------------------------------
(* Properties *)

\* Every variable has its type.
TypeOK ==
    /\ spec \in Specs
    /\ procs \subseteq Process
    /\ pidfile \in Pid \cup {NULL}
    /\ keyfile \in Key \cup {NULL}
    /\ munged \in [made : BOOLEAN, key : {SpecKey, NULL}]
    /\ pc \in {"idle", "start", "wait", "munged", "slurm", "error"}
    /\ asked \in Seq(Type) /\ todo \in Seq(Type)
    /\ retry \in 0 .. Retries
    /\ calls \in 0 .. MaxCalls
    /\ lost \subseteq Type \cup {"other"}
    /\ stale \in BOOLEAN

\* "Currently, we do not support two daemons of the same type": however often
\* scripts start, kill and restart them, a container runs each once.
OneOfEach == \A t \in Type : Cardinality(Running(t)) <= 1

\* README.md: `container.start_daemons()` "starts all daemon sequentially
\* according to the" spec: when a call returns, every daemon it was asked for
\* is there, whichever were running before and whatever failed on the way,
\* except one that ended during the call (a daemon that was told to end before
\* it still counts as running when its turn comes), munged when the pid file of
\* a crashed one may name another process, and an ldmsd that is not in the spec
\* (LDMS_Test.py:1338-1339).
AllStarted ==
    [][pc \notin {"idle", "error"} /\ pc' = "idle" =>
          \A i \in DOMAIN asked :
             \/ Running(asked[i])' # {}
             \/ asked[i] \in lost
             \/ asked[i] = "munged" /\ stale
             \/ asked[i] = "ldmsd" /\ ~InSpec("ldmsd")]_vars

\* The key file holds the key of the munged that is running: however scripts
\* with and without a key of their own start, kill and restart it, and whatever
\* crashes, none overwrites the key under a munged that keeps the old one.
KeyInUse == \A x \in Running("munged") : x.key = keyfile

-----------------------------------------------------------------------------
(* Why they hold *)

\* A program runs once, and a pid has one process.
ProcessInv ==
    \A x, y \in procs : x.prog = y.prog \/ x.pid = y.pid => x = y

\* The pid file names the munged that is running, which has the key of the key
\* file; it names another process only after munged crashed.
MungedInv ==
    /\ \A x \in Running("munged") : x.pid = pidfile /\ x.key = keyfile
    /\ pidfile # NULL => stale \/ Running("munged") # {}

\* A daemon that a call was asked for is there, or AllStarted excepts it.
Served(t) ==
    \/ Running(t) # {} \/ t \in lost
    \/ t = "munged" /\ stale
    \/ t = "ldmsd" /\ ~InSpec("ldmsd")

\* A call goes through what it was asked for, and has served what it has passed.
CallInv ==
    pc \notin {"idle", "error"} =>
        /\ Len(todo) \in 1 .. Len(asked)
        /\ \A i \in 1 .. Len(todo) : todo[i] = asked[Len(asked) - Len(todo) + i]
        /\ \A i \in 1 .. Len(asked) - Len(todo) : Served(asked[i])
        /\ pc = "wait" => Head(todo) = "ldmsd" /\ Served("ldmsd")
        /\ pc = "munged" => Head(todo) \in {"munged", "slurmd"}
        /\ pc = "slurm" => Head(todo) = "slurmd" /\ retry > 0

IInv == TypeOK /\ ProcessInv /\ MungedInv /\ CallInv

=============================================================================
