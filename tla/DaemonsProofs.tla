---------------------------- MODULE DaemonsProofs ----------------------------
(***************************************************************************)
(* Proofs about Daemons for any pids, any daemons of the specification, any *)
(* keys and any number of calls.                                            *)
(***************************************************************************)
EXTENDS Daemons, FiniteSetTheorems, TLAPS

States == {"boot", "up", "dying"}

-----------------------------------------------------------------------------
(* What a step does to the processes *)

\* A process with another state is a process.
LEMMA StateSet ==
    ASSUME NEW x \in Process, NEW s \in States
    PROVE  /\ [x EXCEPT !.state = s] \in Process
           /\ [x EXCEPT !.state = s].pid = x.pid
           /\ [x EXCEPT !.state = s].prog = x.prog
           /\ [x EXCEPT !.state = s].key = x.key
BY DEF Process, States

\* A program that is not running is started under a pid that is free.
LEMMA Spawned ==
    ASSUME IInv, NEW prog \in Type \cup {"other"}, NEW state \in States,
           NEW key \in Key \cup {NULL}, Running(prog) = {},
           NEW i \in Pid \ {x.pid : x \in procs},
           procs' = procs \cup {[pid |-> i, prog |-> prog, state |-> state, key |-> key]}
    PROVE  /\ procs' \subseteq Process /\ ProcessInv'
           /\ Running(prog)' = {[pid |-> i, prog |-> prog, state |-> state, key |-> key]}
           /\ \A t \in Type : t # prog => Running(t)' = Running(t)
<1>. DEFINE n == [pid |-> i, prog |-> prog, state |-> state, key |-> key]
<1>1. n \in Process /\ n.pid = i /\ n.prog = prog
  BY DEF Process, States
<1>2. procs' = procs \cup {n} /\ procs \subseteq Process
  BY DEF IInv, TypeOK
<1>3. \A x \in procs : x.pid # i /\ x.prog # prog
  BY DEF Running
<1>. HIDE DEF n
<1>4. procs' \subseteq Process
  BY <1>1, <1>2
<1>5. ProcessInv'
  BY <1>1, <1>2, <1>3 DEF IInv, ProcessInv
<1>6. Running(prog)' = {n}
  BY <1>1, <1>2, <1>3 DEF Running
<1>7. \A t \in Type : t # prog => Running(t)' = Running(t)
  BY <1>1, <1>2 DEF Running
<1>. QED
  BY <1>4, <1>5, <1>6, <1>7 DEF n

\* Processes change their states.
LEMMA StatesChange ==
    ASSUME IInv, NEW f \in [procs -> Process],
           \A x \in procs : f[x].pid = x.pid /\ f[x].prog = x.prog /\ f[x].key = x.key,
           procs' = {f[x] : x \in procs}
    PROVE  /\ procs' \subseteq Process /\ ProcessInv'
           /\ \A t \in Type : \A y \in Running(t)' : \E x \in Running(t) :
                 y.pid = x.pid /\ y.key = x.key
           /\ \A t \in Type : Running(t) # {} => Running(t)' # {}
<1>1. procs' \subseteq Process
  OBVIOUS
<1>2. \A y \in procs' : \E x \in procs :
         y = f[x] /\ y.pid = x.pid /\ y.prog = x.prog /\ y.key = x.key
  OBVIOUS
<1>3. ProcessInv'
  BY <1>2 DEF IInv, ProcessInv
<1>4. \A t \in Type : \A y \in Running(t)' : \E x \in Running(t) :
         y.pid = x.pid /\ y.key = x.key
  BY <1>2 DEF Running
<1>5. ASSUME NEW t \in Type, NEW x \in Running(t)
      PROVE  Running(t)' # {}
  <2>1. x \in procs /\ x.prog = t
    BY DEF Running
  <2>2. f[x] \in procs' /\ f[x].prog = t
    BY <2>1
  <2>. QED
    BY <2>2 DEF Running
<1>. QED
  BY <1>1, <1>3, <1>4, <1>5

\* Signal and Booted are such changes.
LEMMA SignalEffect ==
    ASSUME IInv, (\E S \in SUBSET procs : Signal(S)) \/ (\E x \in procs : Booted(x))
    PROVE  /\ procs' \subseteq Process /\ ProcessInv'
           /\ \A t \in Type : \A y \in Running(t)' : \E x \in Running(t) :
                 y.pid = x.pid /\ y.key = x.key
           /\ \A t \in Type : Running(t) # {} => Running(t)' # {}
<1>0. procs \subseteq Process
  BY DEF IInv, TypeOK
<1>1. ASSUME NEW S \in SUBSET procs, Signal(S)
      PROVE  \E f \in [procs -> Process] :
               /\ \A x \in procs : f[x].pid = x.pid /\ f[x].prog = x.prog /\ f[x].key = x.key
               /\ procs' = {f[x] : x \in procs}
  <2>. DEFINE f == [x \in procs |-> IF x \in S THEN [x EXCEPT !.state = "dying"] ELSE x]
  <2>1. f \in [procs -> Process]
    BY <1>0, StateSet DEF States
  <2>2. \A x \in procs : f[x].pid = x.pid /\ f[x].prog = x.prog /\ f[x].key = x.key
    BY <1>0, StateSet DEF States
  <2>3. procs' = {f[x] : x \in procs}
    BY <1>1 DEF Signal
  <2>. QED
    BY <2>1, <2>2, <2>3
<1>2. ASSUME NEW z \in procs, Booted(z)
      PROVE  \E f \in [procs -> Process] :
               /\ \A x \in procs : f[x].pid = x.pid /\ f[x].prog = x.prog /\ f[x].key = x.key
               /\ procs' = {f[x] : x \in procs}
  <2>. DEFINE up == [z EXCEPT !.state = "up"]
              f == [x \in procs |-> IF x = z THEN up ELSE x]
  <2>1. up \in Process /\ up.pid = z.pid /\ up.prog = z.prog /\ up.key = z.key
    BY <1>0, StateSet DEF States
  <2>2. procs' = (procs \ {z}) \cup {up}
    BY <1>2 DEF Booted
  <2>. HIDE DEF up
  <2>3. f \in [procs -> Process]
    BY <1>0, <2>1
  <2>4. \A x \in procs : f[x].pid = x.pid /\ f[x].prog = x.prog /\ f[x].key = x.key
    BY <2>1
  <2>5. procs' = {f[x] : x \in procs}
    BY <2>2
  <2>. QED
    BY <2>3, <2>4, <2>5
<1>. QED
  BY <1>1, <1>2, StatesChange

-----------------------------------------------------------------------------
(* What a step does to the call *)

\* A daemon has been served, and start_daemons() goes on or returns.
LEMMA StartedCall ==
    ASSUME IInv, pc \notin {"idle", "error"}, Started, UNCHANGED <<spec, asked>>,
           \A t \in Type : Served(t) => Served(t)',
           NEW d, d = Head(todo), Served(d)'
    PROVE  /\ CallInv'
           /\ todo' \in Seq(Type) /\ pc' \in {"idle", "start"}
           /\ pc' = "idle" => \A i \in DOMAIN asked : Served(asked[i])'
<1>. DEFINE k == Len(asked) - Len(todo)
<1>1. /\ asked \in Seq(Type) /\ todo \in Seq(Type)
      /\ Len(todo) \in 1 .. Len(asked)
      /\ \A i \in 1 .. Len(todo) : todo[i] = asked[Len(asked) - Len(todo) + i]
      /\ \A i \in 1 .. Len(asked) - Len(todo) : Served(asked[i])
  BY DEF IInv, TypeOK, CallInv
<1>2. todo' = Tail(todo) /\ pc' = IF Len(todo) = 1 THEN "idle" ELSE "start"
  BY DEF Started
<1>3. /\ Len(asked) \in Nat /\ Len(todo) \in Nat
      /\ todo' \in Seq(Type) /\ Len(todo') = Len(todo) - 1
      /\ \A i \in 1 .. Len(todo) - 1 : todo'[i] = todo[i + 1]
  BY <1>1, <1>2
<1>4. d = asked[Len(asked) - Len(todo) + 1]
  BY <1>1, <1>3
<1>5. \A i \in 1 .. Len(asked) - Len(todo) + 1 : Served(asked[i])'
  <2>. TAKE i \in 1 .. Len(asked) - Len(todo) + 1
  <2>1. i \in 1 .. Len(asked) - Len(todo) \/ i = Len(asked) - Len(todo) + 1
    <3>1. k \in Int /\ i \in 1 .. k + 1
      BY <1>3
    <3>. HIDE DEF k
    <3>2. i \in 1 .. k \/ i = k + 1
      BY <3>1
    <3>. QED
      BY <3>2 DEF k
  <2>2. i \in 1 .. Len(asked) - Len(todo) => Served(asked[i])'
    <3>1. SUFFICES ASSUME i \in 1 .. Len(asked) - Len(todo)
                   PROVE  Served(asked[i])'
      OBVIOUS
    <3>2. asked[i] \in Type
      BY <1>1, <1>3, <3>1
    <3>. QED
      BY <1>1, <3>1, <3>2 DEF Served
  <2>3. i = Len(asked) - Len(todo) + 1 => Served(asked[i])'
    BY <1>2, <1>4 DEF Served
  <2>. QED
    BY <2>1, <2>2, <2>3
<1>6. CallInv'
  <2>1. SUFFICES ASSUME Len(todo) # 1
                 PROVE  /\ Len(todo') \in 1 .. Len(asked)
                        /\ \A i \in 1 .. Len(todo') :
                              todo'[i] = asked[Len(asked) - Len(todo') + i]
                        /\ \A i \in 1 .. Len(asked) - Len(todo') : Served(asked[i])'
    BY <1>2 DEF CallInv
  <2>2. Len(todo') \in 1 .. Len(asked)
    BY <1>1, <1>3, <2>1
  <2>3. \A i \in 1 .. Len(todo') : todo'[i] = asked[Len(asked) - Len(todo') + i]
    BY <1>1, <1>3
  <2>4. Len(asked) - Len(todo') = Len(asked) - Len(todo) + 1
    BY <1>3
  <2>. QED
    BY <1>5, <2>2, <2>3, <2>4
<1>7. pc' = "idle" => \A i \in DOMAIN asked : Served(asked[i])'
  <2>1. SUFFICES ASSUME Len(todo) = 1
                 PROVE  \A i \in DOMAIN asked : Served(asked[i])'
    BY <1>2
  <2>2. \A i \in DOMAIN asked : i \in 1 .. Len(asked) - Len(todo) + 1
    BY <1>1, <1>3, <2>1
  <2>. QED
    BY <1>5, <2>2
<1>. QED
  BY <1>2, <1>3, <1>6, <1>7

\* A step that leaves the call where it is.
LEMMA CallKept ==
    ASSUME IInv, UNCHANGED <<spec, pc, asked, todo, retry>>,
           \A t \in Type : Served(t) => Served(t)'
    PROVE  CallInv'
<1>1. SUFFICES ASSUME pc \notin {"idle", "error"}
               PROVE  CallInv'
  BY DEF CallInv
<1>2. /\ asked \in Seq(Type) /\ todo \in Seq(Type)
      /\ Len(todo) \in 1 .. Len(asked)
      /\ \A i \in 1 .. Len(todo) : todo[i] = asked[Len(asked) - Len(todo) + i]
      /\ \A i \in 1 .. Len(asked) - Len(todo) : Served(asked[i])
      /\ pc = "wait" => Head(todo) = "ldmsd" /\ Served("ldmsd")
      /\ pc = "munged" => Head(todo) \in {"munged", "slurmd"}
      /\ pc = "slurm" => Head(todo) = "slurmd" /\ retry > 0
  BY <1>1 DEF IInv, TypeOK, CallInv
<1>3. \A i \in 1 .. Len(asked) - Len(todo) : asked[i] \in Type
  BY <1>2
<1>4. \A i \in 1 .. Len(asked) - Len(todo) : Served(asked[i])'
  BY <1>2, <1>3 DEF Served
<1>5. pc = "wait" => Served("ldmsd")'
  BY <1>2 DEF Type
<1>. QED
  BY <1>2, <1>4, <1>5 DEF CallInv

\* A script starts a call, or another script takes over.
LEMMA NewCallStep ==
    ASSUME IInv, NewScript \/ (\E list \in Seq(Type) : Call(list))
    PROVE  IInv'
<1>1. CASE NewScript
  <2>1. /\ pc' = "idle" /\ munged' = NoHandle /\ todo' = <<>>
        /\ calls < MaxCalls /\ calls' = calls + 1
        /\ UNCHANGED <<spec, asked, procs, pidfile, keyfile, retry, lost, stale>>
    BY <1>1 DEF NewScript, files, history
  <2>2. munged' \in [made : BOOLEAN, key : {SpecKey, NULL}] /\ todo' \in Seq(Type)
    BY <2>1 DEF NoHandle
  <2>3. calls' \in 0 .. MaxCalls
    BY <2>1, DaemonsAssumption DEF IInv, TypeOK
  <2>4. TypeOK'
    BY <2>1, <2>2, <2>3 DEF IInv, TypeOK
  <2>5. ProcessInv' /\ MungedInv'
    BY <2>1 DEF IInv, ProcessInv, MungedInv, Running
  <2>6. CallInv'
    BY <2>1 DEF CallInv
  <2>. QED
    BY <2>4, <2>5, <2>6 DEF IInv
<1>2. ASSUME NEW list \in Seq(Type), Call(list)
      PROVE  IInv'
  <2>1. /\ pc' = "start" /\ asked' = list /\ todo' = list /\ lost' = {} /\ list # <<>>
        /\ calls < MaxCalls /\ calls' = calls + 1
        /\ UNCHANGED <<spec, procs, pidfile, keyfile, munged, retry, stale>>
    BY <1>2 DEF Call, files
  <2>2. calls' \in 0 .. MaxCalls
    BY <2>1, DaemonsAssumption DEF IInv, TypeOK
  <2>3. TypeOK'
    BY <2>1, <2>2 DEF IInv, TypeOK
  <2>4. ProcessInv' /\ MungedInv'
    BY <2>1 DEF IInv, ProcessInv, MungedInv, Running
  <2>5. /\ Len(list) \in 1 .. Len(list) /\ Len(list) - Len(list) = 0
        /\ \A i \in 1 .. Len(list) : Len(list) - Len(list) + i = i
    BY <2>1
  <2>6. CallInv'
    BY <2>1, <2>5 DEF CallInv
  <2>. QED
    BY <2>3, <2>4, <2>6 DEF IInv
<1>. QED
  BY <1>1, <1>2

\* A script kills daemons, or tries to.
LEMMA KillStep ==
    ASSUME IInv, KillLdmsd \/ KillSlurm \/ KillMunged
    PROVE  IInv'
<1>1. /\ pc = "idle" /\ calls < MaxCalls /\ calls' = calls + 1
      /\ UNCHANGED <<spec, asked, pidfile, keyfile, munged, pc, todo, retry, lost, stale>>
      /\ procs' = procs \/ \E S \in SUBSET procs : Signal(S)
  BY DEF KillLdmsd, KillSlurm, KillMunged, files, history, Running
<1>2. calls' \in 0 .. MaxCalls
  BY <1>1, DaemonsAssumption DEF IInv, TypeOK
<1>3. /\ procs' \subseteq Process /\ ProcessInv'
      /\ \A y \in Running("munged")' : \E x \in Running("munged") :
            y.pid = x.pid /\ y.key = x.key
      /\ Running("munged") # {} => Running("munged")' # {}
  <2>1. CASE procs' = procs
    BY <2>1 DEF IInv, TypeOK, ProcessInv, Running
  <2>2. CASE \E S \in SUBSET procs : Signal(S)
    BY <2>2, SignalEffect DEF Type
  <2>. QED
    BY <1>1, <2>1, <2>2
<1>4. TypeOK'
  BY <1>1, <1>2, <1>3 DEF IInv, TypeOK
<1>5. MungedInv'
  BY <1>1, <1>3 DEF IInv, MungedInv
<1>6. CallInv'
  BY <1>1 DEF CallInv
<1>. QED
  BY <1>3, <1>4, <1>5, <1>6 DEF IInv

\* What a call promises when it returns.
Returned ==
    pc' = "idle" => \A i \in DOMAIN asked :
                       \/ Running(asked[i])' # {}
                       \/ asked[i] \in lost
                       \/ asked[i] = "munged" /\ stale
                       \/ asked[i] = "ldmsd" /\ ~InSpec("ldmsd")

\* The files of munged keep their types; after a start they are not stale.
FilesStep ==
    /\ pidfile' \in Pid \cup {NULL} /\ keyfile' \in Key \cup {NULL}
    /\ stale' \in BOOLEAN /\ (stale' => stale)
    /\ stale => stale' \/ Running("munged")' # {}

\* A call goes on, and nothing else has happened but that the daemon of its
\* turn is there.
LEMMA NextDaemon ==
    ASSUME IInv, pc \notin {"idle", "error"}, Started,
           UNCHANGED <<spec, asked, munged, calls, lost>>, FilesStep,
           retry' \in 0 .. Retries, procs' \subseteq Process, ProcessInv', MungedInv',
           \A t \in Type : Running(t) # {} => Running(t)' # {},
           NEW d, d = Head(todo), Served(d)'
    PROVE  IInv' /\ Returned
<1>1. \A t \in Type : Served(t) => Served(t)'
  BY DEF Served, InSpec, FilesStep
<1>2. /\ CallInv'
      /\ todo' \in Seq(Type) /\ pc' \in {"idle", "start"}
      /\ pc' = "idle" => \A i \in DOMAIN asked : Served(asked[i])'
  BY <1>1, StartedCall
<1>3. TypeOK'
  BY <1>2 DEF IInv, TypeOK, FilesStep
<1>4. Returned
  BY <1>2 DEF Returned, Served, InSpec, FilesStep
<1>. QED
  BY <1>2, <1>3, <1>4 DEF IInv

\* A call raises, or waits for a daemon that it has started or for munged.
LEMMA NextState ==
    ASSUME IInv, pc \notin {"idle", "error"}, pc' # "idle",
           UNCHANGED <<spec, asked, todo, calls, lost>>, FilesStep,
           pc' \in {"error", "wait", "munged", "slurm"}, retry' \in 0 .. Retries,
           munged' \in [made : BOOLEAN, key : {SpecKey, NULL}],
           procs' \subseteq Process, ProcessInv', MungedInv',
           \A t \in Type : Running(t) # {} => Running(t)' # {},
           pc' = "wait" => Head(todo) = "ldmsd" /\ Running("ldmsd")' # {},
           pc' = "munged" => Head(todo) \in {"munged", "slurmd"},
           pc' = "slurm" => Head(todo) = "slurmd" /\ retry' > 0
    PROVE  IInv' /\ Returned
<1>1. /\ asked \in Seq(Type) /\ todo \in Seq(Type)
      /\ Len(todo) \in 1 .. Len(asked)
      /\ \A i \in 1 .. Len(todo) : todo[i] = asked[Len(asked) - Len(todo) + i]
      /\ \A i \in 1 .. Len(asked) - Len(todo) : Served(asked[i])
  BY DEF IInv, TypeOK, CallInv
<1>2. \A i \in 1 .. Len(asked) - Len(todo) : asked[i] \in Type
  BY <1>1
<1>3. \A i \in 1 .. Len(asked) - Len(todo) : Served(asked[i])'
  BY <1>1, <1>2 DEF Served, InSpec, FilesStep
<1>4. CallInv'
  BY <1>1, <1>3 DEF CallInv, Served
<1>5. TypeOK'
  BY DEF IInv, TypeOK, FilesStep
<1>6. Returned
  BY DEF Returned
<1>. QED
  BY <1>4, <1>5, <1>6 DEF IInv

\* munged and its files are as they were.
LEMMA SameFiles ==
    ASSUME IInv, UNCHANGED <<pidfile, keyfile, stale>>
    PROVE  FilesStep
BY DEF IInv, TypeOK, FilesStep

\* Nothing has happened to the processes.
LEMMA SameProcs ==
    ASSUME IInv, UNCHANGED <<procs, pidfile, stale>>,
           keyfile' = keyfile \/ Running("munged") = {}
    PROVE  /\ procs' \subseteq Process /\ ProcessInv' /\ MungedInv'
           /\ \A t \in Type : Running(t)' = Running(t)
BY DEF IInv, TypeOK, ProcessInv, MungedInv, Running

\* A program other than munged is started.
LEMMA SpawnEffect ==
    ASSUME IInv, NEW prog \in (Type \cup {"other"}) \ {"munged"}, NEW state \in States,
           Running(prog) = {}, Spawn(prog, state, NULL), UNCHANGED <<pidfile, keyfile, stale>>
    PROVE  /\ procs' \subseteq Process /\ ProcessInv' /\ MungedInv'
           /\ \A t \in Type : Running(t) # {} => Running(t)' # {}
           /\ Running(prog)' # {}
<1>1. PICK i \in Pid \ {x.pid : x \in procs} :
         procs' = procs \cup {[pid |-> i, prog |-> prog, state |-> state, key |-> NULL]}
  BY DEF Spawn
<1>2. /\ procs' \subseteq Process /\ ProcessInv'
      /\ Running(prog)' = {[pid |-> i, prog |-> prog, state |-> state, key |-> NULL]}
      /\ \A t \in Type : t # prog => Running(t)' = Running(t)
  BY <1>1, Spawned
<1>3. MungedInv'
  BY <1>2 DEF IInv, MungedInv, Type
<1>. QED
  BY <1>2, <1>3

-----------------------------------------------------------------------------
(* Starting a daemon *)

\* start_sshd() and start_ldmsd(), and waiting for ldmsd to listen.
LEMMA SshdLdmsdStep ==
    ASSUME IInv, StartSshd \/ StartLdmsd \/ Waited
    PROVE  IInv' /\ Returned
<1>0. retry \in 0 .. Retries /\ munged \in [made : BOOLEAN, key : {SpecKey, NULL}]
  BY DEF IInv, TypeOK
<1>1. CASE StartSshd
  <2>1. /\ pc = "start" /\ Head(todo) = "sshd" /\ FilesStep
        /\ UNCHANGED <<spec, asked, pidfile, keyfile, munged, retry, calls, lost, stale>>
    BY <1>1, SameFiles DEF StartSshd, files, history
  <2>2. CASE Running("sshd") # {} /\ Started /\ UNCHANGED procs
    <3>1. Served("sshd")'
      BY <2>2 DEF Served, Running
    <3>. QED
      BY <1>0, <2>1, <2>2, <3>1, SameProcs, NextDaemon
  <2>3. CASE Running("sshd") = {} /\ Spawn("sshd", "up", NULL) /\ Started
    <3>1. /\ procs' \subseteq Process /\ ProcessInv' /\ MungedInv'
          /\ \A t \in Type : Running(t) # {} => Running(t)' # {}
          /\ Running("sshd")' # {}
      BY <2>1, <2>3, SpawnEffect DEF Type, States
    <3>2. Served("sshd")'
      BY <3>1 DEF Served
    <3>. QED
      BY <1>0, <2>1, <2>3, <3>1, <3>2, NextDaemon
  <2>4. CASE Raise /\ UNCHANGED procs
    BY <1>0, <2>1, <2>4, SameProcs, NextState DEF Raise
  <2>. QED
    BY <1>1, <2>2, <2>3, <2>4 DEF StartSshd
<1>2. CASE StartLdmsd
  <2>1. /\ pc = "start" /\ Head(todo) = "ldmsd" /\ FilesStep
        /\ UNCHANGED <<spec, asked, pidfile, keyfile, munged, retry, calls, lost, stale>>
    BY <1>2, SameFiles DEF StartLdmsd, files, history
  <2>2. CASE (Running("ldmsd") # {} \/ ~InSpec("ldmsd")) /\ Started /\ UNCHANGED procs
    <3>1. Served("ldmsd")'
      BY <2>1, <2>2 DEF Served, Running, InSpec
    <3>. QED
      BY <1>0, <2>1, <2>2, <3>1, SameProcs, NextDaemon
  <2>3. CASE /\ Running("ldmsd") = {} /\ Spawn("ldmsd", "boot", NULL)
             /\ pc' = "wait" /\ UNCHANGED todo
    <3>1. /\ procs' \subseteq Process /\ ProcessInv' /\ MungedInv'
          /\ \A t \in Type : Running(t) # {} => Running(t)' # {}
          /\ Running("ldmsd")' # {}
      BY <2>1, <2>3, SpawnEffect DEF Type, States
    <3>. QED
      BY <1>0, <2>1, <2>3, <3>1, NextState
  <2>. QED
    BY <1>2, <2>2, <2>3 DEF StartLdmsd
<1>3. CASE Waited
  <2>1. /\ pc = "wait" /\ Started /\ FilesStep
        /\ UNCHANGED <<spec, asked, procs, pidfile, keyfile, munged, retry, calls, lost, stale>>
    BY <1>3, SameFiles DEF Waited, files, history
  <2>2. Head(todo) = "ldmsd" /\ Served("ldmsd")
    BY <2>1 DEF IInv, CallInv
  <2>3. Served("ldmsd")'
    BY <2>1, <2>2 DEF Served, InSpec, Running
  <2>. QED
    BY <1>0, <2>1, <2>2, <2>3, SameProcs, NextDaemon
<1>. QED
  BY <1>1, <1>2, <1>3

\* start_munged() makes a handle or uses the one it has.
LEMMA StartMungedStep ==
    ASSUME IInv, StartMunged
    PROVE  IInv' /\ Returned
<1>1. /\ pc = "start" /\ Head(todo) \in {"munged", "slurmd"} /\ pc' = "munged" /\ FilesStep
      /\ UNCHANGED <<spec, asked, procs, pidfile, keyfile, todo, retry, calls, lost, stale>>
  BY SameFiles DEF StartMunged, files, history
<1>2. \/ munged' = munged
      \/ munged' = [made |-> TRUE, key |-> SpecKey]
      \/ munged' = [made |-> TRUE, key |-> NULL]
  <2>. DEFINE entry == \/ asked = spec /\ Head(todo) = "munged"
                       \/ spec # <<>> /\ Head(spec) = "munged"
  <2>1. munged' = IF munged.made THEN munged
                  ELSE [made |-> TRUE, key |-> IF entry THEN SpecKey ELSE NULL]
    BY DEF StartMunged
  <2>. HIDE DEF entry
  <2>. QED
    BY <2>1
<1>3. munged' \in [made : BOOLEAN, key : {SpecKey, NULL}] /\ retry' \in 0 .. Retries
  <2>. DEFINE H == [made : BOOLEAN, key : {SpecKey, NULL}]
  <2>1. munged \in H /\ retry \in 0 .. Retries
    BY DEF IInv, TypeOK
  <2>2. [made |-> TRUE, key |-> SpecKey] \in H /\ [made |-> TRUE, key |-> NULL] \in H
    OBVIOUS
  <2>. HIDE DEF H
  <2>3. munged' \in H
    BY <1>2, <2>1, <2>2
  <2>. QED
    BY <1>1, <2>1, <2>3 DEF H
<1>. QED
  BY <1>1, <1>3, SameProcs, NextState

\* munged is there: slurmd goes on with its own start.
LEMMA MungedStartedStep ==
    ASSUME IInv, pc = "munged", MungedStarted, UNCHANGED <<spec, asked, munged, calls, lost>>,
           FilesStep, procs' \subseteq Process, ProcessInv', MungedInv',
           \A t \in Type : Running(t) # {} => Running(t)' # {},
           Served("munged")'
    PROVE  IInv' /\ Returned
<1>1. Head(todo) \in {"munged", "slurmd"}
  BY DEF IInv, CallInv
<1>2. CASE Head(todo) = "munged"
  <2>1. Started /\ retry' \in 0 .. Retries
    BY <1>2 DEF MungedStarted, IInv, TypeOK
  <2>. QED
    BY <1>2, <2>1, NextDaemon
<1>3. CASE Head(todo) = "slurmd"
  <2>1. pc' = "slurm" /\ retry' = Retries /\ UNCHANGED todo
    BY <1>3 DEF MungedStarted
  <2>2. Retries \in 0 .. Retries /\ Retries > 0
    BY DaemonsAssumption
  <2>3. munged' \in [made : BOOLEAN, key : {SpecKey, NULL}]
    BY DEF IInv, TypeOK
  <2>. QED
    BY <1>3, <2>1, <2>2, <2>3, NextState
<1>. QED
  BY <1>1, <1>2, <1>3

\* Munged.start(): a key is written only where no munged runs.
LEMMA MungedStep ==
    ASSUME IInv, MungedRunning \/ MungedStart
    PROVE  IInv' /\ Returned
<1>0. /\ pidfile \in Pid \cup {NULL} /\ procs \subseteq Process /\ keyfile \in Key \cup {NULL}
      /\ stale \in BOOLEAN /\ retry \in 0 .. Retries
      /\ munged \in [made : BOOLEAN, key : {SpecKey, NULL}]
  BY DEF IInv, TypeOK
<1>1. CASE MungedRunning
  <2>1. /\ pc = "munged" /\ IsRunning /\ MungedStarted /\ FilesStep
        /\ UNCHANGED <<spec, asked, procs, pidfile, keyfile, munged, calls, lost, stale>>
    BY <1>1, SameFiles DEF MungedRunning, files, history
  <2>2. pidfile # NULL
    BY <2>1, <1>0, DaemonsAssumption DEF IsRunning, Process
  <2>3. Served("munged")'
    BY <2>1, <2>2 DEF IInv, MungedInv, Served, Running
  <2>. QED
    BY <2>1, <2>3, SameProcs, MungedStartedStep
<1>2. CASE MungedStart
  <2>1. /\ pc = "munged" /\ ~IsRunning /\ keyfile' = PreparedKey
        /\ UNCHANGED <<spec, asked, munged, calls, lost>>
    BY <1>2 DEF MungedStart
  <2>2. Running("munged") = {}
    BY <2>1 DEF IInv, MungedInv, Running, IsRunning
  <2>3. PreparedKey \in Key
    BY <1>0, DaemonsAssumption DEF PreparedKey, Key
  <2>4. ASSUME Raise, UNCHANGED <<procs, pidfile, retry, stale>>
        PROVE  IInv' /\ Returned
    <3>1. FilesStep
      BY <1>0, <2>1, <2>3, <2>4 DEF FilesStep
    <3>. QED
      BY <1>0, <2>1, <2>2, <2>4, <3>1, SameProcs, NextState DEF Raise
  <2>5. ASSUME NEW i \in Pid \ {x.pid : x \in procs},
               procs' = procs \cup {[pid |-> i, prog |-> "munged", state |-> "up",
                                     key |-> PreparedKey]},
               pidfile' = i, stale' = FALSE, MungedStarted
        PROVE  IInv' /\ Returned
    <3>. DEFINE n == [pid |-> i, prog |-> "munged", state |-> "up", key |-> PreparedKey]
    <3>1. /\ procs' \subseteq Process /\ ProcessInv'
          /\ Running("munged")' = {n}
          /\ \A t \in Type : t # "munged" => Running(t)' = Running(t)
      BY <2>2, <2>3, <2>5, Spawned DEF Type, States
    <3>2. n.pid = i /\ n.key = PreparedKey
      OBVIOUS
    <3>. HIDE DEF n
    <3>3. MungedInv'
      BY <2>1, <2>5, <3>1, <3>2 DEF MungedInv
    <3>4. FilesStep
      BY <2>1, <2>3, <2>5, <3>1 DEF FilesStep
    <3>5. Served("munged")'
      BY <3>1 DEF Served
    <3>6. \A t \in Type : Running(t) # {} => Running(t)' # {}
      BY <3>1
    <3>. QED
      BY <2>1, <2>5, <3>1, <3>3, <3>4, <3>5, <3>6, MungedStartedStep
  <2>. QED
    BY <1>2, <2>4, <2>5 DEF MungedStart
<1>. QED
  BY <1>1, <1>2

\* _start_slurmx(): the attempts to start slurmd.
LEMMA SlurmStep ==
    ASSUME IInv, SlurmRunning \/ SlurmNotInSpec \/ SlurmStart \/ SlurmFails
    PROVE  IInv' /\ Returned
<1>0. /\ retry \in 0 .. Retries /\ Retries \in Nat
      /\ munged \in [made : BOOLEAN, key : {SpecKey, NULL}]
  BY DaemonsAssumption DEF IInv, TypeOK
<1>1. /\ pc = "slurm" /\ UNCHANGED <<spec, asked, pidfile, keyfile, munged, calls, lost, stale>>
      /\ FilesStep
  BY SameFiles DEF SlurmRunning, SlurmNotInSpec, SlurmStart, SlurmFails, files, history
<1>2. Head(todo) = "slurmd" /\ retry > 0
  BY <1>1 DEF IInv, CallInv
<1>3. CASE SlurmRunning
  <2>1. Running("slurmd") # {} /\ Started /\ UNCHANGED <<procs, retry>>
    BY <1>3 DEF SlurmRunning
  <2>2. Served("slurmd")'
    BY <2>1 DEF Served, Running
  <2>. QED
    BY <1>0, <1>1, <1>2, <2>1, <2>2, SameProcs, NextDaemon
<1>4. CASE SlurmStart
  <2>1. Running("slurmd") = {} /\ Spawn("slurmd", "up", NULL) /\ Started /\ UNCHANGED retry
    BY <1>4 DEF SlurmStart
  <2>2. /\ procs' \subseteq Process /\ ProcessInv' /\ MungedInv'
        /\ \A t \in Type : Running(t) # {} => Running(t)' # {}
        /\ Running("slurmd")' # {}
    BY <1>1, <2>1, SpawnEffect DEF Type, States
  <2>3. Served("slurmd")'
    BY <2>2 DEF Served
  <2>. QED
    BY <1>0, <1>1, <1>2, <2>1, <2>2, <2>3, NextDaemon
<1>5. CASE SlurmFails
  <2>1. /\ retry' = retry - 1 /\ UNCHANGED <<procs, todo>>
        /\ pc' = IF retry = 1 THEN "error" ELSE "slurm"
    BY <1>1, <1>5 DEF SlurmFails, Raise
  <2>2. retry' \in 0 .. Retries /\ (retry # 1 => retry' > 0)
    BY <1>0, <1>2, <2>1
  <2>. QED
    BY <1>0, <1>1, <1>2, <2>1, <2>2, SameProcs, NextState
<1>6. CASE SlurmNotInSpec
  <2>1. pc' = "error" /\ UNCHANGED <<procs, todo, retry>>
    BY <1>6 DEF SlurmNotInSpec, Raise
  <2>. QED
    BY <1>0, <1>1, <1>2, <2>1, SameProcs, NextState
<1>. QED
  BY <1>3, <1>4, <1>5, <1>6

-----------------------------------------------------------------------------
(* The processes *)

\* A daemon boots, ends or crashes, or something else is run.
LEMMA ProcessStep ==
    ASSUME IInv, (\E x \in procs : Booted(x) \/ Exit(x) \/ Die(x)) \/ Other
    PROVE  IInv'
<1>0. /\ procs \subseteq Process /\ pidfile \in Pid \cup {NULL} /\ stale \in BOOLEAN
      /\ lost \subseteq Type \cup {"other"}
  BY DEF IInv, TypeOK
<1>1. CASE \E x \in procs : Booted(x)
  <2>1. /\ procs' \subseteq Process /\ ProcessInv'
        /\ \A t \in Type : \A y \in Running(t)' : \E x \in Running(t) :
              y.pid = x.pid /\ y.key = x.key
        /\ \A t \in Type : Running(t) # {} => Running(t)' # {}
    BY <1>1, SignalEffect
  <2>2. UNCHANGED <<spec, asked, pidfile, keyfile, munged, pc, todo, retry, calls, lost, stale>>
    BY <1>1 DEF Booted, files, history
  <2>3. TypeOK'
    BY <2>1, <2>2 DEF IInv, TypeOK
  <2>4. MungedInv'
    BY <2>1, <2>2 DEF IInv, MungedInv, Type
  <2>5. CallInv'
    BY <2>1, <2>2, CallKept DEF Served, InSpec
  <2>. QED
    BY <2>1, <2>3, <2>4, <2>5 DEF IInv
<1>2. ASSUME NEW x \in procs, Exit(x) \/ Die(x)
      PROVE  IInv'
  <2>1. /\ procs' = procs \ {x} /\ lost' = lost \cup {x.prog}
        /\ UNCHANGED <<spec, asked, keyfile, munged, pc, todo, retry, calls>>
        /\ \/ x.prog = "munged" /\ pidfile' = NULL /\ stale' = stale
           \/ x.prog = "munged" /\ pidfile' = pidfile /\ stale' = TRUE
           \/ x.prog # "munged" /\ pidfile' = pidfile /\ stale' = stale
    BY <1>0, <1>2 DEF Exit, Die, files
  <2>2. x.prog \in Type \cup {"other"}
    BY <1>0 DEF Process
  <2>3. TypeOK'
    BY <1>0, <2>1, <2>2 DEF IInv, TypeOK
  <2>4. ProcessInv'
    BY <2>1 DEF IInv, ProcessInv
  <2>5. x.prog = "munged" => Running("munged")' = {}
    BY <2>1 DEF IInv, ProcessInv, Running
  <2>6. \A t \in Type : t # x.prog => Running(t)' = Running(t)
    BY <2>1 DEF Running
  <2>7. MungedInv'
    BY <2>1, <2>5, <2>6 DEF IInv, MungedInv, Type
  <2>8. \A t \in Type : Served(t) => Served(t)'
    BY <2>1, <2>6 DEF Served, InSpec
  <2>9. CallInv'
    BY <2>1, <2>8, CallKept
  <2>. QED
    BY <2>3, <2>4, <2>7, <2>9 DEF IInv
<1>3. CASE Other
  <2>1. /\ Running("other") = {} /\ Spawn("other", "up", NULL)
        /\ UNCHANGED <<spec, asked, pidfile, keyfile, munged, pc, todo, retry, calls, lost, stale>>
    BY <1>3 DEF Other, files, history
  <2>2. /\ procs' \subseteq Process /\ ProcessInv' /\ MungedInv'
        /\ \A t \in Type : Running(t) # {} => Running(t)' # {}
    BY <2>1, SpawnEffect DEF States
  <2>3. TypeOK'
    BY <2>1, <2>2 DEF IInv, TypeOK
  <2>4. CallInv'
    BY <2>1, <2>2, CallKept DEF Served, InSpec
  <2>. QED
    BY <2>2, <2>3, <2>4 DEF IInv
<1>. QED
  BY <1>1, <1>2, <1>3

-----------------------------------------------------------------------------
(* The theorems *)

\* The inductive invariant holds at first and is kept by every step.
LEMMA InvInductive ==
    /\ Init => IInv
    /\ IInv /\ [Next]_vars => IInv'
<1>1. Init => IInv
  <2>. SUFFICES ASSUME Init PROVE IInv
    OBVIOUS
  <2>1. TypeOK
    <3>1. munged \in [made : BOOLEAN, key : {SpecKey, NULL}]
      BY DEF Init, NoHandle
    <3>2. retry \in 0 .. Retries /\ calls \in 0 .. MaxCalls
      BY DaemonsAssumption DEF Init
    <3>3. asked \in Seq(Type) /\ todo \in Seq(Type)
      BY DEF Init
    <3>. QED
      BY <3>1, <3>2, <3>3 DEF Init, TypeOK
  <2>2. ProcessInv /\ MungedInv /\ CallInv
    BY DEF Init, ProcessInv, MungedInv, CallInv, Running
  <2>. QED
    BY <2>1, <2>2 DEF IInv
<1>2. ASSUME IInv, UNCHANGED vars
      PROVE  IInv'
  <2>1. UNCHANGED <<spec, procs, pidfile, keyfile, munged, pc, asked, todo, retry, calls, lost, stale>>
    BY <1>2 DEF vars, files, history
  <2>2. TypeOK' /\ ProcessInv' /\ MungedInv'
    BY <1>2, <2>1 DEF IInv, TypeOK, ProcessInv, MungedInv, Running
  <2>3. CallInv'
    BY <1>2, <2>1, CallKept DEF Served, InSpec, Running
  <2>. QED
    BY <2>2, <2>3 DEF IInv
<1>3. ASSUME IInv, Next
      PROVE  IInv'
  <2>1. CASE NewScript \/ StartDaemons \/ \E t \in Type : Call(<<t>>)
    <3>1. spec \in Seq(Type) /\ \A t \in Type : <<t>> \in Seq(Type)
      BY <1>3, DaemonsAssumption DEF IInv, TypeOK
    <3>. QED
      BY <1>3, <2>1, <3>1, NewCallStep DEF StartDaemons
  <2>2. CASE KillLdmsd \/ KillSlurm \/ KillMunged
    BY <1>3, <2>2, KillStep
  <2>3. CASE Script
    BY <1>3, <2>3, SshdLdmsdStep, StartMungedStep, MungedStep, SlurmStep DEF Script
  <2>4. CASE (\E x \in procs : Booted(x) \/ Exit(x) \/ Die(x)) \/ Other
    BY <1>3, <2>4, ProcessStep
  <2>. QED
    BY <1>3, <2>1, <2>2, <2>3, <2>4 DEF Next
<1>. QED
  BY <1>1, <1>2, <1>3

\* Processes, the files of munged and the position of a call agree, whatever
\* scripts do and whatever crashes.
THEOREM AlwaysIInv == Spec => []IInv
BY InvInductive, PTL DEF Spec

\* "Currently, we do not support two daemons of the same type": start_daemons()
\* and the single starts never run one twice, for all pids and specifications.
THEOREM NeverTwice == Spec => []OneOfEach
<1>1. IInv => OneOfEach
  <2>1. SUFFICES ASSUME IInv, NEW t \in Type
                 PROVE  Cardinality(Running(t)) <= 1
    BY DEF OneOfEach
  <2>2. CASE Running(t) = {}
    BY <2>2, FS_EmptySet
  <2>3. CASE Running(t) # {}
    <3>1. PICK x \in Running(t) : TRUE
      BY <2>3
    <3>2. Running(t) = {x}
      BY <2>1, <3>1 DEF IInv, ProcessInv, Running
    <3>3. Cardinality({x}) = 1
      BY FS_Singleton
    <3>. QED
      BY <3>2, <3>3
  <2>. QED
    BY <2>2, <2>3
<1>. QED
  BY <1>1, AlwaysIInv, PTL

\* No script overwrites the key file under a munged that keeps the old key.
THEOREM KeyFileInUse == Spec => []KeyInUse
<1>1. IInv => KeyInUse
  BY DEF IInv, MungedInv, KeyInUse
<1>. QED
  BY <1>1, AlwaysIInv, PTL

\* When start_daemons() or a single start returns, every daemon it was asked
\* for is there, but for the cases that AllStarted excepts.
THEOREM ReturnsWhenStarted == Spec => AllStarted
<1>1. ASSUME IInv, [Next]_vars
      PROVE  [pc \notin {"idle", "error"} /\ pc' = "idle" =>
                 \A i \in DOMAIN asked :
                    \/ Running(asked[i])' # {}
                    \/ asked[i] \in lost
                    \/ asked[i] = "munged" /\ stale
                    \/ asked[i] = "ldmsd" /\ ~InSpec("ldmsd")]_vars
  <2>1. SUFFICES ASSUME pc \notin {"idle", "error"}, pc' = "idle", Next
                 PROVE  Returned
    BY <1>1 DEF Returned, vars
  <2>2. Script
    <3>1. ~NewScript /\ ~StartDaemons /\ ~(\E t \in Type : Call(<<t>>))
      BY <2>1 DEF NewScript, StartDaemons, Call
    <3>2. ~KillLdmsd /\ ~KillSlurm /\ ~KillMunged
      BY <2>1 DEF KillLdmsd, KillSlurm, KillMunged
    <3>3. ~(\E x \in procs : Booted(x) \/ Exit(x) \/ Die(x)) /\ ~Other
      BY <2>1 DEF Booted, Exit, Die, Other
    <3>. QED
      BY <2>1, <3>1, <3>2, <3>3 DEF Next
  <2>. QED
    BY <1>1, <2>2, SshdLdmsdStep, StartMungedStep, MungedStep, SlurmStep DEF Script
<1>. QED
  BY <1>1, AlwaysIInv, PTL DEF Spec, AllStarted
=============================================================================
