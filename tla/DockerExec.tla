----------------------------- MODULE DockerExec -----------------------------
(***************************************************************************)
(* Commands inside Docker containers (class Container of runtime/docker.py)*)
(* and DockerCluster.wait_running().  A handle keeps the attributes of its *)
(* container as they were when they were last loaded.  exec_run() is one   *)
(* request to Docker; write_file() and pipe() talk to the command over a   *)
(* socket and take what the first recv() brings for the whole answer.      *)
(***************************************************************************)
EXTENDS Naturals, FiniteSets

CONSTANTS
  Conts,      \* the containers
  MaxPolls    \* how often wait_running() looks before its timeout

ASSUME DockerExecAssumption == MaxPolls \in Nat

VARIABLES
  status,  \* status[c]: the state of the container
  attrs,   \* attrs[c]: the state in the attributes of its handle
  upAt,    \* upAt[c]: how often wait_running() had looked when c came up
  op,      \* what the script is doing
  sock,    \* the command at the other end of the socket
  disk,    \* disk[c]: whether the file in c has the content
  result   \* what the last operation returned

dockerVars == <<status, attrs, upAt, op, sock, disk, result>>

NoOp == [do |-> "none", cont |-> CHOOSE c \in Conts : TRUE, at |-> "idle", polls |-> 0]
NoResult == [do |-> "none", cont |-> NoOp.cont, how |-> "none", waited |-> TRUE]
-----------------------------------------------------------------------------
(* exec_run, read_file, write_file, pipe: each begins with wait_running(). *)
DockerCall(do, c) ==
  /\ op.at = "idle"
  /\ op' = [do |-> do, cont |-> c, at |-> "wait", polls |-> 0]
  /\ upAt' = [d \in Conts |-> 0]
  /\ sock' = "none"
  /\ disk' = [disk EXCEPT ![c] = IF do = "write" THEN FALSE ELSE @]
  /\ result' = NoResult
  /\ UNCHANGED <<status, attrs>>

(* Container.is_running.                                                   *)
is_running(c) == attrs[c] = "running"

(* Mutant: the attributes are not loaded again.                            *)
WaitRunningStale ==
  LET c == op.cont IN
  /\ op.at = "wait"
  /\ \/ is_running(c) /\ op' = [op EXCEPT !.at = "exec"] /\ UNCHANGED result
     \/ /\ ~is_running(c) /\ op.polls = MaxPolls
        /\ op' = [op EXCEPT !.at = "exec"]
        /\ result' = [result EXCEPT !.waited = FALSE]
     \/ /\ ~is_running(c) /\ op.polls < MaxPolls
        /\ op' = [op EXCEPT !.polls = @ + 1]
        /\ UNCHANGED result
  /\ UNCHANGED <<status, attrs, upAt, sock, disk>>

(* Container.wait_running; _exec_run does not look at what it returns.     *)
WaitRunning ==
  LET c == op.cont IN
  /\ op.at = "wait"
  /\ \/ is_running(c) /\ op' = [op EXCEPT !.at = "exec"] /\ UNCHANGED <<attrs, result>>
     \/ /\ ~is_running(c) /\ op.polls = MaxPolls
        /\ op' = [op EXCEPT !.at = "exec"]
        /\ result' = [result EXCEPT !.waited = FALSE]
        /\ UNCHANGED attrs
     \/ /\ ~is_running(c) /\ op.polls < MaxPolls
        /\ attrs' = [attrs EXCEPT ![c] = status[c]]
        /\ op' = [op EXCEPT !.polls = @ + 1]
        /\ UNCHANGED result
  /\ UNCHANGED <<status, upAt, sock, disk>>

Finish(how) ==
  /\ op' = NoOp
  /\ result' = [do |-> op.do, cont |-> op.cont, how |-> how, waited |-> result.waited]

(* The request: Docker refuses it for a container that is not running.     *)
Exec ==
  /\ op.at = "exec"
  /\ \/ status[op.cont] # "running" /\ Finish("raised") /\ UNCHANGED sock
     \/ status[op.cont] = "running" /\ op.do = "exec" /\ Finish("ok") /\ UNCHANGED sock
     \/ /\ status[op.cont] = "running" /\ op.do \in {"write", "pipe"}
        /\ op' = [op EXCEPT !.at = "recv"]
        /\ sock' = "running"
        /\ UNCHANGED result
  /\ UNCHANGED <<status, attrs, upAt, disk>>

(* The command has read its input to the end, and answers: on success      *)
(* write_file()'s says "true", a command of pipe() may say nothing.        *)
Answer ==
  /\ sock = "running" /\ status[op.cont] = "running"
  /\ \/ /\ sock' = "true"
        /\ disk' = [disk EXCEPT ![op.cont] = IF op.do = "write" THEN TRUE ELSE @]
     \/ sock' = "error" /\ UNCHANGED disk
     \/ op.do = "pipe" /\ sock' = "silent" /\ UNCHANGED disk
  /\ UNCHANGED <<status, attrs, upAt, op, result>>

(* The answer is a header of 8 bytes and the text; recv() may bring the    *)
(* header alone or a part of the text.  pipe() takes the first byte of the *)
(* header, the stream, for a status.                                       *)
Recv ==
  /\ op.at = "recv"
  /\ sock \in {"true", "error", "silent", "closed"}
  /\ \E whole \in BOOLEAN :
       Finish(IF op.do = "write" THEN IF sock = "true" /\ whole THEN "ok" ELSE "raised"
              ELSE IF sock = "error" THEN "failed" ELSE "ok")
  /\ UNCHANGED <<status, attrs, upAt, sock, disk>>

(* DockerCluster.wait_running: the attributes of all handles, as they are. *)
ClusterCall ==
  /\ op.at = "idle"
  /\ op' = [NoOp EXCEPT !.do = "cluster", !.at = "cwait"]
  /\ upAt' = [d \in Conts |-> 0]
  /\ result' = NoResult
  /\ UNCHANGED <<status, attrs, sock, disk>>

ClusterWait ==
  /\ op.at = "cwait"
  /\ IF \A c \in Conts : is_running(c) THEN Finish("ok")
     ELSE IF op.polls = MaxPolls THEN Finish("timeout")
     ELSE op' = [op EXCEPT !.polls = @ + 1] /\ UNCHANGED result
  /\ UNCHANGED <<status, attrs, upAt, sock, disk>>
-----------------------------------------------------------------------------
Up(c) ==
  /\ status[c] = "created"
  /\ status' = [status EXCEPT ![c] = "running"]
  /\ upAt' = [upAt EXCEPT ![c] = op.polls]
  /\ UNCHANGED <<attrs, op, sock, disk, result>>

(* The container ends, and with it the command: the socket is closed.      *)
Down(c) ==
  /\ status[c] = "running"
  /\ status' = [status EXCEPT ![c] = "exited"]
  /\ sock' = IF op.cont = c /\ sock = "running" THEN "closed" ELSE sock
  /\ UNCHANGED <<attrs, upAt, op, disk, result>>

DockerInit ==
  /\ status \in [Conts -> {"created", "running"}]
  /\ attrs = status
  /\ upAt = [c \in Conts |-> 0]
  /\ op = NoOp
  /\ sock = "none"
  /\ disk = [c \in Conts |-> FALSE]
  /\ result = NoResult

DockerStep == WaitRunning \/ Exec \/ Answer \/ Recv \/ ClusterWait
DockerNext ==
  \/ DockerStep \/ ClusterCall
  \/ \E do \in {"exec", "write", "pipe"}, c \in Conts : DockerCall(do, c)
  \/ \E c \in Conts : Up(c) \/ Down(c)
DockerFairness == WF_dockerVars(DockerStep)
-----------------------------------------------------------------------------
(* Container.wait_running() gives up only on a container that was not      *)
(* running when it last looked (docker.py:124-139): one that came up       *)
(* earlier is seen although the handle was made before.                    *)
WaitSeesUp ==
  op.at = "exec" /\ ~result.waited =>
    status[op.cont] # "running" \/ upAt[op.cont] = MaxPolls

(* write_file() returns without raising only when the file is in the       *)
(* container (docker.py:210-226).                                          *)
DockerWritten == result.do = "write" /\ result.how = "ok" => disk[result.cont]

(* Every operation on a container returns or raises (docker.py:124-256).   *)
DockerCallsEnd == op.at # "idle" ~> op.at = "idle"
-----------------------------------------------------------------------------
(* Why WaitSeesUp and DockerWritten hold.                                  *)
DockerTypeOK ==
  /\ status \in [Conts -> {"created", "running", "exited"}]
  /\ attrs \in [Conts -> {"created", "running", "exited"}]
  /\ upAt \in [Conts -> Nat] /\ disk \in [Conts -> BOOLEAN]
  /\ op = [do |-> op.do, cont |-> op.cont, at |-> op.at, polls |-> op.polls]
  /\ op.at \in {"wait", "exec", "recv"} => op.cont \in Conts
  /\ op.polls \in Nat
  /\ result = [do |-> result.do, cont |-> result.cont, how |-> result.how,
               waited |-> result.waited]

(* A container that runs without the handle's knowledge came up after      *)
(* wait_running() last looked.                                             *)
SeenInv ==
  /\ op.at \in {"wait", "exec"} =>
       is_running(op.cont) \/ status[op.cont] # "running" \/ upAt[op.cont] = op.polls
  /\ op.at = "wait" => result = NoResult
  /\ op.at = "exec" /\ ~result.waited => ~is_running(op.cont) /\ op.polls = MaxPolls

(* The answer "true" of write_file()'s command means the content is there. *)
WriteInv ==
  /\ sock = "running" => op.at = "recv"
  /\ op.at # "idle" => result.how = "none"
  /\ op.at = "cwait" => op.do = "cluster"
  /\ op.at = "recv" /\ op.do = "write" /\ sock = "true" => disk[op.cont]
  /\ result.how = "ok" /\ result.do = "write" => result.cont \in Conts

DockerInv == DockerTypeOK /\ SeenInv /\ WriteInv /\ DockerWritten
=============================================================================
