------------------------------ MODULE ContExec ------------------------------
(***************************************************************************)
(* The three ways in which a script runs commands in a container: the      *)
(* shells of a Singularity instance, a terminal, and Docker's requests.    *)
(* They share no state, so that nothing is lost when a behaviour uses one  *)
(* of them and the others rest.                                            *)
(***************************************************************************)
EXTENDS SShell, Terminal, DockerExec

VARIABLE medium

vars == <<medium, shellVars, ttyVars, dockerVars>>

Init ==
  /\ medium \in {"shell", "tty", "docker"}
  /\ ShellInit /\ (medium = "shell" \/ inst = "up")
  /\ TtyInit
  /\ DockerInit /\ (medium = "docker" \/ status = [c \in Conts |-> "running"])

Next ==
  \/ medium = "shell" /\ ShellNext /\ UNCHANGED <<medium, ttyVars, dockerVars>>
  \/ medium = "tty" /\ TtyNext /\ UNCHANGED <<medium, shellVars, dockerVars>>
  \/ medium = "docker" /\ DockerNext /\ UNCHANGED <<medium, shellVars, ttyVars>>

Spec == Init /\ [][Next]_vars /\ ShellFairness /\ TtyFairness /\ DockerFairness
-----------------------------------------------------------------------------
(* What a call returns is the outcome of its own command, over a shell     *)
(* (singularity.py:708-741) and over a terminal (LDMS_Test.py:831-879).    *)
OwnReplies == OwnReply /\ OwnAnswer

(* write_file() that reports no error has written the content              *)
(* (singularity.py:800-804, docker.py:210-226).                            *)
WrittenAsReported == FileAsWritten /\ DockerWritten

(* Every call comes to an end: over a shell except for the cases that      *)
(* Excused names, over a terminal and through Docker always.               *)
CallsEnd == ShellCallsEnd /\ IcmdEnds /\ DockerCallsEnd
=============================================================================
