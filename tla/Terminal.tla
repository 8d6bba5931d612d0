------------------------------ MODULE Terminal ------------------------------
(***************************************************************************)
(* An interactive program behind a terminal: icmd() of LDMS_Test.py over   *)
(* PtyPopen (runtime/singularity.py) or ContainerTTY (runtime/docker.py).  *)
(* icmd() types a command, drops the echo, presses ENTER and reads until   *)
(* the output ends with the prompt; it gives up after `retry` reads that   *)
(* bring nothing.  A read ends when the terminal was idle for a while, not *)
(* when the program is done.                                               *)
(***************************************************************************)
EXTENDS Naturals, Sequences, SequencesExt

CONSTANTS
  MaxTyped,   \* bound on the commands
  Retry       \* retry of icmd()

ASSUME TerminalAssumption == MaxTyped \in Nat /\ Retry \in Nat \ {0}

VARIABLES
  alive,   \* the program runs
  keys,    \* what was typed and not yet taken by the program
  screen,  \* what it printed and nobody read yet
  at,      \* where icmd() is
  typed,   \* the number of commands, the last one is the current
  sio,     \* what icmd() read since ENTER
  count,   \* reads in a row that brought nothing
  answer,  \* what the last icmd() returned
  gaveUp   \* an icmd() on this terminal gave up

ttyVars == <<alive, keys, screen, at, typed, sio, count, answer, gaveUp>>

Shown(of, is) == [of |-> of, is |-> is]
NoAnswer == [of |-> 0, how |-> "none", text |-> <<>>]

TtyTypeOK ==
  /\ alive \in BOOLEAN /\ gaveUp \in BOOLEAN
  /\ at \in {"idle", "flush", "enter", "read", "closed"}
  /\ typed \in 0..MaxTyped /\ count \in 0..Retry
-----------------------------------------------------------------------------
(* icmd: tty.write(cmd).                                                   *)
Type ==
  /\ at = "idle"
  /\ typed < MaxTyped
  /\ typed' = typed + 1
  /\ keys' = Append(keys, [n |-> typed + 1, key |-> "cmd"])
  /\ at' = "flush"
  /\ UNCHANGED <<alive, screen, sio, count, answer, gaveUp>>

(* PtyPopen.read and ContainerTTY.read return what has come when nothing   *)
(* more comes for a while.  At the end of the program PtyPopen.read        *)
(* raises, ContainerTTY.read returns the empty string.                     *)
ReadRaises == ~alive /\ screen = <<>>
GiveUp ==
  /\ answer' = [of |-> typed, how |-> "raised", text |-> <<>>]
  /\ at' = "idle"
  /\ sio' = <<>>
  /\ count' = 0

(* icmd: flush the echo.                                                   *)
Flush ==
  /\ at = "flush"
  /\ screen' = <<>>
  /\ at' = IF screen = <<>> THEN "enter" ELSE "flush"
  /\ UNCHANGED <<alive, keys, typed, sio, count, answer, gaveUp>>

(* icmd: ENTER.                                                            *)
Enter ==
  /\ at = "enter"
  /\ keys' = Append(keys, [n |-> typed, key |-> "enter"])
  /\ at' = "read"
  /\ UNCHANGED <<alive, screen, typed, sio, count, answer, gaveUp>>

(* icmd: the loop.                                                         *)
ReadTty ==
  LET all == sio \o screen IN
  /\ at = "read"
  /\ screen' = <<>>
  /\ IF all # <<>> /\ Last(all).is = "prompt"
       THEN /\ answer' = [of |-> typed, how |-> "ok", text |-> Front(all)]
            /\ at' = "idle" /\ sio' = <<>> /\ count' = 0
            /\ UNCHANGED gaveUp
     ELSE IF screen # <<>> \/ count + 1 < Retry
       THEN /\ sio' = all
            /\ count' = IF screen # <<>> THEN 0 ELSE count + 1
            /\ UNCHANGED <<at, answer, gaveUp>>
     ELSE GiveUp /\ gaveUp' = TRUE
  /\ UNCHANGED <<alive, keys, typed>>

(* PtyPopen: read() on the terminal of a program that has ended.           *)
ReadRaised ==
  /\ at \in {"flush", "read"}
  /\ ReadRaises
  /\ GiveUp
  /\ gaveUp' = TRUE
  /\ UNCHANGED <<alive, keys, screen, typed>>

(* term(): Ctrl-D, drop the rest and close.                                *)
Term ==
  /\ at = "idle"
  /\ at' = "closed"
  /\ alive' = FALSE
  /\ keys' = <<>>
  /\ screen' = <<>>
  /\ UNCHANGED <<typed, sio, count, answer, gaveUp>>
-----------------------------------------------------------------------------
(* The program echoes a command, runs it at ENTER, prints text, and then   *)
(* its prompt.                                                             *)
Program ==
  /\ alive /\ keys # <<>>
  /\ LET k == Head(keys) IN
       \/ /\ k.key = "cmd"
          /\ screen' = Append(screen, Shown(k.n, "echo"))
          /\ keys' = Tail(keys)
       \/ /\ k.key = "enter"
          /\ screen' = Append(screen, Shown(k.n, "text"))
          /\ keys' = <<[k EXCEPT !.key = "prompt"]>> \o Tail(keys)
       \/ /\ k.key = "prompt"
          /\ screen' = Append(screen, Shown(k.n, "prompt"))
          /\ keys' = Tail(keys)
  /\ UNCHANGED <<alive, at, typed, sio, count, answer, gaveUp>>

Die ==
  /\ alive
  /\ alive' = FALSE
  /\ keys' = <<>>
  /\ UNCHANGED <<screen, at, typed, sio, count, answer, gaveUp>>
-----------------------------------------------------------------------------
TtyInit ==
  /\ alive = TRUE
  /\ keys = <<>>
  /\ screen = <<>>
  /\ at = "idle"
  /\ typed = 0
  /\ sio = <<>>
  /\ count = 0
  /\ answer = NoAnswer
  /\ gaveUp = FALSE

TtyStep == Flush \/ Enter \/ ReadTty \/ ReadRaised
TtyNext == Type \/ TtyStep \/ Term \/ Program \/ Die
TtyFairness == WF_ttyVars(TtyStep) /\ WF_ttyVars(Program)
-----------------------------------------------------------------------------
(* The answer to a command is all that the command printed and nothing of  *)
(* another one, however the output was cut into reads and however long the *)
(* program paused, as long as no command on this terminal was given up     *)
(* (LDMS_Test.py:831-879).  Its own echo may be in it, when the echo came  *)
(* after the flush.                                                        *)
OwnAnswer ==
  answer.how = "ok" /\ ~gaveUp =>
    /\ \E i \in DOMAIN answer.text : answer.text[i] = Shown(answer.of, "text")
    /\ \A i \in DOMAIN answer.text : answer.text[i].of = answer.of

(* icmd() returns or raises, also when the program has ended               *)
(* (LDMS_Test.py:851-866, singularity.py:381-402, docker.py:54-72).        *)
IcmdEnds == at = "flush" ~> at = "idle"
-----------------------------------------------------------------------------
(* Why OwnAnswer holds: the command in turn goes from the keys to the      *)
(* screen, and its prompt comes last.                                      *)
Unread == Range(sio) \cup Range(screen)
Key(k) == [n |-> typed, key |-> k]
Printed(is) == Shown(typed, is) \in Unread

TurnInv ==
  /\ sio \in Seq(Range(sio)) /\ screen \in Seq(Range(screen))
  /\ \A x \in Unread : /\ x.of = typed
                       /\ x.is = "prompt" => Printed("text") /\ keys = <<>>
  /\ keys \in {<<>>, <<Key("cmd")>>, <<Key("cmd"), Key("enter")>>, <<Key("enter")>>,
               <<Key("prompt")>>}
  /\ keys = <<Key("prompt")>> => Printed("text")
  /\ at # "read" => /\ sio = <<>> /\ keys \in {<<>>, <<Key("cmd")>>}
                    /\ \A x \in Unread : x.is = "echo"
  /\ at \in {"idle", "closed"} => keys = <<>> /\ screen = <<>>

TtyInv == OwnAnswer /\ (~gaveUp => TurnInv)
=============================================================================
