------------------------------- MODULE SShell -------------------------------
(***************************************************************************)
(* Commands inside a Singularity instance (class SContainer of             *)
(* runtime/singularity.py).  Each thread of a script keeps one login shell *)
(* in the instance, writes command lines to it and reads what comes back   *)
(* until it sees the end marker, "\xFFRC<status>\xFFEND", that the line    *)
(* echoes last.  What the shell sends is a sequence of tokens: the text of *)
(* a command, its marker, text of a child that it left in the background,  *)
(* and what the login prints.                                              *)
(***************************************************************************)
EXTENDS Naturals, Sequences, SequencesExt

CONSTANTS
  Threads,      \* threads of the script
  Main,         \* the one that makes the handle
  MaxShellCalls,\* MaxShellCalls[t]: bound on the calls of thread t after __init__
  Contents      \* Contents[t]: what t may write, sequences of characters

ASSUME SShellAssumption ==
  /\ Main \in Threads /\ MaxShellCalls \in [Threads -> Nat]
  /\ \A t \in Threads : Contents[t] \subseteq Seq(STRING)

VARIABLES
  inst,    \* the instance: "up" or "down"
  sh,      \* sh[s]: how far shell s is
  input,   \* input[s]: command lines that bash has not finished
  out,     \* out[s]: tokens that nobody has read yet
  child,   \* child[s]: a command whose background child may still print
  texted,  \* texted[s]: whether the login, or the command that runs, printed
  file,    \* the file that commands write: [by, content]
  handle,  \* the next command of SContainer.__init__, 6 after it, 0 when it raised
  pc,      \* pc[t]: where thread t is
  cmd,     \* cmd[t]: its current command
  buf,     \* buf[t]: what it has read
  reply    \* reply[t]: what its last call returned

bashVars == <<inst, sh, input, out, child, texted, file>>
shellVars == <<bashVars, handle, pc, cmd, buf, reply>>

Token(of, is, rc, said) == [of |-> of, is |-> is, rc |-> rc, said |-> said]
NoCmd == [t |-> Main, n |-> 0, kind |-> "none", data |-> <<>>]
Noise == Token(NoCmd, "noise", 0, TRUE)
Ready == Token(NoCmd, "ready", 0, TRUE)
NoReply == [of |-> NoCmd, how |-> "none", end |-> NoCmd, rc |-> 0, text |-> {}, said |-> FALSE]

(* The commands of __init__, in order: is_running, the two of              *)
(* check_SContainer() and the two of json_load().                          *)
InitCmds == <<"is_running", "check", "check", "load", "load">>

ShellTypeOK ==
  /\ inst \in {"up", "down"}
  /\ \A s \in Threads : sh[s] \in {"none", "starting", "greeted", "up", "dead", "failed"}
  /\ handle \in 0..6
  /\ \A t \in Threads : pc[t] \in {"idle", "shell", "send", "wait"}
-----------------------------------------------------------------------------
(* What bash makes of a here-document whose delimiter is not quoted.  The  *)
(* characters that matter are named "dollar", "bslash" and "bquote".       *)

(* Mutant: $ is not escaped.                                               *)
EscapedNot(s) == s

(* _exec_run: in_data.replace('$', '\$').                                  *)
Escaped(s) == FlattenSeq([i \in DOMAIN s |-> IF s[i] = "dollar" THEN <<"bslash", "dollar">> ELSE <<s[i]>>])

(* A backslash quotes one of the three; a variable or a command is         *)
(* replaced by its value, "?".                                             *)
HereDoc(s) ==
  LET f[i \in 1..(Len(s) + 2)] ==
        IF i > Len(s) THEN <<>>
        ELSE IF s[i] = "bslash" /\ i < Len(s) /\ s[i + 1] \in {"dollar", "bslash", "bquote"} THEN <<s[i + 1]>> \o f[i + 2]
        ELSE IF s[i] = "bquote" \/ (s[i] = "dollar" /\ i < Len(s)) THEN <<"?">> \o f[i + 2]
        ELSE <<s[i]>> \o f[i + 1]
  IN  f[1]

(* A last backslash quotes the newline before the delimiter, which is then *)
(* not found.                                                              *)
Unterminated(s) ==
  LET g[i \in 1..(Len(s) + 2)] ==
        IF i > Len(s) THEN FALSE
        ELSE IF s[i] = "bslash" THEN i = Len(s) \/ g[i + 2] ELSE g[i + 1]
  IN  g[1]

(* A command with input that reads on beyond its own: without in_data it   *)
(* has the shell's own standard input.                                     *)
ReadsOn(c) == c.kind = "write" /\ (c.data = <<>> \/ Unterminated(Escaped(c.data)))
-----------------------------------------------------------------------------
(* Mutant: all threads of a script share one shell.                        *)
shellOfAll(t) == Main

(* SContainer.shell: the dictionary is indexed by thread.                  *)
shellOf(t) == t

Begin(t, n, kind, data) ==
  /\ cmd' = [cmd EXCEPT ![t] = [t |-> t, n |-> n, kind |-> kind, data |-> data]]
  /\ pc' = [pc EXCEPT ![t] = IF sh[shellOf(t)] \in {"up", "dead"} THEN "send" ELSE "shell"]
  /\ UNCHANGED <<bashVars, handle, buf, reply>>

(* SContainer.__init__ by the main thread, one command after the other.    *)
Attach ==
  /\ pc[Main] = "idle"
  /\ handle \in DOMAIN InitCmds
  /\ Begin(Main, handle, InitCmds[handle], <<>>)

(* exec_run, read_file, get_env...; pipe and write_file pass data.         *)
Call(t, kind, data) ==
  /\ pc[t] = "idle"
  /\ handle = 6
  /\ cmd[t].n < Len(InitCmds) + MaxShellCalls[t]
  /\ Begin(t, IF cmd[t].n <= Len(InitCmds) THEN Len(InitCmds) + 1 ELSE cmd[t].n + 1, kind, data)

(* How a call ends.  A negative answer to is_running ends __init__ (the    *)
(* instance is yet to be started), a failed check or load makes it raise.  *)
Return(t, r) ==
  /\ reply' = [reply EXCEPT ![t] = r]
  /\ pc' = [pc EXCEPT ![t] = "idle"]
  /\ handle' = CASE handle = 6 -> handle
                 [] handle = 1 /\ r.how = "no" -> 6
                 [] r.how = "ok" /\ r.rc = 0 -> handle + 1
                 [] OTHER -> 0
Raised(t) == [NoReply EXCEPT !.of = cmd[t], !.how = "raised"]

(* SContainer.shell: singularity exec ends at once when there is no such   *)
(* instance.                                                               *)
Popen(t) ==
  /\ pc[t] = "shell"
  /\ sh[shellOf(t)] = "none"
  /\ sh' = [sh EXCEPT ![shellOf(t)] = IF inst = "up" THEN "starting" ELSE "failed"]
  /\ UNCHANGED <<inst, input, out, child, texted, file, handle, pc, cmd, buf, reply>>

(* Mutant: poll() is not looked at.                                        *)
GreetingNoPoll(t) ==
  LET s == shellOf(t) IN
  /\ pc[t] = "shell"
  /\ sh[s] # "none"
  /\ out[s] # <<>>
  /\ out' = [out EXCEPT ![s] = <<>>]
  /\ IF out[s] = <<Ready>>
       THEN /\ sh' = [sh EXCEPT ![s] = IF @ = "greeted" THEN "up" ELSE "dead"]
            /\ IF cmd[t].kind = "is_running"
                 THEN Return(t, [NoReply EXCEPT !.of = cmd[t], !.how = "ok", !.end = cmd[t]])
                 ELSE pc' = [pc EXCEPT ![t] = "send"] /\ UNCHANGED <<handle, reply>>
       ELSE UNCHANGED <<sh, handle, pc, reply>>
  /\ UNCHANGED <<inst, input, child, texted, file, cmd, buf>>

(* SContainer.shell: the loop that reads the answer to "echo \xFF".  The   *)
(* answer must come alone; anything else is dropped.  When the process has *)
(* ended, there is no shell and nothing is kept.                           *)
Greeting(t) ==
  LET s == shellOf(t) IN
  /\ pc[t] = "shell"
  /\ sh[s] # "none"
  /\ out[s] # <<>> \/ sh[s] \in {"failed", "dead"}
  /\ out' = [out EXCEPT ![s] = <<>>]
  /\ IF out[s] = <<Ready>>
       THEN /\ sh' = [sh EXCEPT ![s] = IF @ = "greeted" THEN "up" ELSE "dead"]
            /\ IF cmd[t].kind = "is_running"
                 THEN Return(t, [NoReply EXCEPT !.of = cmd[t], !.how = "ok", !.end = cmd[t]])
                 ELSE pc' = [pc EXCEPT ![t] = "send"] /\ UNCHANGED <<handle, reply>>
     ELSE IF sh[s] \in {"failed", "dead"}
       THEN /\ sh' = [sh EXCEPT ![s] = "none"]
            /\ Return(t, IF cmd[t].kind = "is_running"
                           THEN [NoReply EXCEPT !.of = cmd[t], !.how = "no"] ELSE Raised(t))
     ELSE UNCHANGED <<sh, handle, pc, reply>>
  /\ UNCHANGED <<inst, input, child, texted, file, cmd, buf>>

(* _exec_run: write the line; the pipe of a dead shell is broken.          *)
Send(t) ==
  LET s == shellOf(t) IN
  /\ pc[t] = "send"
  /\ IF sh[s] = "dead"
       THEN Return(t, Raised(t)) /\ UNCHANGED <<input, buf>>
       ELSE /\ input' = [input EXCEPT ![s] = Append(@, cmd[t])]
            /\ buf' = [buf EXCEPT ![t] = <<>>]
            /\ pc' = [pc EXCEPT ![t] = "wait"]
            /\ UNCHANGED <<handle, reply>>
  /\ UNCHANGED <<inst, sh, out, child, texted, file, cmd>>

(* _exec_run: read all that is there, until it ends with the marker.  The  *)
(* status is that of the last marker, the output all that precedes it.     *)
Read(t) ==
  LET s == shellOf(t)
      all == buf[t] \o out[s]
  IN
  /\ pc[t] = "wait"
  /\ out[s] # <<>>
  /\ out' = [out EXCEPT ![s] = <<>>]
  /\ buf' = [buf EXCEPT ![t] = IF Last(all).is = "end" THEN <<>> ELSE all]
  /\ IF Last(all).is = "end"
       THEN Return(t, [of |-> cmd[t], how |-> "ok", end |-> Last(all).of, rc |-> Last(all).rc,
                       text |-> Range(Front(all)), said |-> Last(all).said])
       ELSE UNCHANGED <<handle, pc, reply>>
  /\ UNCHANGED <<inst, sh, input, child, texted, file, cmd>>
-----------------------------------------------------------------------------
(* The shells.                                                             *)
Emit(s, x) == out' = [out EXCEPT ![s] = Append(@, x)]

(* A login may print something before it obeys.                            *)
Login(s) ==
  /\ sh[s] = "starting"
  /\ \/ /\ ~texted[s]
        /\ Emit(s, Noise)
        /\ texted' = [texted EXCEPT ![s] = TRUE]
        /\ UNCHANGED sh
     \/ /\ Emit(s, Ready)
        /\ texted' = [texted EXCEPT ![s] = FALSE]
        /\ sh' = [sh EXCEPT ![s] = "greeted"]
  /\ UNCHANGED <<inst, input, child, file, handle, pc, cmd, buf, reply>>

Text(s) ==
  /\ sh[s] = "up" /\ input[s] # <<>> /\ ~texted[s]
  /\ Emit(s, Token(Head(input[s]), "text", 0, TRUE))
  /\ texted' = [texted EXCEPT ![s] = TRUE]
  /\ UNCHANGED <<inst, sh, input, child, file, handle, pc, cmd, buf, reply>>

(* The command ends; a write that succeeds has replaced the file.          *)
End(s, rc, leaves) ==
  LET c == Head(input[s]) IN
  /\ sh[s] = "up" /\ input[s] # <<>>
  /\ ~ReadsOn(c)
  /\ Emit(s, Token(c, "end", rc, texted[s]))
  /\ input' = [input EXCEPT ![s] = Tail(@)]
  /\ texted' = [texted EXCEPT ![s] = FALSE]
  /\ child' = [child EXCEPT ![s] = IF leaves /\ c.kind = "run" THEN c ELSE @]
  /\ file' = IF c.kind = "write" /\ rc = 0
               THEN [by |-> c, content |-> HereDoc(Escaped(c.data))] ELSE file
  /\ UNCHANGED <<inst, sh, handle, pc, cmd, buf, reply>>

(* A background child of an earlier command prints.                        *)
Stray(s) ==
  /\ sh[s] = "up" /\ child[s] # NoCmd
  /\ Emit(s, Token(child[s], "stray", 0, TRUE))
  /\ child' = [child EXCEPT ![s] = NoCmd]
  /\ UNCHANGED <<inst, sh, input, texted, file, handle, pc, cmd, buf, reply>>

(* SContainer.start, by the thread that made the handle; SCluster starts   *)
(* an instance once per handle.                                            *)
InstanceStarts ==
  /\ inst = "down"
  /\ handle = 6 /\ pc[Main] = "idle" /\ cmd[Main].n = 1
  /\ inst' = "up"
  /\ UNCHANGED <<sh, input, out, child, texted, file, handle, pc, cmd, buf, reply>>

(* SContainer.stop, or the instance dies.                                  *)
InstanceStops ==
  /\ inst = "up"
  /\ inst' = "down"
  /\ sh' = [s \in Threads |-> IF sh[s] \in {"starting", "greeted", "up"} THEN "dead" ELSE sh[s]]
  /\ input' = [s \in Threads |-> <<>>]
  /\ child' = [s \in Threads |-> NoCmd]
  /\ texted' = [s \in Threads |-> FALSE]
  /\ UNCHANGED <<out, file, handle, pc, cmd, buf, reply>>
-----------------------------------------------------------------------------
ShellInit ==
  /\ inst \in {"up", "down"}
  /\ sh = [s \in Threads |-> "none"]
  /\ input = [s \in Threads |-> <<>>]
  /\ out = [s \in Threads |-> <<>>]
  /\ child = [s \in Threads |-> NoCmd]
  /\ texted = [s \in Threads |-> FALSE]
  /\ file = [by |-> NoCmd, content |-> <<>>]
  /\ handle = 1
  /\ pc = [t \in Threads |-> "idle"]
  /\ cmd = [t \in Threads |-> [NoCmd EXCEPT !.t = t]]
  /\ buf = [t \in Threads |-> <<>>]
  /\ reply = [t \in Threads |-> NoReply]

ShellStep(t) == Popen(t) \/ Greeting(t) \/ Send(t) \/ Read(t)
BashStep(s) == Login(s) \/ Text(s) \/ \E rc \in {0, 1}, leaves \in BOOLEAN : End(s, rc, leaves)

ShellNext ==
  \/ Attach \/ InstanceStarts \/ InstanceStops
  \/ \E t \in Threads : \/ Call(t, "run", <<>>)
                        \/ \E c \in Contents[t] : Call(t, "write", c)
                        \/ ShellStep(t) \/ BashStep(t) \/ Stray(t)

ShellFairness == \A t \in Threads : WF_shellVars(ShellStep(t)) /\ WF_shellVars(BashStep(t))
-----------------------------------------------------------------------------
(* The status that a call returns is that of its own command, and its      *)
(* output holds that command's text and nobody else's, except what a       *)
(* background child of the same thread printed: although threads use one   *)
(* handle at the same time and the stream is cut into arbitrary pieces     *)
(* (singularity.py:676-741).                                               *)
OwnReply ==
  \A t \in Threads : reply[t].how = "ok" =>
    /\ reply[t].end = reply[t].of
    /\ reply[t].said => \E x \in reply[t].text : x.of = reply[t].of
    /\ \A x \in reply[t].text : x.of.t = t /\ (x.of = reply[t].of \/ x.is = "stray")

(* A write_file() that saw no error left the content in the file, unless a *)
(* later one replaced it; contents with backslashes or backquotes excepted *)
(* (singularity.py:711-717, 800-804).                                      *)
FileAsWritten ==
  \A t \in Threads :
    file.by = reply[t].of /\ reply[t].how = "ok" /\ reply[t].rc = 0
      => \/ file.content = reply[t].of.data
         \/ \E i \in DOMAIN reply[t].of.data : reply[t].of.data[i] \in {"bslash", "bquote"}

(* A call returns or raises (singularity.py:691-697, 728-737).  It hangs   *)
(* only when its shell died while it waited, when the login printed its    *)
(* text together with the greeting, when a background child printed right  *)
(* after the end marker, or when the command reads on from the shell.      *)
Excused(t) ==
  \/ sh[shellOf(t)] = "dead"
  \/ sh[shellOf(t)] = "greeted" /\ out[shellOf(t)] # <<Ready>>
  \/ pc[t] = "wait" /\ (ReadsOn(cmd[t]) \/ \E i \in DOMAIN buf[t] : buf[t][i].is = "stray")
ShellCallsEnd == \A t \in Threads : pc[t] # "idle" ~> (pc[t] = "idle" \/ Excused(t))
-----------------------------------------------------------------------------
(* Why OwnReply holds: all that thread t has not yet answered, read or     *)
(* unread, is its current command's or a child's.                          *)
Pending(t) == Range(buf[t]) \cup Range(out[t])
TextOf(t) == Token(cmd[t], "text", 0, TRUE)
StrayOf(t, x) == x.is = "stray" /\ x.of.t = t

(* A token that may be in what t reads while it waits.                     *)
Mine(t, x) ==
  \/ StrayOf(t, x)
  \/ x = TextOf(t)
  \/ x.is = "end" /\ x.of = cmd[t] /\ (x.said => TextOf(t) \in Pending(t))

WaitInv(t) ==
  /\ input[t] \in {<<>>, <<cmd[t]>>}
  /\ \A x \in Pending(t) : Mine(t, x)
  /\ input[t] # <<>> => /\ \A x \in Pending(t) : x.is # "end"
                        /\ texted[t] => TextOf(t) \in Pending(t)

ShellDomains ==
  /\ DOMAIN sh = Threads /\ DOMAIN input = Threads /\ DOMAIN out = Threads
  /\ DOMAIN child = Threads /\ DOMAIN texted = Threads /\ DOMAIN pc = Threads
  /\ DOMAIN cmd = Threads /\ DOMAIN buf = Threads /\ DOMAIN reply = Threads

ThreadInv(t) ==
  /\ cmd[t].t = t /\ (child[t] # NoCmd => child[t].t = t)
  /\ buf[t] \in Seq(Range(buf[t])) /\ out[t] \in Seq(Range(out[t]))
  /\ pc[t] # "wait" => input[t] = <<>>
  /\ sh[t] \in {"greeted", "up"} /\ input[t] = <<>> => ~texted[t]
  /\ sh[t] \in {"starting", "greeted", "failed"} => pc[t] = "shell"
  /\ pc[t] = "send" => sh[t] \in {"up", "dead"}
  /\ pc[t] \in {"idle", "send"} => \A x \in Range(out[t]) : StrayOf(t, x)
  /\ pc[t] = "wait" => WaitInv(t)

ShellInv == ShellDomains /\ OwnReply /\ \A t \in Threads : ThreadInv(t)

(* Why FileAsWritten holds: the file is what bash makes of the content of  *)
(* the command that wrote it.                                              *)
FileInv ==
  /\ \A t \in Threads : cmd[t].data \in Seq(STRING)
  /\ file.by.data \in Seq(STRING)
  /\ file.content = HereDoc(Escaped(file.by.data))
=============================================================================
