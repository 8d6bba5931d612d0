----------------------------- MODULE ExecProofs -----------------------------
(***************************************************************************)
(* That a call on a container returns its own outcome, over a shell, a     *)
(* terminal or Docker's socket, for any number of threads, containers and  *)
(* commands and for streams cut into pieces of any size.                   *)
(***************************************************************************)
EXTENDS ContExec, SequenceTheorems, WellFoundedInduction, TLAPS

-----------------------------------------------------------------------------
(* Sequences *)

LEMMA InOwnRange ==
    ASSUME NEW S, NEW s \in Seq(S)
    PROVE  s \in Seq(Range(s))
<1>. DEFINE R == Range(s)
<1>1. \A i \in 1 .. Len(s) : s[i] \in R
  BY DEF Range
<1>. HIDE DEF R
<1>2. s \in Seq(R)
  BY <1>1
<1>3. R = Range(s)
  BY DEF R
<1>. QED BY <1>2, <1>3

LEMMA RangeOfEmpty == Range(<<>>) = {} /\ <<>> \in Seq(Range(<<>>))
BY DEF Range

LEMMA RangeOfAppend ==
    ASSUME NEW s, s \in Seq(Range(s)), NEW x
    PROVE  /\ Append(s, x) \in Seq(Range(Append(s, x)))
           /\ Range(Append(s, x)) = Range(s) \cup {x}
<1>. DEFINE S == Range(s) \cup {x}
<1>1. s \in Seq(S)
  BY DEF Range
<1>. HIDE DEF S
<1>2. x \in S
  BY DEF S
<1>3. Append(s, x) \in Seq(S)
  BY <1>1, <1>2
<1>4. /\ DOMAIN s = 1 .. Len(s) /\ DOMAIN Append(s, x) = 1 .. (Len(s) + 1)
      /\ Append(s, x)[Len(s) + 1] = x /\ \A i \in 1 .. Len(s) : Append(s, x)[i] = s[i]
      /\ Len(s) \in Nat
  BY <1>1, <1>2, <1>3
<1>5. Append(s, x) \in Seq(Range(Append(s, x)))
  BY <1>3, InOwnRange
<1>6. Range(Append(s, x)) = Range(s) \cup {x}
  BY <1>4 DEF Range
<1>. QED BY <1>5, <1>6

LEMMA RangeOfConcat ==
    ASSUME NEW s, s \in Seq(Range(s)), NEW u, u \in Seq(Range(u))
    PROVE  /\ s \o u \in Seq(Range(s \o u))
           /\ Range(s \o u) = Range(s) \cup Range(u)
<1>. DEFINE S == Range(s) \cup Range(u)
<1>1. s \in Seq(S) /\ u \in Seq(S)
  BY DEF Range
<1>. HIDE DEF S
<1>2. s \o u \in Seq(S)
  BY <1>1
<1>3. /\ DOMAIN s = 1 .. Len(s) /\ DOMAIN u = 1 .. Len(u)
      /\ DOMAIN (s \o u) = 1 .. (Len(s) + Len(u))
      /\ Len(s) \in Nat /\ Len(u) \in Nat
      /\ \A i \in 1 .. (Len(s) + Len(u)) :
            (s \o u)[i] = IF i <= Len(s) THEN s[i] ELSE u[i - Len(s)]
  BY <1>1, <1>2
<1>4. s \o u \in Seq(Range(s \o u))
  BY <1>2, InOwnRange
<1>5. ASSUME NEW i \in DOMAIN u
      PROVE  \E j \in DOMAIN (s \o u) : (s \o u)[j] = u[i]
  <2>1. Len(s) + i \in 1 .. (Len(s) + Len(u)) /\ ~(Len(s) + i <= Len(s)) /\ Len(s) + i - Len(s) = i
    BY <1>3
  <2>. QED BY <1>3, <2>1, SMTT(40)
<1>6. ASSUME NEW i \in DOMAIN (s \o u)
      PROVE  \/ \E j \in DOMAIN s : (s \o u)[i] = s[j]
             \/ \E j \in DOMAIN u : (s \o u)[i] = u[j]
  <2>1. CASE i <= Len(s)
    BY <1>3, <2>1
  <2>2. CASE ~(i <= Len(s))
    <3>1. i - Len(s) \in 1 .. Len(u)
      BY <1>3, <2>2
    <3>. QED BY <1>3, <2>2, <3>1
  <2>. QED BY <2>1, <2>2
<1>7. \A i \in DOMAIN s : i \in DOMAIN (s \o u) /\ (s \o u)[i] = s[i]
  BY <1>3
<1>8. \A y \in Range(s \o u) : y \in Range(s) \/ y \in Range(u)
  BY <1>6 DEF Range
<1>9. \A y \in Range(s) : y \in Range(s \o u)
  BY <1>7 DEF Range
<1>10. \A y \in Range(u) : y \in Range(s \o u)
  BY <1>5 DEF Range
<1>. QED BY <1>4, <1>8, <1>9, <1>10

(* The last token, and the tokens before it.                               *)
LEMMA RangeOfFront ==
    ASSUME NEW s, s \in Seq(Range(s)), s # <<>>
    PROVE  /\ Last(s) \in Range(s)
           /\ Range(Front(s)) \subseteq Range(s)
           /\ Range(s) \subseteq Range(Front(s)) \cup {Last(s)}
<1>1. DOMAIN s = 1 .. Len(s) /\ Len(s) \in Nat /\ Len(s) # 0
  OBVIOUS
<1>2. Front(s) = [i \in 1 .. (Len(s) - 1) |-> s[i]]
  BY <1>1 DEF Front
<1>. QED BY <1>1, <1>2 DEF Last, Range

-----------------------------------------------------------------------------
(* Docker *)

LEMMA DockerInitInv ==
    ASSUME DockerInit
    PROVE  DockerInv
<1>. USE DEF DockerInit, NoOp, NoResult
<1>1. DockerTypeOK
  BY DEF DockerTypeOK
<1>2. SeenInv /\ WriteInv /\ DockerWritten
  BY DEF SeenInv, WriteInv, DockerWritten
<1>. QED BY <1>1, <1>2 DEF DockerInv

(* A call begins.                                                          *)
LEMMA DockerCallKeeps ==
    ASSUME DockerInv, NEW do \in {"exec", "write", "pipe"}, NEW c \in Conts, DockerCall(do, c)
    PROVE  DockerInv'
<1>. USE DEF DockerInv
<1>1. /\ op'.do = do /\ op'.cont = c /\ op'.at = "wait" /\ op'.polls = 0
      /\ op' = [do |-> op'.do, cont |-> op'.cont, at |-> op'.at, polls |-> op'.polls]
      /\ result' = NoResult /\ UNCHANGED <<status, attrs>> /\ upAt' = [d \in Conts |-> 0]
      /\ sock' = "none"
  BY DEF DockerCall
<1>2. result'.how = "none" /\ result'.do = "none"
      /\ result' = [do |-> result'.do, cont |-> result'.cont, how |-> result'.how,
                    waited |-> result'.waited]
  BY <1>1 DEF NoResult
<1>3. disk' \in [Conts -> BOOLEAN]
  <2>1. disk' = [disk EXCEPT ![c] = IF do = "write" THEN FALSE ELSE disk[c]]
    BY DEF DockerCall
  <2>2. (IF do = "write" THEN FALSE ELSE disk[c]) \in BOOLEAN
    BY DEF DockerTypeOK
  <2>. QED BY <2>1, <2>2 DEF DockerTypeOK
<1>4. DockerTypeOK'
  BY <1>1, <1>2, <1>3 DEF DockerTypeOK
<1>5. SeenInv'
  BY <1>1 DEF SeenInv
<1>6. WriteInv' /\ DockerWritten'
  BY <1>1, <1>2 DEF WriteInv, DockerWritten
<1>. QED BY <1>4, <1>5, <1>6

(* wait_running()                                                          *)
LEMMA WaitRunningKeeps ==
    ASSUME DockerInv, WaitRunning
    PROVE  DockerInv'
<1>. USE DEF DockerInv
<1>0. /\ UNCHANGED <<status, upAt, sock, disk>> /\ op.at = "wait" /\ op.cont \in Conts
      /\ result = NoResult
      /\ op = [do |-> op.do, cont |-> op.cont, at |-> op.at, polls |-> op.polls]
  BY DEF WaitRunning, DockerTypeOK, SeenInv
<1>1. /\ result.how = "none" /\ result.do = "none" /\ result.waited = TRUE
      /\ result = [do |-> result.do, cont |-> result.cont, how |-> result.how,
                   waited |-> result.waited]
  BY <1>0 DEF NoResult
<1>2. [op EXCEPT !.at = "exec"]
        = [do |-> op.do, cont |-> op.cont, at |-> "exec", polls |-> op.polls]
  BY <1>0
<1>3. CASE is_running(op.cont)
  <2>1. op' = [op EXCEPT !.at = "exec"] /\ UNCHANGED <<attrs, result>>
    BY <1>3 DEF WaitRunning
  <2>2. /\ op'.do = op.do /\ op'.cont = op.cont /\ op'.at = "exec" /\ op'.polls = op.polls
        /\ op' = [do |-> op'.do, cont |-> op'.cont, at |-> op'.at, polls |-> op'.polls]
    BY <1>2, <2>1
  <2>3. DockerTypeOK'
    BY <1>0, <2>1, <2>2 DEF DockerTypeOK
  <2>4. SeenInv'
    BY <1>0, <1>1, <1>3, <2>1, <2>2 DEF SeenInv, is_running
  <2>5. WriteInv' /\ DockerWritten'
    BY <1>0, <1>1, <2>1, <2>2 DEF WriteInv, DockerWritten
  <2>. QED BY <2>3, <2>4, <2>5
<1>4. CASE ~is_running(op.cont) /\ op.polls = MaxPolls
  <2>1. /\ op' = [op EXCEPT !.at = "exec"] /\ UNCHANGED attrs
        /\ result' = [result EXCEPT !.waited = FALSE]
    BY <1>4, DockerExecAssumption DEF WaitRunning
  <2>2. /\ op'.do = op.do /\ op'.cont = op.cont /\ op'.at = "exec" /\ op'.polls = op.polls
        /\ op' = [do |-> op'.do, cont |-> op'.cont, at |-> op'.at, polls |-> op'.polls]
    BY <1>2, <2>1
  <2>3. result' = [do |-> result.do, cont |-> result.cont, how |-> result.how, waited |-> FALSE]
    BY <1>1, <2>1
  <2>4. /\ result'.how = "none" /\ result'.do = "none"
        /\ result' = [do |-> result'.do, cont |-> result'.cont, how |-> result'.how,
                      waited |-> result'.waited]
    BY <1>1, <2>3
  <2>5. DockerTypeOK'
    BY <1>0, <2>1, <2>2, <2>4 DEF DockerTypeOK
  <2>6. SeenInv'
    BY <1>0, <1>4, <2>1, <2>2 DEF SeenInv, is_running
  <2>7. WriteInv' /\ DockerWritten'
    BY <1>0, <2>2, <2>4 DEF WriteInv, DockerWritten
  <2>. QED BY <2>5, <2>6, <2>7
<1>5. CASE ~is_running(op.cont) /\ op.polls < MaxPolls
  <2>1. /\ op' = [op EXCEPT !.polls = @ + 1] /\ UNCHANGED result
        /\ attrs' = [attrs EXCEPT ![op.cont] = status[op.cont]]
    BY <1>5, DockerExecAssumption DEF WaitRunning, DockerTypeOK
  <2>2. op' = [do |-> op.do, cont |-> op.cont, at |-> op.at, polls |-> op.polls + 1]
    BY <1>0, <2>1
  <2>3. /\ op'.do = op.do /\ op'.cont = op.cont /\ op'.at = "wait" /\ op'.polls = op.polls + 1
        /\ op' = [do |-> op'.do, cont |-> op'.cont, at |-> op'.at, polls |-> op'.polls]
    BY <1>0, <2>2
  <2>4. attrs'[op.cont] = status[op.cont]
    BY <1>0, <2>1 DEF DockerTypeOK
  <2>5. DockerTypeOK'
    BY <1>0, <2>1, <2>3 DEF DockerTypeOK
  <2>6. SeenInv'
    BY <1>0, <2>1, <2>3, <2>4 DEF SeenInv, is_running, NoResult
  <2>7. WriteInv' /\ DockerWritten'
    BY <1>0, <1>1, <2>1, <2>3 DEF WriteInv, DockerWritten
  <2>. QED BY <2>5, <2>6, <2>7
<1>. QED BY <1>3, <1>4, <1>5 DEF WaitRunning

(* A call that is over.                                                    *)
LEMMA FinishKeeps ==
    ASSUME DockerInv, NEW how, Finish(how), op.at # "idle", sock # "running",
           UNCHANGED <<status, attrs, upAt, sock, disk>>,
           how = "ok" /\ op.do = "write" => op.cont \in Conts /\ disk[op.cont]
    PROVE  DockerInv'
<1>. USE DEF DockerInv
<1>1. /\ op'.at = "idle" /\ op'.polls = 0
      /\ op' = [do |-> op'.do, cont |-> op'.cont, at |-> op'.at, polls |-> op'.polls]
  BY DEF Finish, NoOp
<1>2. /\ result'.do = op.do /\ result'.cont = op.cont /\ result'.how = how
      /\ result' = [do |-> result'.do, cont |-> result'.cont, how |-> result'.how,
                    waited |-> result'.waited]
  BY DEF Finish
<1>3. DockerTypeOK'
  BY <1>1, <1>2 DEF DockerTypeOK
<1>4. SeenInv'
  BY <1>1 DEF SeenInv
<1>5. WriteInv' /\ DockerWritten'
  BY <1>1, <1>2 DEF WriteInv, DockerWritten
<1>. QED BY <1>3, <1>4, <1>5

(* The request, and the end of a call.                                     *)
LEMMA ExecKeeps ==
    ASSUME DockerInv, Exec \/ Recv
    PROVE  DockerInv'
<1>. USE DEF DockerInv
<1>1. CASE Exec
  <2>1. op.at = "exec" /\ op.cont \in Conts /\ UNCHANGED <<status, attrs, upAt, disk>> /\ sock # "running"
        /\ op = [do |-> op.do, cont |-> op.cont, at |-> op.at, polls |-> op.polls]
    BY <1>1 DEF Exec, DockerTypeOK, WriteInv
  <2>2. CASE Finish("raised") /\ UNCHANGED sock
    BY <2>1, <2>2, FinishKeeps
  <2>3. CASE op.do = "exec" /\ Finish("ok") /\ UNCHANGED sock
    BY <2>1, <2>3, FinishKeeps
  <2>4. CASE op' = [op EXCEPT !.at = "recv"] /\ sock' = "running" /\ UNCHANGED result
    <3>1. op' = [do |-> op.do, cont |-> op.cont, at |-> "recv", polls |-> op.polls]
      BY <2>1, <2>4
    <3>2. /\ op'.do = op.do /\ op'.cont = op.cont /\ op'.at = "recv" /\ op'.polls = op.polls
          /\ op' = [do |-> op'.do, cont |-> op'.cont, at |-> op'.at, polls |-> op'.polls]
      BY <3>1
    <3>3. DockerTypeOK'
      BY <2>1, <2>4, <3>2 DEF DockerTypeOK
    <3>4. SeenInv'
      BY <3>2 DEF SeenInv
    <3>5. WriteInv' /\ DockerWritten'
      BY <2>1, <2>4, <3>2 DEF WriteInv, DockerWritten
    <3>. QED BY <3>3, <3>4, <3>5
  <2>. QED BY <1>1, <2>2, <2>3, <2>4 DEF Exec
<1>2. CASE Recv
  <2>1. /\ op.at = "recv" /\ op.cont \in Conts /\ UNCHANGED <<status, attrs, upAt, sock, disk>>
        /\ sock # "running"
    BY <1>2 DEF Recv, DockerTypeOK
  <2>2. PICK whole \in BOOLEAN :
          Finish(IF op.do = "write" THEN IF sock = "true" /\ whole THEN "ok" ELSE "raised"
                 ELSE IF sock = "error" THEN "failed" ELSE "ok")
    BY <1>2 DEF Recv
  <2>. DEFINE how == IF op.do = "write" THEN IF sock = "true" /\ whole THEN "ok" ELSE "raised"
                     ELSE IF sock = "error" THEN "failed" ELSE "ok"
  <2>3. how = "ok" /\ op.do = "write" => disk[op.cont]
    BY <2>1 DEF WriteInv
  <2>. HIDE DEF how
  <2>4. Finish(how)
    BY <2>2 DEF how
  <2>. QED BY <2>1, <2>3, <2>4, FinishKeeps
<1>. QED BY <1>1, <1>2

(* The command answers.                                                    *)
LEMMA AnswerKeeps ==
    ASSUME DockerInv, Answer
    PROVE  DockerInv'
<1>. USE DEF DockerInv
<1>1. /\ UNCHANGED <<status, attrs, upAt, op, result>> /\ sock = "running" /\ op.at = "recv"
      /\ op.cont \in Conts /\ result.how = "none"
  BY DEF Answer, WriteInv, DockerTypeOK
<1>2. /\ disk' \in [Conts -> BOOLEAN] /\ sock' # "running"
      /\ sock' = "true" /\ op.do = "write" => disk'[op.cont]
  <2>1. CASE sock' # "true"
    BY <1>1, <2>1 DEF Answer, DockerTypeOK
  <2>2. CASE sock' = "true"
    <3>1. disk' = [disk EXCEPT ![op.cont] = IF op.do = "write" THEN TRUE ELSE disk[op.cont]]
      BY <2>2 DEF Answer
    <3>2. (IF op.do = "write" THEN TRUE ELSE disk[op.cont]) \in BOOLEAN
      BY <1>1 DEF DockerTypeOK
    <3>. QED BY <1>1, <2>2, <3>1, <3>2 DEF DockerTypeOK
  <2>. QED BY <2>1, <2>2
<1>3. DockerTypeOK'
  BY <1>1, <1>2 DEF DockerTypeOK
<1>4. SeenInv' /\ WriteInv' /\ DockerWritten'
  BY <1>1, <1>2 DEF SeenInv, is_running, WriteInv, DockerWritten
<1>. QED BY <1>3, <1>4

(* DockerCluster.wait_running()                                            *)
LEMMA ClusterKeeps ==
    ASSUME DockerInv, ClusterCall \/ ClusterWait
    PROVE  DockerInv'
<1>. USE DEF DockerInv
<1>1. CASE ClusterCall
  <2>1. op' = [do |-> "cluster", cont |-> NoOp.cont, at |-> "cwait", polls |-> 0]
    BY <1>1 DEF ClusterCall, NoOp
  <2>2. /\ op'.at = "cwait" /\ op'.polls = 0 /\ op'.do = "cluster"
        /\ op' = [do |-> op'.do, cont |-> op'.cont, at |-> op'.at, polls |-> op'.polls]
    BY <2>1
  <2>3. /\ result'.how = "none" /\ result'.do = "none"
        /\ result' = [do |-> result'.do, cont |-> result'.cont, how |-> result'.how,
                      waited |-> result'.waited]
    BY <1>1 DEF ClusterCall, NoResult
  <2>4. op.at = "idle" /\ upAt' = [d \in Conts |-> 0] /\ UNCHANGED <<status, attrs, sock, disk>>
    BY <1>1 DEF ClusterCall
  <2>5. DockerTypeOK'
    BY <2>2, <2>3, <2>4 DEF DockerTypeOK
  <2>6. SeenInv' /\ WriteInv' /\ DockerWritten'
    BY <2>2, <2>3, <2>4 DEF SeenInv, WriteInv, DockerWritten
  <2>. QED BY <2>5, <2>6
<1>2. CASE ClusterWait
  <2>1. op.at = "cwait" /\ UNCHANGED <<status, attrs, upAt, sock, disk>> /\ sock # "running"
        /\ op = [do |-> op.do, cont |-> op.cont, at |-> op.at, polls |-> op.polls]
    BY <1>2 DEF ClusterWait, WriteInv, DockerTypeOK
  <2>2. CASE op' = [op EXCEPT !.polls = @ + 1] /\ UNCHANGED result
    <3>1. op' = [do |-> op.do, cont |-> op.cont, at |-> op.at, polls |-> op.polls + 1]
      BY <2>1, <2>2
    <3>2. /\ op'.at = "cwait" /\ op'.polls = op.polls + 1 /\ op'.do = op.do
          /\ op' = [do |-> op'.do, cont |-> op'.cont, at |-> op'.at, polls |-> op'.polls]
      BY <2>1, <3>1
    <3>3. DockerTypeOK'
      BY <2>1, <2>2, <3>2 DEF DockerTypeOK
    <3>4. SeenInv' /\ WriteInv' /\ DockerWritten'
      BY <2>1, <2>2, <3>2 DEF SeenInv, WriteInv, DockerWritten
    <3>. QED BY <3>3, <3>4
  <2>3. CASE Finish("ok") \/ Finish("timeout")
    <3>1. op.do # "write"
      BY <2>1 DEF WriteInv
    <3>. QED BY <2>1, <2>3, <3>1, FinishKeeps
  <2>. QED BY <1>2, <2>2, <2>3 DEF ClusterWait
<1>. QED BY <1>1, <1>2

(* Containers come up and end at any time.                                 *)
LEMMA UpDownKeeps ==
    ASSUME DockerInv, NEW c \in Conts, Up(c) \/ Down(c)
    PROVE  DockerInv'
<1>. USE DEF DockerInv
<1>1. UNCHANGED <<attrs, op, disk, result>>
  BY DEF Up, Down
<1>2. CASE Up(c)
  <2>1. /\ status' = [status EXCEPT ![c] = "running"] /\ upAt' = [upAt EXCEPT ![c] = op.polls]
        /\ UNCHANGED sock
    BY <1>2 DEF Up
  <2>2. DockerTypeOK'
    BY <1>1, <2>1 DEF DockerTypeOK
  <2>3. SeenInv'
    BY <1>1, <2>1 DEF SeenInv, is_running, DockerTypeOK, NoResult
  <2>4. WriteInv' /\ DockerWritten'
    BY <1>1, <2>1 DEF WriteInv, DockerWritten
  <2>. QED BY <2>2, <2>3, <2>4
<1>3. CASE Down(c)
  <2>1. /\ status' = [status EXCEPT ![c] = "exited"] /\ UNCHANGED upAt
        /\ sock' = IF op.cont = c /\ sock = "running" THEN "closed" ELSE sock
    BY <1>3 DEF Down
  <2>2. DockerTypeOK'
    BY <1>1, <2>1 DEF DockerTypeOK
  <2>3. SeenInv'
    BY <1>1, <2>1 DEF SeenInv, is_running, DockerTypeOK, NoResult
  <2>4. WriteInv' /\ DockerWritten'
    BY <1>1, <2>1 DEF WriteInv, DockerWritten
  <2>. QED BY <2>2, <2>3, <2>4
<1>. QED BY <1>2, <1>3

LEMMA DockerStepInv ==
    ASSUME DockerInv, [DockerNext]_dockerVars
    PROVE  DockerInv'
<1>1. CASE UNCHANGED dockerVars
  BY <1>1 DEF dockerVars, DockerInv, DockerTypeOK, SeenInv, is_running, WriteInv, DockerWritten,
     NoResult
<1>2. CASE DockerNext
  BY <1>2, DockerCallKeeps, WaitRunningKeeps, ExecKeeps, AnswerKeeps, ClusterKeeps, UpDownKeeps
     DEF DockerNext, DockerStep
<1>. QED BY <1>1, <1>2

(* Container.wait_running() gives up only on a container that was not      *)
(* running when it last looked.                                            *)
THEOREM WaitSeesUpAlways == Spec => []WaitSeesUp
<1>1. Init => DockerInv
  BY DockerInitInv DEF Init
<1>2. DockerInv /\ [Next]_vars => DockerInv'
  <2>1. [Next]_vars => [DockerNext]_dockerVars
    BY DEF Next, vars
  <2>. QED BY <2>1, DockerStepInv
<1>3. DockerInv => WaitSeesUp
  BY DEF DockerInv, SeenInv, WaitSeesUp
<1>. QED BY <1>1, <1>2, <1>3, PTL DEF Spec

(* Container.write_file() returns without raising only when the file is in *)
(* the container, although recv() may bring a part of the answer.          *)
THEOREM DockerWrittenAlways == Spec => []DockerWritten
<1>1. Init => DockerInv
  BY DockerInitInv DEF Init
<1>2. DockerInv /\ [Next]_vars => DockerInv'
  <2>1. [Next]_vars => [DockerNext]_dockerVars
    BY DEF Next, vars
  <2>. QED BY <2>1, DockerStepInv
<1>3. DockerInv => DockerWritten
  BY DEF DockerInv
<1>. QED BY <1>1, <1>2, <1>3, PTL DEF Spec

-----------------------------------------------------------------------------
(* The terminal *)

(* The keys are at most two.                                               *)
LEMMA Pairs ==
    \A a, b : /\ Append(<<a>>, b) = <<a, b>> /\ Head(<<a, b>>) = a /\ Tail(<<a, b>>) = <<b>>
              /\ Tail(<<a>>) = <<>> /\ Head(<<a>>) = a
<1>. TAKE a, b
<1>1. <<a>> \in Seq({a, b}) /\ <<a, b>> \in Seq({a, b}) /\ <<b>> \in Seq({a, b})
  OBVIOUS
<1>2. /\ Append(<<a>>, b) \in Seq({a, b}) /\ Len(Append(<<a>>, b)) = 2
      /\ Append(<<a>>, b)[1] = a /\ Append(<<a>>, b)[2] = b
  BY <1>1
<1>3. Append(<<a>>, b) = <<a, b>>
  <2>1. DOMAIN Append(<<a>>, b) = 1..2 /\ DOMAIN <<a, b>> = 1..2
    BY <1>1, <1>2
  <2>2. \A i \in 1..2 : Append(<<a>>, b)[i] = <<a, b>>[i]
    <3>. SUFFICES ASSUME NEW i \in 1..2 PROVE Append(<<a>>, b)[i] = <<a, b>>[i]
      OBVIOUS
    <3>1. i = 1 \/ i = 2
      OBVIOUS
    <3>. QED BY <1>2, <3>1
  <2>3. Len(<<a, b>>) = 2
    OBVIOUS
  <2>. QED BY <1>1, <1>2, <2>2, <2>3, SeqEqual
<1>4. Tail(<<a, b>>) = <<b>>
  OBVIOUS
<1>. QED BY <1>3, <1>4

LEMMA TtyInitInv ==
    ASSUME TtyInit
    PROVE  TtyInv
BY RangeOfEmpty DEF TtyInit, TtyInv, OwnAnswer, NoAnswer, TurnInv, Unread

(* A step that answers nothing, on a terminal where nobody gave up.        *)
LEMMA TurnKeeps ==
    ASSUME TtyInv, UNCHANGED answer, gaveUp' = gaveUp \/ gaveUp', ~gaveUp /\ ~gaveUp' => TurnInv'
    PROVE  TtyInv'
<1>1. CASE gaveUp'
  BY <1>1 DEF TtyInv, OwnAnswer
<1>2. CASE ~gaveUp'
  <2>1. ~gaveUp
    BY <1>2
  <2>. QED BY <1>2, <2>1 DEF TtyInv, OwnAnswer
<1>. QED BY <1>1, <1>2

(* icmd() types the command, flushes the echo and presses ENTER.           *)
LEMMA TypeKeeps ==
    ASSUME TtyInv, Type \/ Flush \/ Enter
    PROVE  TtyInv'
<1>1. UNCHANGED <<sio, answer, gaveUp>>
  BY DEF Type, Flush, Enter
<1>. SUFFICES ASSUME ~gaveUp PROVE TurnInv'
  BY <1>1, TurnKeeps
<1>. USE RangeOfEmpty
<1>2. TurnInv
  BY DEF TtyInv
<1>3. CASE Type
  <2>1. at = "idle" /\ keys = <<>> /\ screen = <<>> /\ sio = <<>>
    BY <1>2, <1>3 DEF Type, TurnInv
  <2>2. /\ at' = "flush" /\ screen' = <<>> /\ sio' = <<>>
        /\ keys' = <<[n |-> typed', key |-> "cmd"]>>
    BY <1>1, <1>3, <2>1 DEF Type
  <2>. QED BY <2>2 DEF TurnInv, Unread, Key
<1>4. CASE Flush
  <2>1. sio = <<>> /\ UNCHANGED <<keys, typed>> /\ screen' = <<>> /\ at' \in {"enter", "flush"}
        /\ keys \in {<<>>, <<Key("cmd")>>}
    BY <1>2, <1>4 DEF Flush, TurnInv
  <2>. QED BY <1>1, <2>1 DEF TurnInv, Unread, Key
<1>5. CASE Enter
  <2>1. /\ UNCHANGED <<screen, typed>> /\ at' = "read" /\ keys \in {<<>>, <<Key("cmd")>>}
        /\ keys' = Append(keys, [n |-> typed, key |-> "enter"])
        /\ \A x \in Unread : x.is = "echo"
    BY <1>2, <1>5 DEF Enter, TurnInv
  <2>2. keys' \in {<<Key("enter")>>, <<Key("cmd"), Key("enter")>>}
    <3>1. keys' = Append(keys, Key("enter"))
      BY <2>1 DEF Key
    <3>2. CASE keys = <<>>
      BY <3>1, <3>2
    <3>3. CASE keys = <<Key("cmd")>>
      BY <3>1, <3>3, Pairs
    <3>. QED BY <2>1, <3>2, <3>3
  <2>3. keys' # <<Key("prompt")>> /\ keys' # <<>>
    <3>1. Key("enter").key = "enter" /\ Key("cmd").key = "cmd" /\ Key("prompt").key = "prompt"
      BY DEF Key
    <3>2. <<Key("enter")>> # <<Key("prompt")>> /\ <<Key("cmd"), Key("enter")>> # <<Key("prompt")>>
      BY <3>1
    <3>. QED BY <2>2, <3>2
  <2>4. Unread' = Unread
    BY <1>1, <2>1 DEF Unread
  <2>5. Key("enter")' = Key("enter") /\ Key("cmd")' = Key("cmd") /\ Key("prompt")' = Key("prompt")
    BY <2>1 DEF Key
  <2>6. \A x \in Unread' : x.of = typed' /\ x.is # "prompt"
    BY <1>2, <2>1, <2>4 DEF TurnInv
  <2>7. sio' \in Seq(Range(sio')) /\ screen' \in Seq(Range(screen'))
    BY <1>1, <1>2, <2>1 DEF TurnInv
  <2>. QED BY <2>1, <2>2, <2>3, <2>5, <2>6, <2>7 DEF TurnInv
<1>. QED BY <1>3, <1>4, <1>5

(* icmd() reads.                                                           *)
LEMMA ReadTtyKeeps ==
    ASSUME TtyInv, ReadTty
    PROVE  TtyInv'
<1>. DEFINE all == sio \o screen
<1>. USE RangeOfEmpty
<1>0. UNCHANGED <<alive, keys, typed>> /\ at = "read" /\ screen' = <<>>
  BY DEF ReadTty
<1>1. CASE gaveUp'
  BY <1>1 DEF TtyInv, OwnAnswer
<1>2. CASE ~gaveUp'
  <2>1. ~gaveUp /\ TurnInv
    BY <1>2 DEF ReadTty, TtyInv
  <2>2. all \in Seq(Range(all)) /\ Range(all) = Unread
    BY <2>1, RangeOfConcat DEF TurnInv, Unread
  <2>3. CASE all # <<>> /\ Last(all).is = "prompt"
    <3>1. /\ answer' = [of |-> typed, how |-> "ok", text |-> Front(all)]
          /\ at' = "idle" /\ sio' = <<>>
      BY <2>3 DEF ReadTty
    <3>. HIDE DEF all
    <3>2. /\ Last(all) \in Range(all) /\ Range(Front(all)) \subseteq Range(all)
          /\ Range(all) \subseteq Range(Front(all)) \cup {Last(all)}
      BY <2>2, <2>3, RangeOfFront
    <3>3. Shown(typed, "text") \in Unread /\ keys = <<>>
      BY <2>1, <2>2, <2>3, <3>2 DEF TurnInv, Printed
    <3>4. Shown(typed, "text") # Last(all)
      BY <2>3 DEF Shown
    <3>5. Shown(typed, "text") \in Range(Front(all)) /\ \A x \in Range(Front(all)) : x.of = typed
      BY <2>1, <2>2, <3>2, <3>3, <3>4 DEF TurnInv
    <3>6. answer'.of = typed /\ answer'.text = Front(all)
      BY <3>1
    <3>7. OwnAnswer'
      BY <3>5, <3>6 DEF OwnAnswer, Range
    <3>8. TurnInv'
      BY <1>0, <3>1, <3>3 DEF TurnInv, Unread
    <3>. QED BY <3>7, <3>8 DEF TtyInv
  <2>4. CASE ~(all # <<>> /\ Last(all).is = "prompt")
    <3>1. sio' = all /\ UNCHANGED <<at, answer, gaveUp>>
      BY <1>2, <2>4 DEF ReadTty
    <3>. HIDE DEF all
    <3>2. Unread' = Unread /\ sio' \in Seq(Range(sio')) /\ screen' \in Seq(Range(screen'))
      BY <1>0, <2>2, <3>1 DEF Unread
    <3>3. TurnInv'
      BY <1>0, <2>1, <3>1, <3>2 DEF TurnInv, Printed, Key
    <3>. QED BY <3>1, <3>3, TurnKeeps
  <2>. QED BY <2>3, <2>4
<1>. QED BY <1>1, <1>2

(* The program takes a key and prints.                                     *)
LEMMA ProgramKeeps ==
    ASSUME TtyInv, Program
    PROVE  TtyInv'
<1>0. UNCHANGED <<at, typed, sio, answer, gaveUp>> /\ keys # <<>>
  BY DEF Program
<1>. SUFFICES ASSUME ~gaveUp PROVE TurnInv'
  BY <1>0, TurnKeeps
<1>1. TurnInv
  BY DEF TtyInv
<1>2. \A k : Key(k)' = Key(k) /\ Key(k).key = k /\ Key(k).n = typed
  BY <1>0 DEF Key
<1>3. ASSUME NEW x, screen' = Append(screen, x)
      PROVE  /\ Unread' = Unread \cup {x}
             /\ sio' \in Seq(Range(sio')) /\ screen' \in Seq(Range(screen'))
  BY <1>0, <1>1, <1>3, RangeOfAppend DEF TurnInv, Unread
<1>4. \A x \in Unread : x.of = typed /\ x.is # "prompt"
  BY <1>0, <1>1 DEF TurnInv
<1>p. \/ /\ Head(keys).key = "cmd"
         /\ screen' = Append(screen, Shown(Head(keys).n, "echo"))
         /\ keys' = Tail(keys)
      \/ /\ Head(keys).key = "enter"
         /\ screen' = Append(screen, Shown(Head(keys).n, "text"))
         /\ keys' = <<[Head(keys) EXCEPT !.key = "prompt"]>> \o Tail(keys)
      \/ /\ Head(keys).key = "prompt"
         /\ screen' = Append(screen, Shown(Head(keys).n, "prompt"))
         /\ keys' = Tail(keys)
  BY Zenon DEF Program
<1>5. CASE keys = <<Key("cmd")>> \/ keys = <<Key("cmd"), Key("enter")>>
  <2>1. Head(keys) = Key("cmd") /\ Tail(keys) \in {<<>>, <<Key("enter")>>}
    BY <1>5, Pairs
  <2>2. screen' = Append(screen, Shown(typed, "echo")) /\ keys' = Tail(keys)
    <3>1. Head(keys).key = "cmd" /\ Head(keys).n = typed
      BY <1>2, <2>1
    <3>. QED BY <1>p, <2>1, <3>1
  <2>3. Tail(keys) = <<Key("enter")>> => at = "read"
    <3>1. keys # <<Key("cmd")>> => at = "read"
      BY <1>0, <1>1 DEF TurnInv
    <3>2. keys = <<Key("cmd")>> => Tail(keys) = <<>>
      OBVIOUS
    <3>. QED BY <3>1, <3>2
  <2>4. Shown(typed, "echo").of = typed /\ Shown(typed, "echo").is = "echo"
    BY DEF Shown
  <2>5. <<Key("enter")>> # <<Key("prompt")>> /\ <<Key("enter")>> # <<>>
    BY <1>2
  <2>6. at \notin {"idle", "closed"}
    BY <1>0, <1>1 DEF TurnInv
  <2>7. at # "read" => sio' = <<>> /\ \A x \in Unread' : x.is = "echo"
    BY <1>0, <1>1, <1>3, <2>2, <2>4 DEF TurnInv
  <2>8. \A x \in Unread' : x.of = typed' /\ x.is # "prompt"
    BY <1>0, <1>3, <1>4, <2>2, <2>4
  <2>9. sio' \in Seq(Range(sio')) /\ screen' \in Seq(Range(screen'))
    BY <1>3, <2>2
  <2>10. keys' \in {<<>>, <<Key("enter")'>>} /\ keys' # <<Key("prompt")'>>
         /\ (keys' # <<>> => at = "read")
    BY <1>2, <2>1, <2>2, <2>3, <2>5
  <2>. QED BY <1>0, <2>6, <2>7, <2>8, <2>9, <2>10 DEF TurnInv
<1>6. CASE keys = <<Key("enter")>>
  <2>1. Head(keys) = Key("enter") /\ Tail(keys) = <<>> /\ at = "read"
    <3>1. <<Key("enter")>> # <<Key("cmd")>>
      BY <1>2
    <3>. QED BY <1>0, <1>1, <1>6, <3>1 DEF TurnInv
  <2>2. [Key("enter") EXCEPT !.key = "prompt"] = Key("prompt")
    BY DEF Key
  <2>3. /\ screen' = Append(screen, Shown(typed, "text"))
        /\ keys' = <<Key("prompt")>> \o <<>>
    <3>1. Head(keys).key = "enter" /\ Head(keys).n = typed
      BY <1>2, <2>1
    <3>. QED BY <1>p, <2>1, <3>1, <2>2
  <2>4. keys' = <<Key("prompt")'>>
    BY <1>2, <2>3
  <2>5. Shown(typed, "text").of = typed /\ Shown(typed, "text").is = "text"
    BY DEF Shown
  <2>6. Printed("text")'
    BY <1>0, <1>3, <2>3 DEF Printed
  <2>7. \A x \in Unread' : x.of = typed' /\ x.is # "prompt"
    BY <1>0, <1>3, <1>4, <2>3, <2>5
  <2>8. sio' \in Seq(Range(sio')) /\ screen' \in Seq(Range(screen'))
    BY <1>3, <2>3
  <2>. QED BY <1>0, <2>1, <2>4, <2>6, <2>7, <2>8 DEF TurnInv
<1>7. CASE keys = <<Key("prompt")>>
  <2>1. Head(keys) = Key("prompt") /\ Tail(keys) = <<>> /\ at = "read"
    <3>1. <<Key("prompt")>> # <<Key("cmd")>>
      BY <1>2
    <3>. QED BY <1>0, <1>1, <1>7, <3>1 DEF TurnInv
  <2>2. screen' = Append(screen, Shown(typed, "prompt")) /\ keys' = <<>>
    <3>1. Head(keys).key = "prompt" /\ Head(keys).n = typed
      BY <1>2, <2>1
    <3>. QED BY <1>p, <2>1, <3>1
  <2>3. Printed("text")'
    BY <1>0, <1>1, <1>3, <1>7, <2>2 DEF Printed, TurnInv
  <2>4. Shown(typed, "prompt").of = typed
    BY DEF Shown
  <2>5. \A x \in Unread' : x.of = typed'
    BY <1>0, <1>3, <1>4, <2>2, <2>4
  <2>6. sio' \in Seq(Range(sio')) /\ screen' \in Seq(Range(screen'))
    BY <1>3, <2>2
  <2>. QED BY <1>0, <2>1, <2>2, <2>3, <2>5, <2>6 DEF TurnInv
<1>. QED BY <1>0, <1>1, <1>5, <1>6, <1>7 DEF TurnInv

(* The program ends, or the script ends it; the read of its terminal       *)
(* raises.                                                                 *)
LEMMA TtyEndKeeps ==
    ASSUME TtyInv, ReadRaised \/ Term \/ Die
    PROVE  TtyInv'
<1>. USE RangeOfEmpty
<1>1. CASE ReadRaised
  BY <1>1 DEF ReadRaised, TtyInv, OwnAnswer
<1>2. CASE Term
  <2>1. UNCHANGED <<sio, answer, gaveUp>> /\ keys' = <<>> /\ screen' = <<>> /\ at = "idle"
    BY <1>2 DEF Term
  <2>2. ~gaveUp => TurnInv'
    <3>. SUFFICES ASSUME ~gaveUp PROVE TurnInv'
      OBVIOUS
    <3>1. sio' = <<>>
      BY <2>1 DEF TtyInv, TurnInv
    <3>. QED BY <2>1, <3>1 DEF TurnInv, Unread
  <2>. QED BY <2>1, <2>2, TurnKeeps
<1>3. CASE Die
  <2>1. UNCHANGED <<screen, at, typed, sio, answer, gaveUp>> /\ keys' = <<>>
    BY <1>3 DEF Die
  <2>2. ~gaveUp => TurnInv'
    <3>. SUFFICES ASSUME ~gaveUp PROVE TurnInv'
      OBVIOUS
    <3>1. TurnInv
      BY DEF TtyInv
    <3>2. Unread' = Unread /\ Printed("text")' = Printed("text")
      BY <2>1 DEF Unread, Printed
    <3>3. sio' \in Seq(Range(sio')) /\ screen' \in Seq(Range(screen'))
      BY <2>1, <3>1 DEF TurnInv
    <3>. QED BY <2>1, <3>1, <3>2, <3>3 DEF TurnInv
  <2>. QED BY <2>1, <2>2, TurnKeeps
<1>. QED BY <1>1, <1>2, <1>3

LEMMA TtyStepInv ==
    ASSUME TtyInv, [TtyNext]_ttyVars
    PROVE  TtyInv'
<1>1. CASE UNCHANGED ttyVars
  BY <1>1 DEF ttyVars, TtyInv, OwnAnswer, TurnInv, Unread, Printed, Key
<1>2. CASE TtyNext
  BY <1>2, TypeKeeps, ReadTtyKeeps, TtyEndKeeps, ProgramKeeps DEF TtyNext, TtyStep
<1>. QED BY <1>1, <1>2

-----------------------------------------------------------------------------
(* The shells of a Singularity instance *)

TrueReply(t, r) ==
  r.how = "ok" =>
    /\ r.end = r.of
    /\ r.said => \E x \in r.text : x.of = r.of
    /\ \A x \in r.text : x.of.t = t /\ (x.of = r.of \/ x.is = "stray")

(* The step leaves thread s and its shell alone.                           *)
Same(s) ==
  /\ sh'[s] = sh[s] /\ input'[s] = input[s] /\ out'[s] = out[s] /\ child'[s] = child[s]
  /\ texted'[s] = texted[s] /\ pc'[s] = pc[s] /\ cmd'[s] = cmd[s] /\ buf'[s] = buf[s]
  /\ reply'[s] = reply[s]

LEMMA ShellInitInv ==
    ASSUME ShellInit
    PROVE  ShellInv
<1>1. ShellDomains
  BY DEF ShellInit, ShellDomains
<1>2. OwnReply
  BY DEF ShellInit, OwnReply, NoReply
<1>3. ASSUME NEW t \in Threads PROVE ThreadInv(t)
  <2>1. /\ sh[t] = "none" /\ input[t] = <<>> /\ out[t] = <<>> /\ child[t] = NoCmd
        /\ texted[t] = FALSE /\ pc[t] = "idle" /\ buf[t] = <<>>
    BY DEF ShellInit
  <2>2. cmd[t].t = t
    BY DEF ShellInit, NoCmd
  <2>. QED BY <2>1, <2>2, RangeOfEmpty DEF ThreadInv
<1>. QED BY <1>1, <1>2, <1>3 DEF ShellInv

LEMMA SameKeeps ==
    ASSUME ShellInv, NEW s \in Threads, Same(s)
    PROVE  ThreadInv(s)' /\ TrueReply(s, reply'[s])
<1>1. ThreadInv(s) /\ TrueReply(s, reply[s])
  BY DEF ShellInv, OwnReply, TrueReply
<1>2. Pending(s)' = Pending(s) /\ TextOf(s)' = TextOf(s)
  BY DEF Same, Pending, TextOf
<1>3. pc'[s] = "wait" => WaitInv(s)'
  <2>. SUFFICES ASSUME pc'[s] = "wait" PROVE WaitInv(s)'
    OBVIOUS
  <2>1. WaitInv(s)
    BY <1>1 DEF ThreadInv, Same
  <2>2. ASSUME NEW x \in Pending(s)' PROVE Mine(s, x)'
    <3>1. Mine(s, x)
      BY <1>2, <2>1, <2>2 DEF WaitInv
    <3>. QED BY <1>2, <3>1 DEF Mine, Same, StrayOf
  <2>. QED BY <1>2, <2>1, <2>2 DEF WaitInv, Same
<1>4. ThreadInv(s)'
  BY <1>1, <1>3 DEF ThreadInv, Same, StrayOf, NoCmd
<1>. QED BY <1>1, <1>4 DEF Same

(* A step of one thread or of its shell.                                   *)
LEMMA OneThread ==
    ASSUME ShellInv, NEW t \in Threads, ShellDomains', \A s \in Threads : s # t => Same(s),
           ThreadInv(t)', TrueReply(t, reply'[t])
    PROVE  ShellInv'
<1>1. \A s \in Threads : ThreadInv(s)' /\ TrueReply(s, reply'[s])
  BY SameKeeps
<1>2. OwnReply'
  BY <1>1 DEF OwnReply, TrueReply
<1>. QED BY <1>1, <1>2 DEF ShellInv

(* What t may read stays that while more comes.                            *)
LEMMA MineGrows ==
    ASSUME NEW t \in Threads, NEW x, cmd'[t] = cmd[t], Pending(t) \subseteq Pending(t)', Mine(t, x)
    PROVE  Mine(t, x)'
BY DEF Mine, StrayOf, TextOf

(* A thread begins a call.                                                 *)
LEMMA BeginKeeps ==
    ASSUME ShellInv, NEW t \in Threads, NEW n, NEW kind, NEW data, pc[t] = "idle",
           Begin(t, n, kind, data)
    PROVE  ShellInv'
<1>1. ShellDomains /\ ThreadInv(t) /\ TrueReply(t, reply[t])
  BY DEF ShellInv, OwnReply, TrueReply
<1>2. UNCHANGED <<sh, input, out, child, texted, buf, reply>>
  BY DEF Begin, bashVars
<1>3. /\ cmd' = [cmd EXCEPT ![t] = [t |-> t, n |-> n, kind |-> kind, data |-> data]]
      /\ pc' = [pc EXCEPT ![t] = IF sh[t] \in {"up", "dead"} THEN "send" ELSE "shell"]
  BY DEF Begin, shellOf
<1>4. ShellDomains' /\ \A s \in Threads : s # t => Same(s)
  BY <1>1, <1>2, <1>3 DEF ShellDomains, Same
<1>5. cmd'[t].t = t
  BY <1>1, <1>3 DEF ShellDomains
<1>6. /\ pc'[t] \in {"send", "shell"} /\ (pc'[t] = "send" <=> sh[t] \in {"up", "dead"})
  BY <1>1, <1>3 DEF ShellDomains
<1>7. ThreadInv(t)'
  BY <1>1, <1>2, <1>5, <1>6 DEF ThreadInv, StrayOf, NoCmd
<1>. QED BY <1>1, <1>2, <1>4, <1>7, OneThread

(* SContainer.shell starts a shell.                                        *)
LEMMA PopenKeeps ==
    ASSUME ShellInv, NEW t \in Threads, Popen(t)
    PROVE  ShellInv'
<1>1. ShellDomains /\ ThreadInv(t) /\ TrueReply(t, reply[t])
  BY DEF ShellInv, OwnReply, TrueReply
<1>2. UNCHANGED <<input, out, child, texted, pc, cmd, buf, reply>> /\ pc[t] = "shell"
  BY DEF Popen
<1>3. sh' = [sh EXCEPT ![t] = IF inst = "up" THEN "starting" ELSE "failed"]
  BY DEF Popen, shellOf
<1>4. ShellDomains' /\ \A s \in Threads : s # t => Same(s)
  BY <1>1, <1>2, <1>3 DEF ShellDomains, Same
<1>5. sh'[t] \in {"starting", "failed"}
  BY <1>1, <1>3 DEF ShellDomains
<1>6. ThreadInv(t)'
  BY <1>1, <1>2, <1>5 DEF ThreadInv, StrayOf, NoCmd
<1>. QED BY <1>1, <1>2, <1>4, <1>6, OneThread

(* What a call returns that reads no output of a command.                  *)
LEMMA ShortReplies ==
    ASSUME NEW t \in Threads, NEW h
    PROVE  /\ TrueReply(t, [NoReply EXCEPT !.of = cmd[t], !.how = "ok", !.end = cmd[t]])
           /\ h # "ok" => TrueReply(t, [NoReply EXCEPT !.of = cmd[t], !.how = h])
<1>. DEFINE ok == [NoReply EXCEPT !.of = cmd[t], !.how = "ok", !.end = cmd[t]]
            no == [NoReply EXCEPT !.of = cmd[t], !.how = h]
<1>1. /\ ok.of = cmd[t] /\ ok.end = cmd[t] /\ ok.text = {} /\ ok.said = FALSE
      /\ no.how = h
  BY DEF NoReply
<1>. HIDE DEF ok, no
<1>2. TrueReply(t, ok) /\ (h # "ok" => TrueReply(t, no))
  BY <1>1 DEF TrueReply
<1>. QED BY <1>2 DEF ok, no

(* SContainer.shell reads the greeting.                                    *)
LEMMA GreetingKeeps ==
    ASSUME ShellInv, NEW t \in Threads, Greeting(t)
    PROVE  ShellInv'
<1>1. ShellDomains /\ ThreadInv(t) /\ TrueReply(t, reply[t])
  BY DEF ShellInv, OwnReply, TrueReply
<1>2. UNCHANGED <<input, child, texted, cmd, buf>> /\ pc[t] = "shell"
      /\ out' = [out EXCEPT ![t] = <<>>]
  BY DEF Greeting, shellOf
<1>3. out'[t] = <<>> /\ input[t] = <<>>
  BY <1>1, <1>2 DEF ShellDomains, ThreadInv
<1>. DEFINE ok == [NoReply EXCEPT !.of = cmd[t], !.how = "ok", !.end = cmd[t]]
            no == [NoReply EXCEPT !.of = cmd[t], !.how = "no"]
<1>4. CASE out[t] = <<Ready>>
  <2>1. sh' = [sh EXCEPT ![t] = IF sh[t] = "greeted" THEN "up" ELSE "dead"]
    BY <1>4 DEF Greeting, shellOf
  <2>2. \/ reply' = [reply EXCEPT ![t] = ok] /\ pc' = [pc EXCEPT ![t] = "idle"]
        \/ reply' = reply /\ pc' = [pc EXCEPT ![t] = "send"]
    BY <1>4 DEF Greeting, shellOf, Return
  <2>. HIDE DEF ok
  <2>3. ShellDomains' /\ \A s \in Threads : s # t => Same(s)
    BY <1>1, <1>2, <2>1, <2>2 DEF ShellDomains, Same
  <2>4. /\ sh'[t] \in {"up", "dead"} /\ (sh'[t] = "up" => sh[t] = "greeted")
        /\ pc'[t] \in {"idle", "send"} /\ reply'[t] \in {ok, reply[t]}
    BY <1>1, <2>1, <2>2 DEF ShellDomains
  <2>5. ThreadInv(t)'
    BY <1>1, <1>2, <1>3, <2>4, RangeOfEmpty DEF ThreadInv, NoCmd
  <2>6. TrueReply(t, reply'[t])
    BY <1>1, <2>4, ShortReplies DEF ok
  <2>. QED BY <2>3, <2>5, <2>6, OneThread
<1>5. CASE out[t] # <<Ready>> /\ sh[t] \in {"failed", "dead"}
  <2>1. sh' = [sh EXCEPT ![t] = "none"]
    BY <1>5 DEF Greeting, shellOf
  <2>2. /\ pc' = [pc EXCEPT ![t] = "idle"]
        /\ reply' = [reply EXCEPT ![t] = IF cmd[t].kind = "is_running" THEN no ELSE Raised(t)]
    BY <1>5 DEF Greeting, shellOf, Return
  <2>. HIDE DEF no
  <2>3. ShellDomains' /\ \A s \in Threads : s # t => Same(s)
    BY <1>1, <1>2, <2>1, <2>2 DEF ShellDomains, Same
  <2>4. sh'[t] = "none" /\ pc'[t] = "idle" /\ reply'[t] \in {no, Raised(t)}
    BY <1>1, <2>1, <2>2 DEF ShellDomains
  <2>5. ThreadInv(t)'
    BY <1>1, <1>2, <1>3, <2>4, RangeOfEmpty DEF ThreadInv, NoCmd
  <2>6. TrueReply(t, no) /\ TrueReply(t, Raised(t))
    BY ShortReplies DEF no, Raised
  <2>. QED BY <2>3, <2>4, <2>5, <2>6, OneThread
<1>6. CASE out[t] # <<Ready>> /\ sh[t] \notin {"failed", "dead"}
  <2>1. UNCHANGED <<sh, pc, reply>>
    BY <1>6 DEF Greeting, shellOf
  <2>2. ShellDomains' /\ \A s \in Threads : s # t => Same(s)
    BY <1>1, <1>2, <2>1 DEF ShellDomains, Same
  <2>3. ThreadInv(t)'
    BY <1>1, <1>2, <1>3, <2>1, RangeOfEmpty DEF ThreadInv, NoCmd
  <2>. QED BY <1>1, <2>1, <2>2, <2>3, OneThread
<1>. QED BY <1>4, <1>5, <1>6

(* _exec_run writes the line.                                              *)
LEMMA SendKeeps ==
    ASSUME ShellInv, NEW t \in Threads, Send(t)
    PROVE  ShellInv'
<1>1. ShellDomains /\ ThreadInv(t) /\ TrueReply(t, reply[t])
  BY DEF ShellInv, OwnReply, TrueReply
<1>2. UNCHANGED <<sh, out, child, texted, cmd>> /\ pc[t] = "send"
  BY DEF Send
<1>3. /\ input[t] = <<>> /\ sh[t] \in {"up", "dead"}
      /\ \A x \in Range(out[t]) : StrayOf(t, x)
  BY <1>1, <1>2 DEF ThreadInv
<1>4. CASE sh[t] = "dead"
  <2>1. /\ UNCHANGED <<input, buf>>
        /\ reply' = [reply EXCEPT ![t] = Raised(t)] /\ pc' = [pc EXCEPT ![t] = "idle"]
    BY <1>4 DEF Send, shellOf, Return
  <2>2. ShellDomains' /\ \A s \in Threads : s # t => Same(s)
    BY <1>1, <1>2, <2>1 DEF ShellDomains, Same
  <2>3. reply'[t] = Raised(t) /\ pc'[t] = "idle"
    BY <1>1, <2>1 DEF ShellDomains
  <2>4. ThreadInv(t)'
    BY <1>1, <1>2, <1>3, <1>4, <2>1, <2>3 DEF ThreadInv, NoCmd, StrayOf
  <2>5. TrueReply(t, Raised(t))
    BY ShortReplies DEF Raised
  <2>. QED BY <2>2, <2>3, <2>4, <2>5, OneThread
<1>5. CASE sh[t] = "up"
  <2>1. /\ input' = [input EXCEPT ![t] = Append(input[t], cmd[t])]
        /\ buf' = [buf EXCEPT ![t] = <<>>] /\ pc' = [pc EXCEPT ![t] = "wait"]
        /\ reply' = reply
    BY <1>5 DEF Send, shellOf
  <2>2. ShellDomains' /\ \A s \in Threads : s # t => Same(s)
    BY <1>1, <1>2, <2>1 DEF ShellDomains, Same
  <2>3. input'[t] = <<cmd[t]>> /\ buf'[t] = <<>> /\ pc'[t] = "wait" /\ ~texted'[t]
    <3>1. ~texted[t]
      BY <1>1, <1>3, <1>5 DEF ThreadInv
    <3>. QED BY <1>1, <1>2, <1>3, <2>1, <3>1 DEF ShellDomains
  <2>4. Pending(t)' = Range(out[t])
    BY <1>2, <2>3, RangeOfEmpty DEF Pending
  <2>5. \A x \in Pending(t)' : x.is = "stray" /\ Mine(t, x)'
    BY <1>3, <2>4 DEF Mine, StrayOf
  <2>6. WaitInv(t)'
    BY <1>2, <2>3, <2>5 DEF WaitInv
  <2>7. <<cmd[t]>> # <<>>
    OBVIOUS
  <2>8. ThreadInv(t)'
    BY <1>1, <1>2, <1>5, <2>3, <2>6, <2>7, RangeOfEmpty DEF ThreadInv, NoCmd
  <2>. QED BY <1>1, <2>1, <2>2, <2>8, OneThread
<1>. QED BY <1>3, <1>4, <1>5

(* _exec_run reads, and returns when the end marker is the last it read.   *)
LEMMA ReadKeeps ==
    ASSUME ShellInv, NEW t \in Threads, Read(t)
    PROVE  ShellInv'
<1>. DEFINE all == buf[t] \o out[t]
<1>1. ShellDomains /\ ThreadInv(t) /\ TrueReply(t, reply[t])
  BY DEF ShellInv, OwnReply, TrueReply
<1>2. UNCHANGED <<sh, input, child, texted, cmd>> /\ pc[t] = "wait" /\ out[t] # <<>>
      /\ out' = [out EXCEPT ![t] = <<>>]
  BY DEF Read, shellOf
<1>3. WaitInv(t)
  BY <1>1, <1>2 DEF ThreadInv
<1>4. all \in Seq(Range(all)) /\ Range(all) = Pending(t) /\ all # <<>>
  BY <1>1, <1>2, RangeOfConcat DEF ThreadInv, Pending
<1>5. out'[t] = <<>>
  BY <1>1, <1>2 DEF ShellDomains
<1>6. CASE Last(all).is = "end"
  <2>1. /\ buf' = [buf EXCEPT ![t] = <<>>] /\ pc' = [pc EXCEPT ![t] = "idle"]
        /\ reply' = [reply EXCEPT ![t] =
             [of |-> cmd[t], how |-> "ok", end |-> Last(all).of, rc |-> Last(all).rc,
              text |-> Range(Front(all)), said |-> Last(all).said]]
    BY <1>6 DEF Read, shellOf, Return
  <2>. HIDE DEF all
  <2>2. ShellDomains' /\ \A s \in Threads : s # t => Same(s)
    BY <1>1, <1>2, <2>1 DEF ShellDomains, Same
  <2>3. buf'[t] = <<>> /\ pc'[t] = "idle"
    BY <1>1, <2>1 DEF ShellDomains
  <2>4. /\ reply'[t].of = cmd[t] /\ reply'[t].end = Last(all).of
        /\ reply'[t].text = Range(Front(all)) /\ reply'[t].said = Last(all).said
    BY <1>1, <2>1 DEF ShellDomains
  <2>5. /\ Last(all) \in Range(all) /\ Range(Front(all)) \subseteq Range(all)
        /\ Range(all) \subseteq Range(Front(all)) \cup {Last(all)}
    BY <1>4, RangeOfFront
  <2>6. /\ Last(all).of = cmd[t]
        /\ Last(all).said => TextOf(t) \in Pending(t)
    <3>1. Mine(t, Last(all))
      BY <1>3, <1>4, <2>5 DEF WaitInv
    <3>2. TextOf(t).is = "text"
      BY DEF TextOf, Token
    <3>. QED BY <1>6, <3>1, <3>2 DEF Mine, StrayOf
  <2>7. input[t] = <<>>
    BY <1>3, <1>4, <1>6, <2>5 DEF WaitInv
  <2>8. ThreadInv(t)'
    BY <1>1, <1>2, <1>5, <2>3, <2>7, RangeOfEmpty DEF ThreadInv, NoCmd
  <2>9. TrueReply(t, reply'[t])
    <3>1. TextOf(t).is = "text" /\ TextOf(t).of = cmd[t]
      BY DEF TextOf, Token
    <3>2. Last(all).said => TextOf(t) \in Range(Front(all))
      BY <1>4, <1>6, <2>5, <2>6, <3>1
    <3>3. ASSUME NEW x \in Range(Front(all))
          PROVE  x.of.t = t /\ (x.of = cmd[t] \/ x.is = "stray")
      <4>1. Mine(t, x) /\ cmd[t].t = t
        BY <1>1, <1>3, <1>4, <2>5, <3>3 DEF WaitInv, ThreadInv
      <4>. QED BY <3>1, <4>1 DEF Mine, StrayOf
    <3>. QED BY <2>4, <2>6, <3>1, <3>2, <3>3 DEF TrueReply
  <2>. QED BY <2>2, <2>8, <2>9, OneThread
<1>7. CASE Last(all).is # "end"
  <2>1. buf' = [buf EXCEPT ![t] = all] /\ UNCHANGED <<pc, reply>>
    BY <1>7 DEF Read, shellOf
  <2>. HIDE DEF all
  <2>2. ShellDomains' /\ \A s \in Threads : s # t => Same(s)
    BY <1>1, <1>2, <2>1 DEF ShellDomains, Same
  <2>3. buf'[t] = all
    BY <1>1, <2>1 DEF ShellDomains
  <2>4. Pending(t)' = Pending(t)
    BY <1>4, <1>5, <2>3, RangeOfEmpty DEF Pending
  <2>5. \A x \in Pending(t)' : Mine(t, x)'
    BY <1>2, <1>3, <2>4, MineGrows DEF WaitInv
  <2>6. WaitInv(t)'
    BY <1>2, <1>3, <2>4, <2>5 DEF WaitInv, TextOf
  <2>7. ThreadInv(t)'
    BY <1>1, <1>2, <1>4, <1>5, <2>1, <2>3, <2>6, RangeOfEmpty DEF ThreadInv, NoCmd
  <2>. QED BY <1>1, <2>1, <2>2, <2>7, OneThread
<1>. QED BY <1>6, <1>7

(* A token more in the stream of s.                                        *)
LEMMA EmitGrows ==
    ASSUME ShellInv, NEW s \in Threads, NEW x, Emit(s, x), UNCHANGED <<buf, cmd>>
    PROVE  /\ out'[s] \in Seq(Range(out'[s])) /\ Range(out'[s]) = Range(out[s]) \cup {x}
           /\ Pending(s)' = Pending(s) \cup {x}
           /\ \A y \in Pending(s) : Mine(s, y) => Mine(s, y)'
           /\ DOMAIN out' = Threads /\ \A r \in Threads : r # s => out'[r] = out[r]
<1>1. ShellDomains /\ ThreadInv(s)
  BY DEF ShellInv
<1>2. out'[s] = Append(out[s], x)
  BY <1>1 DEF Emit, ShellDomains
<1>3. out'[s] \in Seq(Range(out'[s])) /\ Range(out'[s]) = Range(out[s]) \cup {x}
  BY <1>1, <1>2, RangeOfAppend DEF ThreadInv
<1>4. Pending(s)' = Pending(s) \cup {x}
  BY <1>3 DEF Pending
<1>5. \A y \in Pending(s) : Mine(s, y) => Mine(s, y)'
  BY <1>4, MineGrows
<1>6. DOMAIN out' = Threads /\ \A r \in Threads : r # s => out'[r] = out[r]
  BY <1>1 DEF Emit, ShellDomains
<1>. QED BY <1>3, <1>4, <1>5, <1>6

(* The login prints, and then obeys.                                       *)
LEMMA LoginKeeps ==
    ASSUME ShellInv, NEW s \in Threads, Login(s)
    PROVE  ShellInv'
<1>1. ShellDomains /\ ThreadInv(s) /\ TrueReply(s, reply[s])
  BY DEF ShellInv, OwnReply, TrueReply
<1>2. UNCHANGED <<input, child, pc, cmd, buf, reply>> /\ sh[s] = "starting"
  BY DEF Login
<1>3. PICK x : Emit(s, x)
  BY DEF Login
<1>4. /\ DOMAIN out' = Threads /\ \A r \in Threads : r # s => out'[r] = out[r]
      /\ out'[s] \in Seq(Range(out'[s]))
  BY <1>2, <1>3, EmitGrows
<1>5. \/ texted' = [texted EXCEPT ![s] = TRUE] /\ sh' = sh
      \/ texted' = [texted EXCEPT ![s] = FALSE] /\ sh' = [sh EXCEPT ![s] = "greeted"]
  BY DEF Login
<1>6. ShellDomains' /\ \A r \in Threads : r # s => Same(r)
  BY <1>1, <1>2, <1>4, <1>5 DEF ShellDomains, Same
<1>7. sh'[s] = "starting" \/ (sh'[s] = "greeted" /\ ~texted'[s])
  BY <1>1, <1>2, <1>5 DEF ShellDomains
<1>8. ThreadInv(s)'
  BY <1>1, <1>2, <1>4, <1>7 DEF ThreadInv, NoCmd
<1>. QED BY <1>1, <1>2, <1>6, <1>8, OneThread

(* Bash has a line only while its thread waits, and it is the thread's     *)
(* current command.                                                        *)
LEMMA Busy ==
    ASSUME ShellInv, NEW s \in Threads, input[s] # <<>>
    PROVE  /\ pc[s] = "wait" /\ WaitInv(s) /\ input[s] = <<cmd[s]>>
           /\ Head(input[s]) = cmd[s] /\ Tail(input[s]) = <<>>
<1>1. pc[s] = "wait" /\ WaitInv(s)
  BY DEF ShellInv, ThreadInv
<1>2. input[s] = <<cmd[s]>>
  BY <1>1 DEF WaitInv
<1>. QED BY <1>1, <1>2, Pairs

(* The command prints.                                                     *)
LEMMA TextKeeps ==
    ASSUME ShellInv, NEW s \in Threads, Text(s)
    PROVE  ShellInv'
<1>0. PICK x : x = TextOf(s)
  OBVIOUS
<1>1. ShellDomains /\ ThreadInv(s) /\ TrueReply(s, reply[s])
  BY DEF ShellInv, OwnReply, TrueReply
<1>2. UNCHANGED <<sh, input, child, pc, cmd, buf, reply>> /\ sh[s] = "up" /\ input[s] # <<>>
      /\ texted' = [texted EXCEPT ![s] = TRUE]
  BY DEF Text
<1>3. pc[s] = "wait" /\ WaitInv(s) /\ input[s] = <<cmd[s]>> /\ Head(input[s]) = cmd[s]
  BY <1>2, Busy
<1>4. Emit(s, x)
  BY <1>0, <1>3 DEF Text, TextOf
<1>5. /\ DOMAIN out' = Threads /\ \A r \in Threads : r # s => out'[r] = out[r]
      /\ out'[s] \in Seq(Range(out'[s])) /\ Pending(s)' = Pending(s) \cup {x}
      /\ \A y \in Pending(s) : Mine(s, y) => Mine(s, y)'
  BY <1>2, <1>4, EmitGrows
<1>6. ShellDomains' /\ \A r \in Threads : r # s => Same(r)
  BY <1>1, <1>2, <1>5 DEF ShellDomains, Same
<1>7. TextOf(s)' = x /\ x.is = "text"
  BY <1>0, <1>2 DEF TextOf, Token
<1>8. Mine(s, x)'
  BY <1>7 DEF Mine
<1>9. WaitInv(s)'
  <2>1. \A y \in Pending(s)' : Mine(s, y)'
    BY <1>3, <1>5, <1>8 DEF WaitInv
  <2>2. \A y \in Pending(s)' : y.is # "end"
    BY <1>2, <1>3, <1>5, <1>7 DEF WaitInv
  <2>3. TextOf(s)' \in Pending(s)' /\ input'[s] = <<cmd'[s]>>
    BY <1>2, <1>3, <1>5, <1>7
  <2>. QED BY <2>1, <2>2, <2>3 DEF WaitInv
<1>10. ThreadInv(s)'
  BY <1>1, <1>2, <1>3, <1>5, <1>9 DEF ThreadInv, NoCmd
<1>. QED BY <1>1, <1>2, <1>6, <1>10, OneThread

(* The command ends: its marker is the last of its tokens.                 *)
LEMMA EndKeeps ==
    ASSUME ShellInv, NEW s \in Threads, NEW rc, NEW leaves, End(s, rc, leaves)
    PROVE  ShellInv'
<1>0. PICK x : x = Token(cmd[s], "end", rc, texted[s])
  OBVIOUS
<1>1. ShellDomains /\ ThreadInv(s) /\ TrueReply(s, reply[s])
  BY DEF ShellInv, OwnReply, TrueReply
<1>2. UNCHANGED <<sh, pc, cmd, buf, reply>> /\ sh[s] = "up" /\ input[s] # <<>>
      /\ texted' = [texted EXCEPT ![s] = FALSE]
      /\ input' = [input EXCEPT ![s] = Tail(input[s])]
  BY DEF End
<1>3. /\ pc[s] = "wait" /\ WaitInv(s) /\ input[s] = <<cmd[s]>> /\ Head(input[s]) = cmd[s]
      /\ Tail(input[s]) = <<>>
  BY <1>2, Busy
<1>4. Emit(s, x) /\ child' = [child EXCEPT ![s] = IF leaves /\ cmd[s].kind = "run" THEN cmd[s]
                                                  ELSE child[s]]
  BY <1>0, <1>3 DEF End
<1>5. /\ x.is = "end" /\ x.of = cmd[s] /\ x.said = texted[s]
  BY <1>0 DEF Token
<1>6. /\ DOMAIN out' = Threads /\ \A r \in Threads : r # s => out'[r] = out[r]
      /\ out'[s] \in Seq(Range(out'[s])) /\ Pending(s)' = Pending(s) \cup {x}
      /\ \A y \in Pending(s) : Mine(s, y) => Mine(s, y)'
  BY <1>2, <1>4, EmitGrows
<1>7. ShellDomains' /\ \A r \in Threads : r # s => Same(r)
  BY <1>1, <1>2, <1>4, <1>6 DEF ShellDomains, Same
<1>8. ~texted'[s] /\ input'[s] = <<>> /\ child'[s] \in {cmd[s], child[s]}
  BY <1>1, <1>2, <1>3, <1>4 DEF ShellDomains
<1>9. WaitInv(s)'
  <2>1. TextOf(s)' = TextOf(s)
    BY <1>2 DEF TextOf
  <2>2. texted[s] => TextOf(s) \in Pending(s)
    BY <1>2, <1>3 DEF WaitInv
  <2>3. Mine(s, x)'
    BY <1>2, <1>5, <1>6, <2>1, <2>2 DEF Mine
  <2>4. \A y \in Pending(s)' : Mine(s, y)'
    BY <1>3, <1>6, <2>3 DEF WaitInv
  <2>. QED BY <1>8, <2>4 DEF WaitInv
<1>10. ThreadInv(s)'
  BY <1>1, <1>2, <1>3, <1>6, <1>8, <1>9 DEF ThreadInv, NoCmd
<1>. QED BY <1>1, <1>2, <1>7, <1>10, OneThread

(* A child prints.                                                         *)
LEMMA StrayKeeps ==
    ASSUME ShellInv, NEW s \in Threads, Stray(s)
    PROVE  ShellInv'
<1>0. PICK x : x = Token(child[s], "stray", 0, TRUE)
  OBVIOUS
<1>1. ShellDomains /\ ThreadInv(s) /\ TrueReply(s, reply[s])
  BY DEF ShellInv, OwnReply, TrueReply
<1>2. UNCHANGED <<sh, input, texted, pc, cmd, buf, reply>> /\ child[s] # NoCmd
      /\ child' = [child EXCEPT ![s] = NoCmd] /\ Emit(s, x)
  BY <1>0 DEF Stray
<1>3. x.is = "stray" /\ x.of.t = s
  BY <1>0, <1>1, <1>2 DEF Token, ThreadInv
<1>4. /\ DOMAIN out' = Threads /\ \A r \in Threads : r # s => out'[r] = out[r]
      /\ out'[s] \in Seq(Range(out'[s])) /\ Pending(s)' = Pending(s) \cup {x}
      /\ Range(out'[s]) = Range(out[s]) \cup {x}
      /\ \A y \in Pending(s) : Mine(s, y) => Mine(s, y)'
  BY <1>2, EmitGrows
<1>5. ShellDomains' /\ \A r \in Threads : r # s => Same(r)
  BY <1>1, <1>2, <1>4 DEF ShellDomains, Same
<1>6. child'[s] = NoCmd /\ NoCmd' = NoCmd
  BY <1>1, <1>2 DEF ShellDomains, NoCmd
<1>7. pc[s] = "wait" => WaitInv(s)'
  <2>. SUFFICES ASSUME pc[s] = "wait" PROVE WaitInv(s)'
    OBVIOUS
  <2>1. WaitInv(s)
    BY <1>1 DEF ThreadInv
  <2>2. Mine(s, x)' /\ x.is # "end"
    BY <1>3 DEF Mine, StrayOf
  <2>3. \A y \in Pending(s)' : Mine(s, y)'
    BY <1>4, <2>1, <2>2 DEF WaitInv
  <2>4. TextOf(s)' = TextOf(s)
    BY <1>2 DEF TextOf
  <2>. QED BY <1>2, <1>4, <2>1, <2>2, <2>3, <2>4 DEF WaitInv
<1>8. pc[s] \in {"idle", "send"} => \A y \in Range(out'[s]) : StrayOf(s, y)
  BY <1>1, <1>3, <1>4 DEF ThreadInv, StrayOf
<1>9. ThreadInv(s)'
  BY <1>1, <1>2, <1>4, <1>6, <1>7, <1>8 DEF ThreadInv
<1>. QED BY <1>1, <1>2, <1>5, <1>9, OneThread

(* The instance ends, and with it every shell; what they printed can still *)
(* be read.                                                                *)
LEMMA StopsKeeps ==
    ASSUME ShellInv, InstanceStops
    PROVE  ShellInv'
<1>1. UNCHANGED <<out, pc, cmd, buf, reply>>
  BY DEF InstanceStops
<1>2. ShellDomains'
  BY <1>1 DEF InstanceStops, ShellInv, ShellDomains
<1>3. OwnReply'
  BY <1>1 DEF ShellInv, OwnReply
<1>4. ASSUME NEW t \in Threads PROVE ThreadInv(t)'
  <2>1. ThreadInv(t)
    BY DEF ShellInv
  <2>2. /\ sh'[t] \in {"dead", sh[t]} /\ sh'[t] \notin {"starting", "greeted", "up"}
        /\ input'[t] = <<>> /\ child'[t] = NoCmd /\ texted'[t] = FALSE /\ NoCmd' = NoCmd
    BY DEF InstanceStops, NoCmd
  <2>3. sh[t] = "up" => sh'[t] = "dead"
    BY <2>2
  <2>4. Pending(t)' = Pending(t)
    BY <1>1 DEF Pending
  <2>5. pc[t] = "wait" => WaitInv(t)'
    <3>. SUFFICES ASSUME pc[t] = "wait" PROVE WaitInv(t)'
      OBVIOUS
    <3>1. WaitInv(t)
      BY <2>1 DEF ThreadInv
    <3>2. \A x \in Pending(t)' : Mine(t, x)'
      BY <1>1, <2>4, <3>1, MineGrows DEF WaitInv
    <3>. QED BY <2>2, <3>2 DEF WaitInv
  <2>6. /\ cmd'[t].t = t /\ buf'[t] \in Seq(Range(buf'[t])) /\ out'[t] \in Seq(Range(out'[t]))
        /\ pc'[t] = "send" => sh'[t] \in {"up", "dead"}
        /\ sh'[t] = "failed" => pc'[t] = "shell"
        /\ pc'[t] \in {"idle", "send"} => \A x \in Range(out'[t]) : StrayOf(t, x)
    BY <1>1, <2>1, <2>2, <2>3 DEF ThreadInv
  <2>. QED BY <1>1, <2>2, <2>5, <2>6 DEF ThreadInv, StrayOf
<1>. QED BY <1>2, <1>3, <1>4 DEF ShellInv

LEMMA ShellStepInv ==
    ASSUME ShellInv, [ShellNext]_shellVars
    PROVE  ShellInv'
<1>0. ASSUME UNCHANGED <<sh, input, out, child, texted, pc, cmd, buf, reply>>
      PROVE  ShellInv'
  <2>1. \A t \in Threads : Same(t)
    BY <1>0 DEF Same
  <2>2. \A t \in Threads : ThreadInv(t)' /\ TrueReply(t, reply'[t])
    BY <2>1, SameKeeps
  <2>. QED BY <1>0, <2>2 DEF ShellInv, ShellDomains, OwnReply, TrueReply
<1>1. CASE UNCHANGED shellVars
  BY <1>0, <1>1 DEF shellVars, bashVars
<1>2. CASE Attach
  BY <1>2, BeginKeeps, SShellAssumption DEF Attach
<1>3. CASE InstanceStarts
  BY <1>0, <1>3 DEF InstanceStarts
<1>4. CASE InstanceStops
  BY <1>4, StopsKeeps
<1>5. ASSUME NEW t \in Threads, NEW kind, NEW data, Call(t, kind, data)
      PROVE  ShellInv'
  BY <1>5, BeginKeeps DEF Call
<1>6. ASSUME NEW t \in Threads, ShellStep(t) \/ BashStep(t) \/ Stray(t)
      PROVE  ShellInv'
  BY <1>6, PopenKeeps, GreetingKeeps, SendKeeps, ReadKeeps, LoginKeeps, TextKeeps, EndKeeps,
     StrayKeeps DEF ShellStep, BashStep
<1>. QED BY <1>1, <1>2, <1>3, <1>4, <1>5, <1>6 DEF ShellNext

-----------------------------------------------------------------------------
(* What a call returns is the outcome of its own command, over a shell or  *)
(* over a terminal, however many threads use the instance and however the  *)
(* streams are cut into reads.                                             *)
THEOREM OwnRepliesAlways == Spec => []OwnReplies
<1>. DEFINE Inv == ShellInv /\ TtyInv
<1>1. Init => Inv
  BY ShellInitInv, TtyInitInv DEF Init
<1>2. Inv /\ [Next]_vars => Inv'
  <2>1. [Next]_vars => [ShellNext]_shellVars /\ [TtyNext]_ttyVars
    BY DEF Next, vars
  <2>. QED BY <2>1, ShellStepInv, TtyStepInv
<1>3. Inv => OwnReplies
  BY DEF ShellInv, TtyInv, OwnReplies
<1>. QED BY <1>1, <1>2, <1>3, PTL DEF Spec

-----------------------------------------------------------------------------
(* Here-documents.  Induction is over a set of numbers.                    *)
LEMMA SetInduction ==
    ASSUME NEW T, 0 \in T, \A k \in Nat : k \in T => k + 1 \in T
    PROVE  Nat \subseteq T
<1>. DEFINE U == Nat \ T
            R == OpToRel(<, Nat)
<1>1. SUFFICES ASSUME U # {} PROVE FALSE
  OBVIOUS
<1>2. IsWellFoundedOn(R, Nat)
  BY NatLessThanWellFounded
<1>3. \A m, n \in Nat : m < n => <<m, n>> \in R
  BY DEF OpToRel
<1>4. U \subseteq Nat
  OBVIOUS
<1>5. PICK m \in U : \A n \in U : ~(<<n, m>> \in R)
  <2>. HIDE DEF R, U
  <2>. QED BY <1>1, <1>2, <1>4, WFMin
<1>6. m # 0 /\ m - 1 \in Nat /\ m - 1 < m /\ (m - 1) + 1 = m
  OBVIOUS
<1>7. m - 1 \in T
  BY <1>3, <1>5, <1>6
<1>. QED BY <1>5, <1>6, <1>7

(* The characters, those that the escape adds among them.                  *)
Chars == STRING \cup {"bslash", "dollar"}

(* What the escape makes of one character.                                 *)
Chunk(s, i) == IF s[i] = "dollar" THEN <<"bslash", "dollar">> ELSE <<s[i]>>

(* The beginnings of the escaped sequence.                                 *)
Begun(s, n, g) ==
  /\ g \in [0 .. n -> Seq(Chars)]
  /\ g[0] = <<>>
  /\ \A k \in 1 .. n : g[k] = g[k - 1] \o Chunk(s, k)

LEMMA ChunkMeans ==
    ASSUME NEW s \in Seq(Chars), NEW i \in 1 .. Len(s)
    PROVE  Chunk(s, i) \in Seq(Chars)
<1>1. s[i] \in Chars
  OBVIOUS
<1>2. "dollar" \in Chars /\ "bslash" \in Chars
  BY DEF Chars
<1>3. <<s[i]>> \in Seq(Chars)
  BY <1>1
<1>4. <<"bslash", "dollar">> \in Seq(Chars)
  BY <1>2
<1>. QED BY <1>3, <1>4 DEF Chunk

LEMMA BegunExists ==
    ASSUME NEW s \in Seq(Chars)
    PROVE  \E g : Begun(s, Len(s), g)
<1>. DEFINE T == {n \in Nat : n <= Len(s) => \E g : Begun(s, n, g)}
<1>1. 0 \in T
  <2>1. Begun(s, 0, [k \in 0 .. 0 |-> <<>>])
    BY DEF Begun
  <2>. QED BY <2>1
<1>2. ASSUME NEW n \in Nat, n \in T
      PROVE  n + 1 \in T
  <2>0. SUFFICES ASSUME n + 1 <= Len(s) PROVE \E g : Begun(s, n + 1, g)
    OBVIOUS
  <2>1. PICK g : Begun(s, n, g)
    BY <1>2, <2>0
  <2>2. PICK h : h = [k \in 0 .. n + 1 |-> IF k = n + 1 THEN g[n] \o Chunk(s, n + 1) ELSE g[k]]
    OBVIOUS
  <2>3. \A k \in 0 .. n : k \in 0 .. n + 1 /\ h[k] = g[k] /\ g[k] \in Seq(Chars)
    BY <2>1, <2>2 DEF Begun
  <2>4. h[n + 1] = g[n] \o Chunk(s, n + 1) /\ h[n + 1] \in Seq(Chars)
    <3>1. n \in 0 .. n /\ n + 1 \in 0 .. n + 1 /\ n + 1 \in 1 .. Len(s)
      BY <2>0
    <3>2. h[n + 1] = g[n] \o Chunk(s, n + 1)
      BY <2>2, <3>1
    <3>3. Chunk(s, n + 1) \in Seq(Chars)
      BY <3>1, ChunkMeans
    <3>. QED BY <2>3, <3>1, <3>2, <3>3
  <2>5. h \in [0 .. n + 1 -> Seq(Chars)]
    <3>1. \A k \in 0 .. n + 1 : k = n + 1 \/ k \in 0 .. n
      OBVIOUS
    <3>2. \A k \in 0 .. n + 1 : h[k] \in Seq(Chars)
      BY <2>3, <2>4, <3>1
    <3>. QED BY <2>2, <3>2
  <2>6. h[0] = <<>>
    BY <2>1, <2>3 DEF Begun
  <2>7. ASSUME NEW k \in 1 .. n + 1
        PROVE  h[k] = h[k - 1] \o Chunk(s, k)
    <3>1. CASE k = n + 1
      <4>1. k - 1 = n /\ n \in 0 .. n
        BY <3>1
      <4>. QED BY <2>3, <2>4, <3>1, <4>1
    <3>2. CASE k # n + 1
      <4>1. k \in 1 .. n /\ k \in 0 .. n /\ k - 1 \in 0 .. n
        BY <3>2
      <4>. QED BY <2>1, <2>3, <4>1 DEF Begun
    <3>. QED BY <3>1, <3>2
  <2>8. Begun(s, n + 1, h)
    BY <2>5, <2>6, <2>7 DEF Begun
  <2>. QED BY <2>8
<1>. HIDE DEF T
<1>3. Nat \subseteq T
  BY <1>1, <1>2, SetInduction
<1>4. Len(s) \in Nat
  OBVIOUS
<1>. QED BY <1>3, <1>4 DEF T

(* Escaped is the last of them.                                            *)
LEMMA EscapedBegun ==
    ASSUME NEW s \in Seq(Chars)
    PROVE  \E g : Begun(s, Len(s), g) /\ g[Len(s)] = Escaped(s)
<1>0. PICK n \in Nat : n = Len(s)
  OBVIOUS
<1>1. PICK c : c = [i \in DOMAIN s |-> IF s[i] = "dollar" THEN <<"bslash", "dollar">> ELSE <<s[i]>>]
  OBVIOUS
<1>2. /\ DOMAIN s = 1 .. n /\ DOMAIN c = 1 .. n /\ c \in Seq(Seq(Chars)) /\ Len(c) = n
      /\ \A i \in 1 .. n : c[i] = Chunk(s, i)
  <2>1. DOMAIN s = 1 .. n
    BY <1>0
  <2>2. \A i \in 1 .. n : c[i] = Chunk(s, i) /\ Chunk(s, i) \in Seq(Chars)
    BY <1>0, <1>1, <2>1, ChunkMeans DEF Chunk
  <2>3. c = [i \in 1 .. n |-> c[i]]
    BY <1>1, <2>1
  <2>4. c \in Seq(Seq(Chars)) /\ Len(c) = n
    BY <2>2, <2>3
  <2>. QED BY <1>1, <2>1, <2>2, <2>4
<1>3. Escaped(s) = FlattenSeq(c)
  BY <1>1 DEF Escaped
<1>4. PICK g : Begun(s, n, g)
  BY <1>0, BegunExists
<1>5. CASE n = 0
  <2>1. c = <<>> /\ g[n] = <<>>
    BY <1>2, <1>4, <1>5 DEF Begun
  <2>2. FlattenSeq(c) = c
    BY <1>2, <1>5 DEF FlattenSeq
  <2>. QED BY <1>0, <1>3, <1>4, <2>1, <2>2
<1>6. CASE n # 0
  <2>. DEFINE Is(f) == f = [i \in 1 .. n |-> IF i = 1 THEN c[i] ELSE f[i - 1] \o c[i]]
  <2>1. \E f : Is(f)
    <3>1. PICK h : h = [i \in 1 .. n |-> g[i]]
      OBVIOUS
    <3>2. ASSUME NEW i \in 1 .. n
          PROVE  h[i] = IF i = 1 THEN c[i] ELSE h[i - 1] \o c[i]
      <4>1. g[i] = g[i - 1] \o c[i] /\ h[i] = g[i] /\ c[i] \in Seq(Chars)
        <5>1. c[i] = Chunk(s, i) /\ c[i] \in Seq(Chars)
          BY <1>2
        <5>2. g[i] = g[i - 1] \o Chunk(s, i)
          BY <1>4 DEF Begun
        <5>3. h[i] = g[i]
          BY <3>1
        <5>. QED BY <5>1, <5>2, <5>3
      <4>2. CASE i = 1
        <5>1. g[i - 1] = <<>>
          BY <1>4, <4>2 DEF Begun
        <5>2. <<>> \o c[i] = c[i]
          BY <4>1
        <5>. QED BY <4>1, <4>2, <5>1, <5>2
      <4>3. CASE i # 1
        <5>1. i - 1 \in 1 .. n
          BY <4>3
        <5>. QED BY <3>1, <4>1, <4>3, <5>1
      <4>. QED BY <4>2, <4>3
    <3>3. Is(h)
      BY <3>1, <3>2
    <3>. QED BY <3>3
  <2>2. PICK f : f = CHOOSE h : Is(h)
    OBVIOUS
  <2>3. Is(f)
    <3>. HIDE DEF Is
    <3>. QED BY <2>1, <2>2
  <2>4. FlattenSeq(c) = f[n]
    BY <1>2, <1>6, <2>2 DEF FlattenSeq
  <2>5. \A i \in 1 .. n : f[i] = IF i = 1 THEN c[i] ELSE f[i - 1] \o c[i]
    BY <2>3
  <2>. HIDE DEF Is
  <2>. DEFINE T == {k \in Nat : k \in 1 .. n => f[k] = g[k]}
  <2>6. Nat \subseteq T
    <3>1. 0 \in T
      OBVIOUS
    <3>2. ASSUME NEW k \in Nat, k \in T PROVE k + 1 \in T
      <4>1. SUFFICES ASSUME k + 1 \in 1 .. n PROVE f[k + 1] = g[k + 1]
        OBVIOUS
      <4>2. (k + 1) - 1 = k
        OBVIOUS
      <4>3. g[k + 1] = g[k] \o c[k + 1] /\ c[k + 1] \in Seq(Chars)
        <5>1. c[k + 1] = Chunk(s, k + 1) /\ c[k + 1] \in Seq(Chars)
          BY <1>2, <4>1
        <5>2. g[k + 1] = g[(k + 1) - 1] \o Chunk(s, k + 1)
          BY <1>4, <4>1 DEF Begun
        <5>. QED BY <4>2, <5>1, <5>2
      <4>4. CASE k = 0
        <5>1. g[k] = <<>> /\ <<>> \o c[k + 1] = c[k + 1]
          BY <1>4, <4>3, <4>4 DEF Begun
        <5>2. f[k + 1] = c[k + 1]
          BY <2>5, <4>1, <4>4
        <5>. QED BY <4>3, <5>1, <5>2
      <4>5. CASE k # 0
        <5>1. k \in 1 .. n /\ k + 1 # 1
          BY <4>1, <4>5
        <5>2. f[k + 1] = f[k] \o c[k + 1]
          BY <2>5, <4>1, <4>2, <5>1
        <5>3. f[k] = g[k]
          BY <3>2, <5>1
        <5>. QED BY <4>3, <5>2, <5>3
      <4>. QED BY <4>4, <4>5
    <3>. HIDE DEF T
    <3>. QED BY <3>1, <3>2, SetInduction
  <2>7. f[n] = g[n]
    BY <1>6, <2>6
  <2>. QED BY <1>0, <1>3, <1>4, <2>4, <2>7
<1>. QED BY <1>5, <1>6

(* The n first characters of s, escaped, are e; the character i ends at    *)
(* p[i].                                                                   *)
Laid(s, e, n, p) ==
  /\ p \in [0 .. n -> Nat]
  /\ p[0] = 0 /\ p[n] = Len(e)
  /\ \A i \in 1 .. n :
       /\ p[i] <= Len(e)
       /\ IF s[i] = "dollar"
            THEN p[i] = p[i - 1] + 2 /\ e[p[i - 1] + 1] = "bslash" /\ e[p[i - 1] + 2] = "dollar"
            ELSE p[i] = p[i - 1] + 1 /\ e[p[i - 1] + 1] = s[i]

LEMMA LaidMore ==
    ASSUME NEW s, NEW e \in Seq(Chars), NEW n \in Nat, NEW p, Laid(s, e, n, p),
           Chunk(s, n + 1) \in Seq(Chars)
    PROVE  \E r : Laid(s, e \o Chunk(s, n + 1), n + 1, r)
<1>1. PICK c \in Seq(Chars) : c = Chunk(s, n + 1)
  OBVIOUS
<1>2. PICK l \in Nat : l = Len(e)
  OBVIOUS
<1>3. \/ s[n + 1] = "dollar" /\ Len(c) = 2 /\ c[1] = "bslash" /\ c[2] = "dollar"
      \/ s[n + 1] # "dollar" /\ Len(c) = 1 /\ c[1] = s[n + 1]
  BY <1>1 DEF Chunk
<1>4. PICK w : w = e \o c
  OBVIOUS
<1>5. /\ w \in Seq(Chars) /\ Len(w) = l + Len(c)
      /\ \A i \in 1 .. l : w[i] = e[i]
      /\ \A i \in 1 .. Len(c) : w[l + i] = c[i]
  BY <1>2, <1>4
<1>6. PICK r : r = [i \in 0 .. n + 1 |-> IF i = n + 1 THEN l + Len(c) ELSE p[i]]
  OBVIOUS
<1>7. \A i \in 0 .. n : i \in 0 .. n + 1 /\ i # n + 1 /\ r[i] = p[i] /\ p[i] \in Nat
  BY <1>6 DEF Laid
<1>8. r[n + 1] = l + Len(c) /\ Len(c) \in Nat /\ r[n + 1] \in Nat
  <2>1. n + 1 \in 0 .. n + 1 /\ Len(c) \in Nat
    OBVIOUS
  <2>. QED BY <1>6, <2>1
<1>9. r \in [0 .. n + 1 -> Nat] /\ r[0] = 0
  <2>1. \A i \in 0 .. n + 1 : i = n + 1 \/ i \in 0 .. n
    OBVIOUS
  <2>2. \A i \in 0 .. n + 1 : r[i] \in Nat
    BY <1>7, <1>8, <2>1
  <2>3. 0 \in 0 .. n
    OBVIOUS
  <2>. QED BY <1>6, <1>7, <2>2, <2>3 DEF Laid
<1>10. ASSUME NEW i \in 1 .. n + 1
       PROVE  /\ r[i] <= Len(w)
              /\ IF s[i] = "dollar"
                   THEN r[i] = r[i - 1] + 2 /\ w[r[i - 1] + 1] = "bslash" /\ w[r[i - 1] + 2] = "dollar"
                   ELSE r[i] = r[i - 1] + 1 /\ w[r[i - 1] + 1] = s[i]
  <2>1. CASE i = n + 1
    <3>1. r[i - 1] = l
      <4>1. i - 1 = n /\ n \in 0 .. n
        BY <2>1
      <4>. QED BY <1>2, <1>7, <4>1 DEF Laid
    <3>2. r[i] = l + Len(c) /\ r[i] <= Len(w)
      BY <1>5, <1>8, <2>1
    <3>3. CASE s[n + 1] = "dollar" /\ Len(c) = 2 /\ c[1] = "bslash" /\ c[2] = "dollar"
      <4>1. 1 \in 1 .. Len(c) /\ 2 \in 1 .. Len(c)
        BY <3>3
      <4>2. w[l + 1] = "bslash" /\ w[l + 2] = "dollar"
        BY <1>5, <3>3, <4>1
      <4>. QED BY <2>1, <3>1, <3>2, <3>3, <4>2
    <3>4. CASE s[n + 1] # "dollar" /\ Len(c) = 1 /\ c[1] = s[n + 1]
      <4>1. 1 \in 1 .. Len(c)
        BY <3>4
      <4>2. w[l + 1] = s[n + 1]
        BY <1>5, <3>4, <4>1
      <4>. QED BY <2>1, <3>1, <3>2, <3>4, <4>2
    <3>. QED BY <1>3, <3>3, <3>4
  <2>2. CASE i # n + 1
    <3>1. i \in 1 .. n /\ i \in 0 .. n /\ i - 1 \in 0 .. n
      BY <2>2
    <3>2. r[i] = p[i] /\ r[i - 1] = p[i - 1] /\ p[i] \in Nat /\ p[i - 1] \in Nat
      BY <1>7, <3>1
    <3>3. p[i] <= l /\ IF s[i] = "dollar"
            THEN p[i] = p[i - 1] + 2 /\ e[p[i - 1] + 1] = "bslash" /\ e[p[i - 1] + 2] = "dollar"
            ELSE p[i] = p[i - 1] + 1 /\ e[p[i - 1] + 1] = s[i]
      BY <1>2, <3>1 DEF Laid
    <3>4. r[i] <= Len(w)
      BY <1>5, <1>8, <3>2, <3>3, SMTT(40)
    <3>5. CASE s[i] = "dollar"
      <4>1. p[i] = p[i - 1] + 2 /\ e[p[i - 1] + 1] = "bslash" /\ e[p[i - 1] + 2] = "dollar"
        BY <3>3, <3>5
      <4>2. p[i - 1] + 1 \in 1 .. l /\ p[i - 1] + 2 \in 1 .. l
        BY <3>2, <3>3, <4>1, SMTT(40)
      <4>3. w[p[i - 1] + 1] = "bslash" /\ w[p[i - 1] + 2] = "dollar"
        BY <1>5, <4>1, <4>2
      <4>. QED BY <3>2, <3>4, <3>5, <4>1, <4>3
    <3>6. CASE s[i] # "dollar"
      <4>1. p[i] = p[i - 1] + 1 /\ e[p[i - 1] + 1] = s[i]
        BY <3>3, <3>6
      <4>2. p[i - 1] + 1 \in 1 .. l
        BY <3>2, <3>3, <4>1
      <4>3. w[p[i - 1] + 1] = s[i]
        BY <1>5, <4>1, <4>2
      <4>. QED BY <3>2, <3>4, <3>6, <4>1, <4>3
    <3>. QED BY <3>5, <3>6
  <2>. QED BY <2>1, <2>2
<1>11. Laid(s, w, n + 1, r)
  BY <1>5, <1>8, <1>9, <1>10 DEF Laid
<1>. QED BY <1>1, <1>4, <1>11

LEMMA EscapedLaid ==
    ASSUME NEW s \in Seq(Chars)
    PROVE  Escaped(s) \in Seq(Chars) /\ \E p : Laid(s, Escaped(s), Len(s), p)
<1>0. PICK n \in Nat : n = Len(s)
  OBVIOUS
<1>1. PICK g : Begun(s, n, g) /\ g[n] = Escaped(s)
  BY <1>0, EscapedBegun
<1>. DEFINE T == {k \in Nat : k <= n => \E p : Laid(s, g[k], k, p)}
<1>2. 0 \in T
  <2>1. PICK p : p = [i \in 0 .. 0 |-> 0]
    OBVIOUS
  <2>2. g[0] = <<>> /\ Len(<<>>) = 0
    BY <1>1 DEF Begun
  <2>3. p \in [0 .. 0 -> Nat] /\ p[0] = 0 /\ p[0] = Len(g[0])
    BY <2>1, <2>2
  <2>4. Laid(s, g[0], 0, p)
    BY <2>3 DEF Laid
  <2>. QED BY <2>4
<1>3. ASSUME NEW k \in Nat, k \in T
      PROVE  k + 1 \in T
  <2>1. SUFFICES ASSUME k + 1 <= n PROVE \E p : Laid(s, g[k + 1], k + 1, p)
    OBVIOUS
  <2>2. k <= n /\ k \in 0 .. n /\ k + 1 \in 1 .. n /\ (k + 1) - 1 = k
    BY <2>1
  <2>3. PICK p : Laid(s, g[k], k, p)
    BY <1>3, <2>2
  <2>4. g[k] \in Seq(Chars)
    BY <1>1, <2>2 DEF Begun
  <2>5. g[k + 1] = g[(k + 1) - 1] \o Chunk(s, k + 1)
    BY <1>1, <2>2 DEF Begun
  <2>6. Chunk(s, k + 1) \in Seq(Chars)
    BY <1>0, <2>2, ChunkMeans
  <2>7. \E r : Laid(s, g[k] \o Chunk(s, k + 1), k + 1, r)
    BY <2>3, <2>4, <2>6, LaidMore
  <2>. QED BY <2>2, <2>5, <2>7
<1>. HIDE DEF T
<1>4. Nat \subseteq T
  BY <1>2, <1>3, SetInduction
<1>5. \E p : Laid(s, g[n], n, p)
  BY <1>4 DEF T
<1>6. n \in 0 .. n /\ g[n] \in Seq(Chars)
  BY <1>1 DEF Begun
<1>. QED BY <1>0, <1>1, <1>5, <1>6

(* What the rest of a here-document from i on becomes, given what its own  *)
(* rests become.                                                           *)
Rest(e, f, i) ==
  IF i > Len(e) THEN <<>>
  ELSE IF e[i] = "bslash" /\ i < Len(e) /\ e[i + 1] \in {"dollar", "bslash", "bquote"} THEN <<e[i + 1]>> \o f[i + 2]
  ELSE IF e[i] = "bquote" \/ (e[i] = "dollar" /\ i < Len(e)) THEN <<"?">> \o f[i + 2]
  ELSE <<e[i]>> \o f[i + 1]

LEMMA RestSame ==
    ASSUME NEW e, NEW l \in Nat, l = Len(e), NEW f, NEW g, NEW i \in 1 .. l + 2,
           i <= l => f[i + 1] = g[i + 1] /\ f[i + 2] = g[i + 2]
    PROVE  Rest(e, f, i) = Rest(e, g, i)
<1>1. CASE i > l
  BY <1>1 DEF Rest
<1>2. CASE i <= l
  BY <1>2 DEF Rest
<1>. QED BY <1>1, <1>2

LEMMA RestsExist ==
    ASSUME NEW e, NEW l \in Nat, l = Len(e)
    PROVE  \E f : f = [i \in 1 .. l + 2 |-> Rest(e, f, i)]
<1>. DEFINE Ok(f, k) == /\ f = [i \in 1 .. l + 2 |-> f[i]]
                        /\ \A i \in 1 .. l + 2 : i + k > l + 2 => f[i] = Rest(e, f, i)
            T == {k \in Nat : \E f : Ok(f, k)}
<1>1. 0 \in T
  <2>1. PICK f : f = [i \in 1 .. l + 2 |-> <<>>]
    OBVIOUS
  <2>2. f = [i \in 1 .. l + 2 |-> f[i]] /\ \A i \in 1 .. l + 2 : ~(i + 0 > l + 2)
    BY <2>1
  <2>3. Ok(f, 0)
    BY <2>2
  <2>. QED BY <2>3
<1>2. ASSUME NEW k \in Nat, k \in T
      PROVE  k + 1 \in T
  <2>1. PICK f : Ok(f, k)
    BY <1>2
  <2>2. PICK h : h = [i \in 1 .. l + 2 |-> IF i + k = l + 2 THEN Rest(e, f, i) ELSE f[i]]
    OBVIOUS
  <2>3. \A i \in 1 .. l + 2 : h[i] = IF i + k = l + 2 THEN Rest(e, f, i) ELSE f[i]
    BY <2>2
  <2>4. h = [i \in 1 .. l + 2 |-> h[i]]
    BY <2>2
  <2>5. ASSUME NEW i \in 1 .. l + 2, i + (k + 1) > l + 2
        PROVE  h[i] = Rest(e, h, i)
    <3>1. h[i] = Rest(e, f, i)
      <4>1. CASE i + k = l + 2
        BY <2>3, <4>1
      <4>2. CASE i + k # l + 2
        <5>1. i + k > l + 2
          BY <2>5, <4>2
        <5>. QED BY <2>1, <2>3, <4>2, <5>1
      <4>. QED BY <4>1, <4>2
    <3>2. i <= l => f[i + 1] = h[i + 1] /\ f[i + 2] = h[i + 2]
      <4>1. SUFFICES ASSUME i <= l PROVE f[i + 1] = h[i + 1] /\ f[i + 2] = h[i + 2]
        OBVIOUS
      <4>2. /\ i + 1 \in 1 .. l + 2 /\ i + 2 \in 1 .. l + 2
            /\ (i + 1) + k # l + 2 /\ (i + 2) + k # l + 2
        BY <2>5, <4>1
      <4>. QED BY <2>3, <4>2
    <3>3. Rest(e, f, i) = Rest(e, h, i)
      BY <3>2, RestSame
    <3>. QED BY <3>1, <3>3
  <2>6. Ok(h, k + 1)
    BY <2>4, <2>5
  <2>. QED BY <2>6
<1>3. l + 2 \in T
  <2>. HIDE DEF T
  <2>1. Nat \subseteq T
    BY <1>1, <1>2, SetInduction
  <2>. QED BY <2>1
<1>4. PICK f : Ok(f, l + 2)
  BY <1>3
<1>5. \A i \in 1 .. l + 2 : i + (l + 2) > l + 2
  OBVIOUS
<1>6. \A i \in 1 .. l + 2 : f[i] = Rest(e, f, i)
  BY <1>4, <1>5
<1>7. f = [i \in 1 .. l + 2 |-> Rest(e, f, i)]
  BY <1>4, <1>6
<1>. QED BY <1>7

LEMMA HereDocMeans ==
    ASSUME NEW e, NEW l \in Nat, l = Len(e)
    PROVE  \E f : HereDoc(e) = f[1] /\ \A i \in 1 .. l + 2 : f[i] = Rest(e, f, i)
<1>. DEFINE Is(f) == f = [i \in 1 .. l + 2 |-> Rest(e, f, i)]
<1>1. PICK f : f = CHOOSE g : Is(g)
  OBVIOUS
<1>2. \E g : Is(g)
  BY RestsExist
<1>3. Is(f)
  <2>. HIDE DEF Is
  <2>. QED BY <1>1, <1>2
<1>4. HereDoc(e) = f[1]
  BY <1>1 DEF HereDoc, Rest
<1>5. \A i \in 1 .. l + 2 : f[i] = Rest(e, f, i)
  BY <1>3
<1>. QED BY <1>4, <1>5

(* Bash undoes the escape: what _exec_run sends as a here-document is what *)
(* it was given, dollars and all, when it holds neither backslashes nor    *)
(* backquotes.                                                             *)
LEMMA EscapeUndone ==
    ASSUME NEW s \in Seq(STRING), \A i \in DOMAIN s : s[i] \notin {"bslash", "bquote"}
    PROVE  HereDoc(Escaped(s)) = s
<1>0. s \in Seq(Chars)
  <2>1. \A i \in 1 .. Len(s) : s[i] \in Chars
    BY DEF Chars
  <2>. QED BY <2>1
<1>1. PICK n \in Nat : n = Len(s) /\ DOMAIN s = 1 .. n
  OBVIOUS
<1>2. PICK e \in Seq(Chars) : e = Escaped(s)
  BY <1>0, EscapedLaid
<1>3. PICK p : Laid(s, e, n, p)
  BY <1>0, <1>1, <1>2, EscapedLaid
<1>4. PICK l \in Nat : l = Len(e)
  OBVIOUS
<1>5. PICK f : HereDoc(e) = f[1] /\ \A i \in 1 .. l + 2 : f[i] = Rest(e, f, i)
  BY <1>4, HereDocMeans
<1>. DEFINE T == {k \in Nat : k <= n => f[p[n - k] + 1] = SubSeq(s, n - k + 1, n)}
<1>6. 0 \in T
  <2>1. p[n - 0] + 1 = l + 1 /\ l + 1 \in 1 .. l + 2 /\ l + 1 > l
    <3>1. n - 0 = n /\ p[n] = l
      BY <1>3, <1>4 DEF Laid
    <3>. QED BY <3>1
  <2>2. f[l + 1] = <<>>
    BY <1>4, <1>5, <2>1 DEF Rest
  <2>3. SubSeq(s, n - 0 + 1, n) = <<>>
    BY <1>0, <1>1
  <2>. QED BY <2>1, <2>2, <2>3
<1>7. ASSUME NEW k \in Nat, k \in T
      PROVE  k + 1 \in T
  <2>1. SUFFICES ASSUME k + 1 <= n
                 PROVE  f[p[n - (k + 1)] + 1] = SubSeq(s, n - (k + 1) + 1, n)
    OBVIOUS
  <2>2. PICK i \in 1 .. n : i = n - k /\ i - 1 = n - (k + 1) /\ k <= n
    BY <2>1
  <2>3. f[p[i] + 1] = SubSeq(s, i + 1, n)
    BY <1>7, <2>2
  <2>4. i \in 0 .. n /\ i - 1 \in 0 .. n
    OBVIOUS
  <2>5. PICK a \in Nat : a = p[i - 1]
    BY <1>3, <2>4 DEF Laid
  <2>6. /\ p[i] \in Nat /\ p[i] <= l
        /\ IF s[i] = "dollar"
             THEN p[i] = a + 2 /\ e[a + 1] = "bslash" /\ e[a + 2] = "dollar"
             ELSE p[i] = a + 1 /\ e[a + 1] = s[i]
    BY <1>3, <1>4, <2>4, <2>5 DEF Laid
  <2>7. f[a + 1] = <<s[i]>> \o f[p[i] + 1]
    <3>1. a + 1 \in 1 .. l + 2 /\ ~(a + 1 > l)
      BY <2>6
    <3>2. f[a + 1] = Rest(e, f, a + 1)
      BY <1>5, <3>1
    <3>3. CASE s[i] = "dollar"
      <4>1. p[i] = a + 2 /\ e[a + 1] = "bslash" /\ e[a + 2] = "dollar" /\ a + 1 < l
        BY <2>6, <3>3
      <4>2. (a + 1) + 1 = a + 2 /\ (a + 1) + 2 = p[i] + 1
        BY <4>1
      <4>3. Rest(e, f, a + 1) = <<e[(a + 1) + 1]>> \o f[(a + 1) + 2]
        BY <1>4, <3>1, <4>1, <4>2 DEF Rest
      <4>. QED BY <3>2, <3>3, <4>1, <4>2, <4>3
    <3>4. CASE s[i] # "dollar"
      <4>1. p[i] = a + 1 /\ e[a + 1] = s[i]
        BY <2>6, <3>4
      <4>2. e[a + 1] # "dollar" /\ e[a + 1] # "bslash" /\ e[a + 1] # "bquote"
        BY <1>1, <3>4, <4>1
      <4>3. Rest(e, f, a + 1) = <<e[a + 1]>> \o f[(a + 1) + 1]
        BY <1>4, <3>1, <4>2 DEF Rest
      <4>. QED BY <3>2, <4>1, <4>3
    <3>. QED BY <3>3, <3>4
  <2>8. <<s[i]>> \o SubSeq(s, i + 1, n) = SubSeq(s, i, n)
    <3>1. PICK u : u = SubSeq(s, i + 1, n)
      OBVIOUS
    <3>2. PICK v : v = SubSeq(s, i, n)
      OBVIOUS
    <3>3. u \in Seq(Chars) /\ Len(u) = n - i /\ \A j \in 1 .. n - i : u[j] = s[i + j]
      BY <1>0, <1>1, <3>1
    <3>4. v \in Seq(Chars) /\ Len(v) = n - i + 1 /\ \A j \in 1 .. n - i + 1 : v[j] = s[i + j - 1]
      BY <1>0, <1>1, <3>2
    <3>5. PICK w : w = <<s[i]>> \o u
      OBVIOUS
    <3>6. w \in Seq(Chars) /\ Len(w) = n - i + 1 /\ w[1] = s[i] /\ \A j \in 2 .. n - i + 1 : w[j] = u[j - 1]
      <4>1. s[i] \in Chars /\ Len(u) \in Nat
        BY <1>0, <1>1, <3>3
      <4>2. PICK c \in Seq(Chars) : c = <<s[i]>> /\ Len(c) = 1 /\ c[1] = s[i]
        <5>1. <<s[i]>> \in Seq(Chars)
          BY <4>1
        <5>2. Len(<<s[i]>>) = 1 /\ <<s[i]>>[1] = s[i]
          OBVIOUS
        <5>. QED BY <5>1, <5>2
      <4>3. PICK m \in Nat : m = Len(u) /\ m = n - i
        BY <3>3, <4>1
      <4>4. /\ w \in Seq(Chars) /\ Len(w) = 1 + m
            /\ \A j \in 1 .. 1 : w[j] = c[j]
            /\ \A j \in 1 .. 1 + m : j > 1 => w[j] = u[j - 1]
        <5>1. /\ w \in Seq(Chars) /\ Len(w) = Len(c) + Len(u)
              /\ \A j \in 1 .. Len(c) + Len(u) : w[j] = IF j <= Len(c) THEN c[j] ELSE u[j - Len(c)]
          BY <3>3, <3>5, <4>2, ConcatProperties
        <5>2. Len(c) = 1 /\ Len(u) = m
          BY <4>2, <4>3
        <5>3. /\ w \in Seq(Chars) /\ Len(w) = 1 + m
              /\ \A j \in 1 .. 1 + m : w[j] = IF j <= 1 THEN c[j] ELSE u[j - 1]
          BY <5>1, <5>2
        <5>4. \A j \in 1 .. 1 : j \in 1 .. 1 + m /\ j <= 1
          OBVIOUS
        <5>5. \A j \in 1 .. 1 + m : j > 1 => ~(j <= 1)
          OBVIOUS
        <5>. QED BY <5>3, <5>4, <5>5
      <4>5. \A j \in 2 .. n - i + 1 : j \in 1 .. 1 + m /\ j > 1
        BY <4>3
      <4>6. n - i + 1 = 1 + m /\ 1 \in 1 .. 1
        BY <4>3
      <4>. QED BY <4>2, <4>4, <4>5, <4>6
    <3>7. ASSUME NEW j \in 1 .. n - i + 1 PROVE w[j] = v[j]
      <4>1. CASE j = 1
        <5>1. i + 1 - 1 = i
          OBVIOUS
        <5>. QED BY <3>4, <3>6, <4>1, <5>1
      <4>2. CASE j # 1
        <5>1. j \in 2 .. n - i + 1 /\ j - 1 \in 1 .. n - i /\ i + (j - 1) = i + j - 1
          BY <4>2
        <5>. QED BY <3>3, <3>4, <3>6, <5>1
      <4>. QED BY <4>1, <4>2
    <3>8. w = v
      BY <3>4, <3>6, <3>7
    <3>. QED BY <3>1, <3>2, <3>5, <3>8
  <2>9. n - (k + 1) + 1 = i
    BY <2>2
  <2>. QED BY <2>2, <2>3, <2>5, <2>7, <2>8, <2>9
<1>. HIDE DEF T
<1>8. Nat \subseteq T
  BY <1>6, <1>7, SetInduction
<1>9. f[p[n - n] + 1] = SubSeq(s, n - n + 1, n)
  BY <1>8 DEF T
<1>10. n - n = 0 /\ p[0] = 0 /\ 0 + 1 = 1
  BY <1>3 DEF Laid
<1>11. SubSeq(s, 1, n) = s
  BY <1>0, <1>1
<1>. QED BY <1>2, <1>5, <1>9, <1>10, <1>11

-----------------------------------------------------------------------------
(* The file *)

LEMMA FileInitInv ==
    ASSUME ShellInit
    PROVE  FileInv
<1>1. NoCmd.data = <<>> /\ <<>> \in Seq(STRING)
  BY DEF NoCmd
<1>2. \A t \in Threads : cmd[t].data = <<>>
  BY DEF ShellInit, NoCmd
<1>3. file.by.data = <<>> /\ file.content = <<>>
  BY <1>1 DEF ShellInit
<1>4. HereDoc(Escaped(<<>>)) = <<>>
  <2>1. PICK s \in Seq(STRING) : s = <<>>
    BY <1>1
  <2>2. \A i \in DOMAIN s : s[i] \notin {"bslash", "bquote"}
    BY <2>1
  <2>. QED BY <2>1, <2>2, EscapeUndone
<1>. QED BY <1>1, <1>2, <1>3, <1>4 DEF FileInv

LEMMA FileStepInv ==
    ASSUME ShellInv, FileInv, [ShellNext]_shellVars
    PROVE  FileInv'
<1>0. ASSUME UNCHANGED <<cmd, file>>
      PROVE  FileInv'
  BY <1>0 DEF FileInv
<1>1. ASSUME NEW t \in Threads, NEW n, NEW kind, NEW data \in Seq(STRING), Begin(t, n, kind, data)
      PROVE  FileInv'
  <2>1. file' = file /\ cmd' = [cmd EXCEPT ![t] = [t |-> t, n |-> n, kind |-> kind, data |-> data]]
    BY <1>1 DEF Begin, bashVars
  <2>2. DOMAIN cmd = Threads
    BY DEF ShellInv, ShellDomains
  <2>3. cmd'[t].data = data /\ \A s \in Threads : s # t => cmd'[s] = cmd[s]
    BY <2>1, <2>2
  <2>4. \A s \in Threads : cmd'[s].data \in Seq(STRING)
    BY <1>1, <2>3 DEF FileInv
  <2>. QED BY <2>1, <2>4 DEF FileInv
<1>2. ASSUME NEW s \in Threads, NEW rc, NEW leaves, End(s, rc, leaves)
      PROVE  FileInv'
  <2>1. cmd' = cmd /\ sh[s] = "up" /\ input[s] # <<>>
    BY <1>2 DEF End
  <2>2. Head(input[s]) = cmd[s]
    BY <2>1, Busy
  <2>3. file' = IF cmd[s].kind = "write" /\ rc = 0
                  THEN [by |-> cmd[s], content |-> HereDoc(Escaped(cmd[s].data))] ELSE file
    BY <1>2, <2>2 DEF End
  <2>4. CASE cmd[s].kind = "write" /\ rc = 0
    <3>1. file'.by = cmd[s] /\ file'.content = HereDoc(Escaped(cmd[s].data))
      BY <2>3, <2>4
    <3>. QED BY <2>1, <3>1 DEF FileInv
  <2>5. CASE ~(cmd[s].kind = "write" /\ rc = 0)
    BY <1>0, <2>1, <2>3, <2>5
  <2>. QED BY <2>4, <2>5
<1>3. CASE UNCHANGED shellVars
  BY <1>0, <1>3 DEF shellVars, bashVars
<1>4. CASE Attach
  <2>1. <<>> \in Seq(STRING)
    OBVIOUS
  <2>. QED BY <1>1, <1>4, <2>1, SShellAssumption DEF Attach
<1>5. CASE InstanceStarts \/ InstanceStops
  BY <1>0, <1>5 DEF InstanceStarts, InstanceStops
<1>6. ASSUME NEW t \in Threads, NEW kind, NEW data \in Seq(STRING), Call(t, kind, data)
      PROVE  FileInv'
  BY <1>1, <1>6 DEF Call
<1>7. ASSUME NEW t \in Threads, Call(t, "run", <<>>) \/ \E c \in Contents[t] : Call(t, "write", c)
      PROVE  FileInv'
  <2>1. <<>> \in Seq(STRING)
    OBVIOUS
  <2>2. \A c \in Contents[t] : c \in Seq(STRING)
    BY SShellAssumption
  <2>. QED BY <1>6, <1>7, <2>1, <2>2
<1>8. ASSUME NEW t \in Threads, ShellStep(t) \/ Login(t) \/ Text(t) \/ Stray(t)
      PROVE  FileInv'
  <2>1. cmd' = cmd /\ file' = file
    BY <1>8 DEF ShellStep, Popen, Greeting, Send, Read, Login, Text, Stray
  <2>. QED BY <1>0, <2>1
<1>. QED BY <1>2, <1>3, <1>4, <1>5, <1>7, <1>8 DEF ShellNext, BashStep

LEMMA FileIsWritten ==
    ASSUME FileInv
    PROVE  FileAsWritten
<1>1. SUFFICES ASSUME NEW t \in Threads, file.by = reply[t].of,
                      ~ \E i \in DOMAIN reply[t].of.data : reply[t].of.data[i] \in {"bslash", "bquote"}
               PROVE  file.content = reply[t].of.data
  BY DEF FileAsWritten
<1>2. PICK s \in Seq(STRING) : s = file.by.data
  BY DEF FileInv
<1>3. \A i \in DOMAIN s : s[i] \notin {"bslash", "bquote"}
  BY <1>1, <1>2
<1>4. HereDoc(Escaped(s)) = s
  BY <1>3, EscapeUndone
<1>. QED BY <1>1, <1>2, <1>4 DEF FileInv

(* write_file() that reports no error has written the content, of any      *)
(* length and with any number of dollars, over a shell of a Singularity    *)
(* instance and through Docker's socket (singularity.py:711-717, 800-804,  *)
(* docker.py:210-226).                                                     *)
THEOREM WrittenAsReportedAlways == Spec => []WrittenAsReported
<1>. DEFINE Inv == ShellInv /\ FileInv
<1>1. Init => Inv
  BY ShellInitInv, FileInitInv DEF Init
<1>2. Inv /\ [Next]_vars => Inv'
  <2>1. [Next]_vars => [ShellNext]_shellVars
    BY DEF Next, vars
  <2>. QED BY <2>1, ShellStepInv, FileStepInv
<1>3. FileInv => FileAsWritten
  BY FileIsWritten
<1>4. FileAsWritten /\ DockerWritten => WrittenAsReported
  BY DEF WrittenAsReported
<1>. QED BY <1>1, <1>2, <1>3, <1>4, DockerWrittenAlways, PTL DEF Spec
=============================================================================
