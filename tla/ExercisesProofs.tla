-------------------------- MODULE ExercisesProofs ---------------------------
(***************************************************************************)
(* Proofs about the list macros, for every set of elements, and about the  *)
(* small programs: the system call exercises, the threading exercise for   *)
(* every number of threads and every wait, and the writer for every number *)
(* of writers and every set of paths.                                      *)
(***************************************************************************)
EXTENDS Slist, SystemCalls, Threading, Writer, SlistLemmas, FiniteSetTheorems

(***************************************************************************)
(* System calls: the text of the caller                                    *)
(***************************************************************************)
ExLines == {"caller", "output_file"}

(* The caller's line, once and first. *)
CallerFirst(s) ==
  /\ s \in Seq(ExLines) /\ Len(s) > 0 /\ s[1] = "caller"
  /\ \A i \in 2..Len(s) : s[i] = "output_file"

ExTypes ==
  /\ exPc = [p \in ExProcs |-> exPc[p]]
  /\ exBuf \in [ExProcs -> Seq(ExLines)]
  /\ exFd \in [ExProcs -> {"out", "file"}]
  /\ exWritten \in [out : Seq(ExLines), file : Seq({"output_file"})]

(* Until the fflush the caller's line is in the parent's buffer or, if     *)
(* stdout is not buffered, written; after it no buffer holds it.           *)
ExTextInv ==
  /\ ExTypes
  /\ exPc["parent"] = "call" =>
       /\ exPc["child"] = "none" /\ exFd["parent"] = "out" /\ exBuf["child"] = << >>
       /\ CallerFirst(exWritten.out \o exBuf["parent"])
  /\ exPc["parent"] # "call" =>
       CallerFirst(exWritten.out) /\ exBuf \in [ExProcs -> Seq({"output_file"})]

(* Lines that are not the caller's may follow.                             *)
LEMMA CallerFirstAppend ==
  ASSUME NEW s, CallerFirst(s), NEW t \in Seq({"output_file"})
  PROVE  CallerFirst(s \o t)
<1>1. s \in Seq(ExLines) /\ t \in Seq(ExLines)
  BY DEF CallerFirst, ExLines
<1>2. s \o t \in Seq(ExLines) /\ Len(s \o t) = Len(s) + Len(t)
  BY <1>1
<1>3. \A i \in 1..Len(t) : t[i] = "output_file"
  OBVIOUS
<1> QED BY <1>1, <1>2, <1>3 DEF CallerFirst

(* Process p exits after the fflush. *)
LEMMA ExExitKeepsText ==
  ASSUME NEW p \in ExProcs, NEW from, NEW status, ExTextInv, from \notin {"call", "none"},
         ExExit(p, from, status)
  PROVE  ExTextInv'
<1>1. /\ exPc[p] = from /\ exPc' = [exPc EXCEPT ![p] = "dead"]
      /\ exWritten' = [exWritten EXCEPT ![exFd[p]] = @ \o exBuf[p] \o << >>]
      /\ exBuf' = [exBuf EXCEPT ![p] = << >>] /\ UNCHANGED exFd
  BY DEF ExExit, ExGoto, ExWrites
<1>2. /\ exPc["parent"] # "call" /\ CallerFirst(exWritten.out)
      /\ exBuf \in [ExProcs -> Seq({"output_file"})]
  BY <1>1 DEF ExTextInv, ExTypes, ExProcs
<1>3. exPc' = [q \in ExProcs |-> exPc'[q]] /\ exPc'["parent"] # "call"
  BY <1>1, <1>2 DEF ExTextInv, ExTypes, ExProcs
<1>4. exBuf' \in [ExProcs -> Seq({"output_file"})]
  BY <1>1, <1>2
<1>5. /\ CallerFirst(exWritten'.out)
      /\ exWritten' \in [out : Seq(ExLines), file : Seq({"output_file"})]
  <2>1. exBuf[p] \o << >> \in Seq({"output_file"}) /\ exFd[p] \in {"out", "file"}
    BY <1>2 DEF ExTextInv, ExTypes
  <2>2. exWritten \in [out : Seq(ExLines), file : Seq({"output_file"})]
    BY DEF ExTextInv, ExTypes
  <2>3. CASE exFd[p] = "out"
    <3>1. exWritten' = [out |-> exWritten.out \o exBuf[p] \o << >>, file |-> exWritten.file]
      BY <1>1, <2>2, <2>3
    <3>2. exWritten.out \o exBuf[p] \o << >> = exWritten.out \o exBuf[p]
      BY <1>2, <2>2 DEF ExLines
    <3>3. CallerFirst(exWritten.out \o exBuf[p])
      BY <1>2, CallerFirstAppend
    <3> QED BY <2>2, <3>1, <3>2, <3>3 DEF CallerFirst
  <2>4. CASE exFd[p] = "file"
    <3>1. exWritten' = [out |-> exWritten.out, file |-> exWritten.file \o exBuf[p] \o << >>]
      BY <1>1, <2>2, <2>4
    <3> QED BY <1>2, <2>2, <3>1
  <2> QED BY <2>1, <2>3, <2>4
<1>6. exBuf' \in [ExProcs -> Seq(ExLines)]
  BY <1>4 DEF ExLines
<1> QED BY <1>1, <1>3, <1>4, <1>5, <1>6 DEF ExTextInv, ExTypes

(* The call returns after the fflush. *)
LEMMA ExReturnKeepsText ==
  ASSUME NEW p \in ExProcs, NEW from, NEW ret, ExTextInv, from \notin {"call", "none"},
         ExReturn(p, from, ret)
  PROVE  ExTextInv'
<1>1. /\ exPc[p] = from /\ exPc' = [exPc EXCEPT ![p] = "caller"]
      /\ UNCHANGED <<exBuf, exFd, exWritten>>
  BY DEF ExReturn, ExGoto
<1>2. exPc["parent"] # "call"
  BY <1>1 DEF ExTextInv, ExTypes, ExProcs
<1>3. exPc' = [q \in ExProcs |-> exPc'[q]] /\ exPc'["parent"] # "call"
  BY <1>1, <1>2 DEF ExTextInv, ExTypes, ExProcs
<1> QED BY <1>1, <1>2, <1>3 DEF ExTextInv, ExTypes

(* The fflush before fork. *)
LEMMA ExFlushKeepsText ==
  ASSUME ExTextInv, ExFlush
  PROVE  ExTextInv'
<1> DEFINE line == IF exFn = "do_exec_redirect" THEN <<"output_file">> ELSE << >>
           now == IF exBuffered THEN << >> ELSE line
           later == IF exBuffered THEN line ELSE << >>
<1>1. /\ exPc["parent"] = "call" /\ exPc' = [exPc EXCEPT !["parent"] = "fork"]
      /\ exWritten' = [exWritten EXCEPT !["out"] = @ \o exBuf["parent"] \o now]
      /\ exBuf' = [exBuf EXCEPT !["parent"] = later]
      /\ UNCHANGED exFd
  BY DEF ExFlush, ExGoto
<1>2. now \in Seq({"output_file"}) /\ later \in Seq({"output_file"})
  <2>1. << >> \in Seq({"output_file"}) /\ <<"output_file">> \in Seq({"output_file"})
    OBVIOUS
  <2>2. line \in Seq({"output_file"})
    BY <2>1
  <2> QED BY <2>1, <2>2
<1> HIDE DEF line, now, later
<1>3. /\ exPc["child"] = "none" /\ exBuf["child"] = << >>
      /\ CallerFirst(exWritten.out \o exBuf["parent"])
  BY <1>1 DEF ExTextInv
<1>4. CallerFirst((exWritten.out \o exBuf["parent"]) \o now)
  BY <1>2, <1>3, CallerFirstAppend
<1>5. exWritten' = [out |-> (exWritten.out \o exBuf["parent"]) \o now, file |-> exWritten.file]
  BY <1>1 DEF ExTextInv, ExTypes
<1>6. exBuf' \in [ExProcs -> Seq({"output_file"})]
  BY <1>1, <1>2, <1>3 DEF ExTextInv, ExTypes, ExProcs
<1>7. exBuf' \in [ExProcs -> Seq(ExLines)]
  BY <1>6 DEF ExLines
<1>8. exPc' = [q \in ExProcs |-> exPc'[q]] /\ exPc'["parent"] = "fork"
  BY <1>1 DEF ExTextInv, ExTypes, ExProcs
<1>9. exWritten' \in [out : Seq(ExLines), file : Seq({"output_file"})]
  BY <1>4, <1>5 DEF CallerFirst, ExTextInv, ExTypes
<1> QED BY <1>1, <1>4, <1>5, <1>6, <1>7, <1>8, <1>9 DEF ExTextInv, ExTypes

(* The steps that move no text: fork copies an empty or harmless buffer,   *)
(* execv drops it.                                                         *)
LEMMA ExOthersKeepText ==
  ASSUME ExTextInv, ExFork \/ ExRedirect \/ ExExecv \/ ExCommandEnds
  PROVE  ExTextInv'
<1>1. CASE ExFork
  <2>1. /\ exPc["parent"] = "fork"
        /\ exBuf' = [exBuf EXCEPT !["child"] = exBuf["parent"]]
        /\ exPc' = [parent |-> "wait", child |-> IF exFn = "do_exec" THEN "exec" ELSE "open"]
        /\ UNCHANGED <<exFd, exWritten>>
    BY <1>1 DEF ExFork
  <2>2. /\ CallerFirst(exWritten.out)
        /\ exBuf' \in [ExProcs -> Seq({"output_file"})]
        /\ exBuf' \in [ExProcs -> Seq(ExLines)]
    BY <2>1 DEF ExTextInv, ExTypes, ExProcs, ExLines
  <2>3. exPc' = [q \in ExProcs |-> exPc'[q]] /\ exPc'["parent"] # "call"
    BY <2>1 DEF ExProcs
  <2> QED BY <2>1, <2>2, <2>3 DEF ExTextInv, ExTypes
<1>2. CASE ExRedirect \/ ExExecv \/ ExCommandEnds
  <2>1. /\ exPc["child"] \in {"open", "exec", "command"}
        /\ \E pc : exPc' = [exPc EXCEPT !["child"] = pc]
        /\ exFd' = exFd \/ exFd' = [exFd EXCEPT !["child"] = "file"]
        /\ exBuf' = exBuf \/ exBuf' = [exBuf EXCEPT !["child"] = << >>]
        /\ UNCHANGED exWritten
    <3>1. CASE ExRedirect
      BY <3>1 DEF ExRedirect, ExGoto
    <3>2. CASE ExExecv
      BY <3>2 DEF ExExecv, ExGoto
    <3>3. CASE ExCommandEnds
      BY <3>3 DEF ExCommandEnds, ExGoto
    <3> QED BY <1>2, <3>1, <3>2, <3>3
  <2>2. exPc["parent"] # "call" /\ exBuf \in [ExProcs -> Seq({"output_file"})]
    BY <2>1 DEF ExTextInv
  <2>3. exPc' = [q \in ExProcs |-> exPc'[q]] /\ exPc'["parent"] # "call"
    BY <2>1, <2>2 DEF ExTextInv, ExTypes, ExProcs
  <2>4. exFd' \in [ExProcs -> {"out", "file"}]
    BY <2>1 DEF ExTextInv, ExTypes
  <2>5. exBuf' \in [ExProcs -> Seq({"output_file"})]
    <3>1. << >> \in Seq({"output_file"})
      OBVIOUS
    <3> QED BY <2>1, <2>2, <3>1
  <2>6. exBuf' \in [ExProcs -> Seq(ExLines)]
    BY <2>5 DEF ExLines
  <2> QED BY <2>1, <2>2, <2>3, <2>4, <2>5, <2>6 DEF ExTextInv, ExTypes
<1> QED BY <1>1, <1>2

(* Every step keeps the invariant of the text.                             *)
LEMMA ExNextKeepsText ==
  ASSUME ExTextInv, [ExNext]_exVars
  PROVE  ExTextInv'
<1>1. CASE ExSystem
  BY <1>1, ExReturnKeepsText DEF ExSystem, ExProcs
<1>2. CASE ExForkFails
  BY <1>2, ExReturnKeepsText, ExExitKeepsText DEF ExForkFails, ExProcs
<1>3. CASE ExRedirectFails
  BY <1>3, ExExitKeepsText DEF ExRedirectFails, ExProcs
<1>4. CASE ExExecvFails
  <2>1. ExReturn("child", "exec", "false") /\ "child" \in ExProcs
    BY <1>4 DEF ExExecvFails, ExProcs
  <2> QED BY <2>1, ExReturnKeepsText
<1>5. CASE ExWait
  <2>1. ExReturn("parent", "wait", ExResultOf(exStatus)) /\ "parent" \in ExProcs
    BY <1>5 DEF ExWait, ExProcs
  <2> QED BY <2>1, ExReturnKeepsText
<1>6. CASE ExWaitFails
  <2>1. PICK status : ExReturn("parent", "wait", ExResultOf(status))
    BY <1>6 DEF ExWaitFails
  <2>2. "parent" \in ExProcs
    BY DEF ExProcs
  <2> QED BY <2>1, <2>2, ExReturnKeepsText
<1>7. ASSUME NEW p \in ExProcs, ExCallerExits(p) PROVE ExTextInv'
  BY <1>7, ExExitKeepsText DEF ExCallerExits
<1>8. CASE UNCHANGED exVars
  BY <1>8 DEF exVars, ExTextInv, ExTypes
<1> QED
  BY <1>1, <1>2, <1>3, <1>4, <1>5, <1>6, <1>7, <1>8, ExFlushKeepsText, ExOthersKeepText DEF ExNext

(* It holds in the beginning, buffered or not.                             *)
LEMMA ExInitText == ExInit => ExTextInv
<1> SUFFICES ASSUME ExInit PROVE ExTextInv
  OBVIOUS
<1>1. /\ exPc = [p \in ExProcs |-> exPc[p]]
      /\ exPc["parent"] = "call" /\ exPc["child"] = "none"
  BY DEF ExInit, ExProcs
<1>2. exFd \in [ExProcs -> {"out", "file"}] /\ exFd["parent"] = "out"
  BY DEF ExInit, ExProcs
<1>e. /\ << >> \in Seq(ExLines) /\ <<"caller">> \in Seq(ExLines)
      /\ << >> \in Seq({"output_file"})
  BY DEF ExLines
<1>3. exBuf \in [ExProcs -> Seq(ExLines)] /\ exBuf["child"] = << >>
  <2>1. CASE exBuffered
    <3>1. exBuf = [parent |-> <<"caller">>, child |-> << >>]
      BY <2>1 DEF ExInit
    <3>2. /\ exBuf = [q \in ExProcs |-> exBuf[q]]
          /\ exBuf["parent"] = <<"caller">> /\ exBuf["child"] = << >>
      BY <3>1 DEF ExProcs
    <3>3. \A q \in ExProcs : exBuf[q] \in Seq(ExLines)
      BY <1>e, <3>2 DEF ExProcs
    <3> QED BY <3>2, <3>3
  <2>2. CASE ~exBuffered
    <3>1. exBuf = [parent |-> << >>, child |-> << >>]
      BY <2>2 DEF ExInit
    <3>2. /\ exBuf = [q \in ExProcs |-> exBuf[q]]
          /\ exBuf["parent"] = << >> /\ exBuf["child"] = << >>
      BY <3>1 DEF ExProcs
    <3>3. \A q \in ExProcs : exBuf[q] \in Seq(ExLines)
      BY <1>e, <3>2 DEF ExProcs
    <3> QED BY <3>2, <3>3
  <2> QED BY <2>1, <2>2
<1>4. exWritten \in [out : Seq(ExLines), file : Seq({"output_file"})]
  <2>1. CASE exBuffered
    <3>1. exWritten = [out |-> << >>, file |-> << >>]
      BY <2>1 DEF ExInit
    <3> QED BY <1>e, <3>1
  <2>2. CASE ~exBuffered
    <3>1. exWritten = [out |-> <<"caller">>, file |-> << >>]
      BY <2>2 DEF ExInit
    <3> QED BY <1>e, <3>1
  <2> QED BY <2>1, <2>2
<1>5. exWritten.out \o exBuf["parent"] = <<"caller">>
  <2>1. << >> \o <<"caller">> = <<"caller">> /\ <<"caller">> \o << >> = <<"caller">>
    OBVIOUS
  <2>2. /\ exWritten.out = IF exBuffered THEN << >> ELSE <<"caller">>
        /\ exBuf["parent"] = IF exBuffered THEN <<"caller">> ELSE << >>
    BY DEF ExInit
  <2> QED BY <2>1, <2>2
<1>6. CallerFirst(<<"caller">>)
  BY DEF CallerFirst, ExLines
<1> QED BY <1>1, <1>2, <1>3, <1>4, <1>5, <1>6 DEF ExTextInv, ExTypes

(* What the caller had printed is written to its stdout once, and never to *)
(* the file of do_exec_redirect, whichever of fork, open, execv and        *)
(* waitpid fails and whoever exits first: fflush empties the buffer before *)
(* fork copies it.                                                         *)
THEOREM CallerTextIsOnce == ExSpec => []CallerTextOnce
<1>1. ExTextInv => CallerTextOnce
  <2> SUFFICES ASSUME ExTextInv PROVE CallerTextOnce
    OBVIOUS
  <2>1. Occurrences("caller", exWritten.file) = {}
    BY DEF ExTextInv, ExTypes, Occurrences
  <2>2. CASE exPc["parent"] = "call"
    <3>1. CallerFirst(exWritten.out \o exBuf["parent"])
      BY <2>2 DEF ExTextInv
    <3>2. exWritten.out \in Seq(ExLines) /\ exBuf["parent"] \in Seq(ExLines)
      BY DEF ExTextInv, ExTypes, ExProcs
    <3>3. \A i \in 1..Len(exWritten.out) : exWritten.out[i] = "caller" => i = 1
      <4> DEFINE s == exWritten.out
                 t == exBuf["parent"]
      <4> HIDE DEF s, t
      <4>0. s \in Seq(ExLines) /\ t \in Seq(ExLines)
        BY <3>2 DEF s, t
      <4>1. /\ Len(s \o t) = Len(s) + Len(t) /\ Len(s) \in Nat /\ Len(t) \in Nat
            /\ \A i \in 1..Len(s) : (s \o t)[i] = s[i]
        BY <4>0
      <4>2. \A i \in 2..Len(s \o t) : (s \o t)[i] = "output_file"
        BY <3>1 DEF CallerFirst, s, t
      <4>3. \A i \in 1..Len(s) : i # 1 => s[i] = "output_file"
        BY <4>1, <4>2
      <4> QED BY <4>3 DEF s
    <3> QED BY <2>1, <2>2, <3>3 DEF CallerTextOnce, Occurrences
  <2>3. CASE exPc["parent"] # "call"
    <3>1. CallerFirst(exWritten.out)
      BY <2>3 DEF ExTextInv
    <3>2. \A i \in 1..Len(exWritten.out) : exWritten.out[i] = "caller" <=> i = 1
      BY <3>1 DEF CallerFirst
    <3>3. 1 \in 1..Len(exWritten.out)
      BY <3>1 DEF CallerFirst
    <3> QED BY <2>1, <3>2, <3>3 DEF CallerTextOnce, Occurrences
  <2> QED BY <2>2, <2>3
<1> QED BY <1>1, ExInitText, ExNextKeepsText, PTL DEF ExSpec

(***************************************************************************)
(* System calls: what the call returns                                     *)
(***************************************************************************)
(* Where the two processes are, what has become of the command, and what   *)
(* the child's status says of it until waitpid takes it.                   *)
ExResultInv ==
  /\ exPc = [p \in ExProcs |-> exPc[p]] /\ exRet = [p \in ExProcs |-> exRet[p]]
  /\ exPc["parent"] \in {"call", "fork"} => exPc["child"] = "none"
  /\ exPc["parent"] \in {"call", "fork", "wait"} =>
       exRet["parent"] = "none" /\ exStatus # "reaped"
  /\ exFn = "do_system" => exPc["child"] = "none" /\ exPc["parent"] # "wait"
  /\ exFn # "do_system" =>
       /\ exPc["child"] \notin {"command", "dead"} => exCommand = "not_run"
       /\ exPc["child"] = "command" => exCommand = "running"
       /\ exStatus # "reaped" =>
            (exCommand = "succeeded" => exStatus = "exit0") /\ (exCommand = "failed" => exStatus = "exit1")
       /\ exStatus = "reaped" => exPc["child"] = "dead"
  /\ ExitCodeReported

(* The steps of the parent: the call, fork and waitpid.                    *)
LEMMA ExParentKeepsResult ==
  ASSUME ExResultInv, ExFlush \/ ExSystem \/ ExFork \/ ExForkFails \/ ExWait \/ ExWaitFails
  PROVE  ExResultInv'
<1>1. CASE ExFlush
  BY <1>1 DEF ExFlush, ExGoto, ExResultInv, ExitCodeReported, ExProcs
<1>2. CASE ExSystem
  BY <1>2 DEF ExSystem, ExReturn, ExGoto, ExResultInv, ExitCodeReported, ExProcs
<1>3. CASE ExFork
  BY <1>3 DEF ExFork, ExResultInv, ExitCodeReported, ExProcs
<1>4. CASE ExForkFails
  BY <1>4 DEF ExForkFails, ExReturn, ExExit, ExGoto, ExResultInv, ExitCodeReported, ExProcs
<1>5. CASE ExWait
  BY <1>5 DEF ExWait, ExResultOf, ExReturn, ExGoto, ExResultInv, ExitCodeReported, ExProcs
<1>6. CASE ExWaitFails
  BY <1>6 DEF ExWaitFails, ExReturn, ExGoto, ExResultInv, ExitCodeReported, ExProcs
<1> QED BY <1>1, <1>2, <1>3, <1>4, <1>5, <1>6

(* The steps of the child and of the command.                              *)
LEMMA ExChildKeepsResult ==
  ASSUME ExResultInv, ExRedirect \/ ExRedirectFails \/ ExExecv \/ ExExecvFails \/ ExCommandEnds
  PROVE  ExResultInv'
<1>1. CASE ExRedirect
  BY <1>1 DEF ExRedirect, ExGoto, ExResultInv, ExitCodeReported, ExProcs
<1>2. CASE ExRedirectFails
  BY <1>2 DEF ExRedirectFails, ExExit, ExGoto, ExResultInv, ExitCodeReported, ExProcs
<1>3. CASE ExExecv
  BY <1>3 DEF ExExecv, ExGoto, ExResultInv, ExitCodeReported, ExProcs
<1>4. CASE ExExecvFails
  BY <1>4 DEF ExExecvFails, ExReturn, ExGoto, ExResultInv, ExitCodeReported, ExProcs
<1>5. CASE ExCommandEnds
  BY <1>5 DEF ExCommandEnds, ExGoto, ExResultInv, ExitCodeReported, ExProcs
<1> QED BY <1>1, <1>2, <1>3, <1>4, <1>5

(* The caller exits, in either process.                                    *)
LEMMA ExCallerKeepsResult ==
  ASSUME ExResultInv, NEW p \in ExProcs, ExCallerExits(p)
  PROVE  ExResultInv'
BY DEF ExCallerExits, ExExit, ExGoto, ExResultInv, ExitCodeReported, ExProcs

(* do_system returns true just for a command that exited with 0, and so    *)
(* does do_exec for a command that exited and that its waitpid took, in    *)
(* every order in which the child and the parent may run.                  *)
THEOREM ExitCodeIsReported == ExSpec => []ExitCodeReported
<1>1. ExInit => ExResultInv
  BY DEF ExInit, ExResultInv, ExitCodeReported, ExProcs
<1>2. ExResultInv /\ [ExNext]_exVars => ExResultInv'
  <2> SUFFICES ASSUME ExResultInv, [ExNext]_exVars PROVE ExResultInv'
    OBVIOUS
  <2>1. CASE UNCHANGED exVars
    BY <2>1 DEF exVars, ExResultInv, ExitCodeReported
  <2> QED
    BY <2>1, ExParentKeepsResult, ExChildKeepsResult, ExCallerKeepsResult DEF ExNext
<1>3. ExResultInv => ExitCodeReported
  BY DEF ExResultInv
<1> QED BY <1>1, <1>2, <1>3, PTL DEF ExSpec

(***************************************************************************)
(* Threading                                                               *)
(***************************************************************************)
(* A thread holds the mutex from its lock to its unlock, and sleeps until  *)
(* the whole seconds of its wait_to_release have passed since the lock.    *)
ThHoldInv ==
  /\ thNow \in Nat /\ thSince \in [ThThreads -> Nat] /\ thWake \in [ThThreads -> Nat]
  /\ thPc = [t \in ThThreads |-> thPc[t]] /\ thData = [t \in ThThreads |-> thData[t]]
  /\ \A t \in ThThreads :
       thPc[t] \in {"started", "obtaining", "holding", "returned"} =>
         thData[t] \in [wait_to_obtain : Waits, wait_to_release : Waits,
                        thread_complete_success : BOOLEAN]
  /\ \A t \in ThThreads :
       thPc[t] = "holding" =>
         thMutex = t /\ thWake[t] = thSince[t] + Slept(thData[t].wait_to_release)

(* The time slept is less than a second shorter than the wait.             *)
LEMMA SleptIsNat ==
  ASSUME NEW w \in Waits
  PROVE  Slept(w) \in Nat /\ Slept(w) + Second > w
<1>1. w \in Nat /\ Second \in Nat /\ Second > 0
  BY ThreadingAssumption
<1>2. w \div Second \in Nat /\ w = Second * (w \div Second) + (w % Second) /\ w % Second \in 0 .. Second - 1
  BY <1>1
<1>3. (w \div Second) * Second \in Nat /\ Second * (w \div Second) = (w \div Second) * Second
  BY <1>1, <1>2
<1> DEFINE s == (w \div Second) * Second
<1>4. s \in Nat /\ w = s + (w % Second)
  BY <1>2, <1>3
<1> HIDE DEF s
<1>5. s + Second > w
  BY <1>1, <1>2, <1>4
<1> QED BY <1>4, <1>5 DEF Slept, s

(* The steps of a thread: nobody else obtains the mutex while it is held.  *)
LEMMA ThThreadKeepsHold ==
  ASSUME ThHoldInv, NEW t \in ThThreads,
         \/ ThStart(t) \/ ThStartFails(t) \/ ThSleep(t) \/ ThLock(t) \/ ThLockFails(t)
         \/ ThUnlock(t) \/ ThUnlockFails(t) \/ ThJoin(t)
  PROVE  ThHoldInv'
<1>f. "free" \notin ThThreads
  BY ThreadingAssumption
<1>1. CASE ThStart(t)
  <2>1. PICK o, r \in Waits :
          thData' = [thData EXCEPT ![t] = [wait_to_obtain |-> o, wait_to_release |-> r,
                                           thread_complete_success |-> FALSE]]
    BY <1>1 DEF ThStart
  <2>2. /\ thPc' = [thPc EXCEPT ![t] = "started"]
        /\ UNCHANGED <<thNow, thMutex, thWake, thSince>>
    BY <1>1 DEF ThStart, ThGoto
  <2>3. /\ thData'[t] \in [wait_to_obtain : Waits, wait_to_release : Waits,
                            thread_complete_success : BOOLEAN]
        /\ \A u \in ThThreads : u # t => thData'[u] = thData[u]
        /\ thData' = [u \in ThThreads |-> thData'[u]]
    BY <2>1 DEF ThHoldInv
  <2> QED BY <2>2, <2>3 DEF ThHoldInv
<1>2. CASE ThStartFails(t)
  BY <1>2 DEF ThStartFails, ThGoto, ThHoldInv
<1>3. CASE ThSleep(t)
  <2>1. Slept(thData[t].wait_to_obtain) \in Nat
    BY <1>3, SleptIsNat DEF ThSleep, ThGoto, ThHoldInv
  <2> QED BY <1>3, <2>1 DEF ThSleep, ThGoto, ThHoldInv
<1>4. CASE ThLock(t)
  <2>1. Slept(thData[t].wait_to_release) \in Nat
    BY <1>4, SleptIsNat DEF ThLock, ThGoto, ThHoldInv
  <2> QED BY <1>4, <1>f, <2>1 DEF ThLock, ThGoto, ThHoldInv
<1>5. CASE ThLockFails(t)
  BY <1>5 DEF ThLockFails, ThReturn, ThGoto, ThHoldInv
<1>6. CASE ThUnlock(t)
  BY <1>6 DEF ThUnlock, ThReturn, ThGoto, ThHoldInv
<1>7. CASE ThUnlockFails(t)
  BY <1>7 DEF ThUnlockFails, ThReturn, ThGoto, ThHoldInv
<1>8. CASE ThJoin(t)
  BY <1>8 DEF ThJoin, ThGoto, ThHoldInv
<1> QED BY <1>1, <1>2, <1>3, <1>4, <1>5, <1>6, <1>7, <1>8

(* Every step keeps the invariant of the mutex.                            *)
LEMMA ThNextKeepsHold ==
  ASSUME ThHoldInv, [ThNext]_thVars
  PROVE  ThHoldInv'
<1>1. CASE ThTick
  BY <1>1 DEF ThTick, ThHoldInv
<1>2. CASE UNCHANGED thVars
  BY <1>2 DEF thVars, ThHoldInv
<1> QED BY <1>1, <1>2, ThThreadKeepsHold DEF ThNext, ThRun

(* The only step from "holding" to a return with success is the unlock. *)
LEMMA ThUnlockIsLate ==
  ASSUME ThHoldInv, [ThNext]_thVars, NEW t \in ThThreads,
         thPc[t] = "holding", thPc'[t] = "returned", thData'[t].thread_complete_success
  PROVE  thMutex = t /\ thNow - thSince[t] + Second > thData[t].wait_to_release
<1>1. Awake(t)
  <2>1. ASSUME NEW u \in ThThreads,
               \/ ThStart(u) \/ ThStartFails(u) \/ ThSleep(u) \/ ThLock(u) \/ ThLockFails(u)
               \/ ThUnlock(u) \/ ThUnlockFails(u) \/ ThJoin(u)
        PROVE  Awake(t)
    <3>1. u = t
      BY <2>1 DEF ThStart, ThStartFails, ThSleep, ThLock, ThLockFails, ThUnlock, ThUnlockFails,
                  ThJoin, ThReturn, ThGoto, ThHoldInv
    <3> QED
      BY <2>1, <3>1 DEF ThStart, ThStartFails, ThSleep, ThLock, ThLockFails, ThUnlock,
                        ThUnlockFails, ThJoin, ThReturn, ThGoto, ThHoldInv
  <2>2. ~ThTick /\ ~UNCHANGED thVars
    BY DEF ThTick, thVars
  <2> QED BY <2>1, <2>2 DEF ThNext, ThRun
<1> DEFINE w == thData[t].wait_to_release
<1>2. w \in Waits
  BY DEF ThHoldInv
<1>3. thMutex = t /\ thWake[t] = thSince[t] + Slept(w) /\ thNow >= thWake[t]
  BY <1>1 DEF Awake, ThHoldInv
<1>4. thNow \in Nat /\ thSince[t] \in Nat /\ thWake[t] \in Nat
  BY DEF ThHoldInv
<1> HIDE DEF w
<1>5. Slept(w) \in Nat /\ Slept(w) + Second > w /\ w \in Nat /\ Second \in Nat
  BY <1>2, SleptIsNat, ThreadingAssumption
<1>6. thNow - thSince[t] >= Slept(w)
  BY <1>3, <1>4, <1>5
<1>7. thNow - thSince[t] + Second > w
  BY <1>4, <1>5, <1>6
<1> QED BY <1>3, <1>7 DEF w

(* A thread that reports success has held the mutex from its lock on, for  *)
(* more than wait_to_release_ms less one second, however many threads      *)
(* compete for it and whichever of their locks and unlocks fail.           *)
THEOREM HoldsAlmostAsAsked == ThSpec => ThHoldsAlmostAsAsked
<1>1. ThInit => ThHoldInv
  BY DEF ThInit, ThHoldInv
<1>2. ThHoldInv /\ [ThNext]_thVars => ThHoldInv'
  BY ThNextKeepsHold
<1>3. ThHoldInv /\ [ThNext]_thVars =>
        [\A t \in ThThreads :
           thPc[t] = "holding" /\ thPc'[t] = "returned" /\ thData'[t].thread_complete_success =>
             thMutex = t /\ thNow - thSince[t] + Second > thData[t].wait_to_release]_thVars
  BY ThUnlockIsLate
<1> QED BY <1>1, <1>2, <1>3, PTL DEF ThSpec, ThHoldsAlmostAsAsked

(***************************************************************************)
(* Writer                                                                  *)
(***************************************************************************)
(* The first k names of the path of w. *)
Ancestor(w, k) == SubSeq(FilePath(w), 1, k)

WrTypes ==
  /\ wrPath \in [Writers -> Paths]
  /\ wrFiles \in [AllPaths -> Writers \cup {"absent", "empty", "old"}]
  /\ wrPc = [w \in Writers |-> wrPc[w]] /\ wrLevel \in [Writers -> Nat]

(* What is above a directory is a directory. *)
WrTree == << >> \in wrDirs /\ \A d \in wrDirs : Prefixes(d) \subseteq wrDirs

(* The levels that the loop of create_directories has dealt with exist,    *)
(* and a writer that has opened its file did so in a directory.            *)
WrLevelOK(w) ==
  /\ wrPc[w] \in {"stat", "mkdir"} =>
       /\ wrPath[w].slash /\ wrLevel[w] >= 1
       /\ wrLevel[w] = 1 \/ wrLevel[w] < Len(FilePath(w))
       /\ \A k \in 1 .. wrLevel[w] - 1 : Exists(Ancestor(w, k))
  /\ wrPc[w] = "fopen" => \A k \in 1 .. Len(FilePath(w)) - 1 : Exists(Ancestor(w, k))
  /\ wrPc[w] \in {"write", "created", "created_short"} =>
       Prefixes(Parent(FilePath(w))) \subseteq wrDirs

WrOwnData(w) ==
  wrPc[w] \in {"write", "created", "created_short"} =>
    /\ wrFiles[FilePath(w)] # "absent"
    /\ (\A u \in Writers : FilePath(u) = FilePath(w) => u = w) =>
         wrFiles[FilePath(w)] = IF wrPc[w] = "created" THEN w ELSE "empty"

WrReason(w) ==
  \/ EmptyName(w) \/ FilePath(w) \in wrDirs
  \/ \E p \in Prefixes(Parent(FilePath(w))) \cup {<< >>} : p \in Denied
  \/ \E p \in Prefixes(Parent(FilePath(w))) : wrFiles[p] # "absent"

WrInv ==
  /\ WrTypes /\ WrTree
  /\ \A w \in Writers : WrLevelOK(w) /\ WrOwnData(w) /\ (wrPc[w] = "failed" => WrReason(w))

(* A prefix of a prefix is a prefix.                                       *)
LEMMA PrefixOfPrefix ==
  ASSUME NEW S, NEW s \in Seq(S), NEW k \in 0..Len(s), NEW j \in 0..k
  PROVE  /\ SubSeq(s, 1, k) \in Seq(S) /\ Len(SubSeq(s, 1, k)) = k
         /\ SubSeq(SubSeq(s, 1, k), 1, j) = SubSeq(s, 1, j)
<1>1. /\ SubSeq(s, 1, k) \in Seq(S) /\ Len(SubSeq(s, 1, k)) = k
      /\ \A i \in 1..k : SubSeq(s, 1, k)[i] = s[i]
  OBVIOUS
<1>2. /\ SubSeq(s, 1, j) \in Seq(S) /\ Len(SubSeq(s, 1, j)) = j
      /\ \A i \in 1..j : SubSeq(s, 1, j)[i] = s[i]
  OBVIOUS
<1> DEFINE t == SubSeq(s, 1, k)
<1>3. /\ SubSeq(t, 1, j) \in Seq(S) /\ Len(SubSeq(t, 1, j)) = j
      /\ \A i \in 1..j : SubSeq(t, 1, j)[i] = t[i]
  <2> HIDE DEF t
  <2> QED BY <1>1 DEF t
<1> QED BY <1>1, <1>2, <1>3

(* What is above a writer's file: its ancestors, and their parents and     *)
(* prefixes.                                                               *)
LEMMA AncestorsAre ==
  ASSUME WrTypes, NEW w \in Writers
  PROVE  /\ wrPath[w].slash \in BOOLEAN /\ Len(FilePath(w)) \in Nat /\ Len(FilePath(w)) > 0
         /\ Len(FilePath(w)) > 1 => wrPath[w].slash
         /\ FilePath(w) \in AllPaths
         /\ Ancestor(w, 0) = << >>
         /\ Parent(FilePath(w)) = Ancestor(w, Len(FilePath(w)) - 1)
         /\ \A k \in 1..Len(FilePath(w)) :
              Ancestor(w, k) \in AllPaths /\ Parent(Ancestor(w, k)) = Ancestor(w, k - 1)
         /\ \A k \in 0..Len(FilePath(w)) :
              Prefixes(Ancestor(w, k)) = {Ancestor(w, j) : j \in 1..k}
<1> DEFINE s == FilePath(w)
           n == Len(s)
<1>1. wrPath[w] \in Paths /\ s = wrPath[w].names
  BY DEF WrTypes, FilePath
<1>2. /\ wrPath[w].slash \in BOOLEAN /\ s \in Seq(STRING) /\ n \in Nat /\ n > 0
      /\ n > 1 => wrPath[w].slash
  <2>0. wrPath[w] \in [slash : BOOLEAN, names : Seq(STRING)]
    BY <1>1, WriterAssumption
  <2>1. wrPath[w].slash \in BOOLEAN /\ s \in Seq(STRING)
    BY <1>1, <2>0
  <2> QED BY <1>1, <2>1, WriterAssumption
<1>a. \A k : Ancestor(w, k) = SubSeq(s, 1, k)
  BY DEF Ancestor
<1>p. Prefixes(s) \subseteq AllPaths
  BY <1>1 DEF AllPaths
<1> HIDE DEF s
<1>3. \A k \in 0..n : /\ SubSeq(s, 1, k) \in Seq(STRING) /\ Len(SubSeq(s, 1, k)) = k
                     /\ \A j \in 0..k : SubSeq(SubSeq(s, 1, k), 1, j) = SubSeq(s, 1, j)
  BY <1>2, PrefixOfPrefix
<1>4. SubSeq(s, 1, n) = s /\ SubSeq(s, 1, 0) = << >>
  BY <1>2
<1>5. s \in AllPaths
  <2>1. s \in Prefixes(s)
    <3>1. n \in 1..Len(s)
      BY <1>2
    <3>2. SubSeq(s, 1, n) \in Prefixes(s)
      BY <3>1 DEF Prefixes
    <3> QED BY <1>4, <3>2
  <2> QED BY <1>p, <2>1
<1>6. \A k \in 1..n : SubSeq(s, 1, k) \in AllPaths
  BY <1>p DEF Prefixes
<1>7. \A k \in 1..n : Parent(SubSeq(s, 1, k)) = SubSeq(s, 1, k - 1)
  BY <1>2, <1>3 DEF Parent
<1>8. \A k \in 0..n : Prefixes(SubSeq(s, 1, k)) = {SubSeq(s, 1, j) : j \in 1..k}
  <2> SUFFICES ASSUME NEW k \in 0..n
               PROVE  Prefixes(SubSeq(s, 1, k)) = {SubSeq(s, 1, j) : j \in 1..k}
    OBVIOUS
  <2>1. Len(SubSeq(s, 1, k)) = k /\ \A j \in 1..k : SubSeq(SubSeq(s, 1, k), 1, j) = SubSeq(s, 1, j)
    <3>1. \A j \in 1..k : j \in 0..k
      BY <1>2
    <3> QED BY <1>3, <3>1
  <2>2. Prefixes(SubSeq(s, 1, k)) = {SubSeq(SubSeq(s, 1, k), 1, j) : j \in 1..k}
    BY <2>1 DEF Prefixes
  <2>3. {SubSeq(SubSeq(s, 1, k), 1, j) : j \in 1..k} = {SubSeq(s, 1, j) : j \in 1..k}
    BY <2>1
  <2> QED BY <2>2, <2>3
<1>9. Parent(s) = SubSeq(s, 1, n - 1)
  BY DEF Parent
<1> QED BY ZenonT(40), <1>2, <1>4, <1>5, <1>6, <1>7, <1>8, <1>9, <1>a DEF s

(* Directories and files are created and never removed, and w writes to    *)
(* its own file only.                                                      *)
WrGrows(w) ==
  /\ UNCHANGED wrPath /\ wrDirs \subseteq wrDirs'
  /\ wrPc' = [wrPc EXCEPT ![w] = wrPc'[w]] /\ wrLevel' = [wrLevel EXCEPT ![w] = wrLevel'[w]]
  /\ wrLevel'[w] \in Nat
  /\ \/ UNCHANGED wrFiles
     \/ wrFiles' = [wrFiles EXCEPT ![FilePath(w)] = "empty"]
     \/ wrFiles' = [wrFiles EXCEPT ![FilePath(w)] = w]

WrStep(w) ==
  \/ WrStat(w) \/ WrMkdir(w) \/ WrMkdirExists(w) \/ WrMkdirFails(w)
  \/ WrFopen(w) \/ WrFopenFails(w) \/ WrWrite(w) \/ WrWriteFails(w)

(* No step of a writer removes anything.                                   *)
LEMMA WrStepGrows ==
  ASSUME WrTypes, NEW w \in Writers, WrStep(w)
  PROVE  WrGrows(w)
<1>1. wrLevel[w] \in Nat
  BY DEF WrTypes
<1>2. ASSUME NextLevel(w)
      PROVE  /\ UNCHANGED wrPath /\ wrPc' = [wrPc EXCEPT ![w] = wrPc'[w]]
             /\ wrLevel' = [wrLevel EXCEPT ![w] = wrLevel'[w]] /\ wrLevel'[w] \in Nat
  BY <1>1, <1>2 DEF NextLevel, WrTypes
<1>3. ASSUME NEW r, wrPc' = [wrPc EXCEPT ![w] = r] /\ UNCHANGED <<wrPath, wrLevel>>
      PROVE  /\ UNCHANGED wrPath /\ wrPc' = [wrPc EXCEPT ![w] = wrPc'[w]]
             /\ wrLevel' = [wrLevel EXCEPT ![w] = wrLevel'[w]] /\ wrLevel'[w] \in Nat
  BY <1>1, <1>3 DEF WrTypes
<1>4. CASE WrStat(w)
  BY <1>2, <1>3, <1>4 DEF WrStat, Result, WrGrows
<1>5. CASE WrMkdir(w)
  BY <1>2, <1>5 DEF WrMkdir, WrGrows
<1>6. CASE WrMkdirExists(w)
  BY <1>2, <1>6 DEF WrMkdirExists, WrGrows
<1>7. CASE WrMkdirFails(w)
  BY <1>3, <1>7 DEF WrMkdirFails, Result, WrGrows
<1>8. CASE WrFopen(w)
  BY <1>3, <1>8 DEF WrFopen, Result, WrGrows
<1>9. CASE WrFopenFails(w)
  BY <1>3, <1>9 DEF WrFopenFails, Result, WrGrows
<1>10. CASE WrWrite(w)
  BY <1>3, <1>10 DEF WrWrite, Result, WrGrows
<1>11. CASE WrWriteFails(w)
  BY <1>3, <1>11 DEF WrWriteFails, Result, WrGrows
<1> QED BY <1>4, <1>5, <1>6, <1>7, <1>8, <1>9, <1>10, <1>11 DEF WrStep

(* What exists goes on existing. *)
LEMMA WrExistsStays ==
  ASSUME WrTypes, NEW w \in Writers, WrGrows(w)
  PROVE  /\ WrTypes'
         /\ \A p \in AllPaths : wrFiles[p] # "absent" => wrFiles'[p] # "absent"
         /\ \A p \in AllPaths : Exists(p) => Exists(p)'
         /\ \A u \in Writers : FilePath(u)' = FilePath(u)
<1>1. FilePath(w) \in AllPaths /\ w # "absent"
  BY AncestorsAre, WriterAssumption
<1>2. \A u \in Writers : FilePath(u)' = FilePath(u)
  BY DEF WrGrows, FilePath
<1>3. WrTypes'
  BY <1>1 DEF WrTypes, WrGrows
<1>4. \A p \in AllPaths : wrFiles[p] # "absent" => wrFiles'[p] # "absent"
  BY <1>1 DEF WrTypes, WrGrows
<1> QED BY <1>2, <1>3, <1>4 DEF Exists, WrGrows

(* The other writers are not disturbed. *)
LEMMA WrOthersStay ==
  ASSUME WrInv, NEW w \in Writers, WrGrows(w), NEW u \in Writers,
         u # w \/ (wrPc'[w] = wrPc[w] /\ wrLevel'[w] = wrLevel[w] /\ UNCHANGED wrFiles)
  PROVE  WrLevelOK(u)' /\ WrOwnData(u)' /\ (wrPc'[u] = "failed" => WrReason(u)')
<1> USE DEF WrInv
<1>1. /\ \A p \in AllPaths : wrFiles[p] # "absent" => wrFiles'[p] # "absent"
      /\ \A p \in AllPaths : Exists(p) => Exists(p)'
      /\ \A v \in Writers : FilePath(v)' = FilePath(v)
  BY WrExistsStays
<1>2. wrPc'[u] = wrPc[u] /\ wrLevel'[u] = wrLevel[u] /\ wrPath'[u] = wrPath[u] /\ wrDirs \subseteq wrDirs'
  BY DEF WrGrows, WrTypes
<1>a. /\ \A k : Ancestor(u, k)' = Ancestor(u, k)
      /\ \A k \in 1..Len(FilePath(u)) : Ancestor(u, k) \in AllPaths
      /\ Prefixes(Parent(FilePath(u))) \subseteq AllPaths
      /\ Len(FilePath(u)) \in Nat /\ Len(FilePath(u)) > 0 /\ FilePath(u) \in AllPaths
  <2>1. /\ \A k \in 1..Len(FilePath(u)) : Ancestor(u, k) \in AllPaths
        /\ Len(FilePath(u)) \in Nat /\ Len(FilePath(u)) > 0 /\ FilePath(u) \in AllPaths
        /\ wrPath[u].slash \in BOOLEAN
    BY AncestorsAre
  <2>2. Prefixes(Parent(FilePath(u))) = {Ancestor(u, j) : j \in 1 .. Len(FilePath(u)) - 1}
    BY AncestorsAre
  <2>3. \A k : Ancestor(u, k)' = Ancestor(u, k)
    BY <1>1 DEF Ancestor
  <2>4. \A j \in 1 .. Len(FilePath(u)) - 1 : Ancestor(u, j) \in AllPaths
    BY <2>1
  <2> QED BY <2>1, <2>2, <2>3, <2>4
<1>3. WrLevelOK(u)'
  <2>1. WrLevelOK(u) /\ wrLevel[u] \in Nat
    BY DEF WrTypes
  <2>2. CASE wrPc[u] \in {"stat", "mkdir"}
    <3>1. \A k \in 1 .. wrLevel[u] - 1 : k \in 1..Len(FilePath(u))
      BY <1>a, <2>1, <2>2 DEF WrLevelOK
    <3>2. \A k \in 1 .. wrLevel[u] - 1 : Exists(Ancestor(u, k))'
      BY <1>1, <1>a, <2>1, <2>2, <3>1 DEF WrLevelOK, Exists
    <3> QED BY <1>1, <1>2, <2>1, <2>2, <3>2 DEF WrLevelOK
  <2>3. CASE wrPc[u] = "fopen"
    <3>1. \A k \in 1 .. Len(FilePath(u)) - 1 : Exists(Ancestor(u, k))'
      BY <1>1, <1>a, <2>1, <2>3 DEF WrLevelOK, Exists
    <3> QED BY <1>1, <1>2, <2>3, <3>1 DEF WrLevelOK
  <2> QED BY <1>1, <1>2, <2>1, <2>2, <2>3 DEF WrLevelOK
<1>4. WrOwnData(u)'
  BY <1>1, <1>2, <1>a DEF WrOwnData, WrTypes, WrGrows
<1>5. WrReason(u) => WrReason(u)'
  BY <1>1, <1>2, <1>a DEF WrReason, EmptyName
<1> QED BY <1>2, <1>3, <1>4, <1>5

(* A writer goes on to the next level when the directory of this one       *)
(* exists, whoever created it.                                             *)
LEMMA WrNextLevelOK ==
  ASSUME WrInv, NEW w \in Writers, WrGrows(w), NextLevel(w),
         wrPc[w] \in {"stat", "mkdir"}, ~EmptyName(w),
         Dir(w) \in wrDirs' \/ wrFiles'[Dir(w)] # "absent"
  PROVE  WrLevelOK(w)' /\ WrOwnData(w)' /\ wrPc'[w] # "failed"
<1> DEFINE n == Len(FilePath(w))
           v == wrLevel[w]
<1>0. WrTypes /\ WrLevelOK(w)
  BY DEF WrInv
<1>1. n \in Nat /\ n > 1 /\ v \in 1 .. n - 1
  <2>1. n \in Nat /\ n > 0 /\ wrPath[w].slash /\ v \in Nat /\ v >= 1 /\ (v = 1 \/ v < n)
    BY <1>0, AncestorsAre DEF WrLevelOK, WrTypes
  <2>2. n # 1
    BY <2>1 DEF EmptyName
  <2> HIDE DEF n, v
  <2> QED BY <2>1, <2>2
<1>2. /\ wrPc'[w] = IF v < n - 1 THEN "stat" ELSE "fopen"
      /\ wrLevel'[w] = v + 1 /\ UNCHANGED wrPath
  BY <1>0 DEF NextLevel, WrTypes
<1>3. /\ \A p \in AllPaths : Exists(p) => Exists(p)'
      /\ FilePath(w)' = FilePath(w)
  BY <1>0, WrExistsStays
<1>4. \A k \in 1..v : Exists(Ancestor(w, k))'
  <2>1. \A k \in 1..v : Ancestor(w, k) \in AllPaths /\ Ancestor(w, k)' = Ancestor(w, k)
    <3>1. \A k : Ancestor(w, k)' = Ancestor(w, k)
      BY <1>3 DEF Ancestor
    <3>2. \A k \in 1..n : Ancestor(w, k) \in AllPaths
      BY <1>0, AncestorsAre
    <3> QED BY <1>1, <3>1, <3>2
  <2>2. \A k \in 1 .. v - 1 : Exists(Ancestor(w, k))
    BY <1>0 DEF WrLevelOK
  <2>3. Dir(w) = Ancestor(w, v)
    BY DEF Dir, Ancestor
  <2>4. \A k \in 1 .. v - 1 : Exists(Ancestor(w, k))'
    BY <1>1, <1>3, <2>1, <2>2 DEF Exists
  <2> QED BY <1>1, <2>1, <2>3, <2>4 DEF Exists
<1> QED
  BY <1>1, <1>2, <1>3, <1>4, <1>0 DEF WrLevelOK, WrOwnData

(* The steps of create_directories. *)
LEMMA WrDirectorySteps ==
  ASSUME WrInv, NEW w \in Writers, WrGrows(w),
         WrStat(w) \/ WrMkdir(w) \/ WrMkdirExists(w) \/ WrMkdirFails(w)
  PROVE  WrTree' /\ WrLevelOK(w)' /\ WrOwnData(w)' /\ (wrPc'[w] = "failed" => WrReason(w)')
<1> DEFINE n == Len(FilePath(w))
           v == wrLevel[w]
<1>0. WrTypes /\ WrLevelOK(w) /\ WrTree
  BY DEF WrInv
<1>d. Dir(w) = Ancestor(w, v)
  BY DEF Dir, Ancestor
<1>n. n \in Nat /\ n > 0 /\ v \in Nat
  BY <1>0, AncestorsAre DEF WrTypes
<1>v. wrPc[w] \in {"stat", "mkdir"} /\ ~EmptyName(w) => n > 1 /\ v \in 1 .. n - 1
  <2>1. wrPc[w] \in {"stat", "mkdir"} /\ ~EmptyName(w) => n # 1 /\ v >= 1 /\ (v = 1 \/ v < n)
    BY <1>0 DEF WrLevelOK, EmptyName
  <2> HIDE DEF n, v
  <2> QED BY <1>n, <2>1
<1>u. ASSUME UNCHANGED wrDirs PROVE WrTree'
  BY <1>0, <1>u DEF WrTree
<1>1. CASE WrStat(w)
  <2>1. CASE ~EmptyName(w) /\ Exists(Dir(w))
    BY <1>1, <1>u, <2>1, WrNextLevelOK DEF WrStat, Exists
  <2>2. CASE ~(~EmptyName(w) /\ Exists(Dir(w)))
    <3>1. wrPc' = [wrPc EXCEPT ![w] = "mkdir"] /\ UNCHANGED <<wrPath, wrLevel, wrDirs, wrFiles>>
      BY <1>1, <2>2 DEF WrStat, Result
    <3>2. wrPc[w] = "stat" /\ wrPc'[w] = "mkdir"
      BY <1>0, <1>1, <3>1 DEF WrTypes, WrStat
    <3>3. WrLevelOK(w)'
      BY <1>0, <3>1, <3>2 DEF WrLevelOK, FilePath, Exists, Ancestor
    <3> QED BY <1>u, <3>1, <3>2, <3>3 DEF WrOwnData
  <2> QED BY <2>1, <2>2
<1>2. CASE WrMkdir(w)
  <2>1. /\ wrPc[w] = "mkdir" /\ ~EmptyName(w) /\ Creatable(Dir(w))
        /\ wrDirs' = wrDirs \cup {Dir(w)} /\ NextLevel(w)
    BY <1>2 DEF WrMkdir
  <2>2. WrLevelOK(w)' /\ WrOwnData(w)' /\ wrPc'[w] # "failed"
    BY <2>1, WrNextLevelOK
  <2>3. Prefixes(Dir(w)) \subseteq wrDirs'
    <3>1. v \in 1..n
      BY <1>n, <1>v, <2>1
    <3>2. /\ Prefixes(Ancestor(w, v)) = {Ancestor(w, j) : j \in 1..v}
          /\ Prefixes(Ancestor(w, v - 1)) = {Ancestor(w, j) : j \in 1 .. v - 1}
          /\ Parent(Ancestor(w, v)) = Ancestor(w, v - 1)
      <4>1. v \in 0..n /\ v - 1 \in 0..n
        BY <1>n, <3>1
      <4> QED BY <1>0, <3>1, <4>1, AncestorsAre
    <3>3. Prefixes(Ancestor(w, v - 1)) \subseteq wrDirs
      BY <1>0, <1>d, <2>1, <3>2 DEF Creatable, WrTree
    <3>4. \A j \in 1..v : j = v \/ j \in 1 .. v - 1
      BY <1>n
    <3> QED BY <1>d, <2>1, <3>2, <3>3, <3>4
  <2>4. WrTree'
    BY <1>0, <2>1, <2>3 DEF WrTree
  <2> QED BY <2>2, <2>4
<1>3. CASE WrMkdirExists(w)
  BY <1>3, <1>u, WrNextLevelOK DEF WrMkdirExists, Exists
<1>4. CASE WrMkdirFails(w)
  <2>1. /\ wrPc[w] = "mkdir" /\ wrPc' = [wrPc EXCEPT ![w] = "failed"]
        /\ UNCHANGED <<wrPath, wrLevel, wrDirs, wrFiles>>
    BY <1>4 DEF WrMkdirFails, Result
  <2>2. wrPc'[w] = "failed"
    BY <1>0, <2>1 DEF WrTypes
  <2>3. WrReason(w)
    <3>1. CASE EmptyName(w)
      BY <3>1 DEF WrReason
    <3>2. CASE ~EmptyName(w)
      <4>1. Parent(Dir(w)) \notin wrDirs \/ Parent(Dir(w)) \in Denied
        BY <1>4, <3>2 DEF WrMkdirFails, Creatable
      <4>2. v \in 1..n /\ v \in 1 .. n - 1
        BY <1>n, <1>v, <2>1, <3>2
      <4>3. /\ Parent(Dir(w)) = Ancestor(w, v - 1)
            /\ Prefixes(Parent(FilePath(w))) = {Ancestor(w, j) : j \in 1 .. n - 1}
            /\ Ancestor(w, 0) = << >>
        <5>1. n - 1 \in 0..n
          BY <1>n
        <5> QED BY <1>0, <1>d, <4>2, <5>1, AncestorsAre
      <4>4. CASE v = 1
        BY <1>0, <4>1, <4>3, <4>4 DEF WrTree, WrReason
      <4>5. CASE v # 1
        <5>1. v - 1 \in 1 .. n - 1 /\ v - 1 \in 1 .. v - 1
          BY <1>n, <4>2, <4>5
        <5>2. Exists(Ancestor(w, v - 1))
          BY <1>0, <2>1, <5>1 DEF WrLevelOK
        <5>3. Ancestor(w, v - 1) \in Prefixes(Parent(FilePath(w)))
          BY <4>3, <5>1
        <5> QED BY <4>1, <4>3, <5>2, <5>3 DEF Exists, WrReason
      <4> QED BY <4>4, <4>5
    <3> QED BY <3>1, <3>2
  <2>4. WrReason(w)'
    BY <2>1, <2>3 DEF WrReason, FilePath, EmptyName
  <2> QED BY <1>u, <2>1, <2>2, <2>4 DEF WrLevelOK, WrOwnData
<1> QED BY <1>1, <1>2, <1>3, <1>4

(* The steps of create_file. *)
LEMMA WrFileSteps ==
  ASSUME WrInv, NEW w \in Writers, WrGrows(w),
         WrFopen(w) \/ WrFopenFails(w) \/ WrWrite(w) \/ WrWriteFails(w)
  PROVE  WrTree' /\ WrLevelOK(w)' /\ WrOwnData(w)' /\ (wrPc'[w] = "failed" => WrReason(w)')
<1> DEFINE n == Len(FilePath(w))
<1>0. WrTypes /\ WrLevelOK(w) /\ WrTree /\ WrOwnData(w)
  BY DEF WrInv
<1>n. n \in Nat /\ n > 0 /\ FilePath(w) \in AllPaths
  BY <1>0, AncestorsAre
<1>a. /\ Parent(FilePath(w)) = Ancestor(w, n - 1)
      /\ Prefixes(Parent(FilePath(w))) = {Ancestor(w, j) : j \in 1 .. n - 1}
      /\ Ancestor(w, 0) = << >>
  <2>1. n - 1 \in 0..n
    BY <1>n
  <2> QED BY <1>0, <2>1, AncestorsAre
<1>f. FilePath(w)' = FilePath(w)
  BY <1>0, WrExistsStays
<1>u. ASSUME UNCHANGED wrDirs PROVE WrTree'
  BY <1>0, <1>u DEF WrTree
<1>w. w # "absent"
  BY WriterAssumption
<1>1. CASE WrFopen(w)
  <2>1. /\ Parent(FilePath(w)) \in wrDirs /\ UNCHANGED wrDirs
        /\ wrPc' = [wrPc EXCEPT ![w] = "write"]
        /\ wrFiles' = [wrFiles EXCEPT ![FilePath(w)] = "empty"]
    BY <1>1 DEF WrFopen, Openable, Result
  <2>2. wrPc'[w] = "write" /\ wrFiles'[FilePath(w)] = "empty"
    BY <1>0, <1>n, <2>1 DEF WrTypes
  <2>3. Prefixes(Parent(FilePath(w))) \subseteq wrDirs
    BY <1>0, <2>1 DEF WrTree
  <2> QED BY <1>f, <1>u, <2>1, <2>2, <2>3 DEF WrLevelOK, WrOwnData
<1>2. CASE WrFopenFails(w)
  <2>1. /\ wrPc[w] = "fopen" /\ ~Openable(FilePath(w))
        /\ wrPc' = [wrPc EXCEPT ![w] = "failed"] /\ UNCHANGED <<wrPath, wrDirs, wrFiles>>
    BY <1>2 DEF WrFopenFails, Result
  <2>2. wrPc'[w] = "failed"
    BY <1>0, <2>1 DEF WrTypes
  <2>3. WrReason(w)
    <3>1. CASE n = 1
      BY <1>0, <1>a, <2>1, <3>1 DEF Openable, WrTree, WrReason
    <3>2. CASE n # 1
      <4>1. n - 1 \in 1 .. n - 1
        <5> HIDE DEF n
        <5> QED BY <1>n, <3>2
      <4>2. Exists(Ancestor(w, n - 1))
        BY <1>0, <2>1, <4>1 DEF WrLevelOK
      <4>3. Ancestor(w, n - 1) \in Prefixes(Parent(FilePath(w)))
        BY <1>a, <4>1
      <4> QED BY <1>a, <2>1, <4>2, <4>3 DEF Exists, Openable, WrReason
    <3> QED BY <3>1, <3>2
  <2>4. WrReason(w)'
    BY <2>1, <2>3 DEF WrReason, FilePath, EmptyName
  <2> QED BY <1>u, <2>1, <2>2, <2>4 DEF WrLevelOK, WrOwnData
<1>3. CASE WrWrite(w)
  <2>1. /\ wrPc[w] = "write" /\ wrPc' = [wrPc EXCEPT ![w] = "created"]
        /\ wrFiles' = [wrFiles EXCEPT ![FilePath(w)] = w] /\ UNCHANGED wrDirs
    BY <1>3 DEF WrWrite, Result
  <2>2. wrPc'[w] = "created" /\ wrFiles'[FilePath(w)] = w
    BY <1>0, <1>n, <2>1 DEF WrTypes
  <2> QED BY <1>0, <1>f, <1>u, <1>w, <2>1, <2>2 DEF WrLevelOK, WrOwnData
<1>4. CASE WrWriteFails(w)
  <2>1. /\ wrPc[w] = "write" /\ wrPc' = [wrPc EXCEPT ![w] = "created_short"]
        /\ UNCHANGED <<wrDirs, wrFiles, wrPath>>
    BY <1>4 DEF WrWriteFails, Result
  <2>2. wrPc'[w] = "created_short"
    BY <1>0, <2>1 DEF WrTypes
  <2> QED BY <1>0, <1>f, <1>u, <2>1, <2>2 DEF WrLevelOK, WrOwnData, FilePath
<1> QED BY <1>1, <1>2, <1>3, <1>4

(* Every step keeps the invariant of the writers.                          *)
LEMMA WrNextKeepsInv ==
  ASSUME WrInv, [WrNext]_wrVars
  PROVE  WrInv'
<1>1. ASSUME NEW w \in Writers, WrStep(w) PROVE WrInv'
  <2>0. WrTypes
    BY DEF WrInv
  <2>1. WrGrows(w)
    BY <1>1, <2>0, WrStepGrows
  <2>2. WrTypes'
    BY <2>0, <2>1, WrExistsStays
  <2>3. WrTree' /\ WrLevelOK(w)' /\ WrOwnData(w)' /\ (wrPc'[w] = "failed" => WrReason(w)')
    BY <1>1, <2>1, WrDirectorySteps, WrFileSteps DEF WrStep
  <2>4. \A u \in Writers : u # w =>
          WrLevelOK(u)' /\ WrOwnData(u)' /\ (wrPc'[u] = "failed" => WrReason(u)')
    BY <2>1, WrOthersStay
  <2> QED BY <2>2, <2>3, <2>4 DEF WrInv
<1>2. CASE UNCHANGED wrVars
  BY <1>2 DEF wrVars, WrInv, WrTypes, WrTree, WrLevelOK, WrOwnData, WrReason, FilePath, Exists,
              Ancestor, EmptyName
<1> QED BY <1>1, <1>2 DEF WrNext, WrStep

(* It holds before the first stat.                                         *)
LEMMA WrInitInv == WrInit => WrInv
<1> SUFFICES ASSUME WrInit PROVE WrInv
  OBVIOUS
<1>1. WrTypes
  BY DEF WrInit, WrTypes
<1>2. WrTree
  BY DEF WrInit, WrTree, Prefixes
<1>3. ASSUME NEW w \in Writers
      PROVE  WrLevelOK(w) /\ WrOwnData(w) /\ (wrPc[w] = "failed" => WrReason(w))
  <2>1. /\ wrPc[w] = IF wrPath[w].slash THEN "stat" ELSE "fopen"
        /\ wrLevel[w] = 1
    BY DEF WrInit
  <2>2. Len(FilePath(w)) \in Nat /\ (Len(FilePath(w)) > 1 => wrPath[w].slash)
    BY <1>1, AncestorsAre
  <2> QED BY <2>1, <2>2 DEF WrLevelOK, WrOwnData
<1> QED BY <1>1, <1>2, <1>3 DEF WrInv

(* A writer that reports success has its file below directories that       *)
(* exist, however many other writers create, find or race for the same     *)
(* directories, for every set of paths; the file holds its data if fprintf *)
(* and fclose have succeeded and no other writer has the same file.        *)
THEOREM CreatedIsThere == WrSpec => []WrCreatedIsThere
<1>1. WrInv => WrCreatedIsThere
  <2> SUFFICES ASSUME WrInv, NEW w \in Writers, wrPc[w] \in {"created", "created_short"}
               PROVE  /\ \A p \in Prefixes(Parent(FilePath(w))) : p \in wrDirs
                      /\ wrFiles[FilePath(w)] # "absent"
                      /\ (\A u \in Writers : FilePath(u) = FilePath(w) => u = w) =>
                           wrFiles[FilePath(w)] = IF wrPc[w] = "created" THEN w ELSE "empty"
    BY DEF WrCreatedIsThere
  <2> QED BY DEF WrInv, WrLevelOK, WrOwnData
<1> QED BY <1>1, WrInitInv, WrNextKeepsInv, PTL DEF WrSpec

(* A writer only fails for a reason of its own path: the stat and mkdir of *)
(* different writers may interleave in any way, and a directory that       *)
(* somebody else creates in between is never an error.                     *)
THEOREM FailsForAReason == WrSpec => []WrFailsForAReason
<1>1. WrInv => WrFailsForAReason
  BY DEF WrInv, WrReason, WrFailsForAReason
<1> QED BY <1>1, WrInitInv, WrNextKeepsInv, PTL DEF WrSpec

(***************************************************************************)
(* The list macros                                                         *)
(***************************************************************************)
(* s has the elements of the list in the order of their links. *)
IsOrder(l, s) ==
  /\ s \in Seq(Elems) /\ Reach(l) = {s[i] : i \in 1..Len(s)}
  /\ \A i, j \in 1..Len(s) : s[i] = s[j] => i = j
  /\ l.first = IF Len(s) = 0 THEN NULL ELSE s[1]
  /\ \A i \in 1..Len(s) : l.next[s[i]] = IF i < Len(s) THEN s[i + 1] ELSE NULL

(* AsSeq finds the order, which is unique: the elements at which two       *)
(* orders agree are closed under the links.                                *)
LEMMA AsSeqIs ==
  ASSUME NEW l, IsList(l, Elems), NEW s, IsOrder(l, s)
  PROVE  AsSeq(l) = s
<1> DEFINE n == Len(s)
           Follows(t) == \A i \in 1..n : t[i] = IF i = 1 THEN l.first ELSE l.next[t[i - 1]]
<1>1. /\ s \in Seq(Elems) /\ n \in Nat /\ Reach(l) = {s[i] : i \in 1..n}
      /\ \A i, j \in 1..n : s[i] = s[j] => i = j
  BY DEF IsOrder
<1>2. s \in [1..n -> Reach(l)]
  <2>1. s \in [1..n -> Elems]
    BY <1>1
  <2> HIDE DEF n
  <2> QED BY <1>1, <2>1
<1>3. Cardinality(Reach(l)) = n
  <2>1. s \in Bijection(1..n, Reach(l))
    <3> HIDE DEF n
    <3>1. DOMAIN s = 1..n /\ \A t \in Reach(l) : \E i \in 1..n : s[i] = t
      BY <1>1, <1>2
    <3> QED BY <1>1, <1>2, <3>1 DEF Bijection, Injection, Surjection, IsInjective
  <2>2. ExistsBijection(1..n, Reach(l))
    BY <2>1 DEF ExistsBijection
  <2> HIDE DEF n
  <2> QED BY <1>1, <2>2, FS_CountingElements
<1>4. Follows(s)
  BY <1>1 DEF IsOrder
<1>5. AsSeq(l) = CHOOSE t \in [1..n -> Reach(l)] : Follows(t)
  BY <1>3 DEF AsSeq, SLIST_FIRST, SLIST_NEXT
<1>6. ASSUME NEW t \in [1..n -> Reach(l)], Follows(t)
      PROVE  t = s
  <2> DEFINE S == {s[i] : i \in {j \in 1..n : t[j] = s[j]}}
  <2>1. S \subseteq Elems
    BY <1>1
  <2>2. Closed(l, S)
    <3>1. l.first # NULL => l.first \in S
      <4>1. SUFFICES ASSUME l.first # NULL PROVE l.first \in S
        OBVIOUS
      <4>2. n # 0 /\ l.first = s[1]
        BY <4>1 DEF IsOrder
      <4>3. 1 \in 1..n /\ t[1] = s[1]
        BY <1>1, <1>6, <4>2
      <4> QED BY <4>2, <4>3
    <3>2. ASSUME NEW i \in 1..n, t[i] = s[i], l.next[s[i]] # NULL
          PROVE  l.next[s[i]] \in S
      <4>1. i < n /\ l.next[s[i]] = s[i + 1]
        BY <3>2 DEF IsOrder
      <4>2. i + 1 \in 1..n /\ i + 1 # 1 /\ (i + 1) - 1 = i
        BY <1>1, <4>1
      <4>3. t[i + 1] = l.next[t[i]]
        BY <1>6, <4>2
      <4> QED BY <3>2, <4>1, <4>2, <4>3
    <3> QED BY <3>1, <3>2 DEF Closed
  <2>3. Reach(l) \subseteq S
    BY <2>1, <2>2, ReachLeast
  <2>4. \A i \in 1..n : t[i] = s[i]
    <3> SUFFICES ASSUME NEW i \in 1..n PROVE t[i] = s[i]
      OBVIOUS
    <3>1. s[i] \in S
      BY <1>1, <2>3
    <3>2. PICK j \in 1..n : t[j] = s[j] /\ s[i] = s[j]
      BY <3>1
    <3> QED BY <1>1, <3>2
  <2> QED BY <1>2, <2>4
<1>7. \E t \in [1..n -> Reach(l)] : Follows(t)
  BY <1>2, <1>4
<1> HIDE DEF Follows, n
<1> QED BY <1>5, <1>6, <1>7

(* An ordered list is a chain. *)
LEMMA OrderIsChain ==
  ASSUME NEW l, IsList(l, Elems), NEW s, IsOrder(l, s)
  PROVE  IsChain(l)
<1> DEFINE n == Len(s)
<1>1. /\ s \in Seq(Elems) /\ n \in Nat /\ NULL \notin Elems
      /\ Reach(l) = {s[i] : i \in 1..n} /\ \A i \in 1..n : s[i] \in Elems
  BY ElemsAssumption DEF IsOrder
<1>2. /\ \A i, j \in 1..n : s[i] = s[j] => i = j
      /\ l.first = IF n = 0 THEN NULL ELSE s[1]
      /\ \A i \in 1..n : l.next[s[i]] = IF i < n THEN s[i + 1] ELSE NULL
  BY DEF IsOrder
<1> HIDE DEF n
<1>3. \A i, j \in 1..n : l.next[s[i]] = l.next[s[j]] => i = j
  BY <1>1, <1>2
<1>4. \A i \in 1..n : l.next[s[i]] # l.first
  BY <1>1, <1>2
<1> QED BY <1>1, <1>3, <1>4 DEF IsChain

(* SLIST_INSERT_HEAD puts its element in front.                            *)
LEMMA InsertOrder ==
  ASSUME NEW l, IsList(l, Elems), NEW s, IsOrder(l, s), NEW e \in Elems, e \notin Reach(l)
  PROVE  IsOrder(SLIST_INSERT_HEAD(l, e), <<e>> \o s)
<1> DEFINE m == SLIST_INSERT_HEAD(l, e)
           t == <<e>> \o s
           n == Len(s)
<1>1. /\ s \in Seq(Elems) /\ n \in Nat /\ Reach(l) = {s[i] : i \in 1..n}
      /\ \A i, j \in 1..n : s[i] = s[j] => i = j
      /\ l.first = IF n = 0 THEN NULL ELSE s[1]
      /\ \A i \in 1..n : l.next[s[i]] = IF i < n THEN s[i + 1] ELSE NULL
      /\ \A i \in 1..n : s[i] \in Elems
  BY DEF IsOrder
<1>2. /\ t \in Seq(Elems) /\ Len(t) = n + 1 /\ t[1] = e
      /\ \A i \in 1..n : t[i + 1] = s[i]
  BY <1>1
<1>3. Reach(m) = Reach(l) \cup {e} /\ m.first = e
  BY InsertHead
<1>4. m.next[e] = l.first /\ \A c \in Elems : c # e => m.next[c] = l.next[c]
  BY DEF SLIST_INSERT_HEAD, IsList
<1> HIDE DEF m, t, n
<1>5. \A i \in 1 .. n + 1 : i = 1 \/ (i - 1 \in 1..n /\ t[i] = s[i - 1])
  BY <1>1, <1>2
<1>6. \A i \in 1..n : s[i] # e
  BY <1>1
<1>7. Reach(m) = {t[i] : i \in 1 .. n + 1}
  <2>1. \A i \in 1 .. n + 1 : t[i] \in Reach(m)
    BY <1>1, <1>2, <1>3, <1>5
  <2>2. ASSUME NEW c \in Reach(m) PROVE \E i \in 1 .. n + 1 : t[i] = c
    <3>1. CASE c = e
      BY <1>1, <1>2, <3>1
    <3>2. CASE c # e
      <4>1. PICK i \in 1..n : s[i] = c
        BY <1>1, <1>3, <3>2
      <4>2. i + 1 \in 1 .. n + 1 /\ t[i + 1] = c
        BY <1>1, <1>2, <4>1
      <4> QED BY <4>2
    <3> QED BY <3>1, <3>2
  <2> QED BY <2>1, <2>2
<1>8. \A i, j \in 1 .. n + 1 : t[i] = t[j] => i = j
  <2> SUFFICES ASSUME NEW i \in 1 .. n + 1, NEW j \in 1 .. n + 1, t[i] = t[j] PROVE i = j
    OBVIOUS
  <2>1. CASE i = 1 \/ j = 1
    BY <1>2, <1>5, <1>6, <2>1
  <2>2. CASE i # 1 /\ j # 1
    BY <1>1, <1>5, <2>2
  <2> QED BY <2>1, <2>2
<1>9. \A i \in 1 .. n + 1 : m.next[t[i]] = IF i < n + 1 THEN t[i + 1] ELSE NULL
  <2> SUFFICES ASSUME NEW i \in 1 .. n + 1
               PROVE  m.next[t[i]] = IF i < n + 1 THEN t[i + 1] ELSE NULL
    OBVIOUS
  <2>1. CASE i = 1
    BY <1>1, <1>2, <1>4, <2>1
  <2>2. CASE i # 1
    <3>1. i - 1 \in 1..n /\ t[i] = s[i - 1] /\ m.next[t[i]] = l.next[s[i - 1]]
      BY <1>1, <1>4, <1>5, <1>6, <2>2
    <3>2. l.next[s[i - 1]] = IF i - 1 < n THEN s[i] ELSE NULL
      BY <1>1, <3>1
    <3>3. i < n + 1 => t[i + 1] = s[i]
      BY <1>1, <1>2
    <3> QED BY <1>1, <3>1, <3>2, <3>3
  <2> QED BY <2>1, <2>2
<1> QED BY <1>1, <1>2, <1>3, <1>7, <1>8, <1>9 DEF IsOrder, m, t, n

(* The sequence without its k-th element, index by index.                  *)
LEMMA RemoveAtIs ==
  ASSUME NEW S, NEW s \in Seq(S), NEW k \in 1..Len(s)
  PROVE  /\ Ordered!RemoveAt(s, k) \in Seq(S) /\ Len(Ordered!RemoveAt(s, k)) = Len(s) - 1
         /\ \A i \in 1 .. Len(s) - 1 :
              Ordered!RemoveAt(s, k)[i] = IF i < k THEN s[i] ELSE s[i + 1]
<1> DEFINE n == Len(s)
           a == SubSeq(s, 1, k - 1)
           b == SubSeq(s, k + 1, Len(s))
<1>1. n \in Nat /\ k \in Nat /\ k >= 1 /\ k <= n
  OBVIOUS
<1>2. a \in Seq(S) /\ Len(a) = k - 1 /\ \A i \in 1 .. k - 1 : a[i] = s[i]
  BY <1>1
<1>3. b \in Seq(S) /\ Len(b) = n - k /\ \A i \in 1 .. n - k : b[i] = s[i + k]
  BY <1>1
<1>4. Ordered!RemoveAt(s, k) = a \o b
  BY DEF Ordered!RemoveAt
<1> HIDE DEF a, b, n
<1>5. /\ a \o b \in Seq(S) /\ Len(a \o b) = n - 1
      /\ \A i \in 1 .. n - 1 : (a \o b)[i] = IF i < k THEN a[i] ELSE b[i - (k - 1)]
  <2>1. a \in Seq(S) /\ b \in Seq(S) /\ Len(a) \in Nat /\ Len(b) \in Nat
    BY <1>2, <1>3
  <2>2. a \o b \in Seq(S) /\ Len(a \o b) = Len(a) + Len(b)
    BY <2>1
  <2>3. \A i \in 1 .. Len(a) + Len(b) : (a \o b)[i] = IF i <= Len(a) THEN a[i] ELSE b[i - Len(a)]
    BY <2>1
  <2>4. Len(a) + Len(b) = n - 1 /\ \A i \in 1 .. n - 1 : i <= k - 1 <=> i < k
    BY <1>1, <1>2, <1>3
  <2>5. Len(a) = k - 1
    BY <1>2
  <2> QED BY <2>2, <2>3, <2>4, <2>5
<1>6. ASSUME NEW i \in 1 .. n - 1 PROVE (a \o b)[i] = IF i < k THEN s[i] ELSE s[i + 1]
  <2>1. CASE i < k
    BY <1>1, <1>2, <1>5, <2>1
  <2>2. CASE ~(i < k)
    <3>1. i - (k - 1) \in 1 .. n - k /\ i - (k - 1) + k = i + 1
      BY <1>1, <2>2
    <3> QED BY <1>3, <1>5, <2>2, <3>1
  <2> QED BY <2>1, <2>2
<1> QED BY <1>4, <1>5, <1>6 DEF n

(* SLIST_REMOVE takes out its element and keeps the order of the others.   *)
LEMMA RemoveOrder ==
  ASSUME NEW l, IsList(l, Elems), NEW s, IsOrder(l, s), NEW k \in 1..Len(s)
  PROVE  IsOrder(Removed(l, s[k]), Ordered!RemoveAt(s, k))
<1> DEFINE e == s[k]
           m == Removed(l, e)
           n == Len(s)
           t == Ordered!RemoveAt(s, k)
<1>1. /\ s \in Seq(Elems) /\ n \in Nat /\ Reach(l) = {s[i] : i \in 1..n}
      /\ \A i, j \in 1..n : s[i] = s[j] => i = j
      /\ l.first = IF n = 0 THEN NULL ELSE s[1]
      /\ \A i \in 1..n : l.next[s[i]] = IF i < n THEN s[i + 1] ELSE NULL
      /\ \A i \in 1..n : s[i] \in Elems
      /\ k \in 1..n /\ e = s[k] /\ NULL \notin Elems
  BY ElemsAssumption DEF IsOrder
<1>2. /\ t \in Seq(Elems) /\ Len(t) = n - 1
      /\ \A i \in 1 .. n - 1 : t[i] = IF i < k THEN s[i] ELSE s[i + 1]
  BY <1>1, RemoveAtIs
<1>3. Reach(m) = Reach(l) \ {e}
  BY <1>1, OrderIsChain, RemoveKeepsChain
<1>4. /\ e = l.first =>
           m.first = l.next[e] /\ \A c \in Elems \ {e} : m.next[c] = l.next[c]
      /\ e # l.first =>
           /\ m.first = l.first /\ Before(l, e) \in Reach(l) /\ l.next[Before(l, e)] = e
           /\ Before(l, e) # e => m.next[Before(l, e)] = l.next[e]
           /\ \A c \in Elems \ {e, Before(l, e)} : m.next[c] = l.next[c]
  BY <1>1, RemovedLinks
<1> HIDE DEF e, m, n, t
<1>5. Reach(m) = {t[i] : i \in 1 .. n - 1}
  <2>1. ASSUME NEW i \in 1 .. n - 1 PROVE t[i] \in Reach(m)
    <3>1. PICK j \in 1..n : t[i] = s[j] /\ j # k
      <4>1. CASE i < k
        BY <1>1, <1>2, <4>1
      <4>2. CASE ~(i < k)
        <5>1. i + 1 \in 1..n /\ i + 1 # k /\ t[i] = s[i + 1]
          BY <1>1, <1>2, <4>2
        <5> QED BY <5>1
      <4> QED BY <4>1, <4>2
    <3> QED BY <1>1, <1>3, <3>1
  <2>2. ASSUME NEW c \in Reach(m) PROVE \E i \in 1 .. n - 1 : t[i] = c
    <3>1. PICK j \in 1..n : s[j] = c
      BY <1>1, <1>3
    <3>2. j # k
      BY <1>1, <1>3, <3>1
    <3>3. CASE j < k
      <4>1. j \in 1 .. n - 1 /\ t[j] = c
        BY <1>1, <1>2, <3>1, <3>3
      <4> QED BY <4>1
    <3>4. CASE j > k
      <4>1. j - 1 \in 1 .. n - 1 /\ ~(j - 1 < k) /\ (j - 1) + 1 = j
        BY <1>1, <3>4
      <4>2. t[j - 1] = c
        BY <1>2, <3>1, <4>1
      <4> QED BY <4>1, <4>2
    <3> QED BY <1>1, <3>2, <3>3, <3>4
  <2> QED BY <2>1, <2>2
<1>6. \A i, j \in 1 .. n - 1 : t[i] = t[j] => i = j
  <2> SUFFICES ASSUME NEW i \in 1 .. n - 1, NEW j \in 1 .. n - 1, t[i] = t[j] PROVE i = j
    OBVIOUS
  <2>1. i \in 1..n /\ j \in 1..n /\ i + 1 \in 1..n /\ j + 1 \in 1..n
    BY <1>1
  <2>2. CASE i < k /\ j < k
    BY <1>1, <1>2, <2>1, <2>2
  <2>3. CASE ~(i < k) /\ ~(j < k)
    <3>1. s[i + 1] = s[j + 1]
      BY <1>2, <2>3
    <3>2. i + 1 = j + 1
      BY <1>1, <2>1, <3>1
    <3> QED BY <3>2
  <2>4. CASE i < k /\ ~(j < k)
    <3>1. s[i] = s[j + 1]
      BY <1>2, <2>4
    <3>2. i = j + 1
      BY <1>1, <2>1, <3>1
    <3> QED BY <1>1, <2>4, <3>2
  <2>5. CASE ~(i < k) /\ j < k
    <3>1. s[i + 1] = s[j]
      BY <1>2, <2>5
    <3>2. i + 1 = j
      BY <1>1, <2>1, <3>1
    <3> QED BY <1>1, <2>5, <3>2
  <2> QED BY <2>2, <2>3, <2>4, <2>5
<1>7. CASE k = 1
  <2>0. e = l.first
    BY <1>1, <1>7
  <2>1. m.first = IF n - 1 = 0 THEN NULL ELSE t[1]
    BY <1>1, <1>2, <1>4, <1>7, <2>0
  <2>2. \A i \in 1 .. n - 1 : t[i] = s[i + 1] /\ i + 1 \in 1..n /\ s[i + 1] # e
    BY <1>1, <1>2, <1>7
  <2>3. \A i \in 1 .. n - 1 : m.next[t[i]] = l.next[s[i + 1]]
    BY <1>1, <1>4, <2>0, <2>2
  <2>4. \A i \in 1 .. n - 1 : m.next[t[i]] = IF i < n - 1 THEN t[i + 1] ELSE NULL
    BY <1>1, <2>2, <2>3
  <2> QED BY <1>2, <1>5, <1>6, <2>1, <2>4 DEF IsOrder, e, m, n, t
<1>8. CASE k # 1
  <2>0. e # l.first /\ k - 1 \in 1..n
    BY <1>1, <1>8
  <2>1. m.first = IF n - 1 = 0 THEN NULL ELSE t[1]
    BY <1>1, <1>2, <1>4, <1>8, <2>0
  <2>2. Before(l, e) = s[k - 1]
    <3>1. PICK j \in 1..n : Before(l, e) = s[j]
      BY <1>1, <1>4, <2>0
    <3>2. j < n /\ s[j + 1] = e
      BY <1>1, <1>4, <2>0, <3>1
    <3> QED BY <1>1, <3>1, <3>2
  <2>3. \A i \in 1..n : i # k /\ i # k - 1 => m.next[s[i]] = l.next[s[i]]
    BY <1>1, <1>4, <2>0, <2>2
  <2>4. m.next[s[k - 1]] = l.next[e]
    BY <1>1, <1>4, <2>0, <2>2
  <2>5. ASSUME NEW i \in 1 .. n - 1
        PROVE  m.next[t[i]] = IF i < n - 1 THEN t[i + 1] ELSE NULL
    <3>1. CASE i < k - 1
      <4>1. /\ i + 1 \in 1 .. n - 1 /\ i < n - 1 /\ i < n /\ i \in 1..n
            /\ i # k /\ i # k - 1 /\ i < k /\ i + 1 < k
        BY <1>1, <3>1
      <4>2. t[i] = s[i] /\ t[i + 1] = s[i + 1]
        BY <1>2, <4>1
      <4>3. m.next[s[i]] = l.next[s[i]] /\ l.next[s[i]] = s[i + 1]
        BY <1>1, <2>3, <4>1
      <4> QED BY <4>1, <4>2, <4>3
    <3>2. CASE i = k - 1
      <4>1. /\ i < k /\ i + 1 = k /\ k \in 1..n
            /\ i < n - 1 => i + 1 \in 1 .. n - 1 /\ ~(i + 1 < k)
            /\ i < n - 1 <=> k < n
        BY <1>1, <3>2
      <4>2. t[i] = s[k - 1] /\ m.next[t[i]] = l.next[s[k]]
        BY <1>1, <1>2, <2>4, <3>2, <4>1
      <4>3. l.next[s[k]] = IF k < n THEN s[k + 1] ELSE NULL
        BY <1>1
      <4>4. i < n - 1 => t[i + 1] = s[k + 1]
        BY <1>2, <4>1
      <4> QED BY <4>1, <4>2, <4>3, <4>4
    <3>3. CASE i >= k
      <4>1. /\ ~(i < k) /\ i + 1 \in 1..n /\ i + 1 # k /\ i + 1 # k - 1
            /\ i < n - 1 => i + 1 \in 1 .. n - 1 /\ ~(i + 1 < k)
            /\ i < n - 1 <=> i + 1 < n
        BY <1>1, <3>3
      <4>2. t[i] = s[i + 1] /\ m.next[s[i + 1]] = l.next[s[i + 1]]
        BY <1>2, <2>3, <4>1
      <4>3. l.next[s[i + 1]] = IF i + 1 < n THEN s[i + 1 + 1] ELSE NULL
        BY <1>1, <4>1
      <4>4. i < n - 1 => t[i + 1] = s[i + 1 + 1]
        BY <1>2, <4>1
      <4> QED BY <4>1, <4>2, <4>3, <4>4
    <3> QED BY <1>1, <3>1, <3>2, <3>3
  <2> QED BY <1>2, <1>5, <1>6, <2>1, <2>5 DEF IsOrder, e, m, n, t
<1> QED BY <1>7, <1>8

(* The links are always an order of the elements. *)
SlOrderInv == IsList(list, Elems) /\ IsOrder(list, AsSeq(list))

(* While the walk goes on: it has visited what comes first, var is at the  *)
(* next one, and from there on the links are as they were when it began.   *)
SlWalkInv ==
  walk # NULL =>
    /\ walk \in Seq(Elems) /\ visited \in Seq(Elems) /\ Len(visited) <= Len(walk)
    /\ \A i, j \in 1..Len(walk) : walk[i] = walk[j] => i = j
    /\ \A i \in 1..Len(visited) : visited[i] = walk[i]
    /\ var = IF Len(visited) < Len(walk) THEN walk[Len(visited) + 1] ELSE NULL
    /\ \A i \in 1..Len(walk) : i > Len(visited) =>
         /\ walk[i] \in Reach(list)
         /\ list.next[walk[i]] = IF i < Len(walk) THEN walk[i + 1] ELSE NULL

(* The empty list has the empty order.                                     *)
LEMMA SlInitInv == SlInit => SlOrderInv /\ AsSeq(list) = << >> /\ SlWalkInv
<1> SUFFICES ASSUME SlInit PROVE SlOrderInv /\ AsSeq(list) = << >> /\ SlWalkInv
  OBVIOUS
<1>1. IsList(list, Elems) /\ Reach(list) = {} /\ list.first = NULL
  BY InitIsChain, ElemsAssumption DEF SlInit, SLIST_INIT
<1>2. << >> \in Seq(Elems) /\ Len(<< >>) = 0
  OBVIOUS
<1>3. IsOrder(list, << >>)
  BY <1>1, <1>2 DEF IsOrder
<1>4. AsSeq(list) = << >>
  BY <1>1, <1>3, AsSeqIs
<1> QED BY <1>1, <1>3, <1>4 DEF SlOrderInv, SlInit, SlWalkInv

(* An insertion. *)
LEMMA SlInsertStep ==
  ASSUME SlOrderInv, SlWalkInv, NEW e \in Elems, SlInsert(e)
  PROVE  SlOrderInv' /\ SlWalkInv' /\ AsSeq(list)' = <<e>> \o AsSeq(list) /\ ~Ordered!Holds(e)
<1>1. /\ e \notin Reach(list) /\ list' = SLIST_INSERT_HEAD(list, e)
      /\ walk = NULL /\ UNCHANGED walk
  BY DEF SlInsert
<1>2. IsList(list', Elems) /\ IsOrder(list', <<e>> \o AsSeq(list))
  BY <1>1, InsertHead, InsertOrder DEF SlOrderInv
<1>3. AsSeq(list') = <<e>> \o AsSeq(list)
  BY <1>2, AsSeqIs
<1>4. ~Ordered!Holds(e)
  BY <1>1 DEF Ordered!Holds, SlOrderInv, IsOrder
<1> QED BY <1>1, <1>2, <1>3, <1>4 DEF SlOrderInv, SlWalkInv

(* A visit of an element that is kept or removed. *)
LEMMA SlVisitStep ==
  ASSUME SlOrderInv, SlWalkInv, SlVisit
  PROVE  /\ SlOrderInv' /\ SlWalkInv'
         /\ AsSeq(list)' = AsSeq(list) \/ \E x \in Elems : Ordered!ORemove(x)
<1> DEFINE s == AsSeq(list)
           n == Len(walk)
           m == Len(visited)
<1>1. /\ walk # NULL /\ var # NULL /\ walk' = walk
      /\ visited' = Append(visited, var) /\ var' = list.next[var]
      /\ list' = list \/ list' = Removed(list, var)
  BY DEF SlVisit, SLIST_NEXT, Removed
<1>2. /\ walk \in Seq(Elems) /\ visited \in Seq(Elems) /\ m \in Nat /\ n \in Nat /\ m <= n
      /\ \A i, j \in 1..n : walk[i] = walk[j] => i = j
      /\ \A i \in 1..m : visited[i] = walk[i]
      /\ var = IF m < n THEN walk[m + 1] ELSE NULL
      /\ \A i \in 1..n : i > m =>
           /\ walk[i] \in Reach(list)
           /\ list.next[walk[i]] = IF i < n THEN walk[i + 1] ELSE NULL
  BY <1>1 DEF SlWalkInv
<1>3. /\ IsList(list, Elems) /\ IsOrder(list, s) /\ NULL \notin Elems
      /\ \A i \in 1..n : walk[i] \in Elems
  BY <1>2, ElemsAssumption DEF SlOrderInv
<1>4. m < n /\ var = walk[m + 1] /\ m + 1 \in 1..n /\ var \in Reach(list) /\ var \in Elems
  <2> HIDE DEF m, n
  <2> QED BY <1>1, <1>2, <1>3
<1>5. /\ visited' \in Seq(Elems) /\ Len(visited') = m + 1
      /\ \A i \in 1 .. m + 1 : visited'[i] = walk[i]
  <2>1. /\ visited' \in Seq(Elems) /\ Len(visited') = m + 1 /\ visited'[m + 1] = var
        /\ \A i \in 1..m : visited'[i] = visited[i]
    BY <1>1, <1>2, <1>4
  <2> HIDE DEF m, n
  <2> QED BY <1>2, <1>4, <2>1
<1>6. var' = IF m + 1 < n THEN walk[m + 2] ELSE NULL
  <2> HIDE DEF m, n
  <2> QED BY <1>1, <1>2, <1>4
<1>7. CASE list' = list
  <2>1. SlOrderInv' /\ AsSeq(list)' = AsSeq(list)
    BY <1>7 DEF SlOrderInv
  <2>2. SlWalkInv'
    BY <1>1, <1>2, <1>4, <1>5, <1>6, <1>7 DEF SlWalkInv
  <2> QED BY <2>1, <2>2
<1>8. CASE list' = Removed(list, var)
  <2>1. PICK k \in 1..Len(s) : s[k] = var
    BY <1>3, <1>4 DEF IsOrder
  <2>2. IsOrder(list', Ordered!RemoveAt(s, k))
    BY <1>3, <1>8, <2>1, RemoveOrder
  <2>3. /\ IsList(list', Elems) /\ Reach(list') = Reach(list) \ {var}
    BY <1>3, <1>4, <1>8, OrderIsChain, RemoveKeepsChain
  <2>4. AsSeq(list') = Ordered!RemoveAt(s, k)
    BY <2>2, <2>3, AsSeqIs
  <2>5. Ordered!ORemove(var)
    BY <2>1, <2>4 DEF Ordered!ORemove
  <2>6. \A i \in 1..n : i > m + 1 => list'.next[walk[i]] = list.next[walk[i]]
    <3>1. \A i \in 1..n : i > m + 1 => walk[i] # var /\ list.next[walk[i]] # var
      <4> HIDE DEF m, n
      <4> SUFFICES ASSUME NEW i \in 1..n, i > m + 1
                   PROVE  walk[i] # var /\ list.next[walk[i]] # var
        OBVIOUS
      <4>1. walk[i] # var
        BY <1>2, <1>4
      <4>2. list.next[walk[i]] = IF i < n THEN walk[i + 1] ELSE NULL
        BY <1>2
      <4>3. i < n => i + 1 \in 1..n /\ i + 1 # m + 1
        BY <1>2
      <4>4. i < n => walk[i + 1] # var
        BY <1>2, <1>4, <4>3
      <4> QED BY <1>3, <1>4, <4>1, <4>2, <4>4
    <3>2. /\ var = list.first => \A c \in Elems \ {var} : list'.next[c] = list.next[c]
          /\ var # list.first =>
               /\ list.next[Before(list, var)] = var
               /\ \A c \in Elems \ {var, Before(list, var)} : list'.next[c] = list.next[c]
      BY <1>3, <1>4, <1>8, RemovedLinks
    <3> HIDE DEF m, n
    <3> QED BY <1>3, <3>1, <3>2
  <2>7. \A i \in 1..n : i > m + 1 => walk[i] \in Reach(list')
    <3> HIDE DEF m, n
    <3> QED BY <1>2, <1>4, <2>3
  <2>8. SlWalkInv'
    <3>1. \A i \in 1..n : i > m + 1 =>
            list'.next[walk[i]] = IF i < n THEN walk[i + 1] ELSE NULL
      <4> HIDE DEF m, n
      <4> QED BY <1>2, <2>6
    <3> QED BY <1>1, <1>2, <1>4, <1>5, <1>6, <2>7, <3>1 DEF SlWalkInv
  <2> QED BY <1>4, <2>2, <2>3, <2>4, <2>5, <2>8 DEF SlOrderInv
<1> QED BY <1>1, <1>7, <1>8

(* The steps that leave the list alone. *)
LEMMA SlOtherSteps ==
  ASSUME SlOrderInv, SlWalkInv, SlForeach \/ SlEnd \/ UNCHANGED slVars
  PROVE  SlOrderInv' /\ SlWalkInv' /\ UNCHANGED AsSeq(list)
<1>1. UNCHANGED list
  BY DEF SlForeach, SlEnd, slVars
<1>2. SlOrderInv' /\ UNCHANGED AsSeq(list)
  BY <1>1 DEF SlOrderInv
<1>3. CASE SlForeach
  <2> DEFINE s == AsSeq(list)
  <2>1. var' = list.first /\ walk' = s /\ visited' = << >>
    BY <1>3 DEF SlForeach, SLIST_FIRST
  <2>2. /\ s \in Seq(Elems) /\ Len(s) \in Nat
        /\ \A i, j \in 1..Len(s) : s[i] = s[j] => i = j
        /\ list.first = IF Len(s) = 0 THEN NULL ELSE s[1]
        /\ \A i \in 1..Len(s) : /\ s[i] \in Reach(list)
                                 /\ list.next[s[i]] = IF i < Len(s) THEN s[i + 1] ELSE NULL
    BY DEF SlOrderInv, IsOrder
  <2>3. << >> \in Seq(Elems) /\ Len(<< >>) = 0
    OBVIOUS
  <2> HIDE DEF s
  <2>4. SlWalkInv'
    BY <1>1, <2>1, <2>2, <2>3 DEF SlWalkInv
  <2> QED BY <1>2, <2>4
<1>4. CASE SlEnd
  BY <1>2, <1>4 DEF SlEnd, SlWalkInv
<1>5. CASE UNCHANGED slVars
  BY <1>2, <1>5 DEF slVars, SlWalkInv
<1> QED BY <1>3, <1>4, <1>5

(* The links of the list are an order of its elements in every reachable   *)
(* state, and a walk under way is where it should be.                      *)
THEOREM SlInvariant == SlSpec => [](SlOrderInv /\ SlWalkInv)
<1>1. SlOrderInv /\ SlWalkInv /\ [SlNext]_slVars => (SlOrderInv /\ SlWalkInv)'
  BY SlInsertStep, SlVisitStep, SlOtherSteps DEF SlNext
<1> QED BY <1>1, SlInitInv, PTL DEF SlSpec

(* SLIST_FOREACH_SAFE runs its body once for every element that was on the *)
(* list, in order, whichever of them the body removes and frees: the link  *)
(* of an element is read before its body runs.                             *)
THEOREM WalkIsComplete == SlSpec => []WalkVisitsAll
<1>1. SlWalkInv => WalkVisitsAll
  <2> SUFFICES ASSUME SlWalkInv, walk # NULL, var = NULL PROVE visited = walk
    BY DEF WalkVisitsAll
  <2>1. /\ walk \in Seq(Elems) /\ visited \in Seq(Elems) /\ Len(visited) <= Len(walk)
        /\ \A i \in 1..Len(visited) : visited[i] = walk[i]
        /\ NULL = IF Len(visited) < Len(walk) THEN walk[Len(visited) + 1] ELSE NULL
    BY DEF SlWalkInv
  <2>2. Len(visited) < Len(walk) => walk[Len(visited) + 1] \in Elems
    BY <2>1
  <2>3. Len(visited) = Len(walk)
    BY <2>1, <2>2, ElemsAssumption
  <2> QED BY <2>1, <2>3
<1> QED BY <1>1, SlInvariant, PTL

(* The SLIST macros implement an ordered list: insertion puts an element   *)
(* in front, SLIST_REMOVE takes out just the one it is given, and nothing  *)
(* else is lost, repeated or reordered, for every set of elements.         *)
THEOREM SlistImplementsOrderedList == SlSpec => ImplementsOrderedList
<1>1. SlInit => AsSeq(list) = << >>
  BY SlInitInv
<1>2. SlOrderInv /\ SlWalkInv /\ [SlNext]_slVars =>
        [\E x \in Elems : Ordered!OInsert(x) \/ Ordered!ORemove(x)]_(AsSeq(list))
  <2> SUFFICES ASSUME SlOrderInv, SlWalkInv, [SlNext]_slVars
               PROVE  \/ \E x \in Elems : Ordered!OInsert(x) \/ Ordered!ORemove(x)
                      \/ UNCHANGED AsSeq(list)
    OBVIOUS
  <2>1. ASSUME NEW e \in Elems, SlInsert(e) PROVE Ordered!OInsert(e)
    BY <2>1, SlInsertStep DEF Ordered!OInsert
  <2> QED BY <2>1, SlVisitStep, SlOtherSteps DEF SlNext
<1> QED
  BY <1>1, <1>2, SlInvariant, PTL DEF SlSpec, ImplementsOrderedList, Ordered!OSpec
=============================================================================
