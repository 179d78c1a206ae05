---------------------------- MODULE SystemCalls -----------------------------
(***************************************************************************)
(* One call of do_system, do_exec or do_exec_redirect (examples/           *)
(* systemcalls/systemcalls.c) with the process that makes it and the one   *)
(* it forks.  Of the text on stdout only the lines printed before the fork *)
(* are kept apart: "caller", which the caller printed earlier, and         *)
(* "output_file", which do_exec_redirect prints.                           *)
(***************************************************************************)
EXTENDS Naturals, Sequences

VARIABLES
  exFn,         (* the function that is called                             *)
  exBuffered,   (* is stdout fully buffered (a file or a pipe)?            *)
  exPc, exRet,  (* of each process: where it is, what the call returned    *)
  exBuf, exFd,  (* its unwritten stdout, and where its descriptor 1 goes   *)
  exWritten,    (* the lines written to the old stdout and to outputfile   *)
  exCommand,    (* what became of the command                              *)
  exStatus      (* the child's status: how it ended, or "none"             *)

exVars == <<exFn, exBuffered, exPc, exRet, exBuf, exFd, exWritten, exCommand, exStatus>>

ExProcs == {"parent", "child"}

ExInit ==
  /\ exFn \in {"do_system", "do_exec", "do_exec_redirect"} /\ exBuffered \in BOOLEAN
  /\ exPc = [p \in ExProcs |-> IF p = "parent" THEN "call" ELSE "none"]
  /\ exRet = [p \in ExProcs |-> "none"]
  /\ exBuf = [parent |-> IF exBuffered THEN <<"caller">> ELSE << >>, child |-> << >>]
  /\ exFd = [p \in ExProcs |-> "out"]
  /\ exWritten = [out |-> IF exBuffered THEN << >> ELSE <<"caller">>, file |-> << >>]
  /\ exCommand = "not_run" /\ exStatus = "none"

ExGoto(p, from, to) == exPc[p] = from /\ exPc' = [exPc EXCEPT ![p] = to]

(* Process p writes its buffer and then the lines "more". *)
ExWrites(p, more) ==
  /\ exWritten' = [exWritten EXCEPT ![exFd[p]] = @ \o exBuf[p] \o more]
  /\ exBuf' = [exBuf EXCEPT ![p] = << >>]

(* exit: the buffer is written. *)
ExExit(p, from, status) ==
  /\ ExGoto(p, from, "dead") /\ ExWrites(p, << >>)
  /\ exStatus' = IF p = "child" THEN status ELSE exStatus
  /\ UNCHANGED <<exFn, exBuffered, exRet, exFd, exCommand>>

(* The call returns in process p, which goes on as its caller. *)
ExReturn(p, from, ret) ==
  /\ ExGoto(p, from, "caller")
  /\ exRet' = [exRet EXCEPT ![p] = ret]
  /\ UNCHANGED <<exFn, exBuffered, exBuf, exFd, exWritten>>
-----------------------------------------------------------------------------
(* Mutant: there is no fflush. *)
ExFlushForgotten ==
  LET line == IF exFn = "do_exec_redirect" THEN <<"output_file">> ELSE << >>
  IN  /\ ExGoto("parent", "call", "fork")
      /\ IF exBuffered
         THEN exBuf' = [exBuf EXCEPT !["parent"] = @ \o line] /\ UNCHANGED exWritten
         ELSE exWritten' = [exWritten EXCEPT !["out"] = @ \o line] /\ UNCHANGED exBuf
      /\ UNCHANGED <<exFn, exBuffered, exRet, exFd, exCommand, exStatus>>

(* fflush(stdout), and do_exec_redirect prints its line after it. *)
ExFlush ==
  LET line == IF exFn = "do_exec_redirect" THEN <<"output_file">> ELSE << >>
  IN  /\ ExGoto("parent", "call", "fork")
      /\ exWritten' = [exWritten EXCEPT !["out"] =
                         @ \o exBuf["parent"] \o (IF exBuffered THEN << >> ELSE line)]
      /\ exBuf' = [exBuf EXCEPT !["parent"] = IF exBuffered THEN line ELSE << >>]
      /\ UNCHANGED <<exFn, exBuffered, exRet, exFd, exCommand, exStatus>>

(* do_system: system() fails, or the command ends in one way or another.   *)
ExSystem ==
  /\ exFn = "do_system"
  /\ exCommand' \in {"not_run", "succeeded", "failed", "killed"}
  /\ ExReturn("parent", "fork", IF exCommand' = "succeeded" THEN "true" ELSE "false")
  /\ UNCHANGED exStatus

(* fork: the child has a copy of the buffer. *)
ExFork ==
  /\ exFn # "do_system" /\ exPc["parent"] = "fork"
  /\ exPc' = [parent |-> "wait", child |-> IF exFn = "do_exec" THEN "exec" ELSE "open"]
  /\ exBuf' = [exBuf EXCEPT !["child"] = exBuf["parent"]]
  /\ UNCHANGED <<exFn, exBuffered, exRet, exFd, exWritten, exCommand, exStatus>>

(* do_exec goes on to its last line, do_exec_redirect ends the process.    *)
ExForkFails ==
  \/ exFn = "do_exec" /\ ExReturn("parent", "fork", "true") /\ UNCHANGED <<exCommand, exStatus>>
  \/ exFn = "do_exec_redirect" /\ ExExit("parent", "fork", "exit1")

(* The child of do_exec_redirect: open and dup2. *)
ExRedirect ==
  /\ ExGoto("child", "open", "exec")
  /\ exFd' = [exFd EXCEPT !["child"] = "file"]
  /\ UNCHANGED <<exFn, exBuffered, exRet, exBuf, exWritten, exCommand, exStatus>>

ExRedirectFails == ExExit("child", "open", "exit1")

(* execv: the buffer goes with the old program. *)
ExExecv ==
  /\ ExGoto("child", "exec", "command")
  /\ exBuf' = [exBuf EXCEPT !["child"] = << >>]
  /\ exCommand' = "running"
  /\ UNCHANGED <<exFn, exBuffered, exRet, exFd, exWritten, exStatus>>

(* execv fails: the call returns in the child, too. *)
ExExecvFails == ExReturn("child", "exec", "false") /\ UNCHANGED <<exCommand, exStatus>>

ExCommandEnds ==
  /\ ExGoto("child", "command", "dead")
  /\ \/ exStatus' = "exit0" /\ exCommand' = "succeeded"
     \/ exStatus' = "exit1" /\ exCommand' = "failed"
     \/ exStatus' = "signal" /\ exCommand' = "killed"
  /\ UNCHANGED <<exFn, exBuffered, exRet, exBuf, exFd, exWritten>>

(* Mutant: the exit code itself is returned. *)
ExResultOfNegated(status) == IF exFn = "do_exec" /\ status = "exit0" THEN "false" ELSE "true"

(* What the parent returns for a status. *)
ExResultOf(status) ==
  IF exFn = "do_exec" /\ status = "exit1" THEN "false" ELSE "true"

ExWait ==
  /\ exPc["child"] = "dead"
  /\ ExReturn("parent", "wait", ExResultOf(exStatus))
  /\ exStatus' = "reaped" /\ UNCHANGED exCommand

(* waitpid is interrupted: status is whatever was on the stack. *)
ExWaitFails ==
  /\ \E status \in {"exit0", "exit1", "signal"} : ExReturn("parent", "wait", ExResultOf(status))
  /\ UNCHANGED <<exCommand, exStatus>>

(* The caller ends, in the parent or in the child that returned to it.     *)
ExCallerExits(p) == \E code \in {"exit0", "exit1"} : ExExit(p, "caller", code)

ExNext ==
  \/ ExFlush \/ ExSystem \/ ExFork \/ ExForkFails \/ ExRedirect \/ ExRedirectFails
  \/ ExExecv \/ ExExecvFails \/ ExCommandEnds \/ ExWait \/ ExWaitFails
  \/ \E p \in ExProcs : ExCallerExits(p)

ExSpec == ExInit /\ [][ExNext]_exVars
-----------------------------------------------------------------------------
Occurrences(line, s) == {i \in 1..Len(s) : s[i] = line}

(* What the caller printed before the call is never written twice, never   *)
(* to outputfile, and by the end of the caller it is written: the fflush   *)
(* before fork keeps it out of the child, which may exit with a copy of    *)
(* the buffer when open fails, or when execv fails and it returns to the   *)
(* caller's code.                                                          *)
CallerTextOnce ==
  /\ Occurrences("caller", exWritten.file) = {}
  /\ \A i, j \in Occurrences("caller", exWritten.out) : i = j
  /\ exPc["parent"] = "dead" => Occurrences("caller", exWritten.out) # {}

(* do_system returns true just for a command that succeeded, and so does   *)
(* do_exec for one that exited by itself, when its waitpid was not         *)
(* interrupted.  It says nothing of a do_exec whose command was killed or  *)
(* whose fork or execv failed, nor of do_exec_redirect: they return true   *)
(* for failures as well (TrueMeansSuccess).                                *)
ExitCodeReported ==
  /\ exFn = "do_system" /\ exRet["parent"] # "none" =>
       (exRet["parent"] = "true" <=> exCommand = "succeeded")
  /\ exFn = "do_exec" /\ exStatus = "reaped" /\ exCommand \in {"succeeded", "failed"} =>
       (exRet["parent"] = "true" <=> exCommand = "succeeded")

(* What the comments promise and the code does not do: do_exec returns     *)
(* "false if an error occurred, either in invocation of the fork, waitpid, *)
(* or execv() command, or if a non-zero return value was returned".        *)
TrueMeansSuccess == \A p \in ExProcs : exRet[p] = "true" => exCommand = "succeeded"
=============================================================================
