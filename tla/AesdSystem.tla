----------------------------- MODULE AesdSystem -----------------------------
(***************************************************************************)
(* aesdsocket over aesdchar: what the connector threads of aesdsocket.c do *)
(* with /dev/aesdchar, through stdio, as system calls of AesdCharDriver.   *)
(* A connector receives one request (AesdSocket has the details), opens    *)
(* the device itself and takes file_mutex; then fwrite and fflush are one  *)
(* write, rewind is a seek to 0 whose result is ignored, and fread reads   *)
(* StdioBuf bytes at a time until a read returns nothing.                  *)
(* Failing allocations and faulting copies are left to AesdCharDriver.     *)
(***************************************************************************)
EXTENDS AesdCharDriver

CONSTANTS
  StdioBuf,      (* size of a stdio buffer *)
  MaxSessions    (* bound on the number of connections *)

RewindArg == [whence |-> "SET", offset |-> 0]

ASSUME SystemAssumption ==
  /\ Files = Threads   (* every connector has its own open file *)
  /\ StdioBuf \in Counts /\ RewindArg \in Seeks /\ MaxSessions \in Nat

(* Two restrictions on what clients send.  The server enforces neither:    *)
(* what holds only under them says so.                                     *)

(* No client goes away in the middle of a line. *)
WholeLines == \A d \in Payloads : d[Len(d)] = Newline

(* All lines that are kept fit one stdio buffer. *)
FitsStdioBuffer == \A d \in Payloads : MaxOps * Len(d) < StdioBuf

VARIABLES
  stage,         (* where each connector is *)
  request,       (* the message it has received *)
  answer,        (* what it has sent back *)
  file_mutex,    (* owner of file_mutex, or NULL *)
  served         (* connections so far *)

sysVars == <<stage, request, answer, file_mutex, served>>
allVars == <<vars, sysVars>>

NoRequest == [kind |-> "none", arg |-> NULL]
Requests == [kind : {"line"}, arg : Payloads] \cup [kind : {"seek"}, arg : SeekTos]

SysInit ==
  /\ Init
  /\ stage = [t \in Threads |-> "idle"]
  /\ request = [t \in Threads |-> NoRequest]
  /\ answer = [t \in Threads |-> << >>]
  /\ file_mutex = NULL /\ served = 0

Proceed(t, from, to) == stage[t] = from /\ stage' = [stage EXCEPT ![t] = to]
-----------------------------------------------------------------------------
(* fopen and the receive loop. *)
Receive(t) ==
  /\ served < MaxSessions /\ Proceed(t, "idle", "lock") /\ Open(t)
  /\ \E r \in Requests : request' = [request EXCEPT ![t] = r]
  /\ served' = served + 1
  /\ UNCHANGED <<answer, file_mutex>>

(* Mutant: file_mutex is not waited for. *)
LockFileAtOnce(t) ==
  /\ Proceed(t, "lock", "locked")
  /\ file_mutex' = t
  /\ UNCHANGED <<vars, request, answer, served>>

LockFile(t) ==
  /\ file_mutex = NULL /\ Proceed(t, "lock", "locked")
  /\ file_mutex' = t
  /\ UNCHANGED <<vars, request, answer, served>>

(* fwrite and fflush; ioctl(AESDCHAR_IOCSEEKTO); rewind; a read of fread.  *)
Flush(t) ==
  /\ request[t].kind = "line" /\ Proceed(t, "locked", "flushing")
  /\ Write(t, t, request[t].arg)
  /\ UNCHANGED <<request, answer, file_mutex, served>>

SeekTo(t) ==
  /\ request[t].kind = "seek" /\ Proceed(t, "locked", "seeking")
  /\ Ioctl(t, t, request[t].arg)
  /\ UNCHANGED <<request, answer, file_mutex, served>>

Rewind(t) ==
  /\ Proceed(t, "rewind", "rewinding") /\ Llseek(t, t, RewindArg)
  /\ UNCHANGED <<request, answer, file_mutex, served>>

Fread(t) ==
  /\ Proceed(t, "fread", "reading") /\ Read(t, t, StdioBuf)
  /\ UNCHANGED <<request, answer, file_mutex, served>>

(* Mutant: rewind is left out. *)
AfterCallNoRewind(t) ==
  CASE stage[t] = "flushing" -> "fread"
    [] stage[t] \in {"rewinding", "seeking"} -> "fread"
    [] stage[t] = "reading" -> IF call[t].out = << >> THEN "unlock" ELSE "fread"

(* Where a connector goes on after a call, whatever the call returned. *)
AfterCall(t) ==
  CASE stage[t] = "flushing" -> "rewind"
    [] stage[t] \in {"rewinding", "seeking"} -> "fread"
    [] stage[t] = "reading" -> IF call[t].out = << >> THEN "unlock" ELSE "fread"

(* The call returns; what a read returned is sent. *)
CallReturns(t) ==
  /\ Return(t)
  /\ stage' = [stage EXCEPT ![t] = AfterCall(t)]
  /\ answer' = [answer EXCEPT ![t] = @ \o call[t].out]
  /\ UNCHANGED <<request, file_mutex, served>>

(* Mutant: file_mutex is kept. *)
UnlockFileForgotten(t) ==
  /\ Proceed(t, "unlock", "fclose")
  /\ UNCHANGED <<vars, request, answer, file_mutex, served>>

UnlockFile(t) ==
  /\ Proceed(t, "unlock", "fclose")
  /\ file_mutex' = NULL
  /\ UNCHANGED <<vars, request, answer, served>>

Fclose(t) ==
  /\ Proceed(t, "fclose", "idle") /\ Release(t)
  /\ request' = [request EXCEPT ![t] = NoRequest]
  /\ answer' = [answer EXCEPT ![t] = << >>]
  /\ UNCHANGED <<file_mutex, served>>
-----------------------------------------------------------------------------
InDriver(t) ==
  /\ \/ Acquire(t) \/ WritePartial(t) \/ WriteCommit(t) \/ LlseekBody(t) \/ IoctlBody(t)
     \/ ReadEntry(t) \/ ReadLast(t) \/ ReadEnd(t)
  /\ UNCHANGED sysVars

ConnectorStep(t) ==
  \/ LockFile(t) \/ Flush(t) \/ SeekTo(t) \/ Rewind(t) \/ Fread(t)
  \/ InDriver(t) \/ CallReturns(t) \/ UnlockFile(t) \/ Fclose(t)

SysDone == served = MaxSessions /\ (\A t \in Threads : stage[t] = "idle") /\ UNCHANGED allVars

SysNext ==
  \/ InitModule /\ UNCHANGED sysVars
  \/ \E t \in Threads : Receive(t) \/ ConnectorStep(t)
  \/ SysDone

SysSpec == SysInit /\ [][SysNext]_allVars

(* A connector that can run does run; there are finitely many of them, so  *)
(* that file_mutex cannot be taken past a waiting one for ever.            *)
SysFairSpec == SysSpec /\ \A t \in Threads : WF_allVars(ConnectorStep(t))
=============================================================================
