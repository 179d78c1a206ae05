-------------------------- MODULE AesdSystemProofs --------------------------
(***************************************************************************)
(* Proofs about aesdsocket over aesdchar, for every number of connectors,  *)
(* ring size, set of lines and set of seek commands.                       *)
(***************************************************************************)
EXTENDS AesdSystemProperties, AesdCharDriverRefinement

-----------------------------------------------------------------------------
(* The inductive invariant, in parts.                                      *)

(* A connector is in a system call exactly at these stages,                *)
InCall == {"flushing", "seeking", "rewinding", "reading"}

(* and holds file_mutex from locked to unlock.                             *)
Holding == InCall \cup {"locked", "rewind", "fread", "unlock"}

SysTypes ==
  /\ stage = [t \in Threads |-> stage[t]] /\ request = [t \in Threads |-> request[t]]
  /\ \A t \in Threads : stage[t] \in Holding \cup {"idle", "lock", "fclose"}
  /\ \A t \in Threads : request[t] \in Requests \cup {NoRequest}

CallsMatch == \A t \in Threads : call[t].pc # "idle" => stage[t] \in InCall

MutexHeld == \A t \in Threads : file_mutex = t <=> stage[t] \in Holding

(* A rewind is the call that its stage says. *)
RewindIsLlseek ==
  \A t \in Threads : stage[t] = "rewinding" =>
    /\ call[t].op = "llseek" /\ call[t].arg = RewindArg
    /\ call[t].pc = "ret" => call[t].ret = "ok"

(* Whole lines leave nothing pending, and no size below zero. *)
SizeCounts == entry = ZeroEntry /\ size \in Nat

SysInv == SysTypes /\ CallsMatch /\ MutexHeld
-----------------------------------------------------------------------------
(* What the driver does, one call at a time. *)

(* A call goes on with its operation and its argument, *)
CallGoesOn(t) ==
  /\ call[t].pc \in {"lock", "body"}
  /\ call'[t].op = call[t].op /\ call'[t].arg = call[t].arg /\ call'[t].pc # "idle"
  /\ \A u \in Threads \ {t} : call'[u] = call[u]

(* A call keeps its kind while it goes on,                                 *)
LEMMA ProgressGoesOn ==
  ASSUME LockInv, NEW t \in Threads, call[t].pc \in {"lock", "body"},
         NEW pc \in {"body", "ret"}, NEW pos, NEW out, NEW ret,
         call' = [call EXCEPT ![t] = Progress(t, pc, pos, out, ret)]
  PROVE  CallGoesOn(t)
BY DEF LockInv, Progress, CallGoesOn

(* in every step of the driver that the server's calls take. *)
LEMMA DriverGoesOn ==
  ASSUME LockInv, NEW t \in Threads, InDriver(t)
  PROVE  CallGoesOn(t)
<1>1. CASE Acquire(t)
  BY <1>1, ProgressGoesOn DEF Acquire
<1>2. CASE ReadEntry(t)
  BY <1>2, ProgressGoesOn DEF ReadEntry, InBody
<1>3. CASE Body(t) /\ ~ReadEntry(t)
  BY <1>3, BodyEnds, ProgressGoesOn DEF Finish
<1> QED BY <1>1, <1>2, <1>3 DEF InDriver, Body

(* A call that is entered. *)
LEMMA EnteredCall ==
  ASSUME LockInv, NEW t \in Threads, NEW f, NEW op, NEW arg, Enter(t, f, op, arg, "lock", "ok")
  PROVE  /\ call'[t].pc = "lock" /\ call'[t].op = op /\ call'[t].arg = arg
         /\ \A u \in Threads \ {t} : call'[u] = call[u]
         /\ UNCHANGED <<entry, size, circular_buffer>>
BY DEF LockInv, Enter, devVars

(* A call that returns. *)
LEMMA ReturnedCall ==
  ASSUME LockInv, NEW t \in Threads, Return(t)
  PROVE  /\ call[t].pc = "ret" /\ call'[t].pc = "idle"
         /\ \A u \in Threads \ {t} : call'[u] = call[u]
         /\ UNCHANGED <<entry, size, circular_buffer>>
BY DEF LockInv, Return, IdleCall, devVars
-----------------------------------------------------------------------------
(* The composition is a use of the driver.                                 *)

(* Every step of the system is a step of the driver's specification, or    *)
(* one that the driver does not notice.                                    *)
LEMMA SystemStepsAreDriverSteps ==
  ASSUME SysTypes, [SysNext]_allVars
  PROVE  [Next]_vars
<1>0. /\ Files = Threads /\ StdioBuf \in Counts /\ RewindArg \in Seeks
      /\ \A t \in Threads : request[t] \in Requests \cup {NoRequest}
  BY SystemAssumption DEF SysTypes
<1>1. CASE UNCHANGED allVars
  BY <1>1 DEF allVars
<1>2. CASE InitModule
  BY <1>2 DEF Next
<1>3. ASSUME NEW t \in Threads, Receive(t) PROVE [Next]_vars
  BY <1>0, <1>3 DEF Receive, Next
<1>4. ASSUME NEW t \in Threads, ConnectorStep(t) PROVE [Next]_vars
  <2>1. CASE LockFile(t) \/ UnlockFile(t)
    BY <2>1 DEF LockFile, UnlockFile
  <2>2. CASE Flush(t)
    <3>1. request[t].arg \in Payloads
      BY <1>0, <2>2 DEF Flush, Requests, NoRequest
    <3> QED BY <1>0, <2>2, <3>1 DEF Flush, Next, Call
  <2>3. CASE SeekTo(t)
    <3>1. request[t].arg \in SeekTos
      BY <1>0, <2>3 DEF SeekTo, Requests, NoRequest
    <3> QED BY <1>0, <2>3, <3>1 DEF SeekTo, Next, Call
  <2>4. CASE Rewind(t) \/ Fread(t)
    BY <1>0, <2>4 DEF Rewind, Fread, Next, Call
  <2>5. CASE InDriver(t)
    BY <2>5 DEF InDriver, Next, Body
  <2>6. CASE CallReturns(t) \/ Fclose(t)
    BY <1>0, <2>6 DEF CallReturns, Fclose, Next
  <2> QED BY <1>4, <2>1, <2>2, <2>3, <2>4, <2>5, <2>6 DEF ConnectorStep
<1>5. CASE SysDone
  BY <1>1, <1>5 DEF SysDone
<1> QED BY <1>1, <1>2, <1>3, <1>4, <1>5 DEF SysNext
-----------------------------------------------------------------------------
(* One connector at a time.                                                *)

(* A step of t that changes only t's stage. *)
LEMMA StageMoves ==
  ASSUME SysInv, NEW t \in Threads, NEW to, stage' = [stage EXCEPT ![t] = to],
         to \in Holding \cup {"idle", "lock", "fclose"},
         \A u \in Threads \ {t} : call'[u] = call[u],
         call'[t].pc # "idle" => to \in InCall,
         \/ file_mutex' = file_mutex /\ (to \in Holding <=> stage[t] \in Holding)
         \/ file_mutex = NULL /\ file_mutex' = t /\ to \in Holding
         \/ file_mutex = t /\ file_mutex' = NULL /\ to \notin Holding,
         request' = request \/ \E r \in Requests \cup {NoRequest} :
                                 request' = [request EXCEPT ![t] = r]
  PROVE  SysInv'
<1>0. NULL \notin Threads
  BY DriverAssumption
<1>1. stage'[t] = to /\ \A u \in Threads \ {t} : stage'[u] = stage[u]
  BY DEF SysInv, SysTypes
<1>2. \A u \in Threads : request'[u] \in Requests \cup {NoRequest}
  BY DEF SysInv, SysTypes
<1>3. /\ stage' = [u \in Threads |-> stage'[u]] /\ request' = [u \in Threads |-> request'[u]]
  BY DEF SysInv, SysTypes
<1>4. SysTypes'
  <2>1. \A u \in Threads : stage'[u] \in Holding \cup {"idle", "lock", "fclose"}
    BY <1>1 DEF SysInv, SysTypes
  <2> QED BY <1>2, <1>3, <2>1 DEF SysTypes
<1>5. CallsMatch'
  BY <1>1 DEF SysInv, CallsMatch
<1>6. MutexHeld'
  BY <1>0, <1>1 DEF SysInv, MutexHeld
<1> QED BY <1>4, <1>5, <1>6 DEF SysInv

(* Every step keeps stages, calls and file_mutex in accord.                *)
LEMMA SysStep ==
  ASSUME LockInv, SysInv, [SysNext]_allVars
  PROVE  SysInv'
<1>0. NULL \notin Threads /\ NoRequest \in Requests \cup {NoRequest}
  BY DriverAssumption
<1>1. CASE UNCHANGED sysVars /\ UNCHANGED call
  BY <1>1 DEF SysInv, SysTypes, CallsMatch, MutexHeld, sysVars
<1>2. CASE UNCHANGED allVars \/ SysDone
  BY <1>1, <1>2 DEF allVars, vars, SysDone
<1>3. CASE InitModule /\ UNCHANGED sysVars
  BY <1>1, <1>3 DEF InitModule
<1>4. ASSUME NEW t \in Threads, Receive(t) PROVE SysInv'
  <2>1. /\ stage[t] = "idle" /\ stage' = [stage EXCEPT ![t] = "lock"] /\ call' = call
        /\ file_mutex' = file_mutex /\ \E r \in Requests : request' = [request EXCEPT ![t] = r]
    BY <1>4 DEF Receive, Proceed, Open
  <2>2. call[t].pc = "idle"
    BY <2>1 DEF SysInv, CallsMatch, InCall
  <2> QED BY <2>1, <2>2, StageMoves DEF Holding, InCall
<1>5. ASSUME NEW t \in Threads, ConnectorStep(t) PROVE SysInv'
  <2>1. CASE LockFile(t)
    <3>1. /\ stage[t] = "lock" /\ stage' = [stage EXCEPT ![t] = "locked"] /\ call' = call
          /\ file_mutex = NULL /\ file_mutex' = t /\ request' = request
      BY <2>1 DEF LockFile, Proceed, vars
    <3>2. call[t].pc = "idle"
      BY <3>1 DEF SysInv, CallsMatch, InCall
    <3> QED BY <3>1, <3>2, StageMoves DEF Holding
  <2>2. ASSUME NEW to \in InCall, stage[t] \in Holding, stage' = [stage EXCEPT ![t] = to],
               \A u \in Threads \ {t} : call'[u] = call[u],
               UNCHANGED <<file_mutex, request>>
        PROVE  SysInv'
    BY <2>2, StageMoves DEF Holding
  <2>3. CASE Flush(t)
    BY <2>2, <2>3, EnteredCall DEF Flush, Proceed, Write, InCall, Holding
  <2>4. CASE SeekTo(t)
    BY <2>2, <2>4, EnteredCall DEF SeekTo, Proceed, Ioctl, InCall, Holding
  <2>5. CASE Rewind(t)
    BY <2>2, <2>5, EnteredCall DEF Rewind, Proceed, Llseek, InCall, Holding
  <2>6. CASE Fread(t)
    BY <2>2, <2>6, EnteredCall DEF Fread, Proceed, Read, InCall, Holding
  <2>7. CASE InDriver(t)
    <3>1. CallGoesOn(t) /\ UNCHANGED sysVars
      BY <2>7, DriverGoesOn DEF InDriver
    <3>2. \A u \in Threads : call'[u].pc # "idle" => call[u].pc # "idle"
      BY <3>1 DEF CallGoesOn
    <3> QED BY <3>1, <3>2 DEF SysInv, SysTypes, CallsMatch, MutexHeld, sysVars
  <2>8. CASE CallReturns(t)
    <3>1. /\ call[t].pc = "ret" /\ call'[t].pc = "idle"
          /\ \A u \in Threads \ {t} : call'[u] = call[u]
      BY <2>8, ReturnedCall DEF CallReturns
    <3>2. stage[t] \in InCall
      BY <3>1 DEF SysInv, CallsMatch
    <3>3. AfterCall(t) \in {"rewind", "fread", "unlock"}
      BY <3>2 DEF AfterCall, InCall
    <3>4. stage' = [stage EXCEPT ![t] = AfterCall(t)] /\ UNCHANGED <<file_mutex, request>>
      BY <2>8 DEF CallReturns
    <3> QED BY <3>1, <3>2, <3>3, <3>4, StageMoves DEF Holding
  <2>9. CASE UnlockFile(t)
    <3>1. /\ stage[t] = "unlock" /\ stage' = [stage EXCEPT ![t] = "fclose"] /\ call' = call
          /\ file_mutex' = NULL /\ request' = request
      BY <2>9 DEF UnlockFile, Proceed, vars
    <3>2. call[t].pc = "idle" /\ file_mutex = t
      BY <3>1 DEF SysInv, CallsMatch, MutexHeld, InCall, Holding
    <3> QED BY <3>1, <3>2, StageMoves DEF Holding, InCall
  <2>10. CASE Fclose(t)
    <3>1. /\ stage[t] = "fclose" /\ stage' = [stage EXCEPT ![t] = "idle"] /\ call' = call
          /\ file_mutex' = file_mutex /\ request' = [request EXCEPT ![t] = NoRequest]
      BY <2>10 DEF Fclose, Proceed, Release
    <3>2. call[t].pc = "idle"
      BY <3>1 DEF SysInv, CallsMatch, InCall
    <3> QED BY <1>0, <3>1, <3>2, StageMoves DEF Holding, InCall
  <2> QED BY <1>5, <2>1, <2>3, <2>4, <2>5, <2>6, <2>7, <2>8, <2>9, <2>10 DEF ConnectorStep
<1> QED BY <1>2, <1>3, <1>4, <1>5 DEF SysNext
-----------------------------------------------------------------------------
(* aesd_device.size.                                                       *)

(* A whole line, written when nothing is pending, replaces the size of the *)
(* evicted entry by its own twice: the size of the device never falls.     *)
LEMMA CommitKeepsSize ==
  ASSUME MemInv, CallInv, SizeCounts, NEW t \in Threads, WriteCommit(t)
  PROVE  SizeCounts'
<1> DEFINE data == call[t].arg
           cb == circular_buffer
<1>1. PICK b \in NewBlocks :
        /\ call[t].op = "write" /\ entry' = ZeroEntry
        /\ size' = NewSize(aesd_circular_buffer_add_entry(cb, GrownEntry(b, data)), Len(data))
  BY DEF WriteCommit, InBody
<1> DEFINE e == GrownEntry(b, data)
           cb2 == aesd_circular_buffer_add_entry(cb, e)
<1>2. data \in Payloads /\ Len(data) \in Nat
  BY <1>1, PayloadIsSeq DEF CallInv
<1>3. e.size = Len(data)
  BY <1>2 DEF SizeCounts, GrownEntry, ZeroEntry
<1>4. cb2.entry[cb.in_offs] = e
  BY UsedAfterAdd DEF MemInv, MemTypes
<1>5. cb.full => OldSlot = cb.in_offs
  BY OldSlotIsOverwritten
<1>6. size' = IF cb.full THEN size - Len(data) + Len(data) ELSE size + Len(data)
  BY <1>1, <1>3, <1>4, <1>5 DEF NewSize
<1> QED BY <1>1, <1>2, <1>6 DEF SizeCounts

(* What the server writes is never held back. *)
LEMMA NoPartialWrite ==
  ASSUME WholeLines, MemInv, CallInv, SizeCounts, NEW t \in Threads, WritePartial(t)
  PROVE  FALSE
<1> DEFINE data == call[t].arg
<1>1. data \in Payloads /\ ~IsCommand(Pending \o data)
  BY DEF WritePartial, InBody, CallInv
<1>2. data \in Seq(Bytes) /\ data[Len(data)] = Newline
  BY <1>1, PayloadIsSeq DEF WholeLines
<1>3. Pending \o data = data
  BY <1>2, PendingIs DEF SizeCounts
<1> QED BY <1>1, <1>2, <1>3 DEF IsCommand

(* Every step keeps size the number that whole lines make it.              *)
LEMMA SizeStep ==
  ASSUME WholeLines, MemInv, CallInv, LockInv, SizeCounts, [SysNext]_allVars
  PROVE  SizeCounts'
<1>1. CASE UNCHANGED <<entry, size>>
  BY <1>1 DEF SizeCounts
<1>2. CASE UNCHANGED allVars \/ SysDone
  BY <1>1, <1>2 DEF allVars, vars, devVars, SysDone
<1>3. CASE InitModule
  BY <1>3 DEF InitModule, SizeCounts
<1>4. ASSUME NEW t \in Threads, Receive(t) PROVE SizeCounts'
  BY <1>1, <1>4 DEF Receive, Open, devVars
<1>5. ASSUME NEW t \in Threads, ConnectorStep(t) PROVE SizeCounts'
  <2>1. CASE LockFile(t) \/ UnlockFile(t)
    BY <1>1, <2>1 DEF LockFile, UnlockFile, vars, devVars
  <2>2. CASE Flush(t) \/ SeekTo(t) \/ Rewind(t) \/ Fread(t)
    BY <1>1, <2>2, EnteredCall DEF Flush, SeekTo, Rewind, Fread, Write, Ioctl, Llseek, Read
  <2>3. CASE CallReturns(t)
    BY <1>1, <2>3, ReturnedCall DEF CallReturns
  <2>4. CASE Fclose(t)
    BY <1>1, <2>4 DEF Fclose, Release, devVars
  <2>5. CASE WritePartial(t) \/ WriteCommit(t)
    BY <2>5, NoPartialWrite, CommitKeepsSize
  <2>6. CASE Acquire(t) \/ LlseekBody(t) \/ IoctlBody(t) \/ ReadEntry(t) \/ ReadLast(t) \/ ReadEnd(t)
    BY <1>1, <2>6 DEF Acquire, LlseekBody, IoctlBody, ReadEntry, ReadLast, ReadEnd, devVars
  <2> QED BY <1>5, <2>1, <2>2, <2>3, <2>4, <2>5, <2>6 DEF ConnectorStep, InDriver
<1> QED BY <1>2, <1>3, <1>4, <1>5 DEF SysNext

(* A rewind stays the call it is, and is accepted when its body runs.      *)
LEMMA RewindStep ==
  ASSUME LockInv, SysInv, SizeCounts, RewindIsLlseek, [SysNext]_allVars
  PROVE  RewindIsLlseek'
<1> DEFINE Accepted(u) ==
      /\ call'[u].op = "llseek" /\ call'[u].arg = RewindArg
      /\ call'[u].pc = "ret" => call'[u].ret = "ok"
<1>1. SUFFICES ASSUME NEW u \in Threads, stage'[u] = "rewinding" PROVE Accepted(u)
  BY DEF RewindIsLlseek
<1>2. CASE stage[u] = "rewinding" /\ call'[u] = call[u]
  BY <1>2 DEF RewindIsLlseek
<1>3. CASE UNCHANGED allVars \/ SysDone \/ (InitModule /\ UNCHANGED sysVars)
  BY <1>1, <1>2, <1>3 DEF allVars, vars, sysVars, SysDone, InitModule
<1>4. ASSUME NEW t \in Threads, Receive(t) PROVE Accepted(u)
  BY <1>1, <1>2, <1>4 DEF Receive, Proceed, Open, SysInv, SysTypes
<1>5. ASSUME NEW t \in Threads, ConnectorStep(t) PROVE Accepted(u)
  <2>1. CASE LockFile(t) \/ UnlockFile(t) \/ Fclose(t)
    BY <1>1, <1>2, <2>1 DEF LockFile, UnlockFile, Fclose, Proceed, Release, vars, SysInv, SysTypes
  <2>2. CASE Flush(t) \/ SeekTo(t) \/ Fread(t)
    BY <1>1, <1>2, <2>2, EnteredCall
    DEF Flush, SeekTo, Fread, Proceed, Write, Ioctl, Read, SysInv, SysTypes
  <2>3. CASE Rewind(t)
    BY <1>1, <1>2, <2>3, EnteredCall DEF Rewind, Proceed, Llseek, SysInv, SysTypes
  <2>4. CASE CallReturns(t)
    <3>1. stage[t] \in InCall /\ \A v \in Threads \ {t} : call'[v] = call[v]
      BY <2>4, ReturnedCall DEF CallReturns, SysInv, CallsMatch
    <3>2. AfterCall(t) # "rewinding"
      BY <3>1 DEF AfterCall, InCall
    <3> QED BY <1>1, <1>2, <2>4, <3>1, <3>2 DEF CallReturns, SysInv, SysTypes
  <2>5. CASE InDriver(t)
    <3>1. CallGoesOn(t) /\ stage' = stage
      BY <2>5, DriverGoesOn DEF InDriver, sysVars
    <3>2. CASE u # t
      BY <1>1, <1>2, <3>1, <3>2 DEF CallGoesOn
    <3>3. CASE u = t
      <4>1. call[t].op = "llseek" /\ call[t].arg = RewindArg /\ stage[t] = "rewinding"
        BY <1>1, <3>1, <3>3 DEF RewindIsLlseek
      <4>2. CASE Acquire(t)
        BY <3>1, <3>3, <4>1, <4>2 DEF Acquire, Progress, CallGoesOn, LockInv
      <4>3. CASE LlseekBody(t)
        <5>1. fixed_size_llseek(RewindArg, f_pos[call[t].file]) = 0 /\ 0 \in 0..size
          BY DEF fixed_size_llseek, RewindArg, SizeCounts
        <5>2. Finish(t, call[t].pos, << >>, "ok")
          BY <4>1, <4>3, <5>1 DEF LlseekBody, SeekAllowed
        <5> QED BY <3>1, <3>3, <4>1, <5>2 DEF Finish, Progress, CallGoesOn, LockInv
      <4> QED BY <2>5, <4>1, <4>2, <4>3 DEF InDriver, InBody, WritePartial, WriteCommit,
              IoctlBody, ReadEntry, ReadLast, ReadEnd
    <3> QED BY <3>2, <3>3
  <2> QED BY <1>5, <2>1, <2>2, <2>3, <2>4, <2>5 DEF ConnectorStep
<1> QED BY <1>3, <1>4, <1>5 DEF SysNext
-----------------------------------------------------------------------------
(* The theorems.                                                           *)

(* The invariants hold in the beginning.                                   *)
LEMMA SysInitInv == SysInit => SysInv /\ SizeCounts /\ RewindIsLlseek /\ LockInv
<1> SUFFICES ASSUME SysInit PROVE SysInv /\ SizeCounts /\ RewindIsLlseek /\ LockInv
  OBVIOUS
<1>0. NULL \notin Threads
  BY DriverAssumption
<1>1. SysTypes
  BY DEF SysInit, SysTypes, Holding
<1>2. CallsMatch /\ MutexHeld /\ RewindIsLlseek
  BY <1>0 DEF SysInit, Init, IdleCall, CallsMatch, MutexHeld, RewindIsLlseek, Holding, InCall
<1>3. LockInv
  BY <1>0 DEF SysInit, Init, IdleCall, LockInv, LockDiscipline
<1>4. SizeCounts
  BY DEF SysInit, Init, SizeCounts
<1> QED BY <1>1, <1>2, <1>3, <1>4 DEF SysInv

(* The lock invariants of the driver and of file_mutex hold always.        *)
LEMMA SysInvariant == SysSpec => [](LockInv /\ SysInv)
<1>1. LockInv /\ SysInv /\ [SysNext]_allVars => (LockInv /\ SysInv)'
  BY SysStep, SystemStepsAreDriverSteps, NextKeepsLockInv DEF SysInv
<1> QED BY <1>1, SysInitInv, PTL DEF SysSpec

(* The server over the driver makes no use of the driver that the driver's *)
(* specification does not allow: everything proved of the driver holds     *)
(* here.                                                                   *)
THEOREM SystemUsesDriver == SysSpec => Spec
<1>1. SysInit => Init
  BY DEF SysInit
<1>2. LockInv /\ SysInv /\ [SysNext]_allVars => [Next]_vars
  BY SystemStepsAreDriverSteps DEF SysInv
<1> QED BY <1>1, <1>2, SysInvariant, PTL DEF SysSpec, Spec

(* aesd_device.lock is free whenever a connector calls the driver, since   *)
(* file_mutex is held around all calls: none of them waits or is           *)
(* interrupted, however many connectors there are.                         *)
THEOREM DeviceIsUncontended == SysSpec => []DeviceUncontended
<1>1. TypeOK /\ LockInv /\ SysInv => DeviceUncontended
  <2>1. SUFFICES ASSUME TypeOK, LockInv, SysInv, NEW t \in Threads, call[t].pc = "lock",
                        lock # NULL
                 PROVE  FALSE
    BY DEF DeviceUncontended
  <2>2. lock \in Threads /\ call[lock].pc = "body"
    BY <2>1 DEF TypeOK, LockInv, LockDiscipline
  <2>3. file_mutex = t /\ file_mutex = lock
    BY <2>1, <2>2 DEF SysInv, CallsMatch, MutexHeld, Holding
  <2> QED BY <2>1, <2>2, <2>3
<1> QED BY <1>1, SysInvariant, SystemUsesDriver, DriverTypes, PTL

(* The driver accepts every rewind of the server, whose result it ignores, *)
(* as long as requests are whole lines: they keep aesd_device.size from    *)
(* falling below zero.                                                     *)
THEOREM RewindIsAccepted == WholeLines => (SysSpec => []RewindAccepted)
<1> SUFFICES ASSUME WholeLines PROVE SysSpec => []RewindAccepted
  OBVIOUS
<1>1. MemInv /\ CallInv /\ LockInv /\ SysInv /\ SizeCounts /\ RewindIsLlseek /\ [SysNext]_allVars
      => SizeCounts' /\ RewindIsLlseek'
  BY SizeStep, RewindStep
<1>2. RewindIsLlseek => RewindAccepted
  BY DEF RewindIsLlseek, RewindAccepted
<1> QED BY <1>1, <1>2, SysInitInv, SysInvariant, SystemUsesDriver, DeviceInvariants, PTL DEF SysSpec
-----------------------------------------------------------------------------
(***************************************************************************)
(* The server over the driver implements LineService.  The inductive       *)
(* invariant follows each connector through its calls: what it has sent    *)
(* and where its file stands, over the lines of the device.                *)
(***************************************************************************)
(* The bytes that the answer to request r leaves out, over the lines s.    *)
SkipOf(r, s) ==
  IF r.kind = "seek" /\ r.arg.write_cmd < Len(s)
       /\ r.arg.write_cmd_offset < Len(s[r.arg.write_cmd + 1])
  THEN Len(FlattenSeq(SubSeq(s, 1, r.arg.write_cmd))) + r.arg.write_cmd_offset
  ELSE 0

(* The call c of connector t is the one that its stage st and its request  *)
(* r call for.                                                             *)
CallFits(st, r, c, t) ==
  /\ st \in InCall => c.pc # "idle" /\ c.file = t
  /\ st = "flushing" => r.kind = "line" /\ c.op = "write" /\ c.arg = r.arg
  /\ st = "seeking" => r.kind = "seek" /\ c.op = "ioctl" /\ c.arg = r.arg
  /\ st \in {"rewind", "rewinding"} => r.kind = "line"
  /\ st = "rewinding" => c.op = "llseek" /\ c.arg = RewindArg
  /\ st = "reading" => c.op = "read" /\ c.arg = StdioBuf
  /\ st \in {"flushing", "seeking", "rewinding"} => c.out = << >>

(* What has been sent is the part of the contents between the bytes left   *)
(* out and the position.                                                   *)
Sent(r, a, p, s) ==
  /\ p = SkipOf(r, s) + Len(a) /\ p <= Len(FlattenSeq(s))
  /\ a = SubSeq(FlattenSeq(s), SkipOf(r, s) + 1, p)

(* The answer a, the call c and the file position p of a connector that is *)
(* at stage st with request r, over the lines s.                           *)
AnswerFits(st, r, a, c, p, s) ==
  /\ st \notin {"fread", "reading", "unlock", "fclose"} => a = << >>
  /\ st \in {"lock", "locked"} => p = 0
  /\ st = "seeking" => p = IF c.pc = "ret" THEN SkipOf(r, s) ELSE 0
  /\ st = "rewinding" /\ c.pc = "ret" => p = 0
  /\ st \in {"fread", "reading"} => Sent(r, a, p, s)
  /\ st = "reading" => c.start = p
  /\ st = "reading" /\ c.pc = "ret" =>
       /\ c.ret = "ok" /\ c.pos = p + Len(c.out)
       /\ c.out = SubSeq(FlattenSeq(s), p + 1, Len(FlattenSeq(s)))

Serves(st, r, a, c, p, s, t) == CallFits(st, r, c, t) /\ AnswerFits(st, r, a, c, p, s)

(* Every line that is kept was written by one write of the server. *)
LinesInv == \A k \in DOMAIN Commands : Commands[k] \in Payloads

ServeInv ==
  /\ answer = [t \in Threads |-> answer[t]] /\ \A t \in Threads : answer[t] \in Seq(Bytes)
  /\ \A t \in Threads :
       Serves(stage[t], request[t], answer[t], call[t], f_pos[t], Commands, t)
-----------------------------------------------------------------------------
(* A read has room for all lines.                                          *)

LEMMA MulAdd ==
  ASSUME NEW m \in Nat, NEW x \in Nat, NEW y \in Nat
  PROVE  m * (x + y) = m * x + m * y /\ (x + y) * m = x * m + y * m
OBVIOUS

LEMMA MulCancel ==
  ASSUME NEW m \in Nat \ {0}, NEW x \in Nat, NEW y \in Nat, m * x <= m * y
  PROVE  x <= y
<1>1. SUFFICES ASSUME x > y PROVE FALSE
  OBVIOUS
<1>2. PICK d \in Nat : x = y + d /\ d >= 1
  <2>1. x - y \in Nat /\ x = y + (x - y) /\ x - y >= 1
    BY <1>1
  <2> QED BY <2>1
<1>3. m * x = m * y + m * d
  BY <1>2, MulAdd
<1>4. m * d >= 1 /\ m * d \in Nat /\ m * y \in Nat
  BY <1>2
<1> QED BY <1>3, <1>4

LEMMA MulMono ==
  ASSUME NEW m \in Nat, NEW x \in Nat, NEW y \in Nat, x <= y
  PROVE  x * m <= y * m
<1>1. y - x \in Nat /\ y = x + (y - x)
  OBVIOUS
<1>2. y * m = x * m + (y - x) * m
  BY <1>1, MulAdd
<1>3. (y - x) * m \in Nat /\ x * m \in Nat
  BY <1>1
<1> QED BY <1>2, <1>3

LEMMA LinesFit ==
  ASSUME FitsStdioBuffer, MemInv, LinesInv
  PROVE  Len(Contents) \in Nat /\ (Len(Contents) < StdioBuf \/ Len(Contents) = 0)
<1> DEFINE s == Commands
           n == ForeachCount(circular_buffer)
           T == [k \in 0..n |-> TotalSize(circular_buffer, k)]
           B == StdioBuf - 1
           M == MaxOps
<1>1. /\ n \in Nat /\ s \in Seq(Seq(Bytes)) /\ Len(s) = n
      /\ Contents \in Seq(Bytes) /\ Len(Contents) = TotalSize(circular_buffer, n)
      /\ Totals(s, T)
  BY ContentsAre
<1>2. n <= M /\ M \in Nat \ {0}
  <2>1. IsBuffer(circular_buffer, EntryTypes) /\ RingShape(circular_buffer)
    BY DEF MemInv, MemTypes
  <2>2. n \in 0..MaxOps
    BY <2>1, CountIsNat
  <2> QED BY <2>2, MaxOpsAssumption
<1>3. Len(Contents) \in Nat /\ Len(Contents) = T[n]
  BY <1>1
<1>4. StdioBuf \in Nat
  BY SystemAssumption, DriverAssumption
<1> HIDE DEF T, n, M
<1>5. /\ T[0] = 0 /\ \A k \in 0..n : T[k] \in Nat
      /\ \A k \in 1..n : Len(s[k]) \in Nat /\ T[k - 1] \in Nat /\ T[k] \in Nat
                         /\ T[k] = T[k - 1] + Len(s[k])
  <2> HIDE DEF s
  <2> QED BY <1>1, TotalsAt
<1>6. ASSUME NEW k \in 1..n PROVE M * Len(s[k]) < StdioBuf
  <2>1. k \in DOMAIN s
    <3> HIDE DEF s
    <3> QED BY <1>1
  <2>2. s[k] \in Payloads
    BY <2>1 DEF LinesInv
  <2> QED BY <2>2 DEF FitsStdioBuffer, M
<1> HIDE DEF s
<1>7. CASE n = 0
  BY <1>3, <1>5, <1>7
<1>8. CASE n # 0
  <2>1. B \in Nat /\ \A k \in 1..n : M * Len(s[k]) <= B
    <3>1. 1 \in 1..n
      BY <1>1, <1>8
    <3>2. M * Len(s[1]) \in Nat
      BY <1>2, <1>5, <3>1
    <3>3. B \in Nat
      BY <1>4, <1>6, <3>1, <3>2
    <3>4. ASSUME NEW k \in 1..n PROVE M * Len(s[k]) <= B
      <4>1. M * Len(s[k]) \in Nat
        BY <1>2, <1>5
      <4> QED BY <1>4, <1>6, <4>1
    <3> QED BY <3>3, <3>4
  <2> DEFINE Bad == {k \in 0..n : ~(M * T[k] <= k * B)}
  <2> HIDE DEF B
  <2>2. Bad = {}
    <3>1. SUFFICES ASSUME Bad # {} PROVE FALSE
      OBVIOUS
    <3>2. PICK j \in Bad : \A i \in Bad : j <= i
      <4>1. Bad \subseteq Nat
        BY <1>1
      <4> HIDE DEF Bad
      <4> QED BY <3>1, <4>1, LeastNat
    <3>3. j # 0
      <4>1. M * 0 <= 0 * B
        BY <1>2, <2>1
      <4> QED BY <1>5, <3>2, <4>1
    <3>4. j \in 1..n /\ j - 1 \in 0..n /\ j - 1 \in Nat
      BY <1>1, <3>2, <3>3
    <3>5. j - 1 \notin Bad
      <4> HIDE DEF Bad
      <4> QED BY <3>2, <3>4
    <3>6. M * T[j - 1] <= (j - 1) * B
      BY <3>4, <3>5
    <3> DEFINE x == T[j - 1]
               y == Len(s[j])
               i == j - 1
    <3>7. x \in Nat /\ y \in Nat /\ T[j] = x + y /\ M * y <= B /\ i \in Nat /\ j = i + 1
          /\ M * x <= i * B
      BY <1>5, <2>1, <3>4, <3>6
    <3> HIDE DEF x, y, i
    <3>8. M * T[j] = M * x + M * y /\ j * B = i * B + 1 * B
      BY <1>2, <2>1, <3>7, MulAdd
    <3>9. M * x \in Nat /\ M * y \in Nat /\ i * B \in Nat /\ 1 * B = B
      BY <1>2, <2>1, <3>7
    <3>10. M * T[j] <= j * B
      BY <2>1, <3>7, <3>8, <3>9
    <3> QED BY <3>2, <3>10
  <2>3. n \in 0..n
    BY <1>1
  <2>4. M * T[n] <= n * B
    BY <2>2, <2>3
  <2>5. n * B <= M * B
    BY <1>1, <1>2, <2>1, MulMono
  <2>6. M * T[n] <= M * B
    <3>1. T[n] \in Nat
      BY <1>5, <2>3
    <3>2. M * T[n] \in Int /\ n * B \in Int /\ M * B \in Int
      BY <1>1, <1>2, <2>1, <3>1
    <3> QED BY <2>4, <2>5, <3>2
  <2>7. T[n] <= B
    BY <1>2, <1>5, <2>1, <2>3, <2>6, MulCancel
  <2> QED BY <1>3, <1>4, <2>7 DEF B
<1> QED BY <1>3, <1>7, <1>8

(* The byte that a seek request addresses is there. *)
LEMMA SkipInside ==
  ASSUME MemInv, NEW r \in Requests \cup {NoRequest}
  PROVE  SkipOf(r, Commands) \in Nat /\ SkipOf(r, Commands) <= Len(Contents)
<1> DEFINE cb == circular_buffer
           n == ForeachCount(cb)
           k == r.arg.write_cmd
           j == r.arg.write_cmd_offset
           There == r.kind = "seek" /\ k < Len(Commands) /\ j < Len(Commands[k + 1])
<1>1. /\ n \in Nat /\ Len(Commands) = n /\ Contents \in Seq(Bytes)
      /\ Len(Contents) = TotalSize(cb, n) /\ Commands \in Seq(Seq(Bytes))
      /\ \A i \in 0 .. n - 1 : Len(Commands[i + 1]) = ForeachEntry(cb, i).size
      /\ \A i \in 0 .. n - 1 : \A p \in 1..ForeachEntry(cb, i).size :
           TotalSize(cb, i) + p \in 1..TotalSize(cb, n)
  BY ContentsAre
<1>2. CASE There
  <2>1. r.arg \in SeekTos
    BY <1>2 DEF Requests, NoRequest
  <2>2. k \in Nat /\ j \in Nat
    BY <2>1, DriverAssumption
  <2>3. SkipOf(r, Commands) = Len(FlattenSeq(SubSeq(Commands, 1, k))) + j
    BY <1>2 DEF SkipOf
  <2> DEFINE z == ForeachEntry(cb, k).size
             tot == TotalSize(cb, k)
  <2> HIDE DEF n, k, j
  <2>4. k \in 0 .. n - 1 /\ k + 1 \in DOMAIN Commands /\ (k + 1) - 1 = k
    BY <1>1, <1>2, <2>2
  <2>5. Len(FlattenSeq(SubSeq(Commands, 1, k))) = tot
    BY <2>4, BytesBeforeCommand
  <2>6. tot \in Nat
    BY <2>2, EntriesAreSized, TotalSizeType DEF MemInv, MemTypes
  <2>7. Len(Commands[k + 1]) = z /\ z \in Nat
    <3>1. Commands[k + 1] \in Seq(Bytes)
      BY <1>1, <2>4
    <3>2. Len(Commands[k + 1]) \in Nat
      BY <3>1
    <3> QED BY <1>1, <2>4, <3>2
  <2> HIDE DEF z, tot
  <2>8. j + 1 \in 1..z
    BY <1>2, <2>2, <2>7
  <2>9. tot + (j + 1) \in 1..Len(Contents)
    BY <1>1, <2>4, <2>8 DEF z, tot
  <2>10. tot + j \in Nat /\ tot + j <= Len(Contents)
    BY <1>1, <2>2, <2>6, <2>9
  <2> QED BY <2>3, <2>5, <2>10
<1>3. CASE ~There
  <2>1. SkipOf(r, Commands) = 0
    BY <1>3 DEF SkipOf
  <2> QED BY <1>1, <2>1
<1> QED BY <1>2, <1>3
-----------------------------------------------------------------------------
(* The lines change only when a connector flushes.                         *)

(* What the invariants of the driver and of the calls say together. *)
WholeInv == FileInv /\ CallInv /\ SysInv /\ SizeCounts /\ LinesInv /\ ServeInv

LEMMA LinesAreCommands == Lines = Commands
BY DEF Lines, Commands

(* A step of the server that leaves the device alone, *)
LEMMA SysKeepsDevice ==
  ASSUME WholeLines, WholeInv, [SysNext]_allVars,
         ~\E t \in Threads : InDriver(t) /\ WriteCommit(t)
  PROVE  UNCHANGED <<Commands, Pending>> /\ (module' = module \/ InitModule)
<1>0. MemInv /\ OpenInv /\ LockInv /\ CallInv /\ SizeCounts
  BY DEF WholeInv, FileInv
<1>1. CASE UNCHANGED devVars /\ UNCHANGED module
  BY <1>1 DEF devVars, Commands, Pending
<1>2. CASE UNCHANGED allVars \/ SysDone
  BY <1>1, <1>2 DEF allVars, vars, SysDone, modVars
<1>3. CASE InitModule
  <2>1. Commands' = Commands
    BY <1>0, <1>3, EmptyCommands DEF InitModule, OpenInv
  <2>2. Pending' = Pending
    BY <1>0, <1>3 DEF InitModule, OpenInv, Pending, ZeroEntry
  <2> QED BY <1>3, <2>1, <2>2
<1>4. ASSUME NEW t \in Threads, Receive(t) PROVE UNCHANGED devVars /\ UNCHANGED module
  BY <1>4 DEF Receive, Open, modVars
<1>5. ASSUME NEW t \in Threads, ConnectorStep(t) PROVE UNCHANGED devVars /\ UNCHANGED module
  <2>1. CASE LockFile(t) \/ UnlockFile(t)
    BY <2>1 DEF LockFile, UnlockFile, vars, modVars
  <2>2. CASE Flush(t) \/ SeekTo(t) \/ Rewind(t) \/ Fread(t)
    BY <2>2 DEF Flush, SeekTo, Rewind, Fread, Write, Ioctl, Llseek, Read, Enter, modVars
  <2>3. CASE CallReturns(t)
    BY <2>3 DEF CallReturns, Return, modVars
  <2>4. CASE Fclose(t)
    BY <2>4 DEF Fclose, Release, modVars
  <2>5. CASE InDriver(t)
    <3>1. ~WritePartial(t)
      BY <1>0, NoPartialWrite
    <3>2. Acquire(t) \/ LlseekBody(t) \/ IoctlBody(t) \/ ReadEntry(t) \/ ReadLast(t) \/ ReadEnd(t)
      BY <2>5, <3>1 DEF InDriver
    <3>3. UNCHANGED devVars
      BY <3>2 DEF Acquire, LlseekBody, IoctlBody, ReadEntry, ReadLast, ReadEnd
    <3>4. UNCHANGED module
      BY <3>2 DEF Acquire, LlseekBody, IoctlBody, ReadEntry, ReadLast, ReadEnd, Finish, modVars
    <3> QED BY <3>3, <3>4
  <2> QED BY <1>5, <2>1, <2>2, <2>3, <2>4, <2>5 DEF ConnectorStep
<1> QED BY <1>1, <1>2, <1>3, <1>4, <1>5 DEF SysNext

(* and one that writes a line. *)
LEMMA SysCommits ==
  ASSUME WholeInv, MemInv', NEW t \in Threads, WriteCommit(t)
  PROVE  /\ stage[t] = "flushing" /\ file_mutex = t /\ module = "live" /\ module' = "live"
         /\ call[t].pc = "body" /\ call[t].arg = request[t].arg /\ request[t].kind = "line"
         /\ call[t].arg \in Payloads
         /\ Pending = << >> /\ Pending' = << >>
         /\ Commands' = Device!Push(Commands, Pending \o call[t].arg)
         /\ Commands' = Device!Push(Commands, call[t].arg)
<1>0. /\ MemInv /\ OpenInv /\ LiveInv /\ CallInv /\ entry = ZeroEntry
      /\ CallsMatch /\ MutexHeld
  BY DEF WholeInv, FileInv, SizeCounts, SysInv
<1>1. call[t].pc = "body" /\ call[t].op = "write"
  BY DEF WriteCommit, InBody
<1>2. stage[t] \in InCall
  BY <1>0, <1>1 DEF CallsMatch
<1>3. CallFits(stage[t], request[t], call[t], t)
  BY DEF WholeInv, ServeInv, Serves
<1>4. stage[t] = "flushing" /\ call[t].arg = request[t].arg /\ request[t].kind = "line"
  BY <1>1, <1>2, <1>3 DEF CallFits, InCall
<1>5. file_mutex = t
  BY <1>0, <1>2 DEF MutexHeld, Holding
<1>6. module = "live" /\ module' = "live"
  BY <1>0, <1>1, BodyIsLive, BodyKeepsModule DEF Body
<1>7. PICK b : CommitsTo(t, b)
  BY <1>0, CommitEffect
<1>8. Commands' = Device!Push(Commands, Pending \o call[t].arg)
  BY <1>0, <1>7, CommitPushes
<1>9. call[t].arg \in Payloads /\ Pending = << >> /\ Pending' = << >>
  BY <1>0, <1>7, PendingIs DEF CommitsTo, Pending, ZeroEntry
<1>10. Pending \o call[t].arg = call[t].arg
  BY <1>9, PayloadIsSeq
<1> QED BY <1>1, <1>4, <1>5, <1>6, <1>8, <1>9, <1>10

LEMMA PushOfLines ==
  ASSUME NEW S, NEW P, NEW s \in Seq(S), NEW x \in S, \A k \in DOMAIN s : s[k] \in P, x \in P
  PROVE  \A k \in DOMAIN Device!Push(s, x) : Device!Push(s, x)[k] \in P
<1>0. MaxOps \in Nat \ {0}
  BY MaxOpsAssumption
<1>1. CASE Len(s) < MaxOps
  <2>1. Device!Push(s, x) = Append(s, x)
    BY <1>1 DEF Device!Push
  <2>2. ASSUME NEW k \in DOMAIN Append(s, x) PROVE Append(s, x)[k] \in P
    <3>1. k \in 1 .. Len(s) + 1
      OBVIOUS
    <3>2. CASE k \in 1..Len(s)
      BY <3>2
    <3>3. CASE k = Len(s) + 1
      BY <3>3
    <3> QED BY <3>1, <3>2, <3>3
  <2> QED BY <2>1, <2>2
<1>2. CASE ~(Len(s) < MaxOps)
  <2> DEFINE r == Tail(s)
  <2>0. s # << >> /\ Len(s) \in Nat
    BY <1>0, <1>2
  <2>1. Device!Push(s, x) = Append(r, x)
    BY <1>2 DEF Device!Push
  <2>2. r \in Seq(S) /\ Len(r) = Len(s) - 1 /\ \A i \in 1..Len(r) : r[i] = s[i + 1]
    BY <2>0, HeadTailProperties
  <2>3. \A i \in 1..Len(r) : i + 1 \in DOMAIN s
    BY <2>0, <2>2
  <2> HIDE DEF r
  <2>4. ASSUME NEW k \in DOMAIN Append(r, x) PROVE Append(r, x)[k] \in P
    <3>1. k \in 1 .. Len(r) + 1
      BY <2>2
    <3>2. CASE k \in 1..Len(r)
      BY <2>2, <2>3, <3>2
    <3>3. CASE k = Len(r) + 1
      BY <2>2, <3>3
    <3> QED BY <2>2, <3>1, <3>2, <3>3
  <2> QED BY <2>1, <2>4
<1> QED BY <1>1, <1>2

LEMMA LinesStep ==
  ASSUME WholeLines, WholeInv, MemInv', [SysNext]_allVars
  PROVE  LinesInv'
<1>1. CASE \E t \in Threads : InDriver(t) /\ WriteCommit(t)
  <2>1. PICK t \in Threads : WriteCommit(t)
    BY <1>1
  <2>2. call[t].arg \in Payloads /\ Commands' = Device!Push(Commands, call[t].arg)
    BY <2>1, SysCommits
  <2>3. Commands \in Seq(Seq(Bytes)) /\ call[t].arg \in Seq(Bytes)
    BY <2>2, ContentsAre, PayloadIsSeq DEF WholeInv, FileInv
  <2>4. \A k \in DOMAIN Commands : Commands[k] \in Payloads
    BY DEF WholeInv, LinesInv
  <2>5. \A k \in DOMAIN Device!Push(Commands, call[t].arg) :
          Device!Push(Commands, call[t].arg)[k] \in Payloads
    BY <2>2, <2>3, <2>4, PushOfLines
  <2> QED BY <2>2, <2>5 DEF LinesInv
<1>2. CASE ~\E t \in Threads : InDriver(t) /\ WriteCommit(t)
  BY <1>2, SysKeepsDevice DEF WholeInv, LinesInv
<1> QED BY <1>1, <1>2
-----------------------------------------------------------------------------
(* Every step of a connector fits its stage, its request and its answer.   *)

(* Nothing of connector u changes. *)
Same(u) ==
  /\ stage'[u] = stage[u] /\ request'[u] = request[u] /\ answer'[u] = answer[u]
  /\ call'[u] = call[u] /\ f_pos'[u] = f_pos[u]

(* A step of t is a step of t only, and other connectors do not see the    *)
(* line it writes, since they do not hold file_mutex.                      *)
LEMMA OneServes ==
  ASSUME WholeInv, NEW t \in Threads, \A u \in Threads \ {t} : Same(u),
         Commands' = Commands \/ file_mutex = t,
         answer' = [u \in Threads |-> answer'[u]], answer'[t] \in Seq(Bytes),
         Serves(stage'[t], request'[t], answer'[t], call'[t], f_pos'[t], Commands', t)
  PROVE  ServeInv'
<1>1. ASSUME NEW u \in Threads \ {t}
      PROVE  /\ answer'[u] \in Seq(Bytes)
             /\ Serves(stage'[u], request'[u], answer'[u], call'[u], f_pos'[u], Commands', u)
  <2>1. /\ answer[u] \in Seq(Bytes)
        /\ Serves(stage[u], request[u], answer[u], call[u], f_pos[u], Commands, u)
    BY DEF WholeInv, ServeInv
  <2>2. Commands' = Commands \/ stage[u] \notin Holding
    BY DEF WholeInv, SysInv, MutexHeld
  <2>3. stage[u] \notin Holding =>
          Serves(stage[u], request[u], answer[u], call[u], f_pos[u], Commands', u)
    BY <2>1 DEF Serves, AnswerFits, Holding, InCall
  <2> QED BY <2>1, <2>2, <2>3 DEF Same
<1>2. \A u \in Threads :
        /\ answer'[u] \in Seq(Bytes)
        /\ Serves(stage'[u], request'[u], answer'[u], call'[u], f_pos'[u], Commands', u)
  BY <1>1
<1> QED BY <1>2 DEF ServeInv

LEMMA ServingTypes ==
  ASSUME WholeInv
  PROVE  /\ stage = [u \in Threads |-> stage[u]] /\ request = [u \in Threads |-> request[u]]
         /\ answer = [u \in Threads |-> answer[u]] /\ call = [u \in Threads |-> call[u]]
         /\ f_pos = [u \in Threads |-> f_pos[u]] /\ \A u \in Threads : answer[u] \in Seq(Bytes)
<1>1. f_pos \in [Files -> Nat] /\ Files = Threads
  BY SystemAssumption DEF WholeInv, FileInv, VfsTypes
<1>2. f_pos = [u \in Threads |-> f_pos[u]]
  BY <1>1
<1> QED BY <1>2 DEF WholeInv, FileInv, VfsTypes, SysInv, SysTypes, ServeInv

LEMMA OwnServes ==
  ASSUME WholeInv, NEW t \in Threads
  PROVE  /\ CallFits(stage[t], request[t], call[t], t)
         /\ AnswerFits(stage[t], request[t], answer[t], call[t], f_pos[t], Commands)
BY DEF WholeInv, ServeInv, Serves

(* fopen, the receive loop, file_mutex and fclose. *)
LEMMA OutsideServes ==
  ASSUME WholeInv, NEW t \in Threads, UNCHANGED <<Commands, call>>,
         Receive(t) \/ LockFile(t) \/ UnlockFile(t) \/ Fclose(t)
  PROVE  ServeInv'
<1>0. /\ CallFits(stage[t], request[t], call[t], t)
      /\ AnswerFits(stage[t], request[t], answer[t], call[t], f_pos[t], Commands)
  BY OwnServes
<1>1. CASE Receive(t)
  <2>1. /\ stage[t] = "idle" /\ stage' = [stage EXCEPT ![t] = "lock"]
        /\ f_pos' = [f_pos EXCEPT ![t] = 0] /\ answer' = answer
        /\ \E r : request' = [request EXCEPT ![t] = r]
    BY <1>1 DEF Receive, Proceed, Open
  <2>2. stage'[t] = "lock" /\ f_pos'[t] = 0 /\ \A u \in Threads \ {t} : Same(u)
    BY <2>1, ServingTypes DEF Same
  <2>3. answer'[t] = << >>
    BY <1>0, <2>1 DEF AnswerFits
  <2>4. Serves(stage'[t], request'[t], answer'[t], call'[t], f_pos'[t], Commands', t)
    BY <2>2, <2>3 DEF Serves, CallFits, AnswerFits, InCall
  <2> QED BY <2>1, <2>2, <2>4, ServingTypes, OneServes
<1>2. CASE LockFile(t)
  <2>1. /\ stage[t] = "lock" /\ stage' = [stage EXCEPT ![t] = "locked"]
        /\ UNCHANGED <<f_pos, answer, request>>
    BY <1>2 DEF LockFile, Proceed, vars, vfsVars
  <2>2. stage'[t] = "locked" /\ \A u \in Threads \ {t} : Same(u)
    BY <2>1, ServingTypes DEF Same
  <2>3. Serves(stage'[t], request'[t], answer'[t], call'[t], f_pos'[t], Commands', t)
    BY <1>0, <2>1, <2>2 DEF Serves, CallFits, AnswerFits, InCall
  <2> QED BY <2>1, <2>2, <2>3, ServingTypes, OneServes
<1>3. CASE UnlockFile(t)
  <2>1. /\ stage' = [stage EXCEPT ![t] = "fclose"] /\ UNCHANGED <<f_pos, answer, request>>
    BY <1>3 DEF UnlockFile, Proceed, vars, vfsVars
  <2>2. stage'[t] = "fclose" /\ \A u \in Threads \ {t} : Same(u)
    BY <2>1, ServingTypes DEF Same
  <2>3. Serves(stage'[t], request'[t], answer'[t], call'[t], f_pos'[t], Commands', t)
    BY <2>2 DEF Serves, CallFits, AnswerFits, InCall
  <2> QED BY <2>1, <2>2, <2>3, ServingTypes, OneServes
<1>4. CASE Fclose(t)
  <2>1. /\ stage' = [stage EXCEPT ![t] = "idle"] /\ request' = [request EXCEPT ![t] = NoRequest]
        /\ answer' = [answer EXCEPT ![t] = << >>] /\ f_pos' = [f_pos EXCEPT ![t] = 0]
    BY <1>4 DEF Fclose, Proceed, Release
  <2>2. stage'[t] = "idle" /\ answer'[t] = << >> /\ \A u \in Threads \ {t} : Same(u)
    BY <2>1, ServingTypes DEF Same
  <2>3. Serves(stage'[t], request'[t], answer'[t], call'[t], f_pos'[t], Commands', t)
    BY <2>2 DEF Serves, CallFits, AnswerFits, InCall
  <2>4. answer' = [u \in Threads |-> answer'[u]]
    BY <2>1, ServingTypes
  <2>5. answer'[t] \in Seq(Bytes)
    BY <2>2
  <2> QED BY <2>2, <2>3, <2>4, <2>5, OneServes
<1> QED BY <1>1, <1>2, <1>3, <1>4

(* The calls are made: fwrite and fflush, ioctl, rewind and fread. *)
LEMMA EnterServes ==
  ASSUME WholeInv, NEW t \in Threads, UNCHANGED Commands,
         Flush(t) \/ SeekTo(t) \/ Rewind(t) \/ Fread(t)
  PROVE  ServeInv'
<1>0. /\ CallFits(stage[t], request[t], call[t], t)
      /\ AnswerFits(stage[t], request[t], answer[t], call[t], f_pos[t], Commands)
  BY OwnServes
<1>1. ASSUME NEW op, NEW arg, NEW to, Enter(t, t, op, arg, "lock", "ok"),
             stage' = [stage EXCEPT ![t] = to], UNCHANGED <<request, answer>>
      PROVE  /\ stage'[t] = to /\ call'[t].pc = "lock" /\ call'[t].op = op /\ call'[t].arg = arg
             /\ call'[t].file = t /\ call'[t].start = f_pos[t] /\ call'[t].out = << >>
             /\ request'[t] = request[t] /\ answer'[t] = answer[t] /\ f_pos'[t] = f_pos[t]
             /\ \A u \in Threads \ {t} : Same(u)
  <2> DEFINE c == [pc |-> "lock", op |-> op, file |-> t, arg |-> arg,
                   start |-> f_pos[t], pos |-> f_pos[t], out |-> << >>, ret |-> "ok"]
  <2>1. call' = [call EXCEPT ![t] = c] /\ f_pos' = f_pos
    BY <1>1 DEF Enter, vfsVars
  <2>2. c.pc = "lock" /\ c.op = op /\ c.arg = arg /\ c.file = t /\ c.start = f_pos[t]
        /\ c.out = << >>
    OBVIOUS
  <2> HIDE DEF c
  <2>3. call'[t] = c /\ stage'[t] = to
    BY <1>1, <2>1, ServingTypes
  <2>4. \A u \in Threads \ {t} : Same(u)
    BY <1>1, <2>1, ServingTypes DEF Same
  <2> QED BY <1>1, <2>1, <2>2, <2>3, <2>4
<1>2. CASE Flush(t)
  <2>1. /\ request[t].kind = "line" /\ stage[t] = "locked"
        /\ Enter(t, t, "write", request[t].arg, "lock", "ok")
        /\ stage' = [stage EXCEPT ![t] = "flushing"] /\ UNCHANGED <<request, answer>>
    BY <1>2 DEF Flush, Proceed, Write
  <2>2. /\ stage'[t] = "flushing" /\ call'[t].pc = "lock" /\ call'[t].op = "write"
        /\ call'[t].arg = request[t].arg /\ call'[t].file = t /\ call'[t].start = f_pos[t]
        /\ call'[t].out = << >> /\ request'[t] = request[t] /\ answer'[t] = answer[t]
        /\ f_pos'[t] = f_pos[t] /\ \A u \in Threads \ {t} : Same(u)
    BY <1>1, <2>1
  <2>3. CallFits(stage'[t], request'[t], call'[t], t)
    BY <1>0, <2>1, <2>2 DEF CallFits, InCall
  <2>4. AnswerFits(stage'[t], request'[t], answer'[t], call'[t], f_pos'[t], Commands')
    BY <1>0, <2>1, <2>2 DEF AnswerFits
  <2> QED BY <2>1, <2>2, <2>3, <2>4, ServingTypes, OneServes DEF Serves
<1>3. CASE SeekTo(t)
  <2>1. /\ request[t].kind = "seek" /\ stage[t] = "locked"
        /\ Enter(t, t, "ioctl", request[t].arg, "lock", "ok")
        /\ stage' = [stage EXCEPT ![t] = "seeking"] /\ UNCHANGED <<request, answer>>
    BY <1>3 DEF SeekTo, Proceed, Ioctl
  <2>2. /\ stage'[t] = "seeking" /\ call'[t].pc = "lock" /\ call'[t].op = "ioctl"
        /\ call'[t].arg = request[t].arg /\ call'[t].file = t /\ call'[t].start = f_pos[t]
        /\ call'[t].out = << >> /\ request'[t] = request[t] /\ answer'[t] = answer[t]
        /\ f_pos'[t] = f_pos[t] /\ \A u \in Threads \ {t} : Same(u)
    BY <1>1, <2>1
  <2>3. CallFits(stage'[t], request'[t], call'[t], t)
    BY <1>0, <2>1, <2>2 DEF CallFits, InCall
  <2>4. AnswerFits(stage'[t], request'[t], answer'[t], call'[t], f_pos'[t], Commands')
    BY <1>0, <2>1, <2>2 DEF AnswerFits
  <2> QED BY <2>1, <2>2, <2>3, <2>4, ServingTypes, OneServes DEF Serves
<1>4. CASE Rewind(t)
  <2>1. /\ stage[t] = "rewind" /\ Enter(t, t, "llseek", RewindArg, "lock", "ok")
        /\ stage' = [stage EXCEPT ![t] = "rewinding"] /\ UNCHANGED <<request, answer>>
    BY <1>4 DEF Rewind, Proceed, Llseek
  <2>2. /\ stage'[t] = "rewinding" /\ call'[t].pc = "lock" /\ call'[t].op = "llseek"
        /\ call'[t].arg = RewindArg /\ call'[t].file = t /\ call'[t].start = f_pos[t]
        /\ call'[t].out = << >> /\ request'[t] = request[t] /\ answer'[t] = answer[t]
        /\ f_pos'[t] = f_pos[t] /\ \A u \in Threads \ {t} : Same(u)
    BY <1>1, <2>1
  <2>3. CallFits(stage'[t], request'[t], call'[t], t)
    BY <1>0, <2>1, <2>2 DEF CallFits, InCall
  <2>4. AnswerFits(stage'[t], request'[t], answer'[t], call'[t], f_pos'[t], Commands')
    BY <1>0, <2>1, <2>2 DEF AnswerFits
  <2> QED BY <2>1, <2>2, <2>3, <2>4, ServingTypes, OneServes DEF Serves
<1>5. CASE Fread(t)
  <2>1. /\ stage[t] = "fread" /\ Enter(t, t, "read", StdioBuf, "lock", "ok")
        /\ stage' = [stage EXCEPT ![t] = "reading"] /\ UNCHANGED <<request, answer>>
    BY <1>5 DEF Fread, Proceed, Read
  <2>2. /\ stage'[t] = "reading" /\ call'[t].pc = "lock" /\ call'[t].op = "read"
        /\ call'[t].arg = StdioBuf /\ call'[t].file = t /\ call'[t].start = f_pos[t]
        /\ call'[t].out = << >> /\ request'[t] = request[t] /\ answer'[t] = answer[t]
        /\ f_pos'[t] = f_pos[t] /\ \A u \in Threads \ {t} : Same(u)
    BY <1>1, <2>1
  <2>3. CallFits(stage'[t], request'[t], call'[t], t)
    BY <1>0, <2>1, <2>2 DEF CallFits, InCall
  <2>4. AnswerFits(stage'[t], request'[t], answer'[t], call'[t], f_pos'[t], Commands')
    BY <1>0, <2>1, <2>2 DEF AnswerFits
  <2> QED BY <2>1, <2>2, <2>3, <2>4, ServingTypes, OneServes DEF Serves
<1> QED BY <1>2, <1>3, <1>4, <1>5

(* The call of t goes on, in every step of the driver. *)
GoesOn(t, c, pc, out, ret) ==
  /\ c.pc = pc /\ c.out = out /\ c.ret = ret
  /\ c.op = call[t].op /\ c.arg = call[t].arg /\ c.file = call[t].file /\ c.start = call[t].start

LEMMA ProgressIs ==
  ASSUME NEW t, NEW pc, NEW pos, NEW out, NEW ret
  PROVE  GoesOn(t, Progress(t, pc, pos, out, ret), pc, out, ret)
BY DEF Progress, GoesOn

LEMMA Progresses ==
  ASSUME WholeInv, NEW t \in Threads, call[t].pc # "idle", UNCHANGED sysVars,
         NEW c, call' = [call EXCEPT ![t] = c], \A u \in Threads \ {t} : f_pos'[u] = f_pos[u]
  PROVE  /\ call'[t] = c /\ UNCHANGED <<stage, request, answer>>
         /\ \A u \in Threads \ {t} : Same(u)
         /\ stage[t] \in InCall /\ call[t].file = t
<1>1. call'[t] = c /\ \A u \in Threads \ {t} : call'[u] = call[u]
  BY ServingTypes
<1>2. UNCHANGED <<stage, request, answer>>
  BY DEF sysVars
<1>3. stage[t] \in InCall
  BY DEF WholeInv, SysInv, CallsMatch
<1>4. call[t].file = t
  BY <1>3, OwnServes DEF CallFits
<1> QED BY <1>1, <1>2, <1>3, <1>4 DEF Same

(* The lock is taken, one more entry is copied, a line is written. *)
LEMMA GoesOnServes ==
  ASSUME WholeInv, MemInv', NEW t \in Threads, UNCHANGED sysVars,
         Acquire(t) \/ ReadEntry(t) \/ WriteCommit(t)
  PROVE  ServeInv'
<1>0. /\ CallFits(stage[t], request[t], call[t], t)
      /\ AnswerFits(stage[t], request[t], answer[t], call[t], f_pos[t], Commands)
  BY OwnServes
<1>1. CASE Acquire(t)
  <2>1. /\ call[t].pc = "lock" /\ f_pos' = f_pos /\ UNCHANGED devVars
        /\ call' = [call EXCEPT ![t] = Progress(t, "body", call[t].pos, call[t].out, "ok")]
    BY <1>1 DEF Acquire, vfsVars
  <2>2. /\ call'[t].pc = "body" /\ call'[t].out = call[t].out /\ call'[t].op = call[t].op
        /\ call'[t].arg = call[t].arg /\ call'[t].file = t /\ call'[t].start = call[t].start
        /\ UNCHANGED <<stage, request, answer>> /\ \A u \in Threads \ {t} : Same(u)
    <3>1. PICK c : /\ call' = [call EXCEPT ![t] = c]
                   /\ GoesOn(t, c, "body", call[t].out, "ok")
      BY <2>1, ProgressIs
    <3>2. \A u \in Threads \ {t} : f_pos'[u] = f_pos[u]
      BY <2>1
    <3>3. /\ call'[t] = c /\ UNCHANGED <<stage, request, answer>> /\ call[t].file = t
          /\ \A u \in Threads \ {t} : Same(u)
      BY <2>1, <3>1, <3>2, Progresses
    <3> QED BY <3>1, <3>3 DEF GoesOn
  <2>3. Commands' = Commands
    BY <2>1 DEF devVars, Commands
  <2>4. CallFits(stage'[t], request'[t], call'[t], t)
    BY <1>0, <2>2 DEF CallFits
  <2>5. AnswerFits(stage'[t], request'[t], answer'[t], call'[t], f_pos'[t], Commands')
    BY <1>0, <2>1, <2>2, <2>3 DEF AnswerFits
  <2> QED BY <2>2, <2>3, <2>4, <2>5, ServingTypes, OneServes DEF Serves
<1>2. CASE ReadEntry(t)
  <2>1. /\ call[t].pc = "body" /\ call[t].op = "read" /\ f_pos' = f_pos /\ UNCHANGED devVars
        /\ \E pos, out : call' = [call EXCEPT ![t] = Progress(t, "body", pos, out, "ok")]
    BY <1>2 DEF ReadEntry, InBody, vfsVars
  <2>2. /\ call'[t].pc = "body" /\ call'[t].op = call[t].op
        /\ call'[t].arg = call[t].arg /\ call'[t].file = t /\ call'[t].start = call[t].start
        /\ UNCHANGED <<stage, request, answer>> /\ \A u \in Threads \ {t} : Same(u)
        /\ stage[t] \in InCall
    <3>1. PICK c, out : call' = [call EXCEPT ![t] = c] /\ GoesOn(t, c, "body", out, "ok")
      BY <2>1, ProgressIs
    <3>2. \A u \in Threads \ {t} : f_pos'[u] = f_pos[u]
      BY <2>1
    <3>3. /\ call'[t] = c /\ UNCHANGED <<stage, request, answer>> /\ call[t].file = t
          /\ stage[t] \in InCall /\ \A u \in Threads \ {t} : Same(u)
      BY <2>1, <3>1, <3>2, Progresses
    <3> QED BY <3>1, <3>3 DEF GoesOn
  <2>3. Commands' = Commands
    BY <2>1 DEF devVars, Commands
  <2>4. stage[t] = "reading"
    BY <1>0, <2>1, <2>2 DEF CallFits, InCall
  <2>5. CallFits(stage'[t], request'[t], call'[t], t)
    BY <1>0, <2>2, <2>4 DEF CallFits
  <2>6. AnswerFits(stage'[t], request'[t], answer'[t], call'[t], f_pos'[t], Commands')
    BY <1>0, <2>1, <2>2, <2>3, <2>4 DEF AnswerFits
  <2> QED BY <2>2, <2>3, <2>5, <2>6, ServingTypes, OneServes DEF Serves
<1>3. CASE WriteCommit(t)
  <2>1. stage[t] = "flushing" /\ file_mutex = t /\ call[t].pc = "body"
    BY <1>3, SysCommits
  <2>2. /\ f_pos' = f_pos
        /\ \E pos : call' = [call EXCEPT ![t] = Progress(t, "ret", pos, << >>, "ok")]
    BY <1>3 DEF WriteCommit, Finish, vfsVars
  <2>3. /\ call'[t].pc = "ret" /\ call'[t].op = call[t].op /\ call'[t].out = << >>
        /\ call'[t].arg = call[t].arg /\ call'[t].file = t
        /\ UNCHANGED <<stage, request, answer>> /\ \A u \in Threads \ {t} : Same(u)
    <3>1. PICK c : call' = [call EXCEPT ![t] = c] /\ GoesOn(t, c, "ret", << >>, "ok")
      BY <2>2, ProgressIs
    <3>2. \A u \in Threads \ {t} : f_pos'[u] = f_pos[u]
      BY <2>2
    <3>3. /\ call'[t] = c /\ UNCHANGED <<stage, request, answer>> /\ call[t].file = t
          /\ \A u \in Threads \ {t} : Same(u)
      BY <2>1, <3>1, <3>2, Progresses
    <3> QED BY <3>1, <3>3 DEF GoesOn
  <2>4. CallFits(stage'[t], request'[t], call'[t], t)
    BY <1>0, <2>1, <2>3 DEF CallFits
  <2>5. AnswerFits(stage'[t], request'[t], answer'[t], call'[t], f_pos'[t], Commands')
    BY <1>0, <2>1, <2>3 DEF AnswerFits
  <2> QED BY <2>1, <2>3, <2>4, <2>5, ServingTypes, OneServes DEF Serves
<1> QED BY <1>1, <1>2, <1>3

(* A rewind leaves the file at its start, since size is not below zero. *)
LEMMA RewindServes ==
  ASSUME WholeInv, NEW t \in Threads, UNCHANGED sysVars, LlseekBody(t)
  PROVE  ServeInv'
<1>0. /\ CallFits(stage[t], request[t], call[t], t)
      /\ AnswerFits(stage[t], request[t], answer[t], call[t], f_pos[t], Commands)
  BY OwnServes
<1>1. /\ call[t].pc = "body" /\ call[t].op = "llseek" /\ UNCHANGED devVars
  BY DEF LlseekBody, InBody
<1>2. stage[t] = "rewinding" /\ call[t].file = t /\ call[t].arg = RewindArg
  <2>1. stage[t] \in InCall
    BY <1>1 DEF WholeInv, SysInv, CallsMatch
  <2> QED BY <1>0, <1>1, <2>1 DEF CallFits, InCall
<1>3. \A q : fixed_size_llseek(RewindArg, q) = 0 /\ SeekAllowed(RewindArg, q)
  BY DEF WholeInv, SizeCounts, fixed_size_llseek, SeekAllowed, RewindArg
<1>4. /\ f_pos' = [f_pos EXCEPT ![t] = fixed_size_llseek(RewindArg, @)]
      /\ call' = [call EXCEPT ![t] = Progress(t, "ret", call[t].pos, << >>, "ok")]
  BY <1>2, <1>3 DEF LlseekBody, Finish
<1>5. f_pos'[t] = 0 /\ \A u \in Threads \ {t} : f_pos'[u] = f_pos[u]
  BY <1>3, <1>4, ServingTypes
<1>6. /\ call'[t].pc = "ret" /\ call'[t].op = call[t].op /\ call'[t].out = << >>
      /\ call'[t].arg = call[t].arg /\ call'[t].file = t
      /\ UNCHANGED <<stage, request, answer>> /\ \A u \in Threads \ {t} : Same(u)
  <2>1. PICK c : call' = [call EXCEPT ![t] = c] /\ GoesOn(t, c, "ret", << >>, "ok")
    BY <1>4, ProgressIs
  <2>2. /\ call'[t] = c /\ UNCHANGED <<stage, request, answer>> /\ call[t].file = t
        /\ \A u \in Threads \ {t} : Same(u)
    BY <1>1, <1>5, <2>1, Progresses
  <2> QED BY <2>1, <2>2 DEF GoesOn
<1>7. Commands' = Commands
  BY <1>1 DEF devVars, Commands
<1>8. CallFits(stage'[t], request'[t], call'[t], t)
  BY <1>0, <1>2, <1>6 DEF CallFits
<1>9. AnswerFits(stage'[t], request'[t], answer'[t], call'[t], f_pos'[t], Commands')
  BY <1>0, <1>2, <1>5, <1>6 DEF AnswerFits
<1> QED BY <1>6, <1>7, <1>8, <1>9, ServingTypes, OneServes DEF Serves

(* A seek leaves the file at the addressed byte, or at its start. *)
LEMMA SeekServes ==
  ASSUME WholeInv, NEW t \in Threads, UNCHANGED sysVars, IoctlBody(t)
  PROVE  ServeInv'
<1> DEFINE k == request[t].arg.write_cmd
           j == request[t].arg.write_cmd_offset
           There == k + 1 \in DOMAIN Commands /\ j + 1 \in DOMAIN Commands[k + 1]
<1>0. /\ CallFits(stage[t], request[t], call[t], t)
      /\ AnswerFits(stage[t], request[t], answer[t], call[t], f_pos[t], Commands)
  BY OwnServes
<1>1. /\ call[t].pc = "body" /\ call[t].op = "ioctl" /\ UNCHANGED devVars
  BY DEF IoctlBody, InBody
<1>2. /\ stage[t] = "seeking" /\ call[t].file = t /\ call[t].arg = request[t].arg
      /\ request[t].kind = "seek" /\ f_pos[t] = 0
  <2>1. stage[t] \in InCall
    BY <1>1 DEF WholeInv, SysInv, CallsMatch
  <2>2. stage[t] = "seeking"
    BY <1>0, <1>1, <2>1 DEF CallFits, InCall
  <2>3. call[t].file = t /\ call[t].arg = request[t].arg /\ request[t].kind = "seek"
    BY <1>0, <2>1, <2>2 DEF CallFits
  <2> QED BY <1>0, <1>1, <2>2, <2>3 DEF AnswerFits
<1>3. k \in Nat /\ j \in Nat
  <2>1. request[t] \in Requests \cup {NoRequest}
    BY DEF WholeInv, SysInv, SysTypes
  <2>2. request[t].arg \in SeekTos
    BY <1>2, <2>1 DEF Requests, NoRequest
  <2> QED BY <2>2, DriverAssumption
<1>4. /\ call'[t].ret = "ok" <=> There
      /\ There => f_pos'[t] = Len(FlattenSeq(SubSeq(Commands, 1, (k + 1) - 1))) + (j + 1) - 1
  BY <1>2, IoctlAddresses DEF WholeInv
<1>5. /\ f_pos' = f_pos \/ \E q : f_pos' = [f_pos EXCEPT ![t] = q]
      /\ \E ret : /\ call' = [call EXCEPT ![t] = Progress(t, "ret", call[t].pos, << >>, ret)]
                  /\ ret # "ok" => f_pos' = f_pos
  BY <1>2 DEF IoctlBody, Finish
<1>6. \A u \in Threads \ {t} : f_pos'[u] = f_pos[u]
  BY <1>5, ServingTypes
<1>7. /\ call'[t].pc = "ret" /\ call'[t].op = call[t].op /\ call'[t].out = << >>
      /\ call'[t].arg = call[t].arg /\ call'[t].file = t
      /\ UNCHANGED <<stage, request, answer>> /\ \A u \in Threads \ {t} : Same(u)
      /\ call'[t].ret # "ok" => f_pos' = f_pos
  <2>1. PICK c, ret : /\ call' = [call EXCEPT ![t] = c] /\ GoesOn(t, c, "ret", << >>, ret)
                      /\ ret # "ok" => f_pos' = f_pos
    BY <1>5, ProgressIs
  <2>2. /\ call'[t] = c /\ UNCHANGED <<stage, request, answer>> /\ call[t].file = t
        /\ \A u \in Threads \ {t} : Same(u)
    BY <1>1, <1>6, <2>1, Progresses
  <2> QED BY <2>1, <2>2 DEF GoesOn
<1>8. Commands' = Commands
  BY <1>1 DEF devVars, Commands
<1>9. f_pos'[t] = SkipOf(request[t], Commands)
  <2>0. Commands \in Seq(Seq(Bytes))
    BY ContentsAre DEF WholeInv, FileInv
  <2>1. There <=> k < Len(Commands) /\ j < Len(Commands[k + 1])
    <3> HIDE DEF k, j
    <3>1. k + 1 \in DOMAIN Commands <=> k < Len(Commands)
      BY <1>3, <2>0
    <3>2. ASSUME k + 1 \in DOMAIN Commands
          PROVE  j + 1 \in DOMAIN Commands[k + 1] <=> j < Len(Commands[k + 1])
      <4> DEFINE q == Commands[k + 1]
      <4>1. q \in Seq(Bytes)
        BY <2>0, <3>2
      <4> HIDE DEF q
      <4>2. j + 1 \in DOMAIN q <=> j < Len(q)
        BY <1>3, <4>1
      <4> QED BY <4>2 DEF q
    <3> QED BY <3>1, <3>2
  <2>2. CASE There
    <3>1. SkipOf(request[t], Commands) = Len(FlattenSeq(SubSeq(Commands, 1, k))) + j
      BY <1>2, <2>1, <2>2 DEF SkipOf
    <3>2. (k + 1) - 1 = k
      BY <1>3
    <3>3. f_pos'[t] = Len(FlattenSeq(SubSeq(Commands, 1, k))) + (j + 1) - 1
      BY <1>4, <2>2, <3>2
    <3>4. Len(FlattenSeq(SubSeq(Commands, 1, k))) \in Nat
      <4> HIDE DEF k
      <4>1. SkipOf(request[t], Commands) \in Nat /\ k + 1 \in DOMAIN Commands
        BY <2>2, SkipInside DEF WholeInv, FileInv, SysInv, SysTypes
      <4>2. Len(FlattenSeq(SubSeq(Commands, 1, (k + 1) - 1))) = TotalSize(circular_buffer, (k + 1) - 1)
        BY <4>1, BytesBeforeCommand DEF WholeInv, FileInv
      <4>3. TotalSize(circular_buffer, k) \in Nat
        BY <1>3, EntriesAreSized, TotalSizeType DEF WholeInv, FileInv, MemInv, MemTypes
      <4> QED BY <3>2, <4>2, <4>3
    <3> DEFINE l == Len(FlattenSeq(SubSeq(Commands, 1, k)))
    <3> HIDE DEF l, j
    <3>5. l + (j + 1) - 1 = l + j
      BY <1>3, <3>4 DEF l
    <3> QED BY <3>1, <3>3, <3>5 DEF l
  <2>3. CASE ~There
    <3>1. SkipOf(request[t], Commands) = 0
      BY <2>1, <2>3 DEF SkipOf
    <3> QED BY <1>2, <1>4, <1>7, <2>3, <3>1
  <2> QED BY <2>2, <2>3
<1>10. CallFits(stage'[t], request'[t], call'[t], t)
  BY <1>0, <1>2, <1>7 DEF CallFits
<1>11. AnswerFits(stage'[t], request'[t], answer'[t], call'[t], f_pos'[t], Commands')
  BY <1>0, <1>2, <1>7, <1>8, <1>9 DEF AnswerFits
<1> QED BY <1>7, <1>8, <1>10, <1>11, ServingTypes, OneServes DEF Serves

(* A read takes what is left of the lines: the count is never what ends    *)
(* it, so that aesd_read's last entry is never cut.                        *)
LEMMA ReadServes ==
  ASSUME FitsStdioBuffer, WholeInv, NEW t \in Threads, UNCHANGED sysVars, ReadLast(t) \/ ReadEnd(t)
  PROVE  ServeInv'
<1>0. /\ CallFits(stage[t], request[t], call[t], t)
      /\ AnswerFits(stage[t], request[t], answer[t], call[t], f_pos[t], Commands)
  BY OwnServes
<1>1. /\ call[t].pc = "body" /\ call[t].op = "read" /\ UNCHANGED devVars /\ f_pos' = f_pos
      /\ InBody(t, "read")
  BY DEF ReadLast, ReadEnd, InBody, vfsVars
<1>2. stage[t] = "reading" /\ call[t].arg = StdioBuf /\ call[t].start = f_pos[t]
  <2>1. stage[t] \in InCall
    BY <1>1 DEF WholeInv, SysInv, CallsMatch
  <2>2. stage[t] = "reading"
    BY <1>0, <1>1, <2>1 DEF CallFits, InCall
  <2> QED BY <1>0, <2>2 DEF CallFits, AnswerFits
<1>3. ~ReadLast(t)
  <2>1. SUFFICES ASSUME ReadLast(t) PROVE FALSE
    OBVIOUS
  <2>2. Found(t) /\ Remaining(t) >= CountLeft(t)
    BY <2>1 DEF ReadLast
  <2>3. /\ CountLeft(t) \in Nat /\ call[t].out \in Seq(Bytes)
        /\ CountLeft(t) = StdioBuf - Len(call[t].out)
    BY <1>1, <1>2, <2>2, CopiedTyped DEF WholeInv, FileInv
  <2>4. /\ Remaining(t) \in Nat /\ Remaining(t) > 0
        /\ call[t].pos + Remaining(t) <= Len(Contents)
    BY <1>1, <2>2, CopiedIs DEF WholeInv, FileInv
  <2>5. call[t].pos = call[t].start + Len(call[t].out) /\ call[t].start \in Nat
    BY <1>1 DEF WholeInv, FileInv, CallTypes, CallOK, IsCall, ReadInv, HasRead
  <2>6. Len(Contents) \in Nat /\ (Len(Contents) < StdioBuf \/ Len(Contents) = 0)
    BY LinesFit DEF WholeInv, FileInv
  <2>7. StdioBuf \in Nat /\ Len(call[t].out) \in Nat
    BY <2>3, SystemAssumption, DriverAssumption
  <2> QED BY <2>2, <2>3, <2>4, <2>5, <2>6, <2>7
<1>4. /\ call'[t].out = SubSeq(Contents, call[t].start + 1, Len(Contents))
      /\ call'[t].pos = call[t].start + Len(call'[t].out)
  BY <1>3, ReadEndReads DEF WholeInv
<1>5. \E pos, out : call' = [call EXCEPT ![t] = Progress(t, "ret", pos, out, "ok")]
  BY <1>3 DEF ReadEnd, Finish
<1>6. /\ call'[t].pc = "ret" /\ call'[t].op = call[t].op /\ call'[t].ret = "ok"
      /\ call'[t].arg = call[t].arg /\ call'[t].file = t /\ call'[t].start = call[t].start
      /\ UNCHANGED <<stage, request, answer>> /\ \A u \in Threads \ {t} : Same(u)
  <2>1. PICK c, out : call' = [call EXCEPT ![t] = c] /\ GoesOn(t, c, "ret", out, "ok")
    BY <1>5, ProgressIs
  <2>2. /\ call'[t] = c /\ UNCHANGED <<stage, request, answer>> /\ call[t].file = t
        /\ \A u \in Threads \ {t} : Same(u)
    BY <1>1, <2>1, Progresses
  <2> QED BY <2>1, <2>2 DEF GoesOn
<1>7. Commands' = Commands
  BY <1>1 DEF devVars, Commands
<1>8. CallFits(stage'[t], request'[t], call'[t], t)
  BY <1>0, <1>2, <1>6 DEF CallFits
<1>9. AnswerFits(stage'[t], request'[t], answer'[t], call'[t], f_pos'[t], Commands')
  BY <1>0, <1>1, <1>2, <1>4, <1>6, <1>7 DEF AnswerFits, Contents
<1> QED BY <1>6, <1>7, <1>8, <1>9, ServingTypes, OneServes DEF Serves

LEMMA SubSeqAt ==
  ASSUME NEW S, NEW C \in Seq(S), NEW k \in Nat, NEW p \in Nat, k <= p, p <= Len(C)
  PROVE  /\ SubSeq(C, k + 1, p) \in Seq(S) /\ Len(SubSeq(C, k + 1, p)) = p - k
         /\ \A i \in 1 .. p - k : SubSeq(C, k + 1, p)[i] = C[k + i]
<1> DEFINE k1 == k + 1
           s == SubSeq(C, k1, p)
<1>1. k1 \in Int /\ p \in Int /\ \A i \in k1..p : i \in 1..Len(C)
  OBVIOUS
<1>2. \A i \in k1..p : C[i] \in S
  BY <1>1
<1> HIDE DEF k1
<1>3. /\ s \in Seq(S) /\ Len(s) = (IF k1 <= p THEN p - k1 + 1 ELSE 0)
      /\ \A i \in 1 .. p - k1 + 1 : s[i] = C[k1 + i - 1]
  BY <1>1, <1>2, SubSeqProperties
<1> HIDE DEF s
<1>4. (IF k1 <= p THEN p - k1 + 1 ELSE 0) = p - k
  BY DEF k1
<1>5. ASSUME NEW i \in 1 .. p - k PROVE s[i] = C[k + i]
  <2>1. i \in 1 .. p - k1 + 1 /\ k1 + i - 1 = k + i
    BY DEF k1
  <2> QED BY <1>3, <2>1
<1> QED BY <1>3, <1>4, <1>5 DEF s, k1

(* Two slices that meet are one: from byte k on, C is a and then o. *)
Meet(C, k, a, o) ==
  /\ Len(C) = (k + Len(a)) + Len(o)
  /\ \A i \in 1..Len(a) : a[i] = C[k + i]
  /\ \A i \in 1..Len(o) : o[i] = C[(k + Len(a)) + i]

LEMMA SlicesMeet ==
  ASSUME NEW S, NEW C \in Seq(S), NEW k \in Nat, NEW a \in Seq(S), NEW o \in Seq(S),
         Meet(C, k, a, o)
  PROVE  /\ a \o o \in Seq(S) /\ a \o o = SubSeq(C, k + 1, Len(C))
         /\ Len(C) = k + Len(a \o o)
<1> DEFINE la == Len(a)
           lo == Len(o)
           p == k + la
           r == a \o o
<1>1. la \in Nat /\ lo \in Nat /\ Len(C) \in Nat /\ r \in Seq(S) /\ Len(r) = la + lo
  OBVIOUS
<1>2. \A i \in 1 .. la + lo : r[i] = IF i <= la THEN a[i] ELSE o[i - la]
  BY ConcatProperties
<1>3. p = k + la /\ Len(C) = p + lo
  BY DEF Meet
<1>4. \A i \in 1..la : a[i] = C[k + i]
  BY DEF Meet
<1>5. \A i \in 1..lo : o[i] = C[p + i]
  BY DEF Meet
<1> HIDE DEF la, lo, p, r
<1>6. ASSUME NEW i \in 1 .. la + lo PROVE r[i] = C[k + i]
  <2>1. CASE i <= la
    <3>1. r[i] = a[i] /\ i \in 1..la
      BY <1>1, <1>2, <2>1
    <3> QED BY <1>4, <3>1
  <2>2. CASE i > la
    <3>1. i - la \in 1..lo /\ p + (i - la) = k + i /\ ~(i <= la)
      <4>1. i \in Int /\ ~(i <= la) /\ i - la \in Int /\ i - la >= 1 /\ i - la <= lo
        BY <1>1, <2>2
      <4>2. i - la \in 1..lo
        BY <1>1, <4>1
      <4>3. p + (i - la) = k + i
        <5>1. (k + la) + (i - la) = k + i
          BY <1>1, <4>1
        <5> QED BY <1>3, <5>1
      <4> QED BY <4>1, <4>2, <4>3
    <3>2. r[i] = o[i - la]
      BY <1>2, <3>1
    <3> QED BY <1>5, <3>1, <3>2
  <2> QED BY <1>1, <2>1, <2>2
<1>7. k + Len(r) = Len(C)
  BY <1>1, <1>3
<1>8. /\ r \in Seq(S) /\ C \in Seq(S) /\ k \in Nat /\ k + Len(r) <= Len(C)
      /\ \A i \in 1..Len(r) : r[i] = C[k + i]
  BY <1>1, <1>6, <1>7
<1>9. r = SubSeq(C, k + 1, k + Len(r))
  BY <1>8, SliceIs
<1> QED BY <1>1, <1>7, <1>9 DEF r

(* What the connector does with a call that returned. *)
LEMMA ReturnServes ==
  ASSUME WholeInv, NEW t \in Threads, CallReturns(t)
  PROVE  ServeInv'
<1> DEFINE c == call[t]
           r == request[t]
           skip == SkipOf(r, Commands)
<1>0. /\ CallFits(stage[t], r, c, t)
      /\ AnswerFits(stage[t], r, answer[t], c, f_pos[t], Commands)
  BY OwnServes
<1>1. /\ c.pc = "ret" /\ call' = [call EXCEPT ![t] = IdleCall] /\ UNCHANGED devVars
      /\ f_pos' = IF c.op \in {"read", "write"} /\ c.ret = "ok"
                  THEN [f_pos EXCEPT ![c.file] = c.pos] ELSE f_pos
      /\ stage' = [stage EXCEPT ![t] = AfterCall(t)]
      /\ answer' = [answer EXCEPT ![t] = @ \o c.out] /\ request' = request
  BY DEF CallReturns, Return
<1>2. stage[t] \in InCall /\ c.file = t
  <2>1. stage[t] \in InCall
    BY <1>1 DEF WholeInv, SysInv, CallsMatch
  <2> QED BY <1>0, <2>1 DEF CallFits
<1>3. Commands' = Commands
  BY <1>1 DEF devVars, Commands
<1>4. /\ stage'[t] = AfterCall(t) /\ request'[t] = r /\ answer'[t] = answer[t] \o c.out
      /\ call'[t] = IdleCall
      /\ f_pos'[t] = IF c.op \in {"read", "write"} /\ c.ret = "ok" THEN c.pos ELSE f_pos[t]
      /\ \A u \in Threads \ {t} : Same(u)
  BY <1>1, <1>2, ServingTypes DEF Same
<1>5. answer' = [u \in Threads |-> answer'[u]]
  BY <1>1, ServingTypes
<1>6. /\ Contents \in Seq(Bytes) /\ Contents = FlattenSeq(Commands) /\ skip \in Nat
      /\ skip <= Len(Contents) /\ answer[t] \in Seq(Bytes) /\ c.out \in Seq(Bytes)
  <2>1. Contents \in Seq(Bytes)
    BY ContentsAre DEF WholeInv, FileInv
  <2>2. r \in Requests \cup {NoRequest}
    BY DEF WholeInv, SysInv, SysTypes
  <2>3. skip \in Nat /\ skip <= Len(Contents)
    BY <2>2, SkipInside DEF WholeInv, FileInv
  <2>4. c.out \in Seq(Bytes)
    BY DEF WholeInv, FileInv, CallTypes, CallOK, IsCall
  <2> QED BY <2>1, <2>3, <2>4, ServingTypes DEF Contents
<1>7. ASSUME answer'[t] \in Seq(Bytes),
             AfterCall(t) \notin InCall,
             AfterCall(t) = "rewind" => r.kind = "line",
             AnswerFits(AfterCall(t), r, answer'[t], IdleCall, f_pos'[t], Commands)
      PROVE  ServeInv'
  <2>1. CallFits(AfterCall(t), r, IdleCall, t)
    BY <1>7 DEF CallFits, InCall
  <2>2. Serves(stage'[t], request'[t], answer'[t], call'[t], f_pos'[t], Commands', t)
    BY <1>3, <1>4, <1>7, <2>1 DEF Serves
  <2> QED BY <1>3, <1>4, <1>5, <1>7, <2>2, OneServes
<1>8. CASE stage[t] = "flushing"
  <2>1. AfterCall(t) = "rewind" /\ r.kind = "line" /\ answer[t] = << >> /\ c.out = << >>
    BY <1>0, <1>8 DEF AfterCall, CallFits, AnswerFits
  <2>2. answer'[t] = << >>
    BY <1>4, <2>1
  <2>3. answer'[t] \in Seq(Bytes)
    BY <2>2
  <2>4. AnswerFits(AfterCall(t), r, answer'[t], IdleCall, f_pos'[t], Commands)
    BY <2>1, <2>2 DEF AnswerFits
  <2> QED BY <1>7, <2>1, <2>3, <2>4 DEF InCall
<1>9. CASE stage[t] \in {"seeking", "rewinding"}
  <2>1. AfterCall(t) = "fread" /\ answer[t] = << >> /\ c.out = << >>
    BY <1>0, <1>9 DEF AfterCall, CallFits, AnswerFits
  <2>2. answer'[t] = << >>
    BY <1>4, <2>1
  <2>3. answer'[t] \in Seq(Bytes) /\ Len(answer'[t]) = 0
    BY <2>2
  <2>4. f_pos'[t] = skip
    <3>1. CASE stage[t] = "seeking"
      BY <1>0, <1>1, <1>4, <3>1 DEF CallFits, AnswerFits
    <3>2. CASE stage[t] = "rewinding"
      <4>1. f_pos'[t] = 0 /\ r.kind = "line"
        BY <1>0, <1>1, <1>4, <3>2 DEF CallFits, AnswerFits
      <4> QED BY <4>1 DEF SkipOf
    <3> QED BY <1>9, <3>1, <3>2
  <2>5. Sent(r, answer'[t], f_pos'[t], Commands)
    <3> HIDE DEF skip
    <3>1. f_pos'[t] = skip + Len(answer'[t]) /\ f_pos'[t] <= Len(Contents)
      BY <1>6, <2>3, <2>4
    <3>2. SubSeq(Contents, skip + 1, skip) = << >>
      BY <1>6, SubSeqEmpty
    <3> QED BY <1>6, <2>2, <2>4, <3>1, <3>2 DEF Sent, skip
  <2>6. AnswerFits(AfterCall(t), r, answer'[t], IdleCall, f_pos'[t], Commands)
    BY <2>1, <2>5 DEF AnswerFits
  <2> QED BY <1>7, <2>1, <2>3, <2>6 DEF InCall
<1>10. CASE stage[t] = "reading"
  <2> DEFINE p == f_pos[t]
             a == answer[t]
             o == c.out
             n == Len(Contents)
  <2>1. /\ p = skip + Len(a) /\ p <= n /\ a = SubSeq(Contents, skip + 1, p)
        /\ c.ret = "ok" /\ c.op = "read" /\ c.pos = p + Len(o)
        /\ o = SubSeq(Contents, p + 1, n)
    BY <1>0, <1>1, <1>6, <1>10 DEF CallFits, AnswerFits, Sent
  <2>2. /\ f_pos'[t] = c.pos /\ answer'[t] = a \o o
    BY <1>4, <2>1
  <2>3. /\ a \in Seq(Bytes) /\ o \in Seq(Bytes) /\ n \in Nat /\ Len(a) \in Nat /\ Len(o) \in Nat
        /\ p \in Nat /\ skip <= p
    <3>1. a \in Seq(Bytes) /\ o \in Seq(Bytes) /\ n \in Nat /\ Len(a) \in Nat /\ Len(o) \in Nat
      BY <1>6
    <3> HIDE DEF skip, a, p
    <3> QED BY <1>6, <2>1, <3>1
  <2>4. /\ \A i \in 1..Len(a) : a[i] = Contents[skip + i]
        /\ n = p + Len(o) /\ \A i \in 1..Len(o) : o[i] = Contents[p + i]
    <3>1. p - skip = Len(a)
      <4> DEFINE la == Len(a)
      <4> HIDE DEF skip, a, p, la
      <4>1. p = skip + la /\ la \in Nat
        BY <2>1, <2>3 DEF la
      <4>2. p - skip = la
        BY <1>6, <4>1
      <4> QED BY <4>2 DEF la
    <3>2. \A i \in 1..Len(a) : SubSeq(Contents, skip + 1, p)[i] = Contents[skip + i]
      <4>1. \A i \in 1 .. p - skip : SubSeq(Contents, skip + 1, p)[i] = Contents[skip + i]
        <5> HIDE DEF skip, p
        <5> QED BY <1>6, <2>1, <2>3, SubSeqAt
      <4> QED BY <3>1, <4>1
    <3>3. /\ Len(SubSeq(Contents, p + 1, n)) = n - p
          /\ \A i \in 1 .. n - p : SubSeq(Contents, p + 1, n)[i] = Contents[p + i]
      <4>1. n <= Len(Contents) /\ Contents \in Seq(Bytes) /\ p \in Nat /\ n \in Nat /\ p <= n
        BY <1>6, <2>1, <2>3
      <4> HIDE DEF p, n
      <4> QED BY <4>1, SubSeqAt
    <3>4. Len(o) = n - p
      BY <2>1, <3>3
    <3>5. n = p + Len(o)
      <4> HIDE DEF n, p, o
      <4> QED BY <2>3, <3>4
    <3> HIDE DEF skip, a, p, o, n
    <3> QED BY <2>1, <3>2, <3>3, <3>4, <3>5
  <2>5. Sent(r, answer'[t], f_pos'[t], Commands)
    <3>1. /\ Contents \in Seq(Bytes) /\ skip \in Nat /\ p \in Nat /\ a \in Seq(Bytes)
          /\ o \in Seq(Bytes) /\ p = skip + Len(a) /\ Len(Contents) = p + Len(o)
          /\ \A i \in 1..Len(a) : a[i] = Contents[skip + i]
          /\ \A i \in 1..Len(o) : o[i] = Contents[p + i]
      BY <1>6, <2>1, <2>3, <2>4
    <3>2. c.pos = n
      BY <2>1, <2>4
    <3> HIDE DEF skip, a, p, o
    <3>3. /\ a \o o = SubSeq(Contents, skip + 1, n) /\ n = skip + Len(a \o o)
      <4>1. /\ Contents \in Seq(Bytes) /\ skip \in Nat /\ a \in Seq(Bytes) /\ o \in Seq(Bytes)
            /\ Meet(Contents, skip, a, o)
        BY <3>1 DEF Meet
      <4> QED BY <4>1, SlicesMeet
    <3>4. n <= Len(Contents)
      BY <1>6
    <3> QED BY <1>6, <2>2, <3>2, <3>3, <3>4 DEF Sent, skip
  <2>6. AfterCall(t) \in {"unlock", "fread"}
    BY <1>10 DEF AfterCall
  <2>7. AnswerFits(AfterCall(t), r, answer'[t], IdleCall, f_pos'[t], Commands)
    BY <2>5, <2>6 DEF AnswerFits
  <2>8. answer'[t] \in Seq(Bytes)
    <3> HIDE DEF a, o
    <3> QED BY <2>2, <2>3
  <2> QED BY <1>7, <2>6, <2>7, <2>8 DEF InCall
<1> QED BY <1>2, <1>8, <1>9, <1>10 DEF InCall

LEMMA ServeStep ==
  ASSUME WholeLines, FitsStdioBuffer, WholeInv, MemInv', [SysNext]_allVars
  PROVE  ServeInv'
<1>1. CASE UNCHANGED <<sysVars, call, f_pos, Commands>>
  BY <1>1 DEF WholeInv, ServeInv, sysVars
<1>2. CASE UNCHANGED allVars \/ SysDone
  BY <1>1, <1>2 DEF allVars, vars, vfsVars, devVars, Commands, SysDone
<1>3. CASE InitModule /\ UNCHANGED sysVars
  <2>1. UNCHANGED <<call, f_pos>> /\ module = "none" /\ module' = "live"
    BY <1>3 DEF InitModule, vfsVars
  <2>2. Commands' = Commands
    BY <1>3, EmptyCommands DEF InitModule, WholeInv, FileInv, OpenInv
  <2> QED BY <1>1, <1>3, <2>1, <2>2
<1>4. CASE \E t \in Threads : InDriver(t) /\ WriteCommit(t)
  BY <1>4, GoesOnServes DEF InDriver
<1>5. ASSUME NEW t \in Threads, ~\E u \in Threads : InDriver(u) /\ WriteCommit(u),
             Receive(t) \/ ConnectorStep(t)
      PROVE  ServeInv'
  <2>1. Commands' = Commands
    BY <1>5, SysKeepsDevice
  <2>2. CASE Receive(t) \/ LockFile(t) \/ UnlockFile(t) \/ Fclose(t)
    <3>1. call' = call
      BY <2>2 DEF Receive, LockFile, UnlockFile, Fclose, Open, Release, vars
    <3> QED BY <2>1, <2>2, <3>1, OutsideServes
  <2>3. CASE Flush(t) \/ SeekTo(t) \/ Rewind(t) \/ Fread(t)
    BY <2>1, <2>3, EnterServes
  <2>4. CASE InDriver(t)
    <3>1. ~WritePartial(t)
      BY NoPartialWrite DEF WholeInv, FileInv
    <3> QED BY <2>4, <3>1, GoesOnServes, RewindServes, SeekServes, ReadServes DEF InDriver
  <2>5. CASE CallReturns(t)
    BY <2>5, ReturnServes
  <2> QED BY <1>5, <2>2, <2>3, <2>4, <2>5 DEF ConnectorStep
<1> QED BY <1>2, <1>3, <1>4, <1>5 DEF SysNext

LEMMA SysInitServes == SysInit => LinesInv /\ ServeInv
<1> SUFFICES ASSUME SysInit PROVE LinesInv /\ ServeInv
  OBVIOUS
<1>1. Commands = << >>
  BY EmptyCommands DEF SysInit, Init
<1>2. LinesInv
  BY <1>1 DEF LinesInv
<1>3. \A t \in Threads : stage[t] = "idle" /\ answer[t] = << >>
  BY DEF SysInit
<1>4. << >> \in Seq(Bytes)
  OBVIOUS
<1>5. answer = [t \in Threads |-> answer[t]]
  BY DEF SysInit
<1>6. \A t \in Threads : Serves(stage[t], request[t], answer[t], call[t], f_pos[t], Commands, t)
  BY <1>3 DEF Serves, CallFits, AnswerFits, InCall
<1>7. ServeInv
  BY <1>3, <1>4, <1>5, <1>6 DEF ServeInv
<1> QED BY <1>2, <1>7

(* Each connector has sent the lines up to the position of its file, as    *)
(* long as requests are whole lines and all that is kept fits one stdio    *)
(* buffer.                                                                 *)
THEOREM ServersInvariant == WholeLines /\ FitsStdioBuffer => (SysSpec => []WholeInv)
<1> SUFFICES ASSUME WholeLines, FitsStdioBuffer PROVE SysSpec => []WholeInv
  OBVIOUS
<1>1. SysSpec => []FileInv
  BY SystemUsesDriver, ReadInvariant, PTL
<1>2. SysSpec => [](CallInv /\ MemInv)
  BY SystemUsesDriver, DeviceInvariants, PTL
<1>3. MemInv /\ CallInv /\ LockInv /\ SizeCounts /\ [SysNext]_allVars => SizeCounts'
  BY SizeStep
<1>4. SysSpec => []SizeCounts
  BY <1>2, <1>3, SysInitInv, SysInvariant, PTL DEF SysSpec
<1>5. WholeInv /\ MemInv' /\ [SysNext]_allVars => LinesInv' /\ ServeInv'
  BY LinesStep, ServeStep
<1>6. WholeInv <=> FileInv /\ CallInv /\ SysInv /\ SizeCounts /\ LinesInv /\ ServeInv
  BY DEF WholeInv
<1> QED BY <1>1, <1>2, <1>4, <1>5, <1>6, SysInitServes, SysInvariant, PTL DEF SysSpec
-----------------------------------------------------------------------------
(* The steps of LineService.                                               *)

(* The connectors in their places, as LineService sees them. *)
AbsStep == [t \in Threads |-> StepOf(t)]
AbsAnswer == [t \in Threads |-> AnswerOf(t)]

LEMMA StepsOf ==
  ASSUME NEW u \in Threads
  PROVE  /\ stage[u] = "idle" => StepOf(u) = "none"
         /\ stage[u] = "lock" => StepOf(u) = "asked"
         /\ stage[u] \in {"locked", "seeking"} => StepOf(u) = "taken"
         /\ stage[u] = "flushing" => StepOf(u) = IF call[u].pc = "ret" THEN "posted" ELSE "taken"
         /\ stage[u] \in {"rewind", "rewinding"} => StepOf(u) = "posted"
         /\ stage[u] \in {"fread", "reading"} =>
              StepOf(u) = IF request[u].kind = "line" THEN "posted" ELSE "taken"
         /\ stage[u] = "unlock" => StepOf(u) = "answered"
         /\ stage[u] = "fclose" => StepOf(u) = "left"
BY DEF StepOf

LEMMA StepsOfNext ==
  ASSUME NEW u \in Threads
  PROVE  /\ stage'[u] = "idle" => StepOf(u)' = "none"
         /\ stage'[u] = "lock" => StepOf(u)' = "asked"
         /\ stage'[u] \in {"locked", "seeking"} => StepOf(u)' = "taken"
         /\ stage'[u] = "flushing" => StepOf(u)' = IF call'[u].pc = "ret" THEN "posted" ELSE "taken"
         /\ stage'[u] \in {"rewind", "rewinding"} => StepOf(u)' = "posted"
         /\ stage'[u] \in {"fread", "reading"} =>
              StepOf(u)' = IF request'[u].kind = "line" THEN "posted" ELSE "taken"
         /\ stage'[u] = "unlock" => StepOf(u)' = "answered"
         /\ stage'[u] = "fclose" => StepOf(u)' = "left"
BY DEF StepOf

(* LineService does not see a step of connector u. *)
Still(u) ==
  /\ stage'[u] = stage[u] /\ request'[u] = request[u] /\ answer'[u] = answer[u]
  /\ call'[u] = call[u]

LEMMA StillSteps ==
  ASSUME NEW u \in Threads, Still(u)
  PROVE  StepOf(u)' = StepOf(u) /\ AnswerOf(u)' = AnswerOf(u)
BY DEF Still, StepOf, AnswerOf

LEMMA OthersStill ==
  ASSUME WholeInv, NEW t \in Threads, Receive(t) \/ ConnectorStep(t)
  PROVE  \A u \in Threads \ {t} : Still(u)
<1>0. LockInv
  BY DEF WholeInv, FileInv
<1>1. CASE Receive(t)
  <2>1. /\ stage' = [stage EXCEPT ![t] = "lock"] /\ answer' = answer /\ call' = call
        /\ \E r : request' = [request EXCEPT ![t] = r]
    BY <1>1 DEF Receive, Proceed, Open
  <2> QED BY <2>1, ServingTypes DEF Still
<1>2. CASE LockFile(t) \/ UnlockFile(t)
  <2>1. /\ \E st : stage' = [stage EXCEPT ![t] = st]
        /\ UNCHANGED <<request, answer, call>>
    BY <1>2 DEF LockFile, UnlockFile, Proceed, vars
  <2> QED BY <2>1, ServingTypes DEF Still
<1>3. CASE Flush(t) \/ SeekTo(t) \/ Rewind(t) \/ Fread(t)
  <2>1. /\ \E st : stage' = [stage EXCEPT ![t] = st]
        /\ \E c : call' = [call EXCEPT ![t] = c]
        /\ UNCHANGED <<request, answer>>
    BY <1>3 DEF Flush, SeekTo, Rewind, Fread, Write, Ioctl, Llseek, Read, Enter, Proceed
  <2> QED BY <2>1, ServingTypes DEF Still
<1>4. CASE InDriver(t)
  <2>1. \A u \in Threads \ {t} : call'[u] = call[u]
    BY <1>0, <1>4, DriverGoesOn DEF CallGoesOn
  <2>2. UNCHANGED <<stage, request, answer>>
    BY <1>4 DEF InDriver, sysVars
  <2> QED BY <2>1, <2>2 DEF Still
<1>5. CASE CallReturns(t)
  <2>1. /\ \E st : stage' = [stage EXCEPT ![t] = st] /\ request' = request
        /\ \E a : answer' = [answer EXCEPT ![t] = a]
        /\ \E c : call' = [call EXCEPT ![t] = c]
    BY <1>5 DEF CallReturns, Return
  <2> QED BY <2>1, ServingTypes DEF Still
<1>6. CASE Fclose(t)
  <2>1. /\ stage' = [stage EXCEPT ![t] = "idle"] /\ request' = [request EXCEPT ![t] = NoRequest]
        /\ answer' = [answer EXCEPT ![t] = << >>] /\ call' = call
    BY <1>6 DEF Fclose, Proceed, Release
  <2> QED BY <2>1, ServingTypes DEF Still
<1> QED BY <1>1, <1>2, <1>3, <1>4, <1>5, <1>6 DEF ConnectorStep

(* What LineService sees of the device. *)
LEMMA LinesKept ==
  ASSUME Commands' = Commands
  PROVE  Lines' = Lines
BY DEF Lines, Commands

(* LineService has its own copy of the library's concatenation. *)
LEMMA FlattenIsShared ==
  ASSUME NEW s
  PROVE  Service!FlattenSeq(s) = FlattenSeq(s)
BY DEF Service!FlattenSeq, FlattenSeq

(* Only t moves on, *)
LEMMA OneMoves ==
  ASSUME NEW t \in Threads, \A u \in Threads \ {t} : Still(u)
  PROVE  /\ AbsStep' = [AbsStep EXCEPT ![t] = StepOf(t)']
         /\ AbsAnswer' = [AbsAnswer EXCEPT ![t] = AnswerOf(t)']
         /\ AbsStep[t] = StepOf(t) /\ AbsAnswer[t] = AnswerOf(t)
         /\ StepOf(t)' = StepOf(t) => AbsStep' = AbsStep
         /\ AnswerOf(t)' = AnswerOf(t) => AbsAnswer' = AbsAnswer
<1>1. \A u \in Threads \ {t} : StepOf(u)' = StepOf(u) /\ AnswerOf(u)' = AnswerOf(u)
  BY StillSteps
<1>2. /\ AbsStep' = [u \in Threads |-> StepOf(u)'] /\ AbsAnswer' = [u \in Threads |-> AnswerOf(u)']
  BY DEF AbsStep, AbsAnswer
<1> QED BY <1>1, <1>2 DEF AbsStep, AbsAnswer

(* or nobody does. *)
LEMMA Stutters ==
  ASSUME NEW t \in Threads, \A u \in Threads \ {t} : Still(u),
         UNCHANGED <<Commands, Pending, module, request>>,
         StepOf(t)' = StepOf(t), AnswerOf(t)' = AnswerOf(t)
  PROVE  UNCHANGED Service!sVars
<1>1. AbsStep' = AbsStep /\ AbsAnswer' = AbsAnswer
  BY OneMoves
<1>2. Lines' = Lines
  BY LinesKept
<1> QED BY <1>1, <1>2 DEF Service!sVars, AbsStep, AbsAnswer

LEMMA MovesOn ==
  ASSUME NEW t \in Threads, \A u \in Threads \ {t} : Still(u)
  PROVE  Service!Moves(t, StepOf(t), StepOf(t)')
BY OneMoves DEF Service!Moves, AbsStep

(* A connector is with file_mutex or without it. *)
LEMMA FreeToTake ==
  ASSUME WholeInv, file_mutex = NULL, NEW u \in Threads
  PROVE  StepOf(u) \notin {"taken", "posted", "answered"}
<1>1. file_mutex # u
  BY DriverAssumption
<1>2. stage[u] \in {"idle", "lock", "fclose"}
  BY <1>1 DEF WholeInv, SysInv, SysTypes, MutexHeld
<1> QED BY <1>2, StepsOf

(* fopen and the receive loop; file_mutex; fclose. *)
LEMMA OutsideImplements ==
  ASSUME WholeInv, NEW t \in Threads, UNCHANGED <<Commands, Pending, module>>,
         Receive(t) \/ LockFile(t) \/ UnlockFile(t) \/ Fclose(t)
  PROVE  Service!SNext
<1>0. /\ \A u \in Threads \ {t} : Still(u)
      /\ Service!Moves(t, StepOf(t), StepOf(t)')
      /\ AbsAnswer' = [AbsAnswer EXCEPT ![t] = AnswerOf(t)']
      /\ AnswerOf(t)' = AnswerOf(t) => AbsAnswer' = AbsAnswer
      /\ Lines' = Lines
  <2>1. \A u \in Threads \ {t} : Still(u)
    BY OthersStill DEF ConnectorStep
  <2> QED BY <2>1, OneMoves, MovesOn, LinesKept
<1>1. CASE Receive(t)
  <2>1. /\ stage[t] = "idle" /\ stage' = [stage EXCEPT ![t] = "lock"] /\ module = "live"
        /\ \E r \in Requests : request' = [request EXCEPT ![t] = r]
    BY <1>1 DEF Receive, Proceed, Open
  <2>2. stage'[t] = "lock"
    BY <2>1, ServingTypes
  <2>3. StepOf(t) = "none" /\ StepOf(t)' = "asked" /\ AnswerOf(t)' = AnswerOf(t)
    BY <2>1, <2>2, StepsOf, StepsOfNext DEF AnswerOf
  <2>4. AbsAnswer' = AbsAnswer
    BY <1>0, <2>3
  <2>5. Service!SAsk(t)
    BY <1>0, <2>1, <2>3, <2>4 DEF Service!SAsk, AbsAnswer
  <2> QED BY <2>5 DEF Service!SNext
<1>2. CASE LockFile(t)
  <2>1. /\ stage[t] = "lock" /\ stage' = [stage EXCEPT ![t] = "locked"] /\ file_mutex = NULL
        /\ request' = request
    BY <1>2 DEF LockFile, Proceed
  <2>2. stage'[t] = "locked"
    BY <2>1, ServingTypes
  <2>3. StepOf(t) = "asked" /\ StepOf(t)' = "taken" /\ AnswerOf(t)' = AnswerOf(t)
    BY <2>1, <2>2, StepsOf, StepsOfNext DEF AnswerOf
  <2>4. AbsAnswer' = AbsAnswer
    BY <1>0, <2>3
  <2>5. \A u \in Threads : AbsStep[u] \notin {"taken", "posted", "answered"}
    BY <2>1, FreeToTake DEF AbsStep
  <2>6. Service!STake(t)
    BY <1>0, <2>1, <2>3, <2>4, <2>5 DEF Service!STake, AbsAnswer, AbsStep
  <2> QED BY <2>6 DEF Service!SNext
<1>3. CASE UnlockFile(t)
  <2>1. /\ stage[t] = "unlock" /\ stage' = [stage EXCEPT ![t] = "fclose"]
        /\ UNCHANGED <<request, answer>>
    BY <1>3 DEF UnlockFile, Proceed
  <2>2. stage'[t] = "fclose"
    BY <2>1, ServingTypes
  <2>3. StepOf(t) = "answered" /\ StepOf(t)' = "left" /\ AnswerOf(t)' = AnswerOf(t)
    BY <2>1, <2>2, StepsOf, StepsOfNext DEF AnswerOf
  <2>4. AbsAnswer' = AbsAnswer
    BY <1>0, <2>3
  <2>5. Service!SLeave(t)
    BY <1>0, <2>1, <2>3, <2>4 DEF Service!SLeave, AbsAnswer
  <2> QED BY <2>5 DEF Service!SNext
<1>4. CASE Fclose(t)
  <2>1. /\ stage[t] = "fclose" /\ stage' = [stage EXCEPT ![t] = "idle"]
        /\ request' = [request EXCEPT ![t] = NoRequest]
    BY <1>4 DEF Fclose, Proceed
  <2>2. stage'[t] = "idle"
    BY <2>1, ServingTypes
  <2>3. StepOf(t) = "left" /\ StepOf(t)' = "none" /\ AnswerOf(t)' = << >>
    BY <2>1, <2>2, StepsOf, StepsOfNext DEF AnswerOf
  <2>4. AbsAnswer' = [AbsAnswer EXCEPT ![t] = << >>]
    BY <1>0, <2>3
  <2>5. Service!SForget(t)
    BY <1>0, <2>1, <2>3, <2>4 DEF Service!SForget, AbsAnswer
  <2> QED BY <2>5 DEF Service!SNext
<1> QED BY <1>1, <1>2, <1>3, <1>4

(* The calls are made. *)
LEMMA EnterImplements ==
  ASSUME WholeInv, NEW t \in Threads, UNCHANGED <<Commands, Pending, module>>,
         Flush(t) \/ SeekTo(t) \/ Rewind(t) \/ Fread(t)
  PROVE  UNCHANGED Service!sVars
<1>0. \A u \in Threads \ {t} : Still(u)
  BY OthersStill DEF ConnectorStep
<1>1. request' = request
  BY DEF Flush, SeekTo, Rewind, Fread
<1>2. CASE Flush(t)
  <2>1. /\ stage[t] = "locked" /\ stage' = [stage EXCEPT ![t] = "flushing"]
        /\ Enter(t, t, "write", request[t].arg, "lock", "ok")
    BY <1>2 DEF Flush, Proceed, Write
  <2>2. stage'[t] = "flushing"
    BY <2>1, ServingTypes
  <2>3. call'[t].pc = "lock"
    BY <2>1, EnteredCall DEF WholeInv, FileInv
  <2>4. StepOf(t)' = StepOf(t) /\ AnswerOf(t)' = AnswerOf(t)
    BY <2>1, <2>2, <2>3, StepsOf, StepsOfNext DEF AnswerOf
  <2> QED BY <1>0, <1>1, <2>4, Stutters
<1>3. CASE SeekTo(t)
  <2>1. stage[t] = "locked" /\ stage' = [stage EXCEPT ![t] = "seeking"]
    BY <1>3 DEF SeekTo, Proceed
  <2>2. stage'[t] = "seeking"
    BY <2>1, ServingTypes
  <2>3. StepOf(t)' = StepOf(t) /\ AnswerOf(t)' = AnswerOf(t)
    BY <2>1, <2>2, StepsOf, StepsOfNext DEF AnswerOf
  <2> QED BY <1>0, <1>1, <2>3, Stutters
<1>4. CASE Rewind(t)
  <2>1. stage[t] = "rewind" /\ stage' = [stage EXCEPT ![t] = "rewinding"]
    BY <1>4 DEF Rewind, Proceed
  <2>2. stage'[t] = "rewinding"
    BY <2>1, ServingTypes
  <2>3. StepOf(t)' = StepOf(t) /\ AnswerOf(t)' = AnswerOf(t)
    BY <2>1, <2>2, StepsOf, StepsOfNext DEF AnswerOf
  <2> QED BY <1>0, <1>1, <2>3, Stutters
<1>5. CASE Fread(t)
  <2>1. stage[t] = "fread" /\ stage' = [stage EXCEPT ![t] = "reading"]
    BY <1>5 DEF Fread, Proceed
  <2>2. stage'[t] = "reading"
    BY <2>1, ServingTypes
  <2>3. StepOf(t)' = StepOf(t) /\ AnswerOf(t)' = AnswerOf(t)
    BY <1>1, <2>1, <2>2, StepsOf, StepsOfNext DEF AnswerOf
  <2> QED BY <1>0, <1>1, <2>3, Stutters
<1> QED BY <1>2, <1>3, <1>4, <1>5

(* The driver runs: it commits the line, *)
LEMMA CommitImplements ==
  ASSUME WholeLines, WholeInv, MemInv', NEW t \in Threads, InDriver(t), WriteCommit(t)
  PROVE  Service!SNext
<1>0. /\ \A u \in Threads \ {t} : Still(u)
      /\ Service!Moves(t, StepOf(t), StepOf(t)')
      /\ AnswerOf(t)' = AnswerOf(t) => AbsAnswer' = AbsAnswer
  <2>1. \A u \in Threads \ {t} : Still(u)
    BY OthersStill DEF ConnectorStep
  <2> QED BY <2>1, OneMoves, MovesOn
<1>1. /\ stage[t] = "flushing" /\ module = "live" /\ module' = "live" /\ call[t].pc = "body"
      /\ call[t].arg = request[t].arg /\ request[t].kind = "line" /\ call[t].arg \in Payloads
      /\ Pending' = << >> /\ Commands' = Device!Push(Commands, Pending \o call[t].arg)
  BY SysCommits
<1>2. UNCHANGED <<stage, request, answer>>
  BY DEF InDriver, sysVars
<1>3. call'[t].pc = "ret"
  <2>1. \E pos : call' = [call EXCEPT ![t] = Progress(t, "ret", pos, << >>, "ok")]
    BY DEF WriteCommit, Finish
  <2>2. PICK c : call' = [call EXCEPT ![t] = c] /\ GoesOn(t, c, "ret", << >>, "ok")
    BY <2>1, ProgressIs
  <2>3. call'[t] = c
    BY <2>2, ServingTypes
  <2> QED BY <2>2, <2>3 DEF GoesOn
<1>4. StepOf(t) = "taken" /\ StepOf(t)' = "posted" /\ AnswerOf(t)' = AnswerOf(t)
  BY <1>1, <1>2, <1>3, StepsOf, StepsOfNext DEF AnswerOf
<1>5. AbsAnswer' = AbsAnswer
  BY <1>0, <1>4
<1>6. Lines' = Service!Push(Lines, Pending \o request[t].arg)
  <2>1. Lines = Commands /\ Lines' = Commands'
    BY DEF Lines, Commands
  <2> HIDE DEF Lines, Commands
  <2> QED BY <1>1, <2>1 DEF Device!Push, Service!Push
<1>7. request[t].arg[Len(request[t].arg)] = Newline
  BY <1>1 DEF WholeLines
<1>8. Service!DCommand(request[t].arg)
  BY <1>1, <1>6, <1>7 DEF Service!DCommand
<1>9. Service!SPost(t)
  BY <1>0, <1>1, <1>2, <1>4, <1>5, <1>8 DEF Service!SPost, AbsAnswer
<1> QED BY <1>9 DEF Service!SNext

(* or does nothing that a client sees. *)
LEMMA BodyImplements ==
  ASSUME WholeLines, WholeInv, NEW t \in Threads, InDriver(t), ~WriteCommit(t),
         UNCHANGED <<Commands, Pending, module>>
  PROVE  UNCHANGED Service!sVars
<1>0. \A u \in Threads \ {t} : Still(u)
  BY OthersStill DEF ConnectorStep
<1>1. UNCHANGED <<stage, request, answer>>
  BY DEF InDriver, sysVars
<1>2. AnswerOf(t)' = AnswerOf(t)
  BY <1>1 DEF AnswerOf
<1>3. ~WritePartial(t)
  BY NoPartialWrite DEF WholeInv, FileInv
<1>4. CASE stage[t] # "flushing"
  <2>1. StepOf(t)' = StepOf(t)
    BY <1>1, <1>4 DEF StepOf
  <2> QED BY <1>0, <1>1, <1>2, <2>1, Stutters
<1>5. CASE stage[t] = "flushing"
  <2>1. call[t].op = "write"
    BY <1>5, OwnServes DEF CallFits
  <2>2. Acquire(t)
    BY <1>3, <2>1 DEF InDriver, LlseekBody, IoctlBody, ReadEntry, ReadLast, ReadEnd, InBody
  <2>3. /\ call[t].pc = "lock"
        /\ call' = [call EXCEPT ![t] = Progress(t, "body", call[t].pos, call[t].out, "ok")]
    BY <2>2 DEF Acquire
  <2>4. PICK c : call' = [call EXCEPT ![t] = c] /\ GoesOn(t, c, "body", call[t].out, "ok")
    BY <2>3, ProgressIs
  <2>5. call'[t] = c
    BY <2>4, ServingTypes
  <2>6. call'[t].pc = "body"
    BY <2>4, <2>5 DEF GoesOn
  <2>7. StepOf(t)' = StepOf(t)
    BY <1>1, <1>5, <2>3, <2>6, StepsOf, StepsOfNext
  <2> QED BY <1>0, <1>1, <1>2, <2>7, Stutters
<1> QED BY <1>4, <1>5

(* A call returns: the last read completes the answer. *)
LEMMA ReturnImplements ==
  ASSUME WholeInv, NEW t \in Threads, CallReturns(t), UNCHANGED <<Commands, Pending, module>>
  PROVE  [Service!SNext]_Service!sVars
<1>0. /\ CallFits(stage[t], request[t], call[t], t)
      /\ AnswerFits(stage[t], request[t], answer[t], call[t], f_pos[t], Commands)
  BY OwnServes
<1>1. \A u \in Threads \ {t} : Still(u)
  BY OthersStill DEF ConnectorStep
<1>2. /\ call[t].pc = "ret" /\ stage' = [stage EXCEPT ![t] = AfterCall(t)]
      /\ answer' = [answer EXCEPT ![t] = @ \o call[t].out] /\ request' = request
  BY DEF CallReturns, Return
<1>3. /\ stage'[t] = AfterCall(t) /\ answer'[t] = answer[t] \o call[t].out
  BY <1>2, ServingTypes
<1>4. stage[t] \in InCall
  BY <1>2 DEF WholeInv, SysInv, CallsMatch
<1>5. ASSUME StepOf(t)' = StepOf(t), AfterCall(t) \in {"rewind", "fread"}
      PROVE  UNCHANGED Service!sVars
  <2>1. AnswerOf(t)' = AnswerOf(t)
    BY <1>3, <1>4, <1>5 DEF AnswerOf, InCall
  <2> QED BY <1>1, <1>2, <1>5, <2>1, Stutters
<1>6. CASE stage[t] = "flushing"
  <2>1. AfterCall(t) = "rewind"
    BY <1>6 DEF AfterCall
  <2>2. StepOf(t)' = StepOf(t)
    BY <1>2, <1>3, <1>6, <2>1, StepsOf, StepsOfNext
  <2> QED BY <1>5, <2>1, <2>2
<1>7. CASE stage[t] = "seeking"
  <2>1. AfterCall(t) = "fread" /\ request[t].kind = "seek"
    BY <1>0, <1>7 DEF AfterCall, CallFits
  <2>2. StepOf(t)' = StepOf(t)
    BY <1>2, <1>3, <1>7, <2>1, StepsOf, StepsOfNext
  <2> QED BY <1>5, <2>1, <2>2
<1>8. CASE stage[t] = "rewinding"
  <2>1. AfterCall(t) = "fread" /\ request[t].kind = "line"
    BY <1>0, <1>8 DEF AfterCall, CallFits
  <2>2. StepOf(t)' = StepOf(t)
    BY <1>2, <1>3, <1>8, <2>1, StepsOf, StepsOfNext
  <2> QED BY <1>5, <2>1, <2>2
<1>9. CASE stage[t] = "reading" /\ call[t].out # << >>
  <2>1. AfterCall(t) = "fread"
    BY <1>9 DEF AfterCall
  <2>2. StepOf(t)' = StepOf(t)
    BY <1>2, <1>3, <1>9, <2>1, StepsOf, StepsOfNext
  <2> QED BY <1>5, <2>1, <2>2
<1>10. CASE stage[t] = "reading" /\ call[t].out = << >>
  <2> DEFINE skip == SkipOf(request[t], Commands)
             p == f_pos[t]
             n == Len(Contents)
  <2>1. AfterCall(t) = "unlock"
    BY <1>10 DEF AfterCall
  <2>2. /\ StepOf(t) = IF request[t].kind = "line" THEN "posted" ELSE "taken"
        /\ StepOf(t)' = "answered" /\ AnswerOf(t)' = answer'[t]
    BY <1>3, <1>10, <2>1, StepsOf, StepsOfNext DEF AnswerOf
  <2>3. answer[t] \in Seq(Bytes) /\ Contents \in Seq(Bytes) /\ p \in Nat /\ n \in Nat
    <3>1. f_pos \in [Files -> Nat] /\ Files = Threads
      BY SystemAssumption DEF WholeInv, FileInv, VfsTypes
    <3>2. Contents \in Seq(Bytes)
      BY ContentsAre DEF WholeInv, FileInv
    <3> QED BY <3>1, <3>2, ServingTypes
  <2>4. /\ answer[t] = SubSeq(Contents, skip + 1, p) /\ p <= n
        /\ call[t].out = SubSeq(Contents, p + 1, n)
    BY <1>0, <1>2, <1>10 DEF AnswerFits, Sent, Contents
  <2>5. p = n
    <3>1. Len(SubSeq(Contents, p + 1, n)) = n - p
      <4>1. n <= Len(Contents) /\ Contents \in Seq(Bytes) /\ p \in Nat /\ n \in Nat /\ p <= n
        BY <2>3, <2>4
      <4> HIDE DEF p, n
      <4> QED BY <4>1, SubSeqAt
    <3>2. SubSeq(Contents, p + 1, n) = << >>
      BY <1>10, <2>4
    <3>3. n - p = 0
      BY <3>1, <3>2
    <3> HIDE DEF p, n
    <3> QED BY <2>3, <3>3
  <2>6. answer'[t] = SubSeq(Contents, skip + 1, n)
    <3>1. answer'[t] = answer[t]
      BY <1>3, <1>10, <2>3
    <3> QED BY <2>4, <2>5, <3>1
  <2>7. AbsAnswer' = [AbsAnswer EXCEPT ![t] = SubSeq(Contents, skip + 1, n)]
    BY <1>1, <2>2, <2>6, OneMoves
  <2>8. Service!Moves(t, IF request[t].kind = "line" THEN "posted" ELSE "taken", "answered")
    BY <1>1, <2>2, MovesOn
  <2>9. Service!Everything = Contents /\ Service!Skipped(request[t]) = skip
    <3>1. Lines = Commands
      BY LinesAreCommands
    <3> HIDE DEF Lines, Commands
    <3> QED BY <3>1, FlattenIsShared
            DEF Service!Everything, Service!Skipped, Service!Addressed, SkipOf, Contents
  <2>10. Lines' = Lines
    BY LinesKept
  <2>11. Service!SAnswer(t)
    <3> HIDE DEF skip, n
    <3>1. AbsAnswer' = [AbsAnswer EXCEPT ![t] =
             SubSeq(Service!Everything, Service!Skipped(request[t]) + 1, Len(Service!Everything))]
      BY <2>7, <2>9 DEF n
    <3> QED BY <1>2, <2>8, <2>10, <3>1 DEF Service!SAnswer, AbsAnswer
  <2> QED BY <2>11 DEF Service!SNext
<1> QED BY <1>4, <1>6, <1>7, <1>8, <1>9, <1>10 DEF InCall

(* Every step of the composition is one of the service, or none. *)
LEMMA ServiceStep ==
  ASSUME WholeLines, WholeInv, MemInv', [SysNext]_allVars
  PROVE  [Service!SNext]_Service!sVars
<1>1. CASE \E t \in Threads : InDriver(t) /\ WriteCommit(t)
  BY <1>1, CommitImplements
<1>2. CASE ~\E t \in Threads : InDriver(t) /\ WriteCommit(t)
  <2>1. UNCHANGED <<Commands, Pending>> /\ (module' = module \/ InitModule)
    BY <1>2, SysKeepsDevice
  <2>2. CASE UNCHANGED allVars \/ SysDone
    <3>1. UNCHANGED <<stage, request, answer, call, module>>
      BY <2>2 DEF allVars, vars, modVars, sysVars, SysDone
    <3>2. AbsStep' = AbsStep /\ AbsAnswer' = AbsAnswer
      BY <3>1 DEF AbsStep, AbsAnswer, StepOf, AnswerOf
    <3>3. Lines' = Lines
      BY <2>1, LinesKept
    <3> QED BY <2>1, <3>1, <3>2, <3>3 DEF Service!sVars, AbsStep, AbsAnswer
  <2>3. CASE InitModule /\ UNCHANGED sysVars
    <3>1. UNCHANGED <<stage, request, answer, call>> /\ module = "none" /\ module' = "live"
      BY <2>3 DEF InitModule, sysVars
    <3>2. AbsStep' = AbsStep /\ AbsAnswer' = AbsAnswer
      BY <3>1 DEF AbsStep, AbsAnswer, StepOf, AnswerOf
    <3>3. Lines' = Lines
      BY <2>1, LinesKept
    <3>4. Service!DLoad
      BY <2>1, <3>1, <3>3 DEF Service!DLoad
    <3> QED BY <3>1, <3>2, <3>4 DEF Service!SNext, AbsStep, AbsAnswer
  <2>4. ASSUME NEW t \in Threads, Receive(t) \/ ConnectorStep(t)
        PROVE  [Service!SNext]_Service!sVars
    <3>1. module' = module
      <4>1. CASE InDriver(t)
        BY <4>1 DEF InDriver, Acquire, WritePartial, WriteCommit, LlseekBody, IoctlBody,
                    ReadEntry, ReadLast, ReadEnd, Finish, modVars
      <4>2. CASE ~InDriver(t)
        BY <2>4, <4>2 DEF ConnectorStep, Receive, LockFile, Flush, SeekTo, Rewind, Fread,
                          CallReturns, UnlockFile, Fclose, Open, Release, Return, Write, Ioctl,
                          Llseek, Read, Enter, vars, modVars
      <4> QED BY <4>1, <4>2
    <3>2. CASE Receive(t) \/ LockFile(t) \/ UnlockFile(t) \/ Fclose(t)
      BY <2>1, <3>1, <3>2, OutsideImplements
    <3>3. CASE Flush(t) \/ SeekTo(t) \/ Rewind(t) \/ Fread(t)
      BY <2>1, <3>1, <3>3, EnterImplements
    <3>4. CASE InDriver(t)
      BY <1>2, <2>1, <3>1, <3>4, BodyImplements
    <3>5. CASE CallReturns(t)
      BY <2>1, <3>1, <3>5, ReturnImplements
    <3> QED BY <2>4, <3>2, <3>3, <3>4, <3>5 DEF ConnectorStep
  <2> QED BY <2>2, <2>3, <2>4 DEF SysNext
<1> QED BY <1>1, <1>2

LEMMA ServiceInit == SysInit => Service!SInit
<1> SUFFICES ASSUME SysInit PROVE Service!SInit
  OBVIOUS
<1>1. Lines = << >>
  BY EmptyCommands, LinesAreCommands DEF SysInit, Init
<1>2. Pending = << >> /\ module # "live"
  BY DEF SysInit, Init, Pending, ZeroEntry
<1>3. \A t \in Threads : StepOf(t) = "none" /\ AnswerOf(t) = << >>
  BY StepsOf DEF SysInit, AnswerOf
<1>4. request = [t \in Threads |-> NoRequest]
  BY DEF SysInit
<1> QED BY <1>1, <1>2, <1>3, <1>4 DEF Service!SInit, Service!DInit

(* aesdsocket over aesdchar is the line service: every client is sent the  *)
(* last lines with its own as the last, or what follows the byte it        *)
(* sought, for any number of connectors, size of the ring and lines, as    *)
(* long as requests are whole lines and all that is kept fits one stdio    *)
(* buffer: a longer answer takes reads that end inside a line, after which *)
(* aesd_read leaves the position wrong (main.c:89).                        *)
THEOREM SystemImplementsService ==
  WholeLines /\ FitsStdioBuffer => (SysSpec => ImplementsLineService)
<1> SUFFICES ASSUME WholeLines, FitsStdioBuffer PROVE SysSpec => ImplementsLineService
  OBVIOUS
<1>1. SysSpec => []MemInv
  BY SystemUsesDriver, DeviceInvariants, PTL
<1>2. WholeInv /\ MemInv' /\ [SysNext]_allVars => [Service!SNext]_Service!sVars
  BY ServiceStep
<1> QED BY <1>1, <1>2, ServiceInit, ServersInvariant, PTL
        DEF SysSpec, ImplementsLineService, Service!SSpec
=============================================================================
