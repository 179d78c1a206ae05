---------------------- MODULE AesdCharDriverRefinement ----------------------
(***************************************************************************)
(* Proofs that the driver implements CommandDevice, that it leaks no block *)
(* as long as krealloc does not fail, that a read returns a part of the    *)
(* stored commands, and that a seek lands on the byte it addresses.        *)
(***************************************************************************)
EXTENDS AesdCharDriverProofs

(* A call under way has its file open, and so the module is loaded; before *)
(* insmod the device is as Init left it.                                   *)
OpenInv ==
  /\ \A t \in Threads : call[t].pc # "idle" => call[t].file \in opened
  /\ module = "none" =>
       /\ circular_buffer = aesd_circular_buffer_init /\ entry = ZeroEntry
       /\ allocated = {}

LEMMA BodyIsLive ==
  ASSUME OpenInv, LiveInv, NEW t \in Threads, call[t].pc = "body"
  PROVE  module = "live"
BY DEF OpenInv, LiveInv

LEMMA BodyKeepsModule ==
  ASSUME NEW t \in Threads, Body(t)
  PROVE  UNCHANGED <<module, opened>>
<1>1. UNCHANGED module
  BY BodyEnds DEF ReadEntry, Finish, modVars
<1>2. UNCHANGED opened
  BY DEF Body, ReadEntry, ReadLast, ReadEnd, ReadFault, WriteNoMem, WriteFault,
         WritePartial, WriteCommit, LlseekBody, IoctlBody, vfsVars
<1> QED
  BY <1>1, <1>2

LEMMA NextKeepsOpenInv ==
  ASSUME CallInv, LiveInv, OpenInv, [Next]_vars
  PROVE  OpenInv'
<1> DEFINE Files2 == \A t \in Threads : call[t].pc # "idle" => call[t].file \in opened
           Fresh == module = "none" =>
                      /\ circular_buffer = aesd_circular_buffer_init /\ entry = ZeroEntry
                      /\ allocated = {}
<1>1. ASSUME NEW t \in Threads, NEW c, call' = [call EXCEPT ![t] = c], opened' = opened,
             c.pc # "idle" => c.file \in opened
      PROVE  Files2'
  <2>1. call'[t] = c /\ \A u \in Threads \ {t} : call'[u] = call[u]
    BY <1>1 DEF CallInv
  <2> QED
    BY <1>1, <2>1 DEF OpenInv
<1>2. ASSUME NEW t \in Threads, NEW pc, NEW pos, NEW out, NEW ret, call[t].pc # "idle",
             call' = [call EXCEPT ![t] = Progress(t, pc, pos, out, ret)], opened' = opened
      PROVE  Files2'
  <2>1. Progress(t, pc, pos, out, ret).file = call[t].file /\ call[t].file \in opened
    BY <1>2 DEF Progress, OpenInv
  <2> QED
    BY <1>1, <1>2, <2>1
<1>3. UNCHANGED <<module, devVars>> => Fresh'
  BY DEF OpenInv, devVars
<1>4. ASSUME NEW t \in Threads, NEW f \in Files, Call(t, f) PROVE OpenInv'
  <2>1. ASSUME NEW op, NEW arg, NEW pc, NEW ret, Enter(t, f, op, arg, pc, ret)
        PROVE  OpenInv'
    <3> DEFINE c == [pc |-> pc, op |-> op, file |-> f, arg |-> arg,
                     start |-> f_pos[f], pos |-> f_pos[f], out |-> << >>, ret |-> ret]
    <3>1. /\ call' = [call EXCEPT ![t] = c] /\ c.file = f /\ f \in opened /\ opened' = opened
          /\ UNCHANGED <<module, devVars>>
      BY <2>1 DEF Enter, modVars, vfsVars
    <3> HIDE DEF c
    <3>2. Files2'
      BY <1>1, <3>1
    <3> QED
      BY <1>3, <3>1, <3>2 DEF OpenInv
  <2> QED
    BY <1>4, <2>1 DEF Call, Read, Write, Llseek, Ioctl, IoctlRejected
<1>5. ASSUME NEW t \in Threads, Return(t) PROVE OpenInv'
  <2>1. /\ call' = [call EXCEPT ![t] = IdleCall] /\ IdleCall.pc = "idle" /\ opened' = opened
        /\ UNCHANGED <<module, devVars>>
    BY <1>5 DEF Return, IdleCall, modVars
  <2>2. Files2'
    BY <1>1, <2>1
  <2> QED
    BY <1>3, <2>1, <2>2 DEF OpenInv
<1>6. ASSUME NEW t \in Threads, Acquire(t) \/ Interrupted(t) PROVE OpenInv'
  <2>1. opened' = opened /\ UNCHANGED <<module, devVars>> /\ call[t].pc = "lock"
    BY <1>6 DEF Acquire, Interrupted, modVars, vfsVars
  <2>2. Files2'
    BY <1>2, <1>6, <2>1 DEF Acquire, Interrupted
  <2> QED
    BY <1>3, <2>1, <2>2 DEF OpenInv
<1>7. ASSUME NEW t \in Threads, Body(t) PROVE OpenInv'
  <2>1. call[t].pc = "body" /\ module' = "live" /\ opened' = opened
    BY <1>7, BodyEnds, BodyIsLive, BodyKeepsModule
  <2>2. Files2'
    BY <1>2, <1>7, <2>1, BodyEnds DEF ReadEntry, Finish
  <2> QED
    BY <2>1, <2>2 DEF OpenInv
<1>8. CASE InitModule \/ InitModuleNoRegion \/ InitModuleNoCdev \/ InitModuleOops
             \/ CleanupModule \/ Done \/ UNCHANGED vars
  <2>1. UNCHANGED <<call, opened>>
    BY <1>8 DEF InitModule, InitModuleNoRegion, InitModuleNoCdev, InitModuleOops,
                CleanupModule, Done, vars, vfsVars
  <2>2. module' # "none" \/ UNCHANGED <<module, devVars>>
    BY <1>8 DEF InitModule, InitModuleNoRegion, InitModuleNoCdev, InitModuleOops,
                CleanupModule, Done, vars, modVars
  <2> QED
    BY <1>3, <2>1, <2>2 DEF OpenInv
<1>9. ASSUME NEW f \in Files, Open(f) \/ Release(f) PROVE OpenInv'
  <2>1. UNCHANGED <<call, module, devVars>>
    BY <1>9 DEF Open, Release, modVars
  <2>2. Files2'
    BY <1>9, <2>1 DEF Open, Release, OpenInv
  <2> QED
    BY <1>3, <2>1, <2>2 DEF OpenInv
<1> QED
  BY <1>4, <1>5, <1>6, <1>7, <1>8, <1>9 DEF Next

RefinementInv == CallInv /\ MemInv /\ LiveInv /\ OpenInv

LEMMA InitOpenInv == Init => OpenInv
BY DEF Init, OpenInv, IdleCall

(* The invariant under which every step of the driver is a step of         *)
(* CommandDevice holds in every reachable state.                           *)
THEOREM RefinementInvariant == Spec => []RefinementInv
<1>1. Init => RefinementInv
  BY InitDeviceInvariants, InitOpenInv DEF RefinementInv
<1>2. RefinementInv /\ [Next]_vars => RefinementInv'
  BY NextKeepsCallInv, NextKeepsMemInv, NextKeepsLiveInv, NextKeepsOpenInv DEF RefinementInv
<1> QED
  BY <1>1, <1>2, PTL DEF Spec
-----------------------------------------------------------------------------
(***************************************************************************)
(* No leak                                                                 *)
(***************************************************************************)
LeakInv ==
  module = "live" =>
    allocated = {BlockOf(i) : i \in UsedSlots(circular_buffer)} \cup PendingBlocks

LEMMA NextKeepsLeakInv ==
  ASSUME RefinementInv, LeakInv, ~KreallocMayFail, [Next]_vars
  PROVE  LeakInv'
<1> DEFINE cb == circular_buffer
           used == {BlockOf(i) : i \in UsedSlots(cb)}
<1>0. MemInv /\ CallInv /\ LiveInv /\ OpenInv
  BY DEF RefinementInv
<1>1. CASE InitModule \/ CleanupModule
  <2>1. CASE InitModule
    <3>1. allocated' = {} /\ entry' = ZeroEntry /\ circular_buffer' = aesd_circular_buffer_init
      BY <1>0, <2>1 DEF InitModule, OpenInv
    <3>2. UsedSlots(circular_buffer') = {}
      BY <3>1, MaxOpsAssumption DEF UsedSlots, aesd_circular_buffer_init, Slots
    <3> QED
      BY <3>1, <3>2 DEF LeakInv, PendingBlocks, ZeroEntry
  <2>2. CASE CleanupModule
    BY <2>2 DEF CleanupModule, LeakInv
  <2> QED
    BY <1>1, <2>1, <2>2
<1>2. ASSUME NEW t \in Threads, WriteNoMem(t) \/ WriteFault(t) \/ WritePartial(t) \/ WriteCommit(t)
      PROVE  LeakInv'
  <2>1. module = "live" /\ allocated = used \cup PendingBlocks
    BY <1>0, <1>2, BodyIsLive DEF WriteNoMem, WriteFault, WritePartial, WriteCommit, InBody, LeakInv
  <2>2. \A i \in UsedSlots(cb) : i \in Slots /\ BlockOf(i) # entry.buffptr
    BY <1>0 DEF MemInv, Ownership, UsedSlots
  <2>3. allocated \ {entry.buffptr} = used
    BY <2>1, <2>2 DEF PendingBlocks
  <2>4. CASE WriteNoMem(t)
    <3>1. entry.buffptr = NULL /\ entry' = ZeroEntry /\ UNCHANGED <<circular_buffer, allocated>>
      BY <2>4 DEF WriteNoMem
    <3> QED
      BY <2>1, <3>1 DEF LeakInv, PendingBlocks, ZeroEntry, BlockOf
  <2>5. CASE WriteFault(t)
    BY <2>3, <2>5 DEF WriteFault, LeakInv, PendingBlocks, ZeroEntry, BlockOf
  <2>6. CASE WritePartial(t)
    <3>1. PICK b \in NewBlocks :
            /\ entry' = GrownEntry(b, call[t].arg) /\ circular_buffer' = circular_buffer
            /\ allocated' = (allocated \ {entry.buffptr}) \cup {b}
      BY <2>6 DEF WritePartial
    <3>2. b # NULL /\ entry'.buffptr = b
      BY <1>0, <3>1, DriverAssumption DEF NewBlocks, GrownEntry
    <3> QED
      BY <2>3, <3>1, <3>2 DEF LeakInv, PendingBlocks, BlockOf
  <2>7. CASE WriteCommit(t)
    <3>1. PICK b : CommitsTo(t, b)
      BY <1>0, <2>7, CommitEffect
    <3> DEFINE in == cb.in_offs
               cb2 == circular_buffer'
    <3>2. /\ UsedSlots(cb2) = UsedSlots(cb) \cup {in} /\ in \in Slots
          /\ cb.full <=> in \in UsedSlots(cb)
          /\ cb2.entry[in].buffptr = b
          /\ \A i \in UsedSlots(cb) : i # in => cb2.entry[i] = cb.entry[i] /\ BlockOf(i) # b
          /\ allocated' = ((allocated \ {entry.buffptr}) \cup {b})
                            \ (IF cb.full THEN {BlockOf(in)} ELSE {})
          /\ b \in allocated' /\ entry' = ZeroEntry
      BY <2>2, <3>1 DEF CommitsTo
    <3>3. \A i \in UsedSlots(cb) : in \in UsedSlots(cb) /\ i # in => BlockOf(i) # BlockOf(in)
      BY <1>0 DEF MemInv, Ownership
    <3>4. {cb2.entry[i].buffptr : i \in UsedSlots(cb2)}
            = {BlockOf(i) : i \in UsedSlots(cb) \ {in}} \cup {b}
      BY <3>2 DEF BlockOf
    <3>5. allocated' = {BlockOf(i) : i \in UsedSlots(cb) \ {in}} \cup {b}
      <4>1. CASE cb.full
        BY <2>3, <3>2, <3>3, <4>1
      <4>2. CASE ~cb.full
        BY <2>3, <3>2, <4>2
      <4> QED
        BY <4>1, <4>2
    <3> QED
      BY <3>2, <3>4, <3>5 DEF LeakInv, PendingBlocks, ZeroEntry, BlockOf
  <2> QED
    BY <1>2, <2>4, <2>5, <2>6, <2>7
<1>3. CASE UNCHANGED <<circular_buffer, entry, allocated, mem>> /\ ~InitModule
  <2>1. module' = "live" => module = "live"
    <3>1. ASSUME NEW t \in Threads, NEW f \in Files, Call(t, f) PROVE UNCHANGED module
      BY <3>1 DEF Call, Read, Write, Llseek, Ioctl, IoctlRejected, Enter, modVars
    <3>2. ASSUME NEW t \in Threads, Acquire(t) \/ Interrupted(t) \/ Return(t) PROVE UNCHANGED module
      BY <3>2 DEF Acquire, Interrupted, Return, modVars
    <3>3. ASSUME NEW f \in Files, Open(f) \/ Release(f) PROVE UNCHANGED module
      BY <3>3 DEF Open, Release, modVars
    <3>4. InitModuleNoRegion \/ InitModuleNoCdev \/ InitModuleOops \/ CleanupModule
            => module' # "live"
      BY DEF InitModuleNoRegion, InitModuleNoCdev, InitModuleOops, CleanupModule
    <3>5. Done \/ UNCHANGED vars => UNCHANGED module
      BY DEF Done, vars, modVars
    <3> QED
      BY <1>3, <3>1, <3>2, <3>3, <3>4, <3>5, BodyKeepsModule DEF Next
  <2> QED
    BY <1>3, <2>1 DEF LeakInv, PendingBlocks, BlockOf
<1> QED
  BY <1>1, <1>2, <1>3, DeviceSteps

(* As long as krealloc does not fail, every allocated block is a command   *)
(* of the ring or the partial command: what aesd_write allocates is freed  *)
(* when its command is evicted or its copy fails.                          *)
THEOREM NothingLeaks == ~KreallocMayFail => (Spec => []NoLeak)
<1> SUFFICES ASSUME ~KreallocMayFail PROVE Spec => []NoLeak
  OBVIOUS
<1>1. Init => LeakInv
  BY DEF Init, LeakInv
<1>2. RefinementInv /\ LeakInv /\ [Next]_vars => LeakInv'
  BY NextKeepsLeakInv
<1>3. RefinementInv /\ LeakInv => NoLeak
  BY StoredAreUsed DEF RefinementInv, LeakInv, NoLeak
<1> QED
  BY <1>1, <1>2, <1>3, RefinementInvariant, PTL DEF Spec
-----------------------------------------------------------------------------
(***************************************************************************)
(* The driver implements CommandDevice                                     *)
(***************************************************************************)
CommandsOf(b, m) == [k \in 1..ForeachCount(b) |-> m[ForeachEntry(b, k - 1).buffptr]]

LEMMA CommandsAre ==
  ASSUME NEW E, NEW b, IsBuffer(b, E), RingShape(b), NEW m,
         \A i \in UsedSlots(b) : m[b.entry[i].buffptr] \in Seq(Bytes)
  PROVE  LET n == ForeachCount(b)
         IN  /\ n \in 0..MaxOps /\ (n < MaxOps <=> ~b.full)
             /\ CommandsOf(b, m) \in Seq(Seq(Bytes)) /\ Len(CommandsOf(b, m)) = n
             /\ \A k \in 0 .. n - 1 :
                  /\ CommandsOf(b, m)[k + 1] = m[ForeachEntry(b, k).buffptr]
                  /\ (k + b.out_offs) % MaxOps \in UsedSlots(b)
<1> DEFINE n == ForeachCount(b)
           s == CommandsOf(b, m)
<1>1. /\ n \in 0..MaxOps /\ (n < MaxOps <=> ~b.full) /\ MaxOps \in Nat
      /\ \A k \in 0 .. n - 1 : (k + b.out_offs) % MaxOps \in UsedSlots(b)
  BY ForeachSlots, MaxOpsAssumption
<1>2. \A k \in 0 .. n - 1 : m[ForeachEntry(b, k).buffptr] \in Seq(Bytes)
  BY <1>1 DEF ForeachEntry
<1>3. s = [k \in 1..n |-> m[ForeachEntry(b, k - 1).buffptr]]
  BY DEF CommandsOf
<1> HIDE DEF n, s
<1>4. \A k \in 1..n : m[ForeachEntry(b, k - 1).buffptr] \in Seq(Bytes)
  BY <1>1, <1>2
<1>5. s \in Seq(Seq(Bytes)) /\ Len(s) = n
  BY <1>1, <1>3, <1>4
<1>6. \A k \in 0 .. n - 1 : s[k + 1] = m[ForeachEntry(b, k).buffptr]
  BY <1>1, <1>3
<1> QED
  BY <1>1, <1>5, <1>6 DEF n, s

(* The bytes of the commands stay, so the commands do. *)
LEMMA SameCommands ==
  ASSUME MemInv, circular_buffer' = circular_buffer,
         \A i \in UsedSlots(circular_buffer) : mem'[BlockOf(i)] = mem[BlockOf(i)]
  PROVE  Commands' = Commands
<1> DEFINE cb == circular_buffer
           n == ForeachCount(cb)
<1>1. \A k \in 1..n : mem'[ForeachEntry(cb, k - 1).buffptr] = mem[ForeachEntry(cb, k - 1).buffptr]
  <2>1. ASSUME NEW k \in 1..n
        PROVE  (k - 1 + cb.out_offs) % MaxOps \in UsedSlots(cb)
    <3>1. n \in Nat /\ k - 1 \in 0 .. n - 1
      BY ForeachSlots DEF MemInv, MemTypes
    <3> QED
      BY <3>1, ForeachSlots DEF MemInv, MemTypes
  <2> QED
    BY <2>1 DEF ForeachEntry, BlockOf
<1>2. Commands' = [k \in 1..n |-> mem'[ForeachEntry(cb, k - 1).buffptr]]
  BY DEF Commands
<1>3. Commands = [k \in 1..n |-> mem[ForeachEntry(cb, k - 1).buffptr]]
  BY DEF Commands
<1> QED
  BY <1>1, <1>2, <1>3

LEMMA EmptyCommands ==
  /\ circular_buffer = aesd_circular_buffer_init => Commands = << >>
  /\ circular_buffer' = aesd_circular_buffer_init => Commands' = << >>
<1>1. ZeroEntry \in {ZeroEntry}
  OBVIOUS
<1>2. ForeachCount(aesd_circular_buffer_init) = 0
  <2>1. /\ IsBuffer(aesd_circular_buffer_init, {ZeroEntry})
        /\ RingShape(aesd_circular_buffer_init)
    BY InitShape
  <2>2. aesd_circular_buffer_init.in_offs = 0 /\ ~aesd_circular_buffer_init.full
    BY DEF aesd_circular_buffer_init
  <2> QED
    BY <2>1, <2>2, ForeachCountIs
<1> QED
  BY <1>2 DEF Commands

LEMMA LastOfConcat ==
  ASSUME NEW S, NEW s \in Seq(S), NEW d \in Seq(S), Len(d) > 0
  PROVE  (s \o d)[Len(s \o d)] = d[Len(d)]
<1>1. Len(s) \in Nat /\ Len(d) \in Nat /\ Len(s \o d) = Len(s) + Len(d)
  OBVIOUS
<1>2. \A i \in 1 .. Len(s) + Len(d) : (s \o d)[i] = IF i <= Len(s) THEN s[i] ELSE d[i - Len(s)]
  OBVIOUS
<1>3. Len(s) + Len(d) \in 1 .. Len(s) + Len(d) /\ ~(Len(s) + Len(d) <= Len(s))
      /\ Len(s) + Len(d) - Len(s) = Len(d)
  BY <1>1
<1> QED
  BY <1>1, <1>2, <1>3

LEMMA PendingIsSeq ==
  ASSUME MemInv
  PROVE  Pending \in Seq(Bytes)
<1>1. CASE entry = ZeroEntry
  BY <1>1, PendingIs
<1>2. CASE entry # ZeroEntry
  BY <1>2, PendingIs DEF MemInv, MemTypes
<1> QED
  BY <1>1, <1>2

(* A finished command is pushed onto the log of commands. *)
LEMMA CommitPushes ==
  ASSUME MemInv, MemInv', NEW t \in Threads, NEW b, CommitsTo(t, b)
  PROVE  Commands' = Device!Push(Commands, Pending \o call[t].arg)
<1> DEFINE cb == circular_buffer
           cb2 == circular_buffer'
           n == ForeachCount(cb)
           x == Pending \o call[t].arg
           e == GrownEntry(b, call[t].arg)
           in == cb.in_offs
           old == Commands
           new == Commands'
<1>1. /\ cb2 = aesd_circular_buffer_add_entry(cb, e) /\ e \in EntryTypes
      /\ e.buffptr = b /\ mem'[b] = x /\ cb2.entry[in] = e
      /\ \A i \in UsedSlots(cb) : i # in => mem'[BlockOf(i)] = mem[BlockOf(i)]
      /\ in \in Slots /\ (cb.full <=> in \in UsedSlots(cb))
  BY DEF CommitsTo
<1>2. /\ IsBuffer(cb, EntryTypes) /\ RingShape(cb) /\ MaxOps \in Nat /\ MaxOps > 0
      /\ Slots = 0 .. MaxOps - 1 /\ cb.out_offs \in Slots
  BY MaxOpsAssumption DEF MemInv, MemTypes, IsBuffer, Slots
<1>3. /\ n \in 0..MaxOps /\ (n < MaxOps <=> ~cb.full)
      /\ old \in Seq(Seq(Bytes)) /\ Len(old) = n
      /\ \A k \in 0 .. n - 1 :
           /\ old[k + 1] = mem[ForeachEntry(cb, k).buffptr]
           /\ (k + cb.out_offs) % MaxOps \in UsedSlots(cb)
  <2>1. \A i \in UsedSlots(cb) : mem[cb.entry[i].buffptr] \in Seq(Bytes)
    BY DEF MemInv, MemTypes, Ownership, UsedSlots, OwnsBlock
  <2>2. old = CommandsOf(cb, mem)
    BY DEF Commands, CommandsOf
  <2> QED
    BY <1>2, <2>1, <2>2, CommandsAre
<1>4. /\ new \in Seq(Seq(Bytes)) /\ Len(new) = ForeachCount(cb2)
      /\ \A k \in 0 .. ForeachCount(cb2) - 1 : new[k + 1] = mem'[ForeachEntry(cb2, k).buffptr]
  <2>1. \A i \in UsedSlots(cb2) : mem'[cb2.entry[i].buffptr] \in Seq(Bytes)
    BY DEF MemInv, MemTypes, Ownership, UsedSlots, OwnsBlock
  <2>2. new = CommandsOf(cb2, mem')
    BY DEF Commands, CommandsOf
  <2>3. IsBuffer(cb2, EntryTypes) /\ RingShape(cb2)
    BY DEF MemInv, MemTypes
  <2> QED
    BY <2>1, <2>2, <2>3, CommandsAre
<1>5. x \in Seq(Bytes)
  BY <1>1, PendingIsSeq, PayloadIsSeq DEF CommitsTo
<1>6. ASSUME NEW k \in 0 .. n - 1, (k + cb.out_offs) % MaxOps # in
      PROVE  mem'[ForeachEntry(cb, k).buffptr] = old[k + 1]
  BY <1>1, <1>3, <1>6 DEF ForeachEntry, BlockOf
<1>7. CASE ~cb.full
  <2>1. /\ ForeachCount(cb2) = n + 1
        /\ \A k \in 0 .. n - 1 : ForeachEntry(cb2, k) = ForeachEntry(cb, k)
        /\ ForeachEntry(cb2, n) = e
    BY <1>1, <1>2, <1>7, AddNotFull
  <2>2. \A k \in 0 .. n - 1 : (k + cb.out_offs) % MaxOps # in
    BY <1>1, <1>3, <1>7
  <2>3. \A k \in 0 .. n - 1 : new[k + 1] = old[k + 1]
    <3> SUFFICES ASSUME NEW k \in 0 .. n - 1 PROVE new[k + 1] = old[k + 1]
      OBVIOUS
    <3>1. k \in 0 .. ForeachCount(cb2) - 1
      BY <1>3, <2>1
    <3>2. new[k + 1] = mem'[ForeachEntry(cb2, k).buffptr]
      BY <1>4, <3>1
    <3> QED
      BY <1>6, <2>1, <2>2, <3>2
  <2>4. new[n + 1] = x
    <3>1. n \in 0 .. ForeachCount(cb2) - 1
      BY <1>3, <2>1
    <3> QED
      BY <1>1, <1>4, <2>1, <3>1
  <2>5. Len(new) = n + 1
    BY <1>4, <2>1
  <2> HIDE DEF n, x, old, new
  <2>6. \A k \in 1..n : new[k] = old[k]
    <3> SUFFICES ASSUME NEW k \in 1..n PROVE new[k] = old[k]
      OBVIOUS
    <3>1. k - 1 \in 0 .. n - 1 /\ (k - 1) + 1 = k
      BY <1>3
    <3> QED
      BY <2>3, <3>1
  <2>7. new = Append(old, x)
    BY <1>3, <1>4, <1>5, <2>4, <2>5, <2>6
  <2>8. Len(old) < MaxOps
    BY <1>3, <1>7
  <2> QED
    BY <2>7, <2>8 DEF Device!Push, old, new, x
<1>8. CASE cb.full
  <2>1. /\ n = MaxOps /\ ForeachCount(cb2) = MaxOps
        /\ \A k \in 0 .. MaxOps - 2 : ForeachEntry(cb2, k) = ForeachEntry(cb, k + 1)
        /\ ForeachEntry(cb2, MaxOps - 1) = e
    BY <1>1, <1>2, <1>8, AddFull
  <2>2. ASSUME NEW k \in 1 .. MaxOps - 1 PROVE (k + cb.out_offs) % MaxOps # in
    <3> DEFINE o == cb.out_offs
               a == k + o
    <3>1. in = o /\ o \in 0 .. MaxOps - 1
      BY <1>2, <1>8 DEF RingShape
    <3> HIDE DEF o, in
    <3>2. a \in 0 .. 2 * MaxOps - 1 /\ (IF a < MaxOps THEN a ELSE a - MaxOps) # o
      BY <1>2, <3>1
    <3> HIDE DEF a
    <3>3. a % MaxOps # o
      BY <3>2, ModSlots
    <3> QED
      BY <3>1, <3>3 DEF a, o
  <2>3. \A k \in 1 .. n - 1 : new[k] = old[k + 1]
    <3> SUFFICES ASSUME NEW k \in 1 .. n - 1 PROVE new[k] = old[k + 1]
      OBVIOUS
    <3>1. k - 1 \in 0 .. MaxOps - 2 /\ k - 1 \in 0 .. ForeachCount(cb2) - 1
          /\ (k - 1) + 1 = k /\ k \in 0 .. n - 1 /\ k \in 1 .. MaxOps - 1
      BY <1>2, <2>1
    <3>2. new[(k - 1) + 1] = mem'[ForeachEntry(cb2, k - 1).buffptr]
      BY <1>4, <3>1
    <3>3. ForeachEntry(cb2, k - 1) = ForeachEntry(cb, (k - 1) + 1)
      BY <2>1, <3>1
    <3>4. mem'[ForeachEntry(cb, k).buffptr] = old[k + 1]
      BY <1>6, <2>2, <3>1
    <3> QED
      BY <3>1, <3>2, <3>3, <3>4
  <2>4. new[n] = x
    <3>1. MaxOps - 1 \in 0 .. ForeachCount(cb2) - 1 /\ (MaxOps - 1) + 1 = n
      BY <1>2, <2>1
    <3>2. new[(MaxOps - 1) + 1] = mem'[ForeachEntry(cb2, MaxOps - 1).buffptr]
      BY <1>4, <3>1
    <3> QED
      BY <1>1, <2>1, <3>1, <3>2
  <2>5. /\ Len(old) = n /\ Len(new) = n /\ n > 0
    BY <1>2, <1>3, <1>4, <2>1
  <2> HIDE DEF n, x, old, new
  <2>6. new = Append(Tail(old), x)
    BY <1>3, <1>4, <1>5, <2>3, <2>4, <2>5, ShiftIn
  <2>7. ~(Len(old) < MaxOps)
    BY <1>3, <1>8
  <2> QED
    BY <2>6, <2>7 DEF Device!Push, old, new, x
<1> QED
  BY <1>7, <1>8

(* Loading and unloading, failed or not, and the steps that do not touch   *)
(* the device.                                                             *)
LEMMA OtherStepsRefine ==
  ASSUME RefinementInv, [Next]_vars,
         InitModule \/ CleanupModule \/ UNCHANGED <<circular_buffer, entry, allocated, mem>>
  PROVE  Device!DNext \/ UNCHANGED <<Commands, Pending, module = "live">>
<1>1. CASE InitModule
  <2>1. Commands' = Commands
    BY <1>1, EmptyCommands DEF InitModule, RefinementInv, OpenInv
  <2>2. Pending' = Pending
    BY <1>1 DEF InitModule, RefinementInv, OpenInv, Pending, ZeroEntry
  <2>3. Device!DLoad
    BY <1>1, <2>1, <2>2 DEF InitModule, Device!DLoad
  <2> QED
    BY <2>3 DEF Device!DNext
<1>2. CASE CleanupModule
  <2>1. Commands' = << >> /\ Pending' = << >>
    BY <1>2, EmptyCommands DEF CleanupModule, Pending, ZeroEntry
  <2>2. Device!DUnload
    BY <1>2, <2>1 DEF CleanupModule, Device!DUnload
  <2> QED
    BY <2>2 DEF Device!DNext
<1>3. CASE UNCHANGED <<circular_buffer, entry, allocated, mem>> /\ ~InitModule /\ ~CleanupModule
  <2>1. (module' = "live") = (module = "live")
    <3>1. ASSUME NEW t \in Threads, NEW f \in Files, Call(t, f) PROVE UNCHANGED module
      BY <3>1 DEF Call, Read, Write, Llseek, Ioctl, IoctlRejected, Enter, modVars
    <3>2. ASSUME NEW t \in Threads, Acquire(t) \/ Interrupted(t) \/ Return(t) PROVE UNCHANGED module
      BY <3>2 DEF Acquire, Interrupted, Return, modVars
    <3>3. ASSUME NEW f \in Files, Open(f) \/ Release(f) PROVE UNCHANGED module
      BY <3>3 DEF Open, Release, modVars
    <3>4. InitModuleNoRegion \/ InitModuleNoCdev \/ InitModuleOops
            => module' # "live" /\ module # "live"
      BY DEF InitModuleNoRegion, InitModuleNoCdev, InitModuleOops
    <3>5. Done \/ UNCHANGED vars => UNCHANGED module
      BY DEF Done, vars, modVars
    <3> QED
      BY <1>3, <3>1, <3>2, <3>3, <3>4, <3>5, BodyKeepsModule DEF Next
  <2>2. UNCHANGED <<Commands, Pending>>
    BY <1>3 DEF Commands, Pending
  <2> QED
    BY <2>1, <2>2
<1> QED
  BY <1>1, <1>2, <1>3

LEMMA WritesRefine ==
  ASSUME RefinementInv, RefinementInv', NEW t \in Threads,
         WriteNoMem(t) \/ WriteFault(t) \/ WritePartial(t) \/ WriteCommit(t)
  PROVE  Device!DNext
<1> DEFINE data == call[t].arg
<1>0. MemInv /\ CallInv /\ LiveInv /\ OpenInv /\ MemInv'
  BY DEF RefinementInv
<1>1. InBody(t, "write") /\ data \in Payloads
  BY <1>0 DEF WriteNoMem, WriteFault, WritePartial, WriteCommit, InBody, CallInv
<1>2. module = "live" /\ module' = "live"
  BY <1>0, <1>1, BodyIsLive, BodyKeepsModule DEF InBody, Body
<1>3. (Pending \o data)[Len(Pending \o data)] = data[Len(data)]
  BY <1>0, <1>1, PendingIsSeq, PayloadIsSeq, LastOfConcat
<1>4. CASE WriteNoMem(t) \/ WriteFault(t)
  <2>1. entry' = ZeroEntry /\ circular_buffer' = circular_buffer
    BY <1>4 DEF WriteNoMem, WriteFault
  <2>2. \A i \in UsedSlots(circular_buffer) : mem'[BlockOf(i)] = mem[BlockOf(i)]
    <3>1. \A i \in UsedSlots(circular_buffer) : BlockOf(i) \in Blocks /\ BlockOf(i) # entry.buffptr
      BY <1>0 DEF MemInv, MemTypes, Ownership, UsedSlots, OwnsBlock, BlockOf
    <3> QED
      BY <1>4, <3>1 DEF WriteNoMem, WriteFault, Kfree
  <2>3. Commands' = Commands /\ Pending' = << >>
    BY <1>0, <2>1, <2>2, SameCommands DEF Pending, ZeroEntry
  <2>4. Device!DDrop
    BY <1>2, <2>3 DEF Device!DDrop
  <2> QED
    BY <2>4 DEF Device!DNext
<1>5. CASE WritePartial(t)
  <2>1. PICK b \in NewBlocks :
          /\ ~IsCommand(Pending \o data)
          /\ entry' = GrownEntry(b, data) /\ mem' = GrownMem(b, data)
          /\ circular_buffer' = circular_buffer
    BY <1>5 DEF WritePartial
  <2> HIDE DEF data
  <2>2. /\ b \in Blocks /\ entry'.buffptr = b /\ mem'[b] = Pending \o data
        /\ \A i \in UsedSlots(circular_buffer) : mem'[BlockOf(i)] = mem[BlockOf(i)]
    BY <1>0, <1>1, <2>1, Grown
  <2>3. Commands' = Commands /\ Pending' = Pending \o data
    BY <1>0, <2>1, <2>2, SameCommands, DriverAssumption DEF Pending
  <2>4. Device!DPartial(data)
    BY <1>2, <1>3, <2>1, <2>3 DEF Device!DPartial, IsCommand
  <2> QED
    BY <1>1, <2>4 DEF Device!DNext
<1>6. CASE WriteCommit(t)
  <2>1. PICK b : CommitsTo(t, b)
    BY <1>0, <1>6, CommitEffect
  <2>2. Commands' = Device!Push(Commands, Pending \o data)
    BY <1>0, <2>1, CommitPushes
  <2>3. IsCommand(Pending \o data) /\ Pending' = << >>
    BY <2>1 DEF CommitsTo, Pending, ZeroEntry
  <2>4. Device!DCommand(data)
    BY <1>2, <1>3, <2>2, <2>3 DEF Device!DCommand, IsCommand
  <2> QED
    BY <1>1, <2>4 DEF Device!DNext
<1> QED
  BY <1>4, <1>5, <1>6

(* The driver keeps the last MaxOps commands in order, each the            *)
(* concatenation of the writes since the newline before it, for every      *)
(* number of threads, slots and blocks and every interleaving and failure: *)
(* aesd_write and the ring implement CommandDevice.                        *)
THEOREM DriverImplementsDevice == Spec => ImplementsCommandDevice
<1>1. Init => Device!DInit
  <2> SUFFICES ASSUME Init PROVE Device!DInit
    OBVIOUS
  <2>1. Commands = << >>
    BY EmptyCommands DEF Init
  <2>2. Pending = << >> /\ (module = "live") = FALSE
    BY DEF Init, Pending, ZeroEntry
  <2> QED
    BY <2>1, <2>2 DEF Device!DInit
<1>2. RefinementInv /\ RefinementInv' /\ [Next]_vars
        => [Device!DNext]_<<Commands, Pending, module = "live">>
  BY DeviceSteps, OtherStepsRefine, WritesRefine
<1> QED
  BY <1>1, <1>2, RefinementInvariant, PTL DEF Spec, ImplementsCommandDevice, Device!DSpec
-----------------------------------------------------------------------------
(***************************************************************************)
(* Reads and seeks: the contents as one string of bytes                    *)
(***************************************************************************)
(* Byte j of the command that iteration k visits stands in the contents    *)
(* behind the bytes of the commands before it.                             *)
LEMMA ContentsAre ==
  ASSUME MemInv
  PROVE  LET cb == circular_buffer
             n == ForeachCount(cb)
         IN  /\ n \in Nat /\ Commands \in Seq(Seq(Bytes)) /\ Len(Commands) = n
             /\ \A k \in 0 .. n - 1 :
                  /\ Commands[k + 1] = mem[ForeachEntry(cb, k).buffptr]
                  /\ Len(Commands[k + 1]) = ForeachEntry(cb, k).size
             /\ Contents \in Seq(Bytes) /\ Len(Contents) = TotalSize(cb, n)
             /\ \A k \in 0 .. n - 1 : \A j \in 1..ForeachEntry(cb, k).size :
                  /\ TotalSize(cb, k) + j \in 1..TotalSize(cb, n)
                  /\ Contents[TotalSize(cb, k) + j] = Commands[k + 1][j]
             /\ Totals(Commands, [k \in 0..n |-> TotalSize(cb, k)])
<1> DEFINE cb == circular_buffer
           n == ForeachCount(cb)
           T == [k \in 0..n |-> TotalSize(cb, k)]
<1>1. IsBuffer(cb, EntryTypes) /\ RingShape(cb)
  BY DEF MemInv, MemTypes
<1>2. \A i \in UsedSlots(cb) : mem[cb.entry[i].buffptr] \in Seq(Bytes) /\ OwnsBlock(cb.entry[i])
  BY DEF MemInv, MemTypes, Ownership, UsedSlots, OwnsBlock
<1>3. n \in Nat
  BY <1>1, CountIsNat
<1>4. /\ Commands \in Seq(Seq(Bytes)) /\ Len(Commands) = n
      /\ \A k \in 0 .. n - 1 :
           /\ Commands[k + 1] = mem[ForeachEntry(cb, k).buffptr]
           /\ (k + cb.out_offs) % MaxOps \in UsedSlots(cb)
  <2>1. Commands = CommandsOf(cb, mem)
    BY DEF Commands, CommandsOf
  <2> QED BY <1>1, <1>2, <2>1, CommandsAre
<1>5. \A k \in 0 .. n - 1 : Len(Commands[k + 1]) = ForeachEntry(cb, k).size
  BY <1>2, <1>4 DEF ForeachEntry, OwnsBlock
<1> HIDE DEF n
<1>6. \A k \in 1..n : Len(Commands[k]) = ForeachEntry(cb, k - 1).size
  <2> SUFFICES ASSUME NEW k \in 1..n
               PROVE  Len(Commands[k]) = ForeachEntry(cb, k - 1).size
    OBVIOUS
  <2>1. k - 1 \in 0 .. n - 1 /\ (k - 1) + 1 = k
    BY <1>3
  <2> QED BY <1>5, <2>1
<1>7. Totals(Commands, T)
  BY <1>1, <1>4, <1>6, EntriesAreSized, TotalSizesAreTotals
<1>8. /\ Contents \in Seq(Bytes) /\ Len(Contents) = T[n]
      /\ \A i \in 1..n : \A j \in 1..Len(Commands[i]) :
           T[i - 1] + j \in 1..T[n] /\ Contents[T[i - 1] + j] = Commands[i][j]
  <2>1. /\ Contents \in Seq(Bytes) /\ Len(Contents) = T[Len(Commands)]
        /\ \A i \in 1..Len(Commands) : \A j \in 1..Len(Commands[i]) :
             T[i - 1] + j \in 1..T[Len(Commands)] /\ Contents[T[i - 1] + j] = Commands[i][j]
    <3> HIDE DEF T
    <3> QED BY <1>4, <1>7, FlattenSeqIs DEF Contents
  <2> HIDE DEF T
  <2> QED BY <1>4, <2>1
<1>9. \A k \in 0..n : T[k] = TotalSize(cb, k)
  OBVIOUS
<1>10. ASSUME NEW k \in 0 .. n - 1, NEW j \in 1..ForeachEntry(cb, k).size
       PROVE  /\ TotalSize(cb, k) + j \in 1..TotalSize(cb, n)
              /\ Contents[TotalSize(cb, k) + j] = Commands[k + 1][j]
  <2>1. k + 1 \in 1..n /\ (k + 1) - 1 = k /\ k \in 0..n /\ n \in 0..n
    BY <1>3
  <2>2. j \in 1..Len(Commands[k + 1])
    BY <1>5
  <2>3. /\ T[(k + 1) - 1] + j \in 1..T[n]
        /\ Contents[T[(k + 1) - 1] + j] = Commands[k + 1][j]
    BY <1>8, <2>1, <2>2
  <2> HIDE DEF T
  <2> QED BY <1>9, <2>1, <2>3
<1>11. Len(Contents) = TotalSize(cb, n)
  BY <1>3, <1>8, <1>9
<1> QED BY <1>3, <1>4, <1>5, <1>7, <1>8, <1>10, <1>11 DEF n

(* What copy_to_user copies is the part of the contents at the position.   *)
LEMMA CopiedIs ==
  ASSUME MemInv, CallTypes, NEW t \in Threads, InBody(t, "read"), Found(t)
  PROVE  /\ Remaining(t) \in Nat /\ Remaining(t) > 0
         /\ call[t].pos + Remaining(t) <= Len(Contents)
         /\ \A n \in 0..Remaining(t) :
              /\ Copied(t, n) \in Seq(Bytes) /\ Len(Copied(t, n)) = n
              /\ \A i \in 1..n : Copied(t, n)[i] = Contents[call[t].pos + i]
<1> DEFINE cb == circular_buffer
           p == call[t].pos
           k == FindIndex(cb, p)
           off == FindOffset(cb, p)
           en == ForeachEntry(cb, k)
           bytes == mem[en.buffptr]
           total == TotalSize(cb, k)
<1>1. p \in Nat /\ Remaining(t) \in Nat
      /\ \A n \in 0..Remaining(t) : Copied(t, n) \in Seq(Bytes) /\ Len(Copied(t, n)) = n
  BY CopiedTyped
<1>2. IsBuffer(cb, EntryTypes) /\ RingShape(cb) /\ k # -1
  BY DEF MemInv, MemTypes, Found
<1>3. k \in 0 .. ForeachCount(cb) - 1 /\ off \in Nat /\ off < en.size
  BY <1>1, <1>2, EntriesAreSized, FindIsInside
<1>4. off = p - total
  BY DEF FindOffset
<1>5. /\ ForeachCount(cb) \in Nat /\ bytes = Commands[k + 1] /\ Len(bytes) = en.size
      /\ Commands \in Seq(Seq(Bytes)) /\ Len(Commands) = ForeachCount(cb)
      /\ Len(Contents) = TotalSize(cb, ForeachCount(cb)) /\ Contents \in Seq(Bytes)
      /\ \A j \in 1..en.size :
           /\ total + j \in 1..Len(Contents) /\ Contents[total + j] = bytes[j]
  BY <1>3, ContentsAre
<1>6. k \in Nat /\ total \in Nat /\ en.size \in Nat
  <2>1. k \in Nat
    <3> HIDE DEF k
    <3> QED BY <1>3, <1>5
  <2>2. en \in EntryTypes
    BY <1>2, <2>1, ForeachEntryType
  <2> QED BY <1>2, <2>1, <2>2, EntriesAreSized, TotalSizeType DEF EntryTypes
<1>7. Remaining(t) = en.size - off
  BY DEF Remaining, FoundEntry, FoundOffset
<1>8. \A n : Copied(t, n) = SubSeq(bytes, off + 1, off + n)
  BY DEF Copied, FoundEntry, FoundOffset
<1>9. bytes \in Seq(Bytes)
  <2>1. k + 1 \in 1..Len(Commands)
    <3> HIDE DEF k
    <3> QED BY <1>3, <1>5
  <2> QED BY <1>5, <2>1
<1> HIDE DEF p, k, off, en, bytes, total
<1>10. Remaining(t) > 0 /\ p + Remaining(t) <= Len(Contents)
  <2>1. en.size \in 1..en.size /\ p + Remaining(t) = total + en.size
    <3> DEFINE z == en.size
    <3>1. z \in Nat /\ off < z /\ Remaining(t) = z - off
      BY <1>3, <1>6, <1>7
    <3> HIDE DEF z
    <3>2. z \in 1..z /\ p + (z - off) = total + z
      BY <1>1, <1>3, <1>4, <1>6, <3>1
    <3> QED BY <3>1, <3>2 DEF z
  <2>2. total + en.size \in 1..Len(Contents)
    BY <1>5, <2>1
  <2> QED BY <1>1, <1>3, <1>6, <1>7, <2>1, <2>2
<1>11. ASSUME NEW n \in 0..Remaining(t), NEW i \in 1..n
       PROVE  Copied(t, n)[i] = Contents[p + i]
  <2>1. /\ n \in Nat /\ i \in Nat /\ off + n <= en.size
        /\ off + i \in 1..en.size /\ total + (off + i) = p + i
    BY <1>1, <1>3, <1>4, <1>6, <1>7
  <2>2. Contents[p + i] = bytes[off + i]
    BY <1>5, <2>1
  <2>3. SubSeq(bytes, off + 1, off + n)[i] = bytes[off + i]
    <3> DEFINE z == Len(bytes)
    <3>0. z \in Nat /\ off + n <= z
      BY <1>5, <1>6, <2>1
    <3> HIDE DEF z
    <3>1. /\ off + 1 \in 1..z + 1 /\ off + n \in 0..z /\ (off + 1) + i - 1 = off + i
      BY <1>3, <2>1, <3>0
    <3> QED BY <1>3, <1>9, <2>1, <3>0, <3>1 DEF z
  <2> QED BY <1>8, <2>2, <2>3
<1> QED BY <1>1, <1>10, <1>11 DEF p

(* The inductive invariant of reading: a read that has the lock has copied *)
(* the contents from where it started to where it is.                      *)
HasRead(c, C) ==
  /\ c.pc = "lock" => c.pos = c.start /\ c.out = << >>
  /\ c.pc = "body" /\ c.op = "read" =>
       /\ c.pos = c.start + Len(c.out)
       /\ c.out = << >> \/ c.pos <= Len(C)
       /\ \A i \in 1..Len(c.out) : c.out[i] = C[c.start + i]

ReadInv == \A t \in Threads : HasRead(call[t], Contents)

(* Which steps change the call of a thread, and to what. *)
LEMMA CallChanges ==
  ASSUME [Next]_vars
  PROVE  \/ call' = call
         \/ \E t \in Threads :
              /\ call[t].pc = "body" => Body(t)
              /\ \/ Acquire(t) \/ ReadEntry(t)
                 \/ \E c : /\ call' = [call EXCEPT ![t] = c]
                          /\ \/ c.pc \in {"idle", "ret"}
                             \/ c.pc = "lock" /\ c.pos = c.start /\ c.out = << >>
<1> DEFINE Changes(t) ==
             /\ call[t].pc = "body" => Body(t)
             /\ \/ Acquire(t) \/ ReadEntry(t)
                \/ \E c : /\ call' = [call EXCEPT ![t] = c]
                         /\ \/ c.pc \in {"idle", "ret"}
                            \/ c.pc = "lock" /\ c.pos = c.start /\ c.out = << >>
<1>1. ASSUME NEW t \in Threads, Acquire(t) PROVE Changes(t)
  BY <1>1 DEF Acquire
<1>2. ASSUME NEW t \in Threads, Interrupted(t) PROVE Changes(t)
  <2>1. call[t].pc = "lock" /\ \E c : c.pc = "ret" /\ call' = [call EXCEPT ![t] = c]
    BY <1>2 DEF Interrupted, Progress
  <2> QED BY <2>1
<1>3. ASSUME NEW t \in Threads, Return(t) PROVE Changes(t)
  <2>1. call[t].pc = "ret" /\ \E c : c.pc = "idle" /\ call' = [call EXCEPT ![t] = c]
    BY <1>3 DEF Return, IdleCall
  <2> QED BY <2>1
<1>4. ASSUME NEW t \in Threads, Body(t) PROVE Changes(t)
  <2>1. ASSUME NEW pos, NEW out, NEW ret, Finish(t, pos, out, ret)
        PROVE  \E c : c.pc = "ret" /\ call' = [call EXCEPT ![t] = c]
    BY <2>1 DEF Finish, Progress
  <2> QED BY <1>4, <2>1, BodyEnds
<1>5. ASSUME NEW t \in Threads, NEW f \in Files, Call(t, f) PROVE Changes(t)
  <2>1. ASSUME NEW op, NEW arg, NEW pc \in {"lock", "ret"}, NEW ret, Enter(t, f, op, arg, pc, ret)
        PROVE  Changes(t)
    <3> DEFINE c == [pc |-> pc, op |-> op, file |-> f, arg |-> arg,
                     start |-> f_pos[f], pos |-> f_pos[f], out |-> << >>, ret |-> ret]
    <3>1. call[t].pc = "idle" /\ call' = [call EXCEPT ![t] = c]
      BY <2>1 DEF Enter
    <3>2. c.pc \in {"lock", "ret"} /\ c.pos = c.start /\ c.out = << >>
      OBVIOUS
    <3> HIDE DEF c
    <3> QED BY <3>1, <3>2
  <2> HIDE DEF Changes
  <2> QED BY <1>5, <2>1 DEF Call, Read, Write, Llseek, Ioctl, IoctlRejected
<1>6. InitModule \/ InitModuleNoRegion \/ InitModuleNoCdev \/ InitModuleOops
        \/ CleanupModule \/ Done \/ UNCHANGED vars => call' = call
  BY DEF InitModule, InitModuleNoRegion, InitModuleNoCdev, InitModuleOops,
         CleanupModule, Done, vars
<1>7. ASSUME NEW f \in Files, Open(f) \/ Release(f) PROVE call' = call
  BY <1>7 DEF Open, Release
<1> HIDE DEF Changes
<1>8. call' = call \/ \E t \in Threads : Changes(t)
  BY <1>1, <1>2, <1>3, <1>4, <1>5, <1>6, <1>7 DEF Next
<1> QED BY <1>8 DEF Changes

(* As long as a thread is reading with the lock held, nobody changes the   *)
(* contents.                                                               *)
LEMMA ContentsStay ==
  ASSUME MemInv, LockInv, OpenInv, LiveInv, [Next]_vars, NEW t \in Threads,
         call'[t].pc = "body" /\ call'[t].op = "read"
  PROVE  Commands' = Commands /\ Contents' = Contents
<1>1. CASE UNCHANGED <<circular_buffer, entry, allocated, mem>>
  BY <1>1 DEF Commands, Contents
<1>2. CASE InitModule \/ CleanupModule
  <2>1. call' = call /\ (module = "none" \/ opened = {})
    BY <1>2 DEF InitModule, CleanupModule
  <2>2. call[t].file \in opened /\ module = "live"
    BY <2>1, BodyIsLive DEF OpenInv
  <2> QED BY <2>1, <2>2
<1>3. ASSUME NEW u \in Threads,
             WriteNoMem(u) \/ WriteFault(u) \/ WritePartial(u) \/ WriteCommit(u)
      PROVE  FALSE
  <2>1. /\ call[u].pc = "body" /\ call[u].op = "write"
        /\ \E pos, out, ret : Finish(u, pos, out, ret)
    BY <1>3 DEF WriteNoMem, WriteFault, WritePartial, WriteCommit, InBody
  <2>2. PICK c : c.pc = "ret" /\ call' = [call EXCEPT ![u] = c]
    BY <2>1 DEF Finish, Progress
  <2>3. t # u /\ call'[t] = call[t]
    BY <2>2 DEF LockInv
  <2>4. lock = t /\ lock = u
    BY <2>1, <2>3 DEF LockInv, LockDiscipline
  <2> QED BY <2>3, <2>4
<1> QED BY <1>1, <1>2, <1>3, DeviceSteps

(* One more entry was copied. *)
LEMMA ReadEntryReads ==
  ASSUME MemInv, VfsTypes, CallTypes, ReadInv, NEW t \in Threads, ReadEntry(t)
  PROVE  HasRead(call'[t], Contents)
<1> DEFINE c == call[t]
           add == Copied(t, Remaining(t))
           d == Progress(t, "body", c.pos + Remaining(t), c.out \o add, "ok")
<1>1. InBody(t, "read") /\ Found(t) /\ call'[t] = d
  BY DEF ReadEntry, VfsTypes
<1>2. /\ d.pc = "body" /\ d.start = c.start /\ d.pos = c.pos + Remaining(t)
      /\ d.out = c.out \o add
  BY DEF Progress
<1>3. /\ Remaining(t) \in Nat /\ c.pos + Remaining(t) <= Len(Contents)
      /\ add \in Seq(Bytes) /\ Len(add) = Remaining(t)
      /\ \A i \in 1..Remaining(t) : add[i] = Contents[c.pos + i]
  <2>1. Remaining(t) \in Nat /\ Remaining(t) \in 0..Remaining(t)
    BY <1>1, CopiedIs
  <2> QED BY <1>1, <2>1, CopiedIs
<1>4. /\ c.out \in Seq(Bytes) /\ c.start \in Nat /\ c.pos = c.start + Len(c.out)
      /\ \A i \in 1..Len(c.out) : c.out[i] = Contents[c.start + i]
  BY <1>1 DEF CallTypes, CallOK, IsCall, ReadInv, HasRead, InBody
<1> DEFINE o == c.out
           a == c.start
           R == Remaining(t)
<1> HIDE DEF o, a, R, c, d, add
<1>5. /\ o \in Seq(Bytes) /\ add \in Seq(Bytes) /\ Len(o) \in Nat /\ Len(add) = R
      /\ R \in Nat /\ a \in Nat /\ c.pos = a + Len(o)
  BY <1>3, <1>4 DEF o, a, R
<1>6. o \o add \in Seq(Bytes) /\ Len(o \o add) = Len(o) + R
  BY <1>5
<1>7. ASSUME NEW i \in 1 .. Len(o) + R PROVE (o \o add)[i] = Contents[a + i]
  <2>1. CASE i <= Len(o)
    <3>1. i \in 1..Len(o) /\ (o \o add)[i] = o[i]
      BY <1>5, <2>1
    <3> QED BY <1>4, <3>1 DEF o, a
  <2>2. CASE i > Len(o)
    <3>1. i - Len(o) \in 1..R /\ (a + Len(o)) + (i - Len(o)) = a + i
      BY <1>5, <2>2
    <3>2. (o \o add)[i] = add[i - Len(o)]
      BY <1>5, <2>2
    <3> QED BY <1>3, <1>5, <3>1, <3>2 DEF R
  <2> QED BY <1>5, <2>1, <2>2
<1>8. d.pos = d.start + Len(d.out) /\ d.pos <= Len(Contents)
  <2>1. c.pos + R = a + (Len(o) + R)
    BY <1>5
  <2> QED BY <1>2, <1>3, <1>6, <2>1 DEF o, a, R
<1>9. \A i \in 1..Len(d.out) : d.out[i] = Contents[d.start + i]
  BY <1>2, <1>6, <1>7 DEF o, a
<1> QED BY <1>1, <1>2, <1>8, <1>9 DEF HasRead

LEMMA NextKeepsReadInv ==
  ASSUME MemInv, VfsTypes, CallTypes, LockInv, OpenInv, LiveInv, ReadInv, [Next]_vars
  PROVE  ReadInv'
<1>1. \A t \in Threads : HasRead(call'[t], Contents)
  <2>1. CASE call' = call
    BY <2>1 DEF ReadInv
  <2>2. ASSUME NEW t \in Threads, Acquire(t)
        PROVE  \A u \in Threads : HasRead(call'[u], Contents)
    <3> DEFINE d == Progress(t, "body", call[t].pos, call[t].out, "ok")
    <3>1. call[t].pc = "lock" /\ call' = [call EXCEPT ![t] = d]
      BY <2>2 DEF Acquire
    <3>2. d.pc = "body" /\ d.start = call[t].start /\ d.pos = call[t].pos /\ d.out = call[t].out
      BY DEF Progress
    <3>3. call[t].pos = call[t].start /\ call[t].out = << >> /\ call[t].start \in Nat
      BY <3>1 DEF ReadInv, HasRead, CallTypes, CallOK, IsCall
    <3> HIDE DEF d
    <3>4. HasRead(d, Contents)
      BY <3>2, <3>3 DEF HasRead
    <3> QED BY <3>1, <3>4 DEF ReadInv, VfsTypes
  <2>3. ASSUME NEW t \in Threads, ReadEntry(t)
        PROVE  \A u \in Threads : HasRead(call'[u], Contents)
    <3>1. HasRead(call'[t], Contents)
      BY <2>3, ReadEntryReads
    <3>2. \A u \in Threads \ {t} : call'[u] = call[u]
      BY <2>3 DEF ReadEntry, VfsTypes
    <3> QED BY <3>1, <3>2 DEF ReadInv
  <2>4. ASSUME NEW t \in Threads, NEW c, call' = [call EXCEPT ![t] = c],
               c.pc \in {"idle", "ret"} \/ (c.pc = "lock" /\ c.pos = c.start /\ c.out = << >>)
        PROVE  \A u \in Threads : HasRead(call'[u], Contents)
    <3>1. HasRead(c, Contents)
      BY <2>4 DEF HasRead
    <3> QED BY <2>4, <3>1 DEF ReadInv, VfsTypes
  <2> QED BY <2>1, <2>2, <2>3, <2>4, CallChanges
<1>2. ASSUME NEW t \in Threads PROVE HasRead(call'[t], Contents')
  <2>1. CASE call'[t].pc = "body" /\ call'[t].op = "read"
    BY <1>1, <2>1, ContentsStay
  <2>2. CASE ~(call'[t].pc = "body" /\ call'[t].op = "read")
    BY <1>1, <2>2 DEF HasRead
  <2> QED BY <2>1, <2>2
<1> QED BY <1>2 DEF ReadInv

(* The invariants that reads and seeks need, in every reachable state. *)
FileInv == MemInv /\ VfsTypes /\ CallTypes /\ LockInv /\ OpenInv /\ LiveInv /\ ReadInv

(* A read in aesd_read's loop has copied the contents of the device from   *)
(* where it started, and they have not changed since.                      *)
THEOREM ReadInvariant == Spec => []FileInv
<1>1. Init => ReadInv
  BY DEF Init, ReadInv, HasRead, IdleCall
<1>2. VfsTypes /\ LockDiscipline => LockInv
  BY DEF VfsTypes, LockInv
<1>3. MemInv /\ VfsTypes /\ CallTypes /\ LockInv /\ OpenInv /\ LiveInv /\ ReadInv /\ [Next]_vars
        => ReadInv'
  BY NextKeepsReadInv
<1>4. RefinementInv => MemInv /\ OpenInv /\ LiveInv
  BY DEF RefinementInv
<1> QED
  BY <1>1, <1>2, <1>3, <1>4, RefinementInvariant, CallInvariants, LockIsDisciplined, PTL
     DEF Spec, FileInv
-----------------------------------------------------------------------------
LEMMA MinIs ==
  ASSUME NEW a \in Int, NEW b \in Int
  PROVE  Min({a, b}) = IF a <= b THEN a ELSE b
<1> DEFINE m == IF a <= b THEN a ELSE b
<1>1. m \in {a, b} /\ \A y \in {a, b} : m <= y
  OBVIOUS
<1>2. \A x \in {a, b} : (\A y \in {a, b} : x <= y) => x = m
  OBVIOUS
<1> HIDE DEF m
<1>3. Min({a, b}) = m
  BY <1>1, <1>2 DEF Min
<1> QED BY <1>3 DEF m

(* A sequence that agrees with another one from a place on is a slice. *)
LEMMA SliceIs ==
  ASSUME NEW S, NEW C \in Seq(S), NEW o \in Seq(S), NEW a \in Nat,
         o = << >> \/ a + Len(o) <= Len(C),
         \A i \in 1..Len(o) : o[i] = C[a + i]
  PROVE  o = SubSeq(C, a + 1, a + Len(o))
<1> DEFINE n == Len(o)
           s == SubSeq(C, a + 1, a + n)
<1>1. n \in Nat /\ Len(C) \in Nat
  OBVIOUS
<1>2. CASE o = << >>
  <2>1. a + Len(o) < a + 1
    BY <1>2
  <2> QED BY <1>1, <1>2, <2>1, SubSeqEmpty
<1>3. CASE a + n <= Len(C)
  <2> HIDE DEF n
  <2>1. \A i \in a + 1 .. a + n : C[i] \in S
    <3>1. \A i \in a + 1 .. a + n : i \in 1..Len(C)
      BY <1>1, <1>3
    <3> QED BY <3>1
  <2>2. a + 1 \in Int /\ a + n \in Int
    BY <1>1
  <2>3. /\ s \in Seq(S) /\ Len(s) = (IF a + 1 <= a + n THEN (a + n) - (a + 1) + 1 ELSE 0)
        /\ \A i \in 1 .. (a + n) - (a + 1) + 1 : s[i] = C[(a + 1) + i - 1]
    <3> DEFINE lo == a + 1
               hi == a + n
    <3> HIDE DEF lo, hi
    <3>1. lo \in Int /\ hi \in Int /\ \A i \in lo..hi : C[i] \in S
      BY <2>1, <2>2 DEF lo, hi
    <3>2. /\ SubSeq(C, lo, hi) \in Seq(S)
          /\ Len(SubSeq(C, lo, hi)) = (IF lo <= hi THEN hi - lo + 1 ELSE 0)
          /\ \A i \in 1 .. hi - lo + 1 : SubSeq(C, lo, hi)[i] = C[lo + i - 1]
      BY <3>1, SubSeqProperties, SMTT(40)
    <3> QED BY <3>2 DEF lo, hi
  <2>4. Len(s) = n
    BY <1>1, <2>3
  <2>5. \A i \in 1..n : s[i] = C[a + i]
    <3>1. ASSUME NEW i \in 1..n PROVE s[i] = C[a + i]
      <4>1. i \in 1 .. (a + n) - (a + 1) + 1 /\ (a + 1) + i - 1 = a + i
        BY <1>1
      <4> QED BY <2>3, <4>1
    <3> QED BY <3>1
  <2> HIDE DEF s
  <2>6. Len(o) = n /\ \A i \in 1..n : o[i] = C[a + i]
    BY DEF n
  <2>7. o = [i \in 1..n |-> o[i]] /\ s = [i \in 1..n |-> s[i]]
    BY <2>3, <2>4, <2>6
  <2>8. o = s
    BY <2>5, <2>6, <2>7
  <2> QED BY <2>8 DEF s, n
<1> QED BY <1>2, <1>3

(* The last entry that a read needs: all that was wanted was there. *)
LEMMA ReadLastReads ==
  ASSUME FileInv, NEW t \in Threads, ReadLast(t)
  PROVE  call'[t].out = SubSeq(Contents, call[t].start + 1,
                               Min({call[t].start + call[t].arg, Len(Contents)}))
<1> DEFINE c == call[t]
           L == CountLeft(t)
           add == Copied(t, L)
           o == c.out
           a == c.start
           w == c.arg
<1>1. InBody(t, "read") /\ Found(t) /\ L <= Remaining(t) /\ call'[t].out = o \o add
  <2>1. InBody(t, "read") /\ Found(t) /\ Remaining(t) >= L
        /\ Finish(t, c.pos + Len(o \o add), o \o add, "ok")
    BY DEF ReadLast
  <2>2. call'[t] = Progress(t, "ret", c.pos + Len(o \o add), o \o add, "ok")
    BY <2>1 DEF Finish, FileInv, VfsTypes
  <2>3. L \in Int /\ Remaining(t) \in Int
    BY <2>1, CopiedTyped DEF FileInv
  <2> HIDE DEF L
  <2>4. L <= Remaining(t)
    BY <2>1, <2>3
  <2> QED BY <2>1, <2>2, <2>4 DEF Progress
<1>2. /\ L \in Nat /\ o \in Seq(Bytes) /\ w \in Nat /\ L = w - Len(o) /\ Remaining(t) \in Nat
      /\ c.pos \in Nat
  BY <1>1, CopiedTyped DEF FileInv
<1>3. L \in 0..Remaining(t)
  BY <1>1, <1>2
<1>4. /\ c.pos + Remaining(t) <= Len(Contents)
      /\ add \in Seq(Bytes) /\ Len(add) = L
      /\ \A i \in 1..L : add[i] = Contents[c.pos + i]
  BY <1>1, <1>3, CopiedIs DEF FileInv
<1>5. /\ a \in Nat /\ c.pos = a + Len(o)
      /\ \A i \in 1..Len(o) : o[i] = Contents[a + i]
  BY <1>1 DEF FileInv, CallTypes, CallOK, IsCall, ReadInv, HasRead, InBody
<1>6. Contents \in Seq(Bytes) /\ Len(Contents) \in Nat
  BY ContentsAre DEF FileInv
<1> HIDE DEF L, add, o, a, w, c
<1>7. o \o add \in Seq(Bytes) /\ Len(o \o add) = w
  <2>1. Len(o \o add) = Len(o) + Len(add) /\ o \o add \in Seq(Bytes) /\ Len(o) \in Nat
    BY <1>2, <1>4
  <2> QED BY <1>2, <1>4, <2>1
<1>8. a + w <= Len(Contents)
  <2>1. Len(o) \in Nat
    BY <1>2
  <2>2. c.pos + L <= Len(Contents)
    BY <1>2, <1>3, <1>4, <1>6
  <2>3. c.pos + L = a + w
    BY <1>2, <1>5, <2>1
  <2> QED BY <2>2, <2>3
<1>9. ASSUME NEW i \in 1..w PROVE (o \o add)[i] = Contents[a + i]
  <2>0. Len(o) \in Nat /\ Len(add) = L /\ w = Len(o) + L
    BY <1>2, <1>4
  <2>1. CASE i <= Len(o)
    <3>1. i \in 1..Len(o) /\ (o \o add)[i] = o[i]
      BY <1>2, <1>4, <2>0, <2>1
    <3> QED BY <1>5, <3>1
  <2>2. CASE i > Len(o)
    <3>1. i - Len(o) \in 1..L /\ (a + Len(o)) + (i - Len(o)) = a + i
      BY <1>2, <1>5, <2>0, <2>2
    <3>2. (o \o add)[i] = add[i - Len(o)]
      BY <1>2, <1>4, <2>0, <2>2
    <3> QED BY <1>4, <1>5, <3>1, <3>2
  <2> QED BY <1>2, <2>0, <2>1, <2>2
<1>10. o \o add = SubSeq(Contents, a + 1, a + w)
  <2> DEFINE r == o \o add
  <2> HIDE DEF r
  <2>1. r \in Seq(Bytes) /\ Len(r) = w /\ \A i \in 1..Len(r) : r[i] = Contents[a + i]
    BY <1>7, <1>9 DEF r
  <2>2. r = SubSeq(Contents, a + 1, a + Len(r))
    BY <1>5, <1>6, <1>8, <2>1, SliceIs
  <2> QED BY <2>1, <2>2 DEF r
<1>11. Min({a + w, Len(Contents)}) = a + w
  <2>1. a + w \in Int /\ Len(Contents) \in Int
    BY <1>2, <1>5, <1>6
  <2> QED BY <1>8, <2>1, MinIs
<1> QED BY <1>1, <1>10, <1>11 DEF c, o, a, w

(* No entry at the position: the contents end there, or before the start.  *)
LEMMA ReadEndReads ==
  ASSUME FileInv, NEW t \in Threads, ReadEnd(t)
  PROVE  /\ call'[t].out = SubSeq(Contents, call[t].start + 1, Len(Contents))
         /\ call'[t].pos = call[t].start + Len(call'[t].out)
         /\ Min({call[t].start + call[t].arg, Len(Contents)}) = Len(Contents)
<1> DEFINE c == call[t]
           o == c.out
           a == c.start
           w == c.arg
<1>1. InBody(t, "read") /\ ~Found(t) /\ call'[t].out = o /\ call'[t].pos = c.pos
  <2>1. InBody(t, "read") /\ ~Found(t) /\ Finish(t, c.pos, o, "ok")
    BY DEF ReadEnd
  <2>2. call'[t] = Progress(t, "ret", c.pos, o, "ok")
    BY <2>1 DEF Finish, FileInv, VfsTypes
  <2> QED BY <2>1, <2>2 DEF Progress
<1>2. /\ a \in Nat /\ o \in Seq(Bytes) /\ c.pos \in Nat /\ c.pos = a + Len(o)
      /\ o = << >> \/ c.pos <= Len(Contents)
      /\ \A i \in 1..Len(o) : o[i] = Contents[a + i]
      /\ w \in Counts /\ Len(o) <= w
  BY <1>1 DEF FileInv, CallTypes, CallOK, IsCall, ReadInv, HasRead, InBody
<1>3. w \in Nat /\ Len(o) \in Nat
  BY <1>2, DriverAssumption
<1>4. /\ Contents \in Seq(Bytes) /\ Len(Contents) \in Nat
      /\ Len(Contents) = TotalSize(circular_buffer, ForeachCount(circular_buffer))
  BY ContentsAre DEF FileInv
<1>5. ~(c.pos < Len(Contents))
  <2>1. IsBuffer(circular_buffer, EntryTypes) /\ RingShape(circular_buffer)
    BY DEF FileInv, MemInv, MemTypes
  <2> QED BY <1>1, <1>2, <1>4, <2>1, EntriesAreSized, FoundBelowTotal DEF Found
<1> DEFINE n == Len(o)
           l == Len(Contents)
<1>6. n \in Nat /\ l \in Nat /\ ~(a + n < l) /\ n <= w
  BY <1>2, <1>3, <1>4, <1>5
<1>7. Min({a + w, l}) = l
  <2> HIDE DEF n, l, a, w
  <2>1. a + w \in Int /\ l <= a + w
    BY <1>2, <1>3, <1>6
  <2> QED BY <1>6, <2>1, MinIs
<1>8. o = SubSeq(Contents, a + 1, l)
  <2>1. CASE o = << >>
    <3>1. n = 0
      BY <2>1
    <3> HIDE DEF n, l, a
    <3>2. l < a + 1 /\ a + 1 \in Int /\ l \in Int
      BY <1>2, <1>6, <3>1
    <3> QED BY <2>1, <3>2, SubSeqEmpty
  <2>2. CASE o # << >>
    <3>1. a + n <= l
      BY <1>2, <2>2
    <3>2. o = SubSeq(Contents, a + 1, a + Len(o))
      <4>1. /\ a + Len(o) <= Len(Contents) /\ a \in Nat
            /\ o \in Seq(Bytes) /\ Contents \in Seq(Bytes)
            /\ \A i \in 1..Len(o) : o[i] = Contents[a + i]
        BY <1>2, <1>4, <3>1
      <4> HIDE DEF o, a
      <4> QED BY <4>1, SliceIs
    <3>3. a + n = l
      <4> HIDE DEF n, l, a
      <4> QED BY <1>2, <1>6, <3>1
    <3> QED BY <3>2, <3>3
  <2> QED BY <2>1, <2>2
<1> QED BY <1>1, <1>2, <1>7, <1>8

(* Only its own body step takes a call from its body to its return. *)
LEMMA LeavesBody ==
  ASSUME FileInv, [Next]_vars, NEW t \in Threads, call[t].pc = "body", call'[t].pc = "ret"
  PROVE  Body(t)
<1>1. \E u \in Threads : /\ call[u].pc = "body" => Body(u)
                         /\ \A v \in Threads \ {u} : call'[v] = call[v]
  <2>1. ~(call' = call)
    OBVIOUS
  <2>2. ASSUME NEW u \in Threads, Acquire(u) PROVE \A v \in Threads \ {u} : call'[v] = call[v]
    BY <2>2 DEF Acquire, FileInv, VfsTypes
  <2>3. ASSUME NEW u \in Threads, ReadEntry(u) PROVE \A v \in Threads \ {u} : call'[v] = call[v]
    BY <2>3 DEF ReadEntry, FileInv, VfsTypes
  <2>4. ASSUME NEW u \in Threads, NEW c, call' = [call EXCEPT ![u] = c]
        PROVE  \A v \in Threads \ {u} : call'[v] = call[v]
    BY <2>4 DEF FileInv, VfsTypes
  <2> QED BY <2>1, <2>2, <2>3, <2>4, CallChanges
<1> QED BY <1>1

(* A read that succeeds returns the bytes of the contents from the         *)
(* position on, as many as are wanted and there are: aesd_read's loop over *)
(* the entries is a read of the concatenation of all commands, at one      *)
(* point of time.                                                          *)
THEOREM ReadsReturnSlices == Spec => ReadReturnsSlice
<1> DEFINE A == \A t \in Threads : Completes(t, "read") =>
                  call'[t].out = SubSeq(Contents, call[t].start + 1,
                                        Min({call[t].start + call[t].arg, Len(Contents)}))
<1>1. ASSUME FileInv, [Next]_vars, NEW t \in Threads, Completes(t, "read")
      PROVE  call'[t].out = SubSeq(Contents, call[t].start + 1,
                                   Min({call[t].start + call[t].arg, Len(Contents)}))
  <2>1. call[t].op = "read" /\ call'[t].pc = "ret" /\ call'[t].ret = "ok" /\ Body(t)
    BY <1>1, LeavesBody DEF Completes
  <2>2. ~ReadEntry(t) /\ ~ReadFault(t)
    <3>1. ASSUME ReadEntry(t) PROVE FALSE
      BY <1>1, <2>1, <3>1 DEF ReadEntry, Progress, FileInv, VfsTypes
    <3>2. ASSUME ReadFault(t) PROVE FALSE
      BY <1>1, <2>1, <3>2 DEF ReadFault, Finish, Progress, FileInv, VfsTypes
    <3> QED BY <3>1, <3>2
  <2>3. ~(WriteNoMem(t) \/ WriteFault(t) \/ WritePartial(t) \/ WriteCommit(t)
            \/ LlseekBody(t) \/ IoctlBody(t))
    BY <2>1 DEF WriteNoMem, WriteFault, WritePartial, WriteCommit, LlseekBody, IoctlBody, InBody
  <2> QED BY <1>1, <2>1, <2>2, <2>3, ReadLastReads, ReadEndReads DEF Body
<1>2. FileInv /\ [Next]_vars => [A]_vars
  BY <1>1
<1> QED BY <1>2, ReadInvariant, PTL DEF Spec, ReadReturnsSlice

(* The bytes before a command are those of the commands before it. *)
LEMMA BytesBeforeCommand ==
  ASSUME MemInv, NEW c \in DOMAIN Commands
  PROVE  Len(FlattenSeq(SubSeq(Commands, 1, c - 1))) = TotalSize(circular_buffer, c - 1)
<1> DEFINE s == Commands
           n == ForeachCount(circular_buffer)
           r == SubSeq(s, 1, c - 1)
           T == [k \in 0 .. c - 1 |-> TotalSize(circular_buffer, k)]
<1>1. /\ n \in Nat /\ s \in Seq(Seq(Bytes)) /\ Len(s) = n
      /\ \A k \in 0 .. n - 1 : Len(s[k + 1]) = ForeachEntry(circular_buffer, k).size
  BY ContentsAre
<1>2. c \in 1..n
  <2> HIDE DEF n
  <2> QED BY <1>1
<1> HIDE DEF s, n
<1>3. r \in Seq(Seq(Bytes)) /\ Len(r) = c - 1 /\ \A i \in 1 .. c - 1 : r[i] = s[i]
  <2>1. \A i \in 1 .. c - 1 : s[i] \in Seq(Bytes)
    <3>1. \A i \in 1 .. c - 1 : i \in 1..Len(s)
      BY <1>1, <1>2
    <3> QED BY <1>1, <3>1
  <2>2. 1 \in Int /\ c - 1 \in Int
    BY <1>1, <1>2
  <2>3. /\ r \in Seq(Seq(Bytes)) /\ Len(r) = (IF 1 <= c - 1 THEN (c - 1) - 1 + 1 ELSE 0)
        /\ \A i \in 1 .. (c - 1) - 1 + 1 : r[i] = s[1 + i - 1]
    BY <2>1, <2>2, SubSeqProperties
  <2>4. ASSUME NEW i \in 1 .. c - 1 PROVE r[i] = s[i]
    <3>1. i \in 1 .. (c - 1) - 1 + 1 /\ 1 + i - 1 = i
      BY <1>2
    <3> QED BY <2>3, <3>1
  <2> HIDE DEF r
  <2>5. Len(r) = c - 1
    BY <1>2, <2>3
  <2> QED BY <2>3, <2>4, <2>5
<1> HIDE DEF r
<1>4. \A k \in 1..Len(r) : Len(r[k]) = ForeachEntry(circular_buffer, k - 1).size
  <2>1. ASSUME NEW k \in 1..Len(r) PROVE Len(r[k]) = ForeachEntry(circular_buffer, k - 1).size
    <3>1. k \in 1 .. c - 1 /\ k - 1 \in 0 .. n - 1 /\ (k - 1) + 1 = k
      BY <1>1, <1>2, <1>3
    <3> QED BY <1>1, <1>3, <3>1
  <2> QED BY <2>1
<1>5. Totals(r, [k \in 0..Len(r) |-> TotalSize(circular_buffer, k)])
  BY <1>3, <1>4, EntriesAreSized, TotalSizesAreTotals DEF MemInv, MemTypes
<1>6. Totals(r, T)
  BY <1>3, <1>5
<1>7. Len(FlattenSeq(r)) = T[c - 1]
  <2> HIDE DEF T
  <2> QED BY <1>3, <1>6, FlattenSeqIs
<1>8. T[c - 1] = TotalSize(circular_buffer, c - 1)
  BY <1>1, <1>2
<1> QED BY <1>7, <1>8 DEF r, s

LEMMA IoctlAddresses ==
  ASSUME FileInv, NEW t \in Threads, IoctlBody(t)
  PROVE  LET c == call[t].arg.write_cmd + 1
             o == call[t].arg.write_cmd_offset + 1
         IN  /\ call'[t].ret = "ok" <=> c \in DOMAIN Commands /\ o \in DOMAIN Commands[c]
             /\ call'[t].ret = "ok" =>
                  /\ f_pos'[call[t].file] = Len(FlattenSeq(SubSeq(Commands, 1, c - 1))) + o - 1
                  /\ Contents[f_pos'[call[t].file] + 1] = Commands[c][o]
<1> DEFINE cb == circular_buffer
           n == ForeachCount(cb)
           arg == call[t].arg
           k == arg.write_cmd
           j == arg.write_cmd_offset
           f == call[t].file
<1>1. /\ InBody(t, "ioctl") /\ k \in Nat /\ j \in Nat /\ f \in Files
  <2>1. InBody(t, "ioctl")
    BY DEF IoctlBody
  <2>2. arg \in SeekTos
    BY <2>1 DEF InBody, FileInv, CallTypes, CallOK, IsCall
  <2>3. f \in opened /\ opened \subseteq Files
    BY <2>1 DEF InBody, FileInv, OpenInv, VfsTypes
  <2> QED BY <2>1, <2>2, <2>3, DriverAssumption
<1>2. /\ n \in Nat /\ Commands \in Seq(Seq(Bytes)) /\ Len(Commands) = n
      /\ \A i \in 0 .. n - 1 : Len(Commands[i + 1]) = ForeachEntry(cb, i).size
      /\ \A i \in 0 .. n - 1 : \A p \in 1..ForeachEntry(cb, i).size :
           Contents[TotalSize(cb, i) + p] = Commands[i + 1][p]
  BY ContentsAre DEF FileInv
<1>3. ValidSeekTo(arg) <=> k + 1 \in DOMAIN Commands /\ j + 1 \in DOMAIN Commands[k + 1]
  <2>1. ValidSeekTo(arg) <=> k < n /\ j < ForeachEntry(cb, k).size
    BY DEF ValidSeekTo
  <2> HIDE DEF n, k, j, arg
  <2>2. k + 1 \in DOMAIN Commands <=> k < n
    BY <1>1, <1>2
  <2>3. ASSUME k < n
        PROVE  j + 1 \in DOMAIN Commands[k + 1] <=> j < ForeachEntry(cb, k).size
    <3>1. k \in 0 .. n - 1 /\ k + 1 \in 1..Len(Commands)
      BY <1>1, <1>2, <2>3
    <3>2. Commands[k + 1] \in Seq(Bytes) /\ Len(Commands[k + 1]) = ForeachEntry(cb, k).size
      BY <1>2, <3>1
    <3> DEFINE q == Commands[k + 1]
               z == ForeachEntry(cb, k).size
    <3>3. q \in Seq(Bytes) /\ Len(q) = z
      BY <3>2
    <3> HIDE DEF q, z
    <3>4. j + 1 \in DOMAIN q <=> j < z
      BY <1>1, <3>3
    <3> QED BY <3>4 DEF q, z
  <2> QED BY <2>1, <2>2, <2>3
<1>4. CASE ValidSeekTo(arg)
  <2>1. /\ f_pos' = [f_pos EXCEPT ![f] = TotalSize(cb, k) + j]
        /\ Finish(t, call[t].pos, << >>, "ok")
    BY <1>4 DEF IoctlBody
  <2>2. call'[t].ret = "ok"
    BY <2>1 DEF Finish, Progress, FileInv, VfsTypes
  <2>3. f_pos'[f] = TotalSize(cb, k) + j
    BY <1>1, <2>1 DEF FileInv, VfsTypes
  <2>4. k + 1 \in DOMAIN Commands /\ j + 1 \in DOMAIN Commands[k + 1]
    BY <1>3, <1>4
  <2>5. (k + 1) - 1 = k /\ k \in 0 .. n - 1
    <3> HIDE DEF n, k
    <3> QED BY <1>1, <1>2, <2>4
  <2>6. Len(FlattenSeq(SubSeq(Commands, 1, (k + 1) - 1))) = TotalSize(cb, k)
    BY <2>4, <2>5, BytesBeforeCommand DEF FileInv
  <2>7. TotalSize(cb, k) \in Nat
    BY <1>1, EntriesAreSized, TotalSizeType DEF FileInv, MemInv, MemTypes
  <2>8. j + 1 \in 1..ForeachEntry(cb, k).size
    <3>1. Commands[k + 1] \in Seq(Bytes) /\ Len(Commands[k + 1]) = ForeachEntry(cb, k).size
      BY <1>2, <2>4, <2>5
    <3> QED BY <2>4, <3>1
  <2> DEFINE tot == TotalSize(cb, k)
  <2> HIDE DEF tot, k, j, n, cb
  <2>9. tot + j = tot + (j + 1) - 1 /\ (tot + j) + 1 = tot + (j + 1)
    BY <1>1, <2>7 DEF tot
  <2>10. Contents[(TotalSize(cb, k) + j) + 1] = Commands[k + 1][j + 1]
    BY <1>2, <2>5, <2>8, <2>9 DEF tot
  <2>11. f_pos'[f] = Len(FlattenSeq(SubSeq(Commands, 1, (k + 1) - 1))) + (j + 1) - 1
    BY <2>3, <2>6, <2>9 DEF tot
  <2> QED BY <1>3, <1>4, <2>2, <2>3, <2>10, <2>11 DEF k, j
<1>5. CASE ~ValidSeekTo(arg)
  <2>1. Finish(t, call[t].pos, << >>, "EINVAL")
    BY <1>5 DEF IoctlBody
  <2>2. call'[t].ret # "ok"
    BY <2>1 DEF Finish, Progress, FileInv, VfsTypes
  <2> QED BY <1>3, <1>5, <2>2
<1> QED BY <1>4, <1>5

(* A seek by AESDCHAR_IOCSEEKTO succeeds just when the command and the     *)
(* offset in it exist, and moves the file to that byte of the contents:    *)
(* the running total of aesd_adjust_file_offset is the length of the       *)
(* commands before.                                                        *)
THEOREM SeeksAddress == Spec => SeekToAddresses
<1> DEFINE B(t) == LET c == call[t].arg.write_cmd + 1
                       o == call[t].arg.write_cmd_offset + 1
                   IN  /\ call'[t].ret = "ok" <=> c \in DOMAIN Commands /\ o \in DOMAIN Commands[c]
                       /\ call'[t].ret = "ok" =>
                            /\ f_pos'[call[t].file]
                                 = Len(FlattenSeq(SubSeq(Commands, 1, c - 1))) + o - 1
                            /\ Contents[f_pos'[call[t].file] + 1] = Commands[c][o]
           A == \A t \in Threads : InBody(t, "ioctl") /\ call'[t].pc = "ret" => B(t)
<1>1. ASSUME FileInv, [Next]_vars, NEW t \in Threads, InBody(t, "ioctl"), call'[t].pc = "ret"
      PROVE  B(t)
  <2>1. Body(t) /\ call[t].op = "ioctl"
    BY <1>1, LeavesBody DEF InBody
  <2>2. IoctlBody(t)
    BY <2>1 DEF Body, ReadEntry, ReadLast, ReadEnd, ReadFault, WriteNoMem, WriteFault,
                WritePartial, WriteCommit, LlseekBody, InBody
  <2> QED BY <1>1, <2>2, IoctlAddresses
<1>2. FileInv /\ [Next]_vars => [A]_vars
  <2> HIDE DEF B
  <2> QED BY <1>1
<1> QED BY <1>2, ReadInvariant, PTL DEF Spec, SeekToAddresses
=============================================================================
