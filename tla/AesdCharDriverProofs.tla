------------------------ MODULE AesdCharDriverProofs ------------------------
(***************************************************************************)
(* Proofs about the driver for every number of threads, files, blocks and  *)
(* slots, and every set of payloads.                                       *)
(***************************************************************************)
EXTENDS AesdCharDriverProperties, CircularBufferLemmas, FiniteSetTheorems

(***************************************************************************)
(* Who holds the lock                                                      *)
(***************************************************************************)
(* The inductive invariant: call is a function on the threads. *)
LockInv == call = [t \in Threads |-> call[t]] /\ LockDiscipline

(* A step that changes only the call of t, and leaves the lock as it has   *)
(* to be for it, keeps the invariant.                                      *)
LEMMA OneCallChanges ==
  ASSUME LockInv, NEW t \in Threads, NEW c,
         call' = [call EXCEPT ![t] = c],
         c.pc = "body" <=> lock' = t,
         \A u \in Threads \ {t} : lock' = u <=> lock = u
  PROVE  LockInv'
<1>1. call'[t] = c /\ \A u \in Threads \ {t} : call'[u] = call[u]
  BY DEF LockInv
<1>2. LockDiscipline'
  BY <1>1 DEF LockInv, LockDiscipline
<1>3. call' = [u \in Threads |-> call'[u]]
  BY DEF LockInv
<1> QED
  BY <1>2, <1>3 DEF LockInv

LEMMA FinishKeepsLockInv ==
  ASSUME LockInv, NEW t \in Threads, call[t].pc = "body",
         NEW pos, NEW out, NEW ret, Finish(t, pos, out, ret)
  PROVE  LockInv'
<1>1. call' = [call EXCEPT ![t] = Progress(t, "ret", pos, out, ret)]
  BY DEF Finish
<1>2. Progress(t, "ret", pos, out, ret).pc = "ret"
  BY DEF Progress
<1>3. lock = t /\ lock' = NULL
  BY DEF LockInv, LockDiscipline, Finish
<1> QED
  BY <1>1, <1>2, <1>3, OneCallChanges, DriverAssumption

LEMMA EnterKeepsLockInv ==
  ASSUME LockInv, NEW t \in Threads, NEW f, NEW op, NEW arg, NEW pc, NEW ret,
         pc # "body", Enter(t, f, op, arg, pc, ret)
  PROVE  LockInv'
<1> DEFINE c == [pc |-> pc, op |-> op, file |-> f, arg |-> arg,
                 start |-> f_pos[f], pos |-> f_pos[f], out |-> << >>, ret |-> ret]
<1>1. call' = [call EXCEPT ![t] = c] /\ lock' = lock
  BY DEF Enter
<1>2. c.pc # "body" /\ lock # t
  BY DEF Enter, LockInv, LockDiscipline
<1> QED
  BY <1>1, <1>2, OneCallChanges

LEMMA LockInvUnchanged ==
  ASSUME LockInv, UNCHANGED <<call, lock>>
  PROVE  LockInv'
BY DEF LockInv, LockDiscipline

(* A body either goes on holding the lock or gives it back. *)
LEMMA BodyEnds ==
  ASSUME NEW t \in Threads, Body(t)
  PROVE  /\ call[t].pc = "body"
         /\ \/ ReadEntry(t)
            \/ \E pos, out, ret : Finish(t, pos, out, ret)
<1>1. CASE ReadEntry(t)
  BY <1>1 DEF ReadEntry, InBody
<1>2. CASE ReadLast(t)
  BY <1>2 DEF ReadLast, InBody
<1>3. CASE ReadEnd(t)
  BY <1>3 DEF ReadEnd, InBody
<1>4. CASE ReadFault(t)
  BY <1>4 DEF ReadFault, InBody
<1>5. CASE WriteNoMem(t)
  BY <1>5 DEF WriteNoMem, InBody
<1>6. CASE WriteFault(t)
  BY <1>6 DEF WriteFault, InBody
<1>7. CASE WritePartial(t)
  BY <1>7 DEF WritePartial, InBody
<1>8. CASE WriteCommit(t)
  BY <1>8 DEF WriteCommit, InBody
<1>9. CASE LlseekBody(t)
  BY <1>9 DEF LlseekBody, InBody
<1>10. CASE IoctlBody(t)
  BY <1>10 DEF IoctlBody, InBody
<1> QED
  BY <1>1, <1>2, <1>3, <1>4, <1>5, <1>6, <1>7, <1>8, <1>9, <1>10 DEF Body

LEMMA NextKeepsLockInv ==
  ASSUME LockInv, [Next]_vars
  PROVE  LockInv'
<1>1. CASE UNCHANGED <<call, lock>>
  BY <1>1, LockInvUnchanged
<1>2. ASSUME NEW t \in Threads, NEW f \in Files, Call(t, f) PROVE LockInv'
  BY <1>2, EnterKeepsLockInv DEF Call, Read, Write, Llseek, Ioctl, IoctlRejected
<1>3. ASSUME NEW t \in Threads, Acquire(t) PROVE LockInv'
  <2>1. lock = NULL /\ lock' = t /\ \E c : c.pc = "body" /\ call' = [call EXCEPT ![t] = c]
    BY <1>3 DEF Acquire, Progress
  <2> QED
    BY <2>1, OneCallChanges, DriverAssumption
<1>4. ASSUME NEW t \in Threads, Interrupted(t) PROVE LockInv'
  <2>1. lock # t /\ lock' = lock /\ \E c : c.pc = "ret" /\ call' = [call EXCEPT ![t] = c]
    BY <1>4 DEF Interrupted, Progress, LockInv, LockDiscipline
  <2> QED
    BY <2>1, OneCallChanges
<1>5. ASSUME NEW t \in Threads, Return(t) PROVE LockInv'
  <2>1. lock # t /\ lock' = lock /\ call' = [call EXCEPT ![t] = IdleCall]
    BY <1>5 DEF Return, LockInv, LockDiscipline
  <2>2. IdleCall.pc = "idle"
    BY DEF IdleCall
  <2> QED
    BY <2>1, <2>2, OneCallChanges
<1>6. ASSUME NEW t \in Threads, Body(t) PROVE LockInv'
  <2>1. CASE ReadEntry(t)
    <3>1. lock = t /\ lock' = lock /\ \E c : c.pc = "body" /\ call' = [call EXCEPT ![t] = c]
      BY <2>1 DEF ReadEntry, InBody, Progress, LockInv, LockDiscipline
    <3> QED
      BY <3>1, OneCallChanges
  <2> QED
    BY <1>6, <2>1, BodyEnds, FinishKeepsLockInv
<1>7. InitModule \/ InitModuleNoRegion \/ InitModuleNoCdev \/ InitModuleOops
        \/ CleanupModule \/ Done \/ UNCHANGED vars => UNCHANGED <<call, lock>>
  BY DEF InitModule, InitModuleNoRegion, InitModuleNoCdev, InitModuleOops,
         CleanupModule, Done, vars
<1>8. ASSUME NEW f \in Files, Open(f) \/ Release(f) PROVE UNCHANGED <<call, lock>>
  BY <1>8 DEF Open, Release
<1> QED
  BY <1>1, <1>2, <1>3, <1>4, <1>5, <1>6, <1>7, <1>8 DEF Next

(* In every reachable state the lock is held by exactly the thread in a    *)
(* body: mutual exclusion, and every way out of aesd_read, aesd_write,     *)
(* aesd_llseek and aesd_adjust_file_offset unlocks.                        *)
THEOREM LockIsDisciplined == Spec => []LockDiscipline
<1>1. Init => LockInv
  BY DriverAssumption DEF Init, LockInv, LockDiscipline, IdleCall
<1>2. LockInv /\ [Next]_vars => LockInv'
  BY NextKeepsLockInv
<1>3. LockInv => LockDiscipline
  BY DEF LockInv
<1> QED
  BY <1>1, <1>2, <1>3, PTL DEF Spec
-----------------------------------------------------------------------------
(***************************************************************************)
(* Who owns which block                                                    *)
(***************************************************************************)
(* What a waiting write will write. *)
CallInv ==
  /\ call = [t \in Threads |-> call[t]]
  /\ \A t \in Threads : call[t].op = "write" => call[t].arg \in Payloads

MemTypes ==
  /\ IsBuffer(circular_buffer, EntryTypes) /\ RingShape(circular_buffer)
  /\ entry \in EntryTypes
  /\ allocated \subseteq Blocks /\ mem \in [Blocks -> Seq(Bytes)]

(* The slots in use: all of them, or those before in_offs. *)
UsedSlots(b) == IF b.full THEN Slots ELSE {i \in Slots : i < b.in_offs}

(* The ring and the partial command as the allocator sees them. *)
Ownership ==
  /\ \A i \in Slots : IF i \in UsedSlots(circular_buffer)
                      THEN OwnsBlock(circular_buffer.entry[i])
                      ELSE circular_buffer.entry[i] = ZeroEntry
  /\ entry = ZeroEntry \/ OwnsBlock(entry)
  /\ \A i, j \in UsedSlots(circular_buffer) : i # j => BlockOf(i) # BlockOf(j)
  /\ \A i \in UsedSlots(circular_buffer) : BlockOf(i) # entry.buffptr

Terminated ==
  /\ \A i \in UsedSlots(circular_buffer) : EndsInNewline(mem[BlockOf(i)])
  /\ entry # ZeroEntry => ~EndsInNewline(Pending)

MemInv == MemTypes /\ Ownership /\ Terminated

LEMMA PayloadIsSeq ==
  ASSUME NEW d \in Payloads
  PROVE  d \in Seq(Bytes) /\ Len(d) \in Nat /\ Len(d) > 0
<1>1. d = [i \in 1..Len(d) |-> d[i]] /\ Len(d) \in Nat \ {0}
  BY DriverAssumption
<1>2. \A i \in 1..Len(d) : d[i] \in Bytes
  BY DriverAssumption
<1>3. [i \in 1..Len(d) |-> d[i]] \in Seq(Bytes)
  BY <1>1, <1>2, IsASeq
<1> QED
  BY <1>1, <1>3

(* What aesd_write has built before it looks for the newline: block b holds *)
(* the old and the new bytes, and no other command was touched.             *)
LEMMA Grown ==
  ASSUME MemInv, NEW b \in NewBlocks, NEW data \in Payloads
  PROVE  LET m == GrownMem(b, data)
             e == GrownEntry(b, data)
             a == (allocated \ {entry.buffptr}) \cup {b}
         IN  /\ m \in [Blocks -> Seq(Bytes)] /\ a \subseteq Blocks /\ e \in EntryTypes
             /\ b \in Blocks /\ e.buffptr = b /\ e # ZeroEntry
             /\ e.size = Len(m[b]) /\ e.size > 0 /\ m[b] = Pending \o data
             /\ \A i \in UsedSlots(circular_buffer) :
                  /\ BlockOf(i) # b /\ BlockOf(i) \in a
                  /\ m[BlockOf(i)] = mem[BlockOf(i)]
<1> DEFINE m == GrownMem(b, data)
           e == GrownEntry(b, data)
           a == (allocated \ {entry.buffptr}) \cup {b}
<1>1. b \in Blocks
  BY DEF NewBlocks, MemInv, MemTypes, EntryTypes
<1>2. Pending \in Seq(Bytes) /\ Len(Pending) = entry.size /\ entry.size \in Nat
  <2>1. CASE entry = ZeroEntry
    BY <2>1 DEF Pending, ZeroEntry
  <2>2. CASE OwnsBlock(entry)
    <3>1. entry.buffptr \in Blocks /\ entry.buffptr # NULL
      BY <2>2, DriverAssumption DEF OwnsBlock, MemInv, MemTypes
    <3> QED
      BY <2>2, <3>1 DEF Pending, OwnsBlock, MemInv, MemTypes, EntryTypes
  <2> QED
    BY <2>1, <2>2 DEF MemInv, Ownership
<1>3. Pending \o data \in Seq(Bytes) /\ Len(Pending \o data) = entry.size + Len(data)
  BY <1>2, PayloadIsSeq
<1>4. Kfree(mem, {entry.buffptr}) \in [Blocks -> Seq(Bytes)]
  BY DEF Kfree, MemInv, MemTypes
<1>5. m \in [Blocks -> Seq(Bytes)] /\ m[b] = Pending \o data
  BY <1>1, <1>3, <1>4 DEF GrownMem
<1>6. e \in EntryTypes /\ e.buffptr = b /\ e.size = Len(m[b]) /\ e.size > 0
  BY <1>1, <1>2, <1>3, <1>5, PayloadIsSeq DEF GrownEntry, EntryTypes
<1>7. e # ZeroEntry
  BY <1>1, <1>6, DriverAssumption DEF ZeroEntry
<1>8. ASSUME NEW i \in UsedSlots(circular_buffer)
      PROVE  BlockOf(i) # b /\ BlockOf(i) \in a /\ m[BlockOf(i)] = mem[BlockOf(i)]
  <2>1. i \in Slots /\ BlockOf(i) \in allocated /\ BlockOf(i) # entry.buffptr
    BY DEF UsedSlots, BlockOf, OwnsBlock, MemInv, Ownership
  <2>2. BlockOf(i) # b
    BY <2>1 DEF NewBlocks
  <2>3. BlockOf(i) \in Blocks
    BY <2>1 DEF MemInv, MemTypes
  <2> QED
    BY <1>1, <1>4, <2>1, <2>2, <2>3 DEF GrownMem, Kfree
<1> QED
  BY <1>1, <1>5, <1>6, <1>7, <1>8 DEF MemInv, MemTypes

(* On a full buffer find_entry_offset_for_fpos(0) finds the entry that     *)
(* add_entry is about to overwrite.                                        *)
LEMMA OldSlotIsOverwritten ==
  ASSUME MemInv, circular_buffer.full
  PROVE  OldSlot = circular_buffer.in_offs
<1> DEFINE cb == circular_buffer
           hits == FindCandidates(cb, 0)
<1>1. /\ MaxOps \in Nat /\ MaxOps > 0
      /\ cb.out_offs \in Slots /\ cb.in_offs = cb.out_offs
  BY MaxOpsAssumption DEF MemInv, MemTypes, IsBuffer, RingShape
<1>2. ForeachCount(cb) = MaxOps
  BY ForeachCountIs DEF MemInv, MemTypes
<1>3. (0 + cb.out_offs) % MaxOps = cb.out_offs
  <2>1. cb.out_offs \in 0 .. MaxOps - 1
    BY <1>1 DEF Slots
  <2> HIDE DEF cb
  <2>2. 0 + cb.out_offs \in 0 .. 2 * MaxOps - 1 /\ 0 + cb.out_offs < MaxOps
    BY <1>1, <2>1
  <2> QED
    BY <1>1, <2>1, <2>2, ModSlots
<1>4. ForeachEntry(cb, 0).size \in Nat /\ ForeachEntry(cb, 0).size > 0
  <2>1. ForeachEntry(cb, 0) = cb.entry[cb.out_offs]
    BY <1>3 DEF ForeachEntry
  <2>2. OwnsBlock(cb.entry[cb.out_offs])
    BY <1>1 DEF MemInv, Ownership, UsedSlots
  <2>3. cb.entry[cb.out_offs] \in EntryTypes
    BY <1>1 DEF MemInv, MemTypes, IsBuffer
  <2> QED
    BY <2>1, <2>2, <2>3 DEF OwnsBlock, EntryTypes
<1>5. 0 \in hits /\ \A k \in hits : k \in Nat
  BY <1>1, <1>2, <1>4, NoBytesBeforeFirst DEF FindCandidates
<1>6. FindIndex(cb, 0) = 0
  <2> HIDE DEF hits
  <2>1. hits # {} /\ FindIndex(cb, 0) = CHOOSE k \in hits : \A j \in hits : k <= j
    BY <1>5 DEF FindIndex, hits
  <2> QED
    BY <1>5, <2>1
<1> QED
  BY <1>1, <1>3, <1>6 DEF OldSlot

(* add_entry puts one more slot to use, the one at in_offs. *)
LEMMA UsedAfterAdd ==
  ASSUME NEW E, NEW b, IsBuffer(b, E), RingShape(b), NEW e
  PROVE  LET c == aesd_circular_buffer_add_entry(b, e)
         IN  /\ UsedSlots(c) = UsedSlots(b) \cup {b.in_offs}
             /\ b.in_offs \in Slots /\ (~b.full => b.in_offs \notin UsedSlots(b))
             /\ c.entry[b.in_offs] = e
             /\ \A i \in Slots : i # b.in_offs => c.entry[i] = b.entry[i]
<1> DEFINE c == aesd_circular_buffer_add_entry(b, e)
<1>0. /\ MaxOps \in Nat /\ MaxOps > 0 /\ Slots = 0 .. MaxOps - 1
      /\ b.in_offs \in Slots /\ b.out_offs \in Slots /\ b.full \in BOOLEAN
      /\ b.entry \in [Slots -> E]
  BY MaxOpsAssumption DEF IsBuffer, Slots
<1>1. /\ c.entry = [b.entry EXCEPT ![b.in_offs] = e]
      /\ c.in_offs = AdvanceOffs(b.in_offs)
      /\ c.full = (b.full \/ AdvanceOffs(b.in_offs) = b.out_offs)
  BY DEF aesd_circular_buffer_add_entry
<1> HIDE DEF c
<1>2. CASE b.full
  <2>1. UsedSlots(c) = Slots /\ UsedSlots(b) = Slots
    BY <1>1, <1>2 DEF UsedSlots
  <2> QED
    BY <1>0, <1>1, <1>2, <2>1 DEF c
<1>3. CASE ~b.full
  <2>1. b.out_offs = 0 /\ UsedSlots(b) = {i \in Slots : i < b.in_offs}
    BY <1>3 DEF RingShape, UsedSlots
  <2>2. UsedSlots(c) = UsedSlots(b) \cup {b.in_offs}
    <3>1. CASE b.in_offs + 1 >= MaxOps
      <4>1. UsedSlots(c) = Slots
        BY <1>1, <2>1, <3>1 DEF AdvanceOffs, UsedSlots
      <4> QED
        BY <1>0, <2>1, <3>1, <4>1
    <3>2. CASE ~(b.in_offs + 1 >= MaxOps)
      <4>1. c.in_offs = b.in_offs + 1 /\ ~c.full
        BY <1>0, <1>1, <1>3, <2>1, <3>2 DEF AdvanceOffs
      <4>2. UsedSlots(c) = {i \in Slots : i < b.in_offs + 1}
        BY <4>1 DEF UsedSlots
      <4> QED
        BY <1>0, <2>1, <3>2, <4>2
    <3> QED
      BY <3>1, <3>2
  <2>3. b.in_offs \notin UsedSlots(b)
    BY <1>0, <2>1
  <2> QED
    BY <1>0, <1>1, <2>2, <2>3 DEF c
<1> QED
  BY <1>0, <1>2, <1>3

LEMMA PendingIs ==
  ASSUME MemInv
  PROVE  /\ entry = ZeroEntry => Pending = << >>
         /\ entry # ZeroEntry => entry.buffptr \in Blocks /\ Pending = mem[entry.buffptr]
<1>1. NULL \notin Blocks
  BY DriverAssumption
<1>2. entry # ZeroEntry => entry.buffptr \in Blocks
  BY DEF MemInv, MemTypes, Ownership, OwnsBlock
<1> QED
  BY <1>1, <1>2 DEF Pending, ZeroEntry

LEMMA WritePartialKeepsMemInv ==
  ASSUME MemInv, CallInv, NEW t \in Threads, WritePartial(t)
  PROVE  MemInv'
<1> DEFINE data == call[t].arg
<1>1. PICK b \in NewBlocks :
        /\ ~IsCommand(Pending \o data)
        /\ entry' = GrownEntry(b, data)
        /\ allocated' = (allocated \ {entry.buffptr}) \cup {b}
        /\ mem' = GrownMem(b, data)
        /\ circular_buffer' = circular_buffer
  BY DEF WritePartial
<1>2. data \in Payloads
  BY DEF WritePartial, InBody, CallInv
<1> HIDE DEF data
<1>3. /\ mem' \in [Blocks -> Seq(Bytes)] /\ allocated' \subseteq Blocks /\ entry' \in EntryTypes
      /\ b \in Blocks /\ entry'.buffptr = b /\ entry' # ZeroEntry
      /\ entry'.size = Len(mem'[b]) /\ entry'.size > 0 /\ mem'[b] = Pending \o data
      /\ \A i \in UsedSlots(circular_buffer) :
           /\ BlockOf(i) # b /\ BlockOf(i) \in allocated'
           /\ mem'[BlockOf(i)] = mem[BlockOf(i)]
  BY <1>1, <1>2, Grown
<1>4. MemTypes'
  BY <1>1, <1>3 DEF MemInv, MemTypes
<1>5. Ownership'
  <2>1. OwnsBlock(entry)'
    BY <1>1, <1>3 DEF OwnsBlock
  <2>2. ASSUME NEW i \in UsedSlots(circular_buffer)
        PROVE  OwnsBlock(circular_buffer.entry[i])'
    <3>1. OwnsBlock(circular_buffer.entry[i])
      BY DEF MemInv, Ownership, UsedSlots
    <3> QED
      BY <1>1, <1>3, <2>2, <3>1 DEF OwnsBlock, BlockOf
  <2>3. \A i \in Slots : i \notin UsedSlots(circular_buffer) => circular_buffer.entry[i] = ZeroEntry
    BY DEF MemInv, Ownership
  <2>4. \A i, j \in UsedSlots(circular_buffer) : i # j => BlockOf(i) # BlockOf(j)
    BY DEF MemInv, Ownership
  <2> QED
    BY <1>1, <1>3, <2>1, <2>2, <2>3, <2>4 DEF Ownership, BlockOf
<1>6. Terminated'
  <2>1. Pending' = Pending \o data
    BY <1>3, DriverAssumption DEF Pending
  <2> QED
    BY <1>1, <1>3, <2>1 DEF Terminated, MemInv, EndsInNewline, IsCommand, BlockOf
<1> QED
  BY <1>4, <1>5, <1>6 DEF MemInv

(* What a finished command does to the device: block b goes into the slot  *)
(* at in_offs, the block that was there is freed, and the other commands   *)
(* stay where they are.                                                    *)
CommitsTo(t, b) ==
  LET cb   == circular_buffer
      in   == cb.in_offs
      gone == IF cb.full THEN {BlockOf(in)} ELSE {}
      e    == GrownEntry(b, call[t].arg)
  IN  /\ b \in Blocks /\ call[t].arg \in Payloads
      /\ IsCommand(Pending \o call[t].arg)
      /\ entry' = ZeroEntry
      /\ circular_buffer' = aesd_circular_buffer_add_entry(cb, e)
      /\ e \in EntryTypes /\ e.buffptr = b /\ e.size = Len(mem'[b]) /\ e.size > 0
      /\ UsedSlots(circular_buffer') = UsedSlots(cb) \cup {in}
      /\ in \in Slots /\ (cb.full <=> in \in UsedSlots(cb))
      /\ circular_buffer'.entry[in] = e
      /\ \A i \in Slots : i # in => circular_buffer'.entry[i] = cb.entry[i]
      /\ allocated' = ((allocated \ {entry.buffptr}) \cup {b}) \ gone
      /\ b \in allocated' /\ mem'[b] = Pending \o call[t].arg
      /\ mem' \in [Blocks -> Seq(Bytes)] /\ allocated' \subseteq Blocks
      /\ \A i \in UsedSlots(cb) \ {in} :
           BlockOf(i) \in allocated' /\ mem'[BlockOf(i)] = mem[BlockOf(i)] /\ BlockOf(i) # b

LEMMA CommitEffect ==
  ASSUME MemInv, CallInv, NEW t \in Threads, WriteCommit(t)
  PROVE  \E b : CommitsTo(t, b)
<1> DEFINE data == call[t].arg
           cb == circular_buffer
           in == cb.in_offs
<1>1. PICK b \in NewBlocks :
        /\ IsCommand(Pending \o data)
        /\ circular_buffer' = aesd_circular_buffer_add_entry(cb, GrownEntry(b, data))
        /\ entry' = ZeroEntry
        /\ allocated' = ((allocated \ {entry.buffptr}) \cup {b}) \ Evicted(circular_buffer')
        /\ mem' = Kfree(GrownMem(b, data), Evicted(circular_buffer'))
  BY DEF WriteCommit
<1>2. data \in Payloads
  BY DEF WriteCommit, InBody, CallInv
<1> DEFINE m == GrownMem(b, data)
           e == GrownEntry(b, data)
           a == (allocated \ {entry.buffptr}) \cup {b}
           gone == IF cb.full THEN {BlockOf(in)} ELSE {}
<1> HIDE DEF data
<1>3. /\ m \in [Blocks -> Seq(Bytes)] /\ a \subseteq Blocks /\ e \in EntryTypes
      /\ b \in Blocks /\ e.buffptr = b /\ e # ZeroEntry
      /\ e.size = Len(m[b]) /\ e.size > 0 /\ m[b] = Pending \o data /\ b \in a
      /\ \A i \in UsedSlots(cb) :
           /\ BlockOf(i) # b /\ BlockOf(i) \in a
           /\ m[BlockOf(i)] = mem[BlockOf(i)]
  BY <1>2, Grown
<1>4. Evicted(circular_buffer') = gone
  BY OldSlotIsOverwritten DEF Evicted, BlockOf
<1>5. IsBuffer(cb, EntryTypes) /\ RingShape(cb)
  BY DEF MemInv, MemTypes
<1>6. /\ UsedSlots(circular_buffer') = UsedSlots(cb) \cup {in}
      /\ in \in Slots /\ (~cb.full => in \notin UsedSlots(cb))
      /\ circular_buffer'.entry[in] = e
      /\ \A i \in Slots : i # in => circular_buffer'.entry[i] = cb.entry[i]
  BY <1>1, <1>5, UsedAfterAdd
<1>7. IsBuffer(circular_buffer', EntryTypes) /\ RingShape(circular_buffer')
  BY <1>1, <1>3, <1>5, AddKeepsShape
<1>8. allocated' = a \ gone /\ mem' = [x \in Blocks |-> IF x \in gone THEN << >> ELSE m[x]]
  BY <1>1, <1>4 DEF Kfree
<1>9. cb.full => in \in UsedSlots(cb)
  BY <1>6 DEF UsedSlots
<1>10. \A i, j \in UsedSlots(cb) : i # j => BlockOf(i) # BlockOf(j)
  BY DEF MemInv, Ownership
<1>11. b \notin gone /\ mem'[b] = m[b] /\ b \in allocated'
  <2>1. b \notin gone
    BY <1>3, <1>9
  <2> HIDE DEF gone, m, a
  <2> QED
    BY <1>3, <1>8, <2>1
<1>12. ASSUME NEW i \in UsedSlots(cb), i # in
       PROVE  BlockOf(i) \in allocated' /\ mem'[BlockOf(i)] = mem[BlockOf(i)] /\ BlockOf(i) # b
  <2>1. BlockOf(i) \notin gone
    BY <1>9, <1>10, <1>12
  <2>2. BlockOf(i) \in a /\ a \subseteq Blocks /\ BlockOf(i) # b /\ m[BlockOf(i)] = mem[BlockOf(i)]
    BY <1>3
  <2> HIDE DEF gone, m, a
  <2> QED
    BY <1>8, <2>1, <2>2
<1>13. mem' \in [Blocks -> Seq(Bytes)]
  <2> HIDE DEF gone, m
  <2> QED
    BY <1>3, <1>8
<1>14. allocated' \subseteq Blocks
  BY <1>3, <1>8
<1>15. cb.full <=> in \in UsedSlots(cb)
  BY <1>6, <1>9
<1> QED
  BY <1>1, <1>2, <1>3, <1>6, <1>8, <1>11, <1>12, <1>13, <1>14, <1>15 DEF CommitsTo, data

LEMMA WriteCommitKeepsMemInv ==
  ASSUME MemInv, CallInv, NEW t \in Threads, WriteCommit(t)
  PROVE  MemInv'
<1> DEFINE cb == circular_buffer
           cb2 == circular_buffer'
           in == cb.in_offs
           data == call[t].arg
<1>1. PICK b : CommitsTo(t, b)
  BY CommitEffect
<1> DEFINE e == GrownEntry(b, data)
<1>2. /\ b \in Blocks /\ IsCommand(Pending \o data) /\ entry' = ZeroEntry
      /\ cb2 = aesd_circular_buffer_add_entry(cb, e)
      /\ e \in EntryTypes /\ e.buffptr = b /\ e.size = Len(mem'[b]) /\ e.size > 0
      /\ b \in allocated' /\ mem'[b] = Pending \o data
      /\ mem' \in [Blocks -> Seq(Bytes)] /\ allocated' \subseteq Blocks
  BY <1>1 DEF CommitsTo
<1>3. /\ UsedSlots(cb2) = UsedSlots(cb) \cup {in}
      /\ in \in Slots /\ cb2.entry[in] = e
      /\ \A i \in Slots : i # in => cb2.entry[i] = cb.entry[i]
  BY <1>1 DEF CommitsTo
<1>4. \A i, j \in UsedSlots(cb) : i # j => BlockOf(i) # BlockOf(j)
  BY DEF MemInv, Ownership
<1>5. \A i \in UsedSlots(cb) : i # in =>
         BlockOf(i) \in allocated' /\ mem'[BlockOf(i)] = mem[BlockOf(i)] /\ BlockOf(i) # b
  BY <1>1 DEF CommitsTo
<1> HIDE DEF data, e
<1>6. \A i \in UsedSlots(cb) : i \in Slots /\ OwnsBlock(cb.entry[i])
  BY DEF MemInv, Ownership, UsedSlots
<1>7. MemTypes'
  <2>1. IsBuffer(cb2, EntryTypes) /\ RingShape(cb2)
    BY <1>2, AddKeepsShape DEF MemInv, MemTypes
  <2>2. entry' \in EntryTypes
    BY <1>2 DEF ZeroEntry, EntryTypes
  <2> QED
    BY <1>2, <2>1, <2>2 DEF MemTypes
<1>8. Ownership'
  <2>1. ASSUME NEW i \in UsedSlots(cb2) PROVE OwnsBlock(circular_buffer.entry[i])'
    <3>1. CASE i = in
      BY <1>2, <1>3, <3>1 DEF OwnsBlock
    <3>2. CASE i # in
      <4>1. i \in UsedSlots(cb) /\ cb2.entry[i] = cb.entry[i]
        BY <1>3, <1>6, <2>1, <3>2
      <4> QED
        BY <1>5, <1>6, <3>2, <4>1 DEF OwnsBlock, BlockOf
    <3> QED
      BY <3>1, <3>2
  <2>2. ASSUME NEW i \in Slots, i \notin UsedSlots(cb2) PROVE cb2.entry[i] = ZeroEntry
    BY <1>3, <2>2 DEF MemInv, Ownership
  <2>3. ASSUME NEW i \in UsedSlots(cb2), NEW j \in UsedSlots(cb2), i # j
        PROVE  cb2.entry[i].buffptr # cb2.entry[j].buffptr
    <3>1. CASE i = in
      BY <1>2, <1>3, <1>5, <1>6, <2>3, <3>1 DEF BlockOf
    <3>2. CASE j = in
      BY <1>2, <1>3, <1>5, <1>6, <2>3, <3>2 DEF BlockOf
    <3>3. CASE i # in /\ j # in
      BY <1>3, <1>4, <1>6, <2>3, <3>3 DEF BlockOf
    <3> QED
      BY <3>1, <3>2, <3>3
  <2>4. ASSUME NEW i \in UsedSlots(cb2) PROVE cb2.entry[i].buffptr # entry'.buffptr
    <3>1. cb2.entry[i].buffptr \in Blocks
      BY <1>7, <2>1 DEF OwnsBlock, MemTypes
    <3> QED
      BY <1>2, <3>1, DriverAssumption DEF ZeroEntry
  <2> QED
    BY <1>2, <2>1, <2>2, <2>3, <2>4 DEF Ownership, BlockOf
<1>9. Terminated'
  <2>1. ASSUME NEW i \in UsedSlots(cb2) PROVE EndsInNewline(mem'[cb2.entry[i].buffptr])
    <3>1. CASE i = in
      <4>1. mem'[cb2.entry[i].buffptr] = Pending \o data
        BY <1>2, <1>3, <3>1
      <4> QED
        BY <1>2, <4>1 DEF EndsInNewline, IsCommand
    <3>2. CASE i # in
      <4>1. i \in UsedSlots(cb) /\ cb2.entry[i] = cb.entry[i]
        BY <1>3, <1>6, <2>1, <3>2
      <4>2. EndsInNewline(mem[BlockOf(i)])
        BY <4>1 DEF MemInv, Terminated
      <4>3. mem'[cb2.entry[i].buffptr] = mem[BlockOf(i)]
        BY <1>5, <3>2, <4>1 DEF BlockOf
      <4> QED
        BY <4>2, <4>3
    <3> QED
      BY <3>1, <3>2
  <2> QED
    BY <1>2, <2>1 DEF Terminated, BlockOf, EndsInNewline
<1> QED
  BY <1>7, <1>8, <1>9 DEF MemInv

LEMMA ResetKeepsMemInv ==
  ASSUME MemInv, circular_buffer' = aesd_circular_buffer_init, entry' = ZeroEntry,
         UNCHANGED <<allocated, mem>>
  PROVE  MemInv'
<1>1. ZeroEntry \in EntryTypes
  BY DEF ZeroEntry, EntryTypes
<1>2. MemTypes'
  BY <1>1, InitShape DEF MemInv, MemTypes
<1>3. UsedSlots(circular_buffer') = {} /\ \A i \in Slots : circular_buffer'.entry[i] = ZeroEntry
  BY MaxOpsAssumption DEF UsedSlots, aesd_circular_buffer_init, Slots
<1> QED
  BY <1>2, <1>3 DEF MemInv, Ownership, Terminated

(* The entry is given up; its block may be freed. *)
LEMMA DropKeepsMemInv ==
  ASSUME MemInv, entry' = ZeroEntry, circular_buffer' = circular_buffer,
         \/ UNCHANGED <<allocated, mem>>
         \/ /\ allocated' = allocated \ {entry.buffptr}
            /\ mem' = Kfree(mem, {entry.buffptr})
  PROVE  MemInv'
<1>1. MemTypes'
  <2>1. entry' \in EntryTypes
    BY DEF ZeroEntry, EntryTypes
  <2>2. mem \in [Blocks -> Seq(Bytes)] /\ << >> \in Seq(Bytes)
    BY DEF MemInv, MemTypes
  <2>3. Kfree(mem, {entry.buffptr}) \in [Blocks -> Seq(Bytes)]
    BY <2>2 DEF Kfree
  <2>4. mem' \in [Blocks -> Seq(Bytes)] /\ allocated' \subseteq Blocks
    BY <2>2, <2>3 DEF MemInv, MemTypes
  <2> QED
    BY <2>1, <2>4 DEF MemInv, MemTypes
<1>2. ASSUME NEW i \in UsedSlots(circular_buffer)
      PROVE  /\ OwnsBlock(circular_buffer.entry[i])'
             /\ mem'[BlockOf(i)] = mem[BlockOf(i)] /\ BlockOf(i) # NULL
  <2>1. OwnsBlock(circular_buffer.entry[i]) /\ BlockOf(i) # entry.buffptr
    BY DEF MemInv, Ownership, UsedSlots
  <2>2. BlockOf(i) \in Blocks /\ BlockOf(i) # NULL
    BY <2>1, DriverAssumption DEF OwnsBlock, BlockOf, MemInv, MemTypes
  <2> QED
    BY <2>1, <2>2 DEF OwnsBlock, BlockOf, Kfree
<1>3. Ownership'
  BY <1>2 DEF MemInv, Ownership, BlockOf, ZeroEntry
<1>4. Terminated'
  BY <1>2 DEF MemInv, Terminated, BlockOf
<1> QED
  BY <1>1, <1>3, <1>4 DEF MemInv

LEMMA UnchangedKeepsMemInv ==
  ASSUME MemInv, UNCHANGED <<circular_buffer, entry, allocated, mem>>
  PROVE  MemInv'
BY DEF MemInv, MemTypes, Ownership, Terminated, OwnsBlock, BlockOf, Pending

(* Which steps touch the device. *)
LEMMA DeviceSteps ==
  ASSUME [Next]_vars
  PROVE  \/ UNCHANGED <<circular_buffer, entry, allocated, mem>>
         \/ InitModule \/ CleanupModule
         \/ \E t \in Threads : WriteNoMem(t) \/ WriteFault(t) \/ WritePartial(t) \/ WriteCommit(t)
<1>1. ASSUME NEW t \in Threads, NEW f \in Files, Call(t, f) PROVE UNCHANGED devVars
  BY <1>1 DEF Call, Read, Write, Llseek, Ioctl, IoctlRejected, Enter
<1>2. ASSUME NEW t \in Threads, Acquire(t) \/ Interrupted(t) \/ Return(t) PROVE UNCHANGED devVars
  BY <1>2 DEF Acquire, Interrupted, Return
<1>3. ASSUME NEW t \in Threads, ReadEntry(t) \/ ReadLast(t) \/ ReadEnd(t) \/ ReadFault(t)
                                 \/ LlseekBody(t) \/ IoctlBody(t)
      PROVE  UNCHANGED devVars
  BY <1>3 DEF ReadEntry, ReadLast, ReadEnd, ReadFault, LlseekBody, IoctlBody
<1>4. ASSUME NEW f \in Files, Open(f) \/ Release(f) PROVE UNCHANGED devVars
  BY <1>4 DEF Open, Release
<1>5. InitModuleNoRegion \/ InitModuleNoCdev \/ InitModuleOops \/ Done \/ UNCHANGED vars
        => UNCHANGED devVars
  BY DEF InitModuleNoRegion, InitModuleNoCdev, InitModuleOops, Done, vars
<1> QED
  BY <1>1, <1>2, <1>3, <1>4, <1>5 DEF Next, Body, devVars

LEMMA NextKeepsMemInv ==
  ASSUME MemInv, CallInv, [Next]_vars
  PROVE  MemInv'
<1>1. CASE InitModule \/ CleanupModule
  BY <1>1, ResetKeepsMemInv DEF InitModule, CleanupModule
<1>2. ASSUME NEW t \in Threads, WriteNoMem(t) \/ WriteFault(t) PROVE MemInv'
  BY <1>2, DropKeepsMemInv DEF WriteNoMem, WriteFault
<1> QED
  BY <1>1, <1>2, DeviceSteps, UnchangedKeepsMemInv, WritePartialKeepsMemInv,
     WriteCommitKeepsMemInv

(* A call keeps its kind and its argument until it returns. *)
LEMMA NextKeepsCallInv ==
  ASSUME CallInv, [Next]_vars
  PROVE  CallInv'
<1>1. ASSUME NEW t \in Threads, NEW c, call' = [call EXCEPT ![t] = c],
             c.op = "write" => c.arg \in Payloads
      PROVE  CallInv'
  <2>1. call' = [u \in Threads |-> call'[u]]
    BY <1>1 DEF CallInv
  <2>2. call'[t] = c /\ \A u \in Threads \ {t} : call'[u] = call[u]
    BY <1>1 DEF CallInv
  <2> QED
    BY <1>1, <2>1, <2>2 DEF CallInv
<1>2. ASSUME NEW t \in Threads, NEW pc, NEW pos, NEW out, NEW ret,
             call' = [call EXCEPT ![t] = Progress(t, pc, pos, out, ret)]
      PROVE  CallInv'
  <2>1. /\ Progress(t, pc, pos, out, ret).op = call[t].op
        /\ Progress(t, pc, pos, out, ret).arg = call[t].arg
    BY DEF Progress
  <2> QED
    BY <1>1, <1>2, <2>1 DEF CallInv
<1>3. ASSUME NEW t \in Threads, NEW f \in Files, Call(t, f) PROVE CallInv'
  <2>1. ASSUME NEW op, NEW arg, NEW pc, NEW ret, Enter(t, f, op, arg, pc, ret),
               op = "write" => arg \in Payloads
        PROVE  CallInv'
    <3> DEFINE c == [pc |-> pc, op |-> op, file |-> f, arg |-> arg,
                     start |-> f_pos[f], pos |-> f_pos[f], out |-> << >>, ret |-> ret]
    <3>1. call' = [call EXCEPT ![t] = c] /\ c.op = op /\ c.arg = arg
      BY <2>1 DEF Enter
    <3> HIDE DEF c
    <3> QED
      BY <1>1, <2>1, <3>1
  <2> QED
    BY <1>3, <2>1 DEF Call, Read, Write, Llseek, Ioctl, IoctlRejected
<1>4. ASSUME NEW t \in Threads, Return(t) PROVE CallInv'
  <2>1. call' = [call EXCEPT ![t] = IdleCall] /\ IdleCall.op # "write"
    BY <1>4 DEF Return, IdleCall
  <2> QED
    BY <1>1, <2>1
<1>5. ASSUME NEW t \in Threads, Acquire(t) \/ Interrupted(t) \/ Body(t) PROVE CallInv'
  BY <1>2, <1>5, BodyEnds DEF Acquire, Interrupted, ReadEntry, Finish
<1>6. InitModule \/ InitModuleNoRegion \/ InitModuleNoCdev \/ InitModuleOops
        \/ CleanupModule \/ Done \/ UNCHANGED vars => UNCHANGED call
  BY DEF InitModule, InitModuleNoRegion, InitModuleNoCdev, InitModuleOops,
         CleanupModule, Done, vars
<1>7. ASSUME NEW f \in Files, Open(f) \/ Release(f) PROVE UNCHANGED call
  BY <1>7 DEF Open, Release
<1>8. UNCHANGED call => CallInv'
  BY DEF CallInv
<1> QED
  BY <1>3, <1>4, <1>5, <1>6, <1>7, <1>8 DEF Next

(* The structure aesd_device.entry points to exists while the module does, *)
(* and a file can only be open while the module is loaded.                 *)
LiveInv == (opened # {} => module = "live") /\ (module = "live" => entry_live)

LEMMA NextKeepsLiveInv ==
  ASSUME LiveInv, [Next]_vars
  PROVE  LiveInv'
<1>1. ASSUME NEW t \in Threads, NEW f \in Files, Call(t, f) PROVE UNCHANGED <<modVars, opened>>
  BY <1>1 DEF Call, Read, Write, Llseek, Ioctl, IoctlRejected, Enter, vfsVars
<1>2. ASSUME NEW t \in Threads, Acquire(t) \/ Interrupted(t) \/ Return(t)
      PROVE  UNCHANGED <<modVars, opened>>
  BY <1>2 DEF Acquire, Interrupted, Return, vfsVars
<1>3. ASSUME NEW t \in Threads, Body(t) PROVE UNCHANGED <<modVars, opened>>
  <2>1. UNCHANGED modVars
    BY <1>3, BodyEnds DEF ReadEntry, Finish
  <2>2. UNCHANGED opened
    BY <1>3 DEF Body, ReadEntry, ReadLast, ReadEnd, ReadFault, WriteNoMem, WriteFault,
                WritePartial, WriteCommit, LlseekBody, IoctlBody, vfsVars
  <2> QED
    BY <2>1, <2>2
<1>4. CASE UNCHANGED <<modVars, opened>>
  BY <1>4 DEF LiveInv, modVars
<1>5. ASSUME NEW f \in Files, Open(f) \/ Release(f) PROVE LiveInv'
  BY <1>5 DEF Open, Release, LiveInv, modVars
<1>6. CASE InitModule \/ InitModuleNoRegion \/ InitModuleNoCdev \/ InitModuleOops
             \/ CleanupModule \/ Done \/ UNCHANGED vars
  BY <1>6 DEF LiveInv, InitModule, InitModuleNoRegion, InitModuleNoCdev, InitModuleOops,
              CleanupModule, Done, vars, modVars, vfsVars
<1> QED
  BY <1>1, <1>2, <1>3, <1>4, <1>5, <1>6 DEF Next

LEMMA InitDeviceInvariants == Init => CallInv /\ MemInv /\ LiveInv
<1> SUFFICES ASSUME Init PROVE CallInv /\ MemInv /\ LiveInv
  OBVIOUS
<1>1. CallInv
  BY DEF Init, CallInv, IdleCall
<1>2. ZeroEntry \in EntryTypes
  BY DEF ZeroEntry, EntryTypes
<1>3. MemTypes
  BY <1>2, InitShape DEF Init, MemTypes
<1>4. UsedSlots(circular_buffer) = {} /\ \A i \in Slots : circular_buffer.entry[i] = ZeroEntry
  BY MaxOpsAssumption DEF Init, UsedSlots, aesd_circular_buffer_init, Slots
<1>5. MemInv
  BY <1>3, <1>4 DEF Init, MemInv, Ownership, Terminated
<1>6. LiveInv
  BY DEF Init, LiveInv
<1> QED
  BY <1>1, <1>5, <1>6

(* The inductive invariant of the device holds in every reachable state.   *)
THEOREM DeviceInvariants == Spec => [](CallInv /\ MemInv /\ LiveInv)
<1>1. CallInv /\ MemInv /\ LiveInv /\ [Next]_vars => (CallInv /\ MemInv /\ LiveInv)'
  BY NextKeepsCallInv, NextKeepsMemInv, NextKeepsLiveInv
<1> QED
  BY InitDeviceInvariants, <1>1, PTL DEF Spec

LEMMA StoredAreUsed ==
  ASSUME MemInv
  PROVE  Stored = UsedSlots(circular_buffer)
<1>1. \A i \in UsedSlots(circular_buffer) : i \in Slots /\ BlockOf(i) # NULL
  BY DriverAssumption DEF MemInv, MemTypes, Ownership, UsedSlots, OwnsBlock, BlockOf
<1>2. \A i \in Slots : i \notin UsedSlots(circular_buffer) => BlockOf(i) = NULL
  BY DEF MemInv, Ownership, ZeroEntry, BlockOf
<1> QED
  BY <1>1, <1>2 DEF Stored, BlockOf

(* No entry dangles and no two entries share a block, in every state of    *)
(* every device: what aesd_write hands from the allocator to the partial   *)
(* command, to the ring and to kfree has one owner at a time.              *)
THEOREM MemoryIsOwned == Spec => []EntriesOwnMemory
<1>1. MemInv /\ LiveInv => EntriesOwnMemory
  BY StoredAreUsed DEF MemInv, Ownership, LiveInv, EntriesOwnMemory
<1> QED
  BY <1>1, DeviceInvariants, PTL

(* Finished commands end in a newline and the partial one does not.        *)
THEOREM CommandsAreTerminated == Spec => []CommandsTerminated
<1>1. MemInv => CommandsTerminated
  BY StoredAreUsed DEF MemInv, Terminated, CommandsTerminated
<1> QED
  BY <1>1, DeviceInvariants, PTL

(* Where FOREACH goes, in terms of the slots in use. *)
LEMMA ForeachSlots ==
  ASSUME NEW E, NEW cb, IsBuffer(cb, E), RingShape(cb)
  PROVE  LET n == ForeachCount(cb)
         IN  /\ n \in 0..MaxOps /\ (n < MaxOps <=> ~cb.full) /\ ForeachTerminates(cb)
             /\ \A k \in 0 .. n - 1 : (k + cb.out_offs) % MaxOps \in UsedSlots(cb)
             /\ \A i \in UsedSlots(cb) : \E k \in 0 .. n - 1 : (k + cb.out_offs) % MaxOps = i
<1> DEFINE n == ForeachCount(cb)
<1>0. /\ MaxOps \in Nat /\ MaxOps > 0 /\ Slots = 0 .. MaxOps - 1
      /\ cb.in_offs \in Slots /\ cb.out_offs \in Slots /\ cb.full \in BOOLEAN
  BY MaxOpsAssumption DEF IsBuffer, Slots
<1>1. ForeachTerminates(cb) /\ n = IF cb.full THEN MaxOps ELSE cb.in_offs
  BY ForeachCountIs
<1> HIDE DEF n
<1>2. n \in 0..MaxOps /\ (n < MaxOps <=> ~cb.full)
  BY <1>0, <1>1
<1>3. \A k \in 0 .. n - 1 : (k + cb.out_offs) % MaxOps \in Slots
  BY <1>0, <1>2
<1>4. CASE cb.full
  <2>1. UsedSlots(cb) = Slots /\ n = MaxOps
    BY <1>1, <1>4 DEF UsedSlots
  <2>2. ASSUME NEW i \in Slots PROVE \E k \in 0 .. n - 1 : (k + cb.out_offs) % MaxOps = i
    <3>1. CASE i >= cb.out_offs
      <4>1. /\ i - cb.out_offs \in 0 .. n - 1
            /\ (i - cb.out_offs) + cb.out_offs = i
            /\ i \in 0 .. 2 * MaxOps - 1 /\ i < MaxOps
        BY <1>0, <2>1, <3>1
      <4>2. i % MaxOps = i
        BY <4>1, ModSlots
      <4> QED
        BY <4>1, <4>2
    <3>2. CASE i < cb.out_offs
      <4> DEFINE k == i - cb.out_offs + MaxOps
                 x == i + MaxOps
      <4>1. /\ k \in 0 .. n - 1 /\ k + cb.out_offs = x
            /\ x \in 0 .. 2 * MaxOps - 1 /\ ~(x < MaxOps) /\ x - MaxOps = i
        BY <1>0, <2>1, <3>2
      <4> HIDE DEF k, x
      <4>2. x % MaxOps = i
        BY <4>1, ModSlots
      <4> QED
        BY <4>1, <4>2
    <3> QED
      BY <1>0, <3>1, <3>2
  <2> QED
    BY <1>1, <1>2, <1>3, <2>1, <2>2 DEF n
<1>5. CASE ~cb.full
  <2>1. cb.out_offs = 0 /\ n = cb.in_offs /\ UsedSlots(cb) = {i \in Slots : i < cb.in_offs}
    BY <1>1, <1>5 DEF RingShape, UsedSlots
  <2>2. ASSUME NEW k \in 0 .. n - 1 PROVE (k + cb.out_offs) % MaxOps = k /\ k \in UsedSlots(cb)
    <3>1. k + cb.out_offs = k /\ k \in 0 .. 2 * MaxOps - 1 /\ k < MaxOps /\ k \in Slots
      BY <1>0, <2>1
    <3>2. k % MaxOps = k
      BY <3>1, ModSlots
    <3> QED
      BY <1>0, <2>1, <3>1, <3>2
  <2>3. \A i \in UsedSlots(cb) : i \in 0 .. n - 1
    BY <1>0, <2>1
  <2> QED
    BY <1>1, <1>2, <2>2, <2>3 DEF n
<1> QED
  BY <1>0, <1>4, <1>5

(* FOREACH visits the slots that hold a command and no other. *)
THEOREM ForeachIsExact == Spec => []ForeachVisitsStored
<1>1. MemInv => ForeachVisitsStored
  BY ForeachSlots, StoredAreUsed DEF ForeachVisitsStored, MemInv, MemTypes
<1> QED
  BY <1>1, DeviceInvariants, PTL

(***************************************************************************)
(* Types.  The substance is in aesd_read: the bytes it copies exist,       *)
(* because the offset that find_entry_offset_for_fpos returns lies inside  *)
(* the entry it returns.                                                   *)
(***************************************************************************)
LEMMA EntriesAreSized == Sized(EntryTypes)
BY DEF Sized, EntryTypes
-----------------------------------------------------------------------------
(***************************************************************************)
(* The inductive invariant: a read has not copied more than it was asked   *)
(* for, and the device is as MemInv says.                                  *)
(***************************************************************************)
CallOK(c) == IsCall(c) /\ (c.op = "read" => Len(c.out) <= c.arg)

VfsTypes ==
  /\ module \in {"none", "live", "gone", "oops"} /\ entry_live \in BOOLEAN
  /\ size \in Int /\ lock \in Threads \cup {NULL}
  /\ opened \subseteq Files /\ f_pos \in [Files -> Nat] /\ calls \in Nat
  /\ call = [t \in Threads |-> call[t]]

CallTypes == \A t \in Threads : CallOK(call[t])

LEMMA IdleTyped == CallOK(IdleCall)
<1>1. << >> \in Seq(Bytes)
  OBVIOUS
<1>2. /\ IdleCall.pc = "idle" /\ IdleCall.op = "none"
      /\ IdleCall \in [pc : {"idle", "lock", "body", "ret"},
                       op : {"none", "read", "write", "llseek", "ioctl"},
                       file : Files \cup {NULL}, arg : {IdleCall.arg},
                       start : Nat, pos : Nat, out : Seq(Bytes), ret : {"ok"}]
  BY <1>1 DEF IdleCall
<1> QED
  BY <1>2 DEF CallOK, IsCall

LEMMA OneCallTyped ==
  ASSUME VfsTypes, CallTypes, NEW t \in Threads, NEW c, CallOK(c),
         call' = [call EXCEPT ![t] = c]
  PROVE  CallTypes' /\ call' = [u \in Threads |-> call'[u]]
<1>1. call'[t] = c /\ \A u \in Threads \ {t} : call'[u] = call[u]
  BY DEF VfsTypes
<1>2. call' = [u \in Threads |-> call'[u]]
  BY DEF VfsTypes
<1> QED
  BY <1>1, <1>2 DEF CallTypes

Rets == {"ok", "ERESTARTSYS", "EFAULT", "ENOMEM", "EINVAL", "ENOTTY"}

LEMMA ProgressTyped ==
  ASSUME NEW t \in Threads, CallOK(call[t]), call[t].pc \in {"lock", "body"},
         NEW pc \in {"body", "ret"}, NEW pos \in Nat, NEW out \in Seq(Bytes), NEW ret \in Rets,
         call[t].op = "read" => Len(out) <= call[t].arg
  PROVE  CallOK(Progress(t, pc, pos, out, ret))
<1> DEFINE c == Progress(t, pc, pos, out, ret)
           d == call[t]
<1>1. /\ c.pc = pc /\ c.op = d.op /\ c.file = d.file /\ c.arg = d.arg
      /\ c.start = d.start /\ c.pos = pos /\ c.out = out /\ c.ret = ret
      /\ c = [pc |-> pc, op |-> d.op, file |-> d.file, arg |-> d.arg,
              start |-> d.start, pos |-> pos, out |-> out, ret |-> ret]
  BY DEF Progress
<1>2. /\ d.op \in {"none", "read", "write", "llseek", "ioctl"}
      /\ d.file \in Files \cup {NULL} /\ d.start \in Nat
      /\ d.op = "read" => d.arg \in Counts
      /\ d.op = "write" => d.arg \in Payloads
      /\ d.op = "llseek" => d.arg \in Seeks
      /\ d.op = "ioctl" => d.arg \in SeekTos
  BY DEF CallOK, IsCall
<1>3. c # IdleCall
  <2>1. IdleCall.pc = "idle"
    BY DEF IdleCall
  <2> QED
    BY <1>1, <2>1
<1> HIDE DEF c, d
<1>4. c \in [pc : {"idle", "lock", "body", "ret"},
            op : {"none", "read", "write", "llseek", "ioctl"},
            file : Files \cup {NULL}, arg : {c.arg},
            start : Nat, pos : Nat, out : Seq(Bytes), ret : Rets]
  BY <1>1, <1>2
<1> QED
  BY <1>1, <1>2, <1>3, <1>4 DEF CallOK, IsCall, Rets, c, d

LEMMA FinishTyped ==
  ASSUME VfsTypes, CallTypes, NEW t \in Threads, call[t].pc = "body",
         NEW pos \in Nat, NEW out \in Seq(Bytes), NEW ret \in Rets,
         call[t].op = "read" => Len(out) <= call[t].arg,
         Finish(t, pos, out, ret)
  PROVE  CallTypes' /\ call' = [u \in Threads |-> call'[u]] /\ lock' = NULL
         /\ UNCHANGED <<module, entry_live, calls>>
<1>1. CallOK(Progress(t, "ret", pos, out, ret))
  BY ProgressTyped DEF CallTypes
<1> QED
  BY <1>1, OneCallTyped DEF Finish, modVars

LEMMA EnterTyped ==
  ASSUME VfsTypes, CallTypes, NEW t \in Threads, NEW f \in Files,
         NEW op \in {"read", "write", "llseek", "ioctl"}, NEW arg,
         NEW pc \in {"lock", "ret"}, NEW ret \in Rets,
         op = "read" => arg \in Counts, op = "write" => arg \in Payloads,
         op = "llseek" => arg \in Seeks, op = "ioctl" /\ pc = "lock" => arg \in SeekTos,
         Enter(t, f, op, arg, pc, ret)
  PROVE  VfsTypes' /\ CallTypes'
<1> DEFINE c == [pc |-> pc, op |-> op, file |-> f, arg |-> arg,
                 start |-> f_pos[f], pos |-> f_pos[f], out |-> << >>, ret |-> ret]
<1>1. call' = [call EXCEPT ![t] = c] /\ calls' = calls + 1 /\ UNCHANGED <<modVars, devVars, lock, vfsVars>>
  BY DEF Enter
<1>2. f_pos[f] \in Nat /\ << >> \in Seq(Bytes) /\ Len(<< >>) = 0
  BY DEF VfsTypes
<1>3. /\ c.pc = pc /\ c.op = op /\ c.arg = arg /\ c.out = << >>
      /\ c \in [pc : {"idle", "lock", "body", "ret"},
               op : {"none", "read", "write", "llseek", "ioctl"},
               file : Files \cup {NULL}, arg : {c.arg},
               start : Nat, pos : Nat, out : Seq(Bytes), ret : Rets]
  BY <1>2
<1>4. c # IdleCall
  BY <1>3 DEF IdleCall
<1> HIDE DEF c
<1>5. op = "read" => 0 <= arg
  BY DriverAssumption
<1>6. CallOK(c)
  BY <1>2, <1>3, <1>4, <1>5 DEF CallOK, IsCall, Rets
<1>7. CallTypes' /\ call' = [u \in Threads |-> call'[u]]
  BY <1>1, <1>6, OneCallTyped
<1> QED
  BY <1>1, <1>7 DEF VfsTypes, modVars, devVars, vfsVars

(* What a read that found an entry copies: bytes of that entry. *)
LEMMA CopiedTyped ==
  ASSUME MemInv, CallTypes, NEW t \in Threads, InBody(t, "read"), Found(t)
  PROVE  /\ Remaining(t) \in Nat /\ CountLeft(t) \in Nat
         /\ call[t].pos \in Nat /\ call[t].out \in Seq(Bytes) /\ call[t].arg \in Nat
         /\ CountLeft(t) = call[t].arg - Len(call[t].out)
         /\ \A n \in 0..Remaining(t) : Copied(t, n) \in Seq(Bytes) /\ Len(Copied(t, n)) = n
<1> DEFINE cb == circular_buffer
           k == FindIndex(cb, call[t].pos)
           off == FindOffset(cb, call[t].pos)
           en == ForeachEntry(cb, k)
           bytes == mem[en.buffptr]
<1>1. /\ call[t].pos \in Nat /\ call[t].out \in Seq(Bytes) /\ call[t].arg \in Nat
      /\ Len(call[t].out) <= call[t].arg
  <2>1. CallOK(call[t]) /\ call[t].op = "read"
    BY DEF CallTypes, InBody
  <2>2. call[t].pos \in Nat /\ call[t].out \in Seq(Bytes) /\ call[t].arg \in Counts
    BY <2>1 DEF CallOK, IsCall
  <2> QED
    BY <2>1, <2>2, DriverAssumption DEF CallOK
<1>2. IsBuffer(cb, EntryTypes) /\ RingShape(cb) /\ k # -1
  BY DEF MemInv, MemTypes, Found
<1>3. k \in 0 .. ForeachCount(cb) - 1 /\ off \in Nat /\ off < en.size
  BY <1>1, <1>2, EntriesAreSized, FindIsInside
<1>4. OwnsBlock(en) /\ en \in EntryTypes
  <2>1. (k + cb.out_offs) % MaxOps \in UsedSlots(cb)
    BY <1>2, <1>3, ForeachSlots
  <2>2. \A i \in UsedSlots(cb) : OwnsBlock(cb.entry[i]) /\ cb.entry[i] \in EntryTypes
    BY DEF MemInv, MemTypes, Ownership, UsedSlots, IsBuffer
  <2> QED
    BY <2>1, <2>2 DEF ForeachEntry
<1>5. en.size \in Nat /\ bytes \in Seq(Bytes) /\ Len(bytes) = en.size
  BY <1>4 DEF OwnsBlock, EntryTypes, MemInv, MemTypes
<1>6. Remaining(t) = en.size - off /\ CountLeft(t) = call[t].arg - Len(call[t].out)
  BY DEF Remaining, FoundEntry, FoundOffset, CountLeft
<1>7. ASSUME NEW n \in 0..Remaining(t)
      PROVE  Copied(t, n) \in Seq(Bytes) /\ Len(Copied(t, n)) = n
  <2>1. Copied(t, n) = SubSeq(bytes, off + 1, off + n)
    BY DEF Copied, FoundEntry, FoundOffset
  <2> HIDE DEF off, en, bytes
  <2>2. n \in Nat /\ off + 1 \in Int /\ off + n \in Int /\ off + n <= Len(bytes)
    BY <1>3, <1>5, <1>6
  <2>3. \A i \in (off + 1) .. (off + n) : i \in 1..Len(bytes)
    BY <1>3, <1>5, <2>2
  <2>4. \A i \in (off + 1) .. (off + n) : bytes[i] \in Bytes
    BY <1>5, <2>3
  <2>5. /\ SubSeq(bytes, off + 1, off + n) \in Seq(Bytes)
        /\ Len(SubSeq(bytes, off + 1, off + n))
             = IF off + 1 <= off + n THEN (off + n) - (off + 1) + 1 ELSE 0
    BY <2>2, <2>4, SubSeqProperties
  <2> QED
    BY <1>3, <2>1, <2>2, <2>5
<1> HIDE DEF off, en
<1>8. Remaining(t) \in Nat
  BY <1>3, <1>5, <1>6
<1>9. CountLeft(t) \in Nat
  <2>1. Len(call[t].out) \in Nat
    BY <1>1
  <2> QED
    BY <1>1, <1>6, <2>1
<1> QED
  BY <1>1, <1>6, <1>7, <1>8, <1>9

LEMMA ReadsTyped ==
  ASSUME MemInv, VfsTypes, CallTypes, NEW t \in Threads,
         ReadEntry(t) \/ ReadLast(t) \/ ReadEnd(t) \/ ReadFault(t)
  PROVE  VfsTypes' /\ CallTypes'
<1> DEFINE d == call[t]
<1>0. InBody(t, "read") /\ d.pc = "body" /\ d.op = "read"
  BY DEF ReadEntry, ReadLast, ReadEnd, ReadFault, InBody
<1>1. CallOK(d) /\ d.pos \in Nat /\ d.out \in Seq(Bytes)
  BY DEF CallTypes, CallOK, IsCall
<1>2. CASE ReadEntry(t)
  <2> DEFINE out == d.out \o Copied(t, Remaining(t))
             pos == d.pos + Remaining(t)
  <2>1. /\ call' = [call EXCEPT ![t] = Progress(t, "body", pos, out, "ok")]
        /\ Found(t) /\ Remaining(t) < CountLeft(t)
        /\ UNCHANGED <<modVars, devVars, lock, vfsVars, calls>>
    BY <1>2 DEF ReadEntry
  <2>2. /\ Remaining(t) \in Nat /\ CountLeft(t) \in Nat /\ d.arg \in Nat
        /\ CountLeft(t) = d.arg - Len(d.out)
        /\ Copied(t, Remaining(t)) \in Seq(Bytes) /\ Len(Copied(t, Remaining(t))) = Remaining(t)
    BY <1>0, <2>1, CopiedTyped
  <2>3. pos \in Nat /\ out \in Seq(Bytes) /\ Len(out) <= d.arg
    BY <1>1, <2>1, <2>2
  <2>4. CallOK(Progress(t, "body", pos, out, "ok"))
    <3> HIDE DEF pos, out
    <3> QED
      BY <1>0, <1>1, <2>3, ProgressTyped DEF Rets
  <2>5. CallTypes' /\ call' = [u \in Threads |-> call'[u]]
    BY <2>1, <2>4, OneCallTyped
  <2> QED
    BY <2>1, <2>5 DEF VfsTypes, modVars, devVars, vfsVars
<1>3. ASSUME NEW pos \in Nat, NEW out \in Seq(Bytes), NEW ret \in Rets, Len(out) <= d.arg,
             Finish(t, pos, out, ret), UNCHANGED <<devVars, vfsVars>>
      PROVE  VfsTypes' /\ CallTypes'
  <2>1. CallTypes' /\ call' = [u \in Threads |-> call'[u]] /\ lock' = NULL
        /\ UNCHANGED <<module, entry_live, calls>>
    BY <1>0, <1>3, FinishTyped
  <2> QED
    BY <1>3, <2>1 DEF VfsTypes, devVars, vfsVars
<1>4. CASE ReadLast(t)
  <2> DEFINE out == d.out \o Copied(t, CountLeft(t))
             pos == d.pos + Len(out)
  <2>1. /\ Finish(t, pos, out, "ok") /\ UNCHANGED <<devVars, vfsVars>>
        /\ Found(t) /\ Remaining(t) >= CountLeft(t)
    BY <1>4 DEF ReadLast
  <2>2. /\ Remaining(t) \in Nat /\ CountLeft(t) \in Nat /\ d.arg \in Nat
        /\ CountLeft(t) = d.arg - Len(d.out)
        /\ \A n \in 0..Remaining(t) : Copied(t, n) \in Seq(Bytes) /\ Len(Copied(t, n)) = n
    BY <1>0, <2>1, CopiedTyped
  <2>3. Copied(t, CountLeft(t)) \in Seq(Bytes) /\ Len(Copied(t, CountLeft(t))) = CountLeft(t)
    BY <2>1, <2>2
  <2>4. out \in Seq(Bytes) /\ Len(out) <= d.arg
    <3>1. Len(d.out) \in Nat
      BY <1>1
    <3>2. out \in Seq(Bytes) /\ Len(out) = Len(d.out) + CountLeft(t)
      <4> DEFINE x == Copied(t, CountLeft(t))
      <4> HIDE DEF x
      <4>1. x \in Seq(Bytes) /\ Len(x) = CountLeft(t)
        BY <2>3 DEF x
      <4>2. d.out \o x \in Seq(Bytes) /\ Len(d.out \o x) = Len(d.out) + Len(x)
        BY <1>1, <4>1, ConcatProperties
      <4> QED
        BY <4>1, <4>2 DEF x
    <3> HIDE DEF out
    <3> QED
      BY <2>2, <3>1, <3>2
  <2>5. pos \in Nat
    BY <1>1, <2>4
  <2> HIDE DEF pos, out
  <2> QED
    BY <1>3, <2>1, <2>4, <2>5 DEF Rets
<1>5. CASE ReadEnd(t) \/ ReadFault(t)
  <2>1. Len(d.out) <= d.arg
    BY <1>0, <1>1 DEF CallOK
  <2>2. UNCHANGED <<devVars, vfsVars>> /\ \E ret \in Rets : Finish(t, d.pos, d.out, ret)
    BY <1>5 DEF ReadEnd, ReadFault, Rets
  <2> HIDE DEF d
  <2> QED
    BY <1>1, <1>3, <2>1, <2>2
<1> QED
  BY <1>2, <1>4, <1>5

(* The end of a body that may also have changed the size or a position. *)
LEMMA BodyEndTyped ==
  ASSUME VfsTypes, CallTypes, NEW t \in Threads, call[t].pc = "body", call[t].op # "read",
         NEW pos \in Nat, NEW ret \in Rets, Finish(t, pos, << >>, ret),
         size' \in Int, f_pos' \in [Files -> Nat], opened' = opened
  PROVE  VfsTypes' /\ CallTypes'
<1>1. << >> \in Seq(Bytes)
  OBVIOUS
<1>2. CallTypes' /\ call' = [u \in Threads |-> call'[u]] /\ lock' = NULL
      /\ UNCHANGED <<module, entry_live, calls>>
  BY <1>1, FinishTyped
<1> QED
  BY <1>2 DEF VfsTypes

LEMMA WritesTyped ==
  ASSUME MemInv, MemInv', VfsTypes, CallTypes, NEW t \in Threads,
         WriteNoMem(t) \/ WriteFault(t) \/ WritePartial(t) \/ WriteCommit(t)
  PROVE  VfsTypes' /\ CallTypes'
<1> DEFINE d == call[t]
<1>0. d.pc = "body" /\ d.op = "write"
  BY DEF WriteNoMem, WriteFault, WritePartial, WriteCommit, InBody
<1>1. d.pos \in Nat /\ d.arg \in Payloads
  BY <1>0 DEF CallTypes, CallOK, IsCall
<1>2. Len(d.arg) \in Nat /\ d.pos + Len(d.arg) \in Nat
  BY <1>1, PayloadIsSeq
<1>3. size \in Int /\ f_pos \in [Files -> Nat]
  BY DEF VfsTypes
<1>4. CASE WriteNoMem(t) \/ WriteFault(t)
  BY <1>0, <1>1, <1>3, <1>4, BodyEndTyped DEF WriteNoMem, WriteFault, Rets, vfsVars
<1>5. CASE WritePartial(t)
  <2>1. Finish(t, d.pos + Len(d.arg), << >>, "ok") /\ UNCHANGED <<size, opened, f_pos>>
    BY <1>5 DEF WritePartial, vfsVars
  <2> QED
    BY <1>0, <1>2, <1>3, <2>1, BodyEndTyped DEF Rets
<1>6. CASE WriteCommit(t)
  <2>1. /\ Finish(t, d.pos + Len(d.arg), << >>, "ok") /\ UNCHANGED <<opened, f_pos>>
        /\ size' = NewSize(circular_buffer', Len(d.arg))
    BY <1>6 DEF WriteCommit, vfsVars
  <2>2. circular_buffer.full => circular_buffer'.entry[OldSlot].size \in Nat
    <3> SUFFICES ASSUME circular_buffer.full PROVE circular_buffer'.entry[OldSlot].size \in Nat
      OBVIOUS
    <3>1. OldSlot \in Slots
      BY OldSlotIsOverwritten DEF MemInv, MemTypes, IsBuffer
    <3>2. circular_buffer'.entry \in [Slots -> EntryTypes]
      BY DEF MemInv, MemTypes, IsBuffer
    <3>3. circular_buffer'.entry[OldSlot] \in EntryTypes
      BY <3>1, <3>2
    <3> QED
      BY <3>3 DEF EntryTypes
  <2>3. size' \in Int
    BY <1>2, <1>3, <2>1, <2>2 DEF NewSize
  <2> QED
    BY <1>0, <1>2, <1>3, <2>1, <2>3, BodyEndTyped DEF Rets
<1> QED
  BY <1>4, <1>5, <1>6

(* A seek leaves a natural number in the file, or the file as it was. *)
LEMMA SeeksTyped ==
  ASSUME MemInv, VfsTypes, CallTypes, NEW t \in Threads, LlseekBody(t) \/ IoctlBody(t)
  PROVE  VfsTypes' /\ CallTypes'
<1> DEFINE d == call[t]
<1>0. d.pc = "body" /\ d.op \in {"llseek", "ioctl"}
  BY DEF LlseekBody, IoctlBody, InBody
<1>1. /\ d.pos \in Nat
      /\ d.op = "llseek" => d.arg \in Seeks
      /\ d.op = "ioctl" => d.arg \in SeekTos
  BY <1>0 DEF CallTypes, CallOK, IsCall
<1>2. size \in Int /\ f_pos \in [Files -> Nat]
  BY DEF VfsTypes
<1>3. /\ UNCHANGED <<size, opened>>
      /\ \E ret \in Rets : Finish(t, d.pos, << >>, ret)
  BY DEF LlseekBody, IoctlBody, devVars, Rets
<1>4. CASE LlseekBody(t)
  <2> DEFINE to == fixed_size_llseek(d.arg, f_pos[d.file])
  <2>1. CASE SeekAllowed(d.arg, f_pos[d.file]) /\ d.file \in Files
    <3>1. f_pos' = [f_pos EXCEPT ![d.file] = to]
      BY <1>4, <2>1 DEF LlseekBody
    <3>2. f_pos[d.file] \in Nat
      BY <1>2, <2>1
    <3>3. to \in Nat
      <4>1. CASE to \in 0..size
        BY <1>2, <4>1
      <4>2. CASE d.arg.whence = "CUR" /\ d.arg.offset = 0
        BY <3>2, <4>2 DEF fixed_size_llseek
      <4> QED
        BY <2>1, <4>1, <4>2 DEF SeekAllowed
    <3> HIDE DEF to
    <3>4. f_pos' \in [Files -> Nat]
      BY <1>2, <2>1, <3>1, <3>3
    <3> QED
      BY <1>0, <1>1, <1>2, <1>3, <3>4, BodyEndTyped
  <2>2. CASE ~(SeekAllowed(d.arg, f_pos[d.file]) /\ d.file \in Files)
    <3>1. f_pos' = f_pos \/ (f_pos' = [f_pos EXCEPT ![d.file] = to] /\ d.file \notin Files)
      <4>1. CASE SeekAllowed(d.arg, f_pos[d.file])
        <5>1. f_pos' = [f_pos EXCEPT ![d.file] = to]
          BY <1>4, <4>1 DEF LlseekBody
        <5> QED
          BY <2>2, <4>1, <5>1
      <4>2. CASE ~SeekAllowed(d.arg, f_pos[d.file])
        <5>1. f_pos' = f_pos
          BY <1>4, <4>2 DEF LlseekBody
        <5> HIDE DEF to
        <5> QED
          BY <5>1
      <4> QED
        BY <4>1, <4>2
    <3> HIDE DEF to
    <3>2. f_pos' \in [Files -> Nat]
      BY <1>2, <3>1
    <3> QED
      BY <1>0, <1>1, <1>2, <1>3, <3>2, BodyEndTyped
  <2> QED
    BY <2>1, <2>2
<1>5. CASE IoctlBody(t)
  <2> DEFINE to == TotalSize(circular_buffer, d.arg.write_cmd) + d.arg.write_cmd_offset
  <2>1. f_pos' = f_pos \/ f_pos' = [f_pos EXCEPT ![d.file] = to]
    BY <1>5 DEF IoctlBody
  <2>2. d.arg.write_cmd \in Nat /\ d.arg.write_cmd_offset \in Nat
    BY <1>1, <1>5, DriverAssumption DEF IoctlBody, InBody
  <2>3. TotalSize(circular_buffer, d.arg.write_cmd) \in Nat
    BY <2>2, EntriesAreSized, TotalSizeType DEF MemInv, MemTypes
  <2>4. to \in Nat
    BY <2>2, <2>3
  <2> HIDE DEF to
  <2>5. f_pos' \in [Files -> Nat]
    BY <1>2, <2>1, <2>4
  <2> QED
    BY <1>0, <1>1, <1>2, <1>3, <2>5, BodyEndTyped
<1> QED
  BY <1>4, <1>5

(* The steps of the module and of the VFS. *)
LEMMA OuterStepsTyped ==
  ASSUME VfsTypes, CallTypes,
         \/ InitModule \/ InitModuleNoRegion \/ InitModuleNoCdev \/ InitModuleOops
         \/ CleanupModule \/ Done \/ UNCHANGED vars
         \/ \E f \in Files : Open(f) \/ Release(f)
  PROVE  VfsTypes' /\ CallTypes'
<1>1. UNCHANGED <<lock, call, calls>>
  BY DEF InitModule, InitModuleNoRegion, InitModuleNoCdev, InitModuleOops, CleanupModule,
         Done, Open, Release, vars
<1>2. module' \in {"none", "live", "gone", "oops"} /\ entry_live' \in BOOLEAN /\ size' \in Int
  <2>1. CASE \E f \in Files : Open(f) \/ Release(f)
    BY <2>1 DEF Open, Release, modVars, devVars, VfsTypes
  <2>2. CASE InitModule \/ CleanupModule
    <3>1. entry_live' \in BOOLEAN
      BY <2>2 DEF InitModule, CleanupModule
    <3>2. module' \in {"none", "live", "gone", "oops"} /\ size' \in Int
      BY <2>2 DEF InitModule, CleanupModule
    <3> QED
      BY <3>1, <3>2
  <2>3. CASE InitModuleNoRegion \/ InitModuleNoCdev \/ InitModuleOops
    <3>1. entry_live' \in BOOLEAN
      BY <2>3 DEF InitModuleNoRegion, InitModuleNoCdev, InitModuleOops, VfsTypes
    <3>2. module' \in {"none", "live", "gone", "oops"} /\ size' \in Int
      BY <2>3 DEF InitModuleNoRegion, InitModuleNoCdev, InitModuleOops, devVars, VfsTypes
    <3> QED
      BY <3>1, <3>2
  <2>4. CASE Done \/ UNCHANGED vars
    BY <2>4 DEF Done, vars, modVars, devVars, VfsTypes
  <2> QED
    BY <2>1, <2>2, <2>3, <2>4
<1>3. opened' \subseteq Files /\ f_pos' \in [Files -> Nat]
  <2>1. ASSUME NEW f \in Files, Open(f) \/ Release(f)
        PROVE  opened' \subseteq Files /\ f_pos' \in [Files -> Nat]
    BY <2>1 DEF Open, Release, VfsTypes
  <2>2. CASE UNCHANGED vfsVars
    BY <2>2 DEF vfsVars, VfsTypes
  <2> QED
    BY <2>1, <2>2 DEF InitModule, InitModuleNoRegion, InitModuleNoCdev, InitModuleOops,
                      CleanupModule, Done, vars
<1> QED
  BY <1>1, <1>2, <1>3 DEF VfsTypes, CallTypes

(* The steps of a call outside its body. *)
LEMMA CallStepsTyped ==
  ASSUME VfsTypes, CallTypes, NEW t \in Threads,
         Acquire(t) \/ Interrupted(t) \/ Return(t) \/ \E f \in Files : Call(t, f)
  PROVE  VfsTypes' /\ CallTypes'
<1> DEFINE d == call[t]
<1>1. CallOK(d)
  BY DEF CallTypes
<1>2. d.pos \in Nat /\ d.out \in Seq(Bytes) /\ (d.op = "read" => Len(d.out) <= d.arg)
  BY <1>1 DEF CallOK, IsCall
<1>3. CASE Acquire(t)
  <2> DEFINE c == Progress(t, "body", d.pos, d.out, "ok")
  <2>1. /\ d.pc = "lock" /\ lock' = t /\ call' = [call EXCEPT ![t] = c]
        /\ UNCHANGED <<module, entry_live, size, opened, f_pos, calls>>
    BY <1>3 DEF Acquire, modVars, devVars, vfsVars
  <2>2. CallOK(c)
    BY <1>1, <1>2, <2>1, ProgressTyped DEF Rets
  <2> HIDE DEF c
  <2>3. CallTypes' /\ call' = [u \in Threads |-> call'[u]]
    BY <2>1, <2>2, OneCallTyped
  <2> QED
    BY <2>1, <2>3 DEF VfsTypes
<1>4. CASE Interrupted(t)
  <2> DEFINE c == Progress(t, "ret", d.pos, d.out, "ERESTARTSYS")
  <2>1. /\ d.pc = "lock" /\ lock' = lock /\ call' = [call EXCEPT ![t] = c]
        /\ UNCHANGED <<module, entry_live, size, opened, f_pos, calls>>
    BY <1>4 DEF Interrupted, modVars, devVars, vfsVars
  <2>2. CallOK(c)
    BY <1>1, <1>2, <2>1, ProgressTyped DEF Rets
  <2> HIDE DEF c
  <2>3. CallTypes' /\ call' = [u \in Threads |-> call'[u]]
    BY <2>1, <2>2, OneCallTyped
  <2> QED
    BY <2>1, <2>3 DEF VfsTypes
<1>5. CASE Return(t)
  <2>1. /\ call' = [call EXCEPT ![t] = IdleCall]
        /\ f_pos' = f_pos \/ f_pos' = [f_pos EXCEPT ![d.file] = d.pos]
        /\ UNCHANGED <<module, entry_live, size, lock, opened, calls>>
    BY <1>5 DEF Return, modVars, devVars
  <2>2. CallOK(IdleCall)
    BY IdleTyped
  <2>3. CallTypes' /\ call' = [u \in Threads |-> call'[u]]
    BY <2>1, <2>2, OneCallTyped
  <2>4. f_pos' \in [Files -> Nat]
    BY <1>2, <2>1 DEF VfsTypes
  <2> QED
    BY <2>1, <2>3, <2>4 DEF VfsTypes
<1>6. ASSUME NEW f \in Files, Call(t, f) PROVE VfsTypes' /\ CallTypes'
  <2>1. CASE \E n \in Counts : Read(t, f, n)
    BY <2>1, EnterTyped DEF Read, Rets
  <2>2. CASE \E p \in Payloads : Write(t, f, p)
    BY <2>2, EnterTyped DEF Write, Rets
  <2>3. CASE \E s \in Seeks : Llseek(t, f, s)
    BY <2>3, EnterTyped DEF Llseek, Rets
  <2>4. CASE \E s \in SeekTos : Ioctl(t, f, s)
    BY <2>4, EnterTyped DEF Ioctl, Rets
  <2>5. CASE IoctlRejected(t, f)
    BY <2>5, EnterTyped DEF IoctlRejected, Rets
  <2> QED
    BY <1>6, <2>1, <2>2, <2>3, <2>4, <2>5 DEF Call
<1> QED
  BY <1>3, <1>4, <1>5, <1>6

LEMMA InitTyped == Init => VfsTypes /\ CallTypes
<1> SUFFICES ASSUME Init PROVE VfsTypes /\ CallTypes
  OBVIOUS
<1>1. VfsTypes
  <2>1. f_pos \in [Files -> Nat] /\ call = [t \in Threads |-> call[t]]
    BY DEF Init
  <2>2. entry_live \in BOOLEAN
    BY DEF Init
  <2>3. /\ module \in {"none", "live", "gone", "oops"}
        /\ size \in Int /\ lock \in Threads \cup {NULL} /\ opened \subseteq Files /\ calls \in Nat
    BY DEF Init
  <2> QED
    BY <2>1, <2>2, <2>3 DEF VfsTypes
<1>2. \A t \in Threads : call[t] = IdleCall
  BY DEF Init
<1> QED
  BY <1>1, <1>2, IdleTyped DEF CallTypes

LEMMA NextKeepsTypes ==
  ASSUME MemInv, MemInv', VfsTypes, CallTypes, [Next]_vars
  PROVE  VfsTypes' /\ CallTypes'
<1>1. ASSUME NEW t \in Threads, Body(t) PROVE VfsTypes' /\ CallTypes'
  BY <1>1, ReadsTyped, WritesTyped, SeeksTyped DEF Body
<1> QED
  BY <1>1, OuterStepsTyped, CallStepsTyped DEF Next

(* No read has copied more than it was asked for, and every call and every *)
(* file position has its type.                                             *)
THEOREM CallInvariants == Spec => [](VfsTypes /\ CallTypes)
<1>1. MemInv /\ MemInv' /\ VfsTypes /\ CallTypes /\ [Next]_vars => (VfsTypes /\ CallTypes)'
  BY NextKeepsTypes
<1> QED
  BY <1>1, InitTyped, DeviceInvariants, PTL DEF Spec

(* aesd_read, aesd_write, aesd_llseek and aesd_ioctl keep every variable   *)
(* within its type: file positions never become negative, and what is      *)
(* copied to a user is a sequence of bytes, never taken from beyond the    *)
(* end of a block.                                                         *)
THEOREM DriverTypes == Spec => []TypeOK
<1>1. MemInv /\ VfsTypes /\ CallTypes => TypeOK
  <2> SUFFICES ASSUME MemInv, VfsTypes, CallTypes PROVE TypeOK
    OBVIOUS
  <2>1. DOMAIN call = Threads
    BY DEF VfsTypes
  <2> QED
    BY <2>1 DEF MemInv, MemTypes, VfsTypes, CallTypes, CallOK, TypeOK
<1> QED
  BY <1>1, DeviceInvariants, CallInvariants, PTL
=============================================================================
