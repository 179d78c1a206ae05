--------------------------- MODULE AesdCharDriver ---------------------------
(***************************************************************************)
(* The character driver of aesd-char-driver/main.c.  Threads make system   *)
(* calls on open files of /dev/aesdchar; a call waits for aesd_device.lock,*)
(* runs its body holding it and returns through the VFS, which then stores *)
(* the position of a read or a write in the file.  aesd_read copies one    *)
(* entry per step, since copy_to_user may sleep with the lock held; the    *)
(* body of every other call is one step, since only the lock's holder      *)
(* touches the device.                                                     *)
(***************************************************************************)
EXTENDS CircularBufferOps, Sequences

CONSTANTS
  Threads, Files,   (* callers and open file descriptions                  *)
  Blocks,           (* addresses kmalloc and krealloc can return           *)
  Bytes, Newline,   (* what a write is made of                             *)
  Payloads,         (* the buffers that are written, never empty           *)
  Counts,           (* the sizes that are read                             *)
  Seeks,            (* [whence, offset] arguments of llseek                *)
  SeekTos,          (* [write_cmd, write_cmd_offset], struct aesd_seekto   *)
  KreallocMayFail,  (* may growing a partial command run out of memory?    *)
  MaxCalls          (* bound on the number of system calls made            *)

ASSUME DriverAssumption ==
  /\ NULL \notin Blocks /\ NULL \notin Threads /\ NULL \notin Files
  /\ Newline \in Bytes
  /\ \A d \in Payloads : Len(d) \in Nat \ {0} /\ \A i \in 1..Len(d) : d[i] \in Bytes
  /\ \A d \in Payloads : d = [i \in 1..Len(d) |-> d[i]]
  /\ \A n \in Counts : n \in Nat
  /\ \A s \in Seeks : s.whence \in {"SET", "CUR", "END", "BAD"} /\ s.offset \in Int
  /\ \A s \in SeekTos : s.write_cmd \in Nat /\ s.write_cmd_offset \in Nat
  /\ KreallocMayFail \in BOOLEAN
  /\ MaxCalls \in Nat

VARIABLES
  module,           (* "none" before insmod, "live", "gone", or "oops"     *)
  entry_live,       (* is the kmalloc'ed struct *aesd_device.entry live?   *)
  circular_buffer,  (* aesd_device.circular_buffer                         *)
  entry,            (* *aesd_device.entry, the partial command             *)
  size,             (* aesd_device.size                                    *)
  lock,             (* the thread that holds aesd_device.lock, or NULL     *)
  allocated, mem,   (* live blocks, and the bytes stored in each           *)
  opened, f_pos,    (* open files and their positions                      *)
  call,             (* what each thread is doing                           *)
  calls             (* system calls made so far                            *)

modVars == <<module, entry_live>>
devVars == <<circular_buffer, entry, size, allocated, mem>>
vfsVars == <<opened, f_pos>>
vars == <<modVars, devVars, lock, vfsVars, call, calls>>

(* A call: pc is "idle", "lock" (waiting), "body" (holding the lock) or    *)
(* "ret"; pos is the *f_pos the driver works on, start its value when the  *)
(* call was made; out is what has been copied to the user.                 *)
IdleCall ==
  [pc |-> "idle", op |-> "none", file |-> NULL, arg |-> NULL,
   start |-> 0, pos |-> 0, out |-> << >>, ret |-> "ok"]

Init ==
  /\ module = "none" /\ entry_live = FALSE
  /\ circular_buffer = aesd_circular_buffer_init
  /\ entry = ZeroEntry /\ size = 0
  /\ allocated = {} /\ mem = [b \in Blocks |-> << >>]
  /\ lock = NULL
  /\ opened = {} /\ f_pos = [f \in Files |-> 0]
  /\ call = [t \in Threads |-> IdleCall] /\ calls = 0
-----------------------------------------------------------------------------
(***************************************************************************)
(* aesd_init_module and aesd_cleanup_module.  The module is loaded once.   *)
(***************************************************************************)
InitModule ==
  /\ module = "none"
  /\ module' = "live" /\ entry_live' = TRUE
  /\ circular_buffer' = aesd_circular_buffer_init
  /\ entry' = ZeroEntry /\ size' = 0
  /\ UNCHANGED <<allocated, mem, lock, vfsVars, call, calls>>

(* alloc_chrdev_region fails: nothing was set up. *)
InitModuleNoRegion ==
  /\ module = "none"
  /\ module' = "gone"
  /\ UNCHANGED <<entry_live, devVars, lock, vfsVars, call, calls>>

(* cdev_add fails: the region is given back, aesd_device.entry is not.     *)
InitModuleNoCdev ==
  /\ module = "none"
  /\ module' = "gone" /\ entry_live' = TRUE
  /\ UNCHANGED <<devVars, lock, vfsVars, call, calls>>

(* kmalloc of aesd_device.entry returns NULL, which is then dereferenced.  *)
InitModuleOops ==
  /\ module = "none"
  /\ module' = "oops"
  /\ UNCHANGED <<entry_live, devVars, lock, vfsVars, call, calls>>

(* rmmod, refused while a file is open (fops.owner).  It frees the entry   *)
(* structure; no block that the buffer or the entry points to is freed.    *)
CleanupModule ==
  /\ module = "live" /\ opened = {}
  /\ module' = "gone" /\ entry_live' = FALSE
  /\ circular_buffer' = aesd_circular_buffer_init
  /\ entry' = ZeroEntry /\ size' = 0
  /\ UNCHANGED <<allocated, mem, lock, vfsVars, call, calls>>
-----------------------------------------------------------------------------
(***************************************************************************)
(* aesd_open, aesd_release and the entry of the other system calls.        *)
(***************************************************************************)
Open(f) ==
  /\ module = "live" /\ f \notin opened
  /\ opened' = opened \cup {f}
  /\ f_pos' = [f_pos EXCEPT ![f] = 0]
  /\ UNCHANGED <<modVars, devVars, lock, call, calls>>

Release(f) ==
  /\ f \in opened /\ \A t \in Threads : call[t].file # f
  /\ opened' = opened \ {f}
  /\ f_pos' = [f_pos EXCEPT ![f] = 0]
  /\ UNCHANGED <<modVars, devVars, lock, call, calls>>

Enter(t, f, op, arg, pc, ret) ==
  /\ call[t].pc = "idle" /\ f \in opened /\ calls < MaxCalls
  /\ call' = [call EXCEPT ![t] =
                [pc |-> pc, op |-> op, file |-> f, arg |-> arg,
                 start |-> f_pos[f], pos |-> f_pos[f], out |-> << >>, ret |-> ret]]
  /\ calls' = calls + 1
  /\ UNCHANGED <<modVars, devVars, lock, vfsVars>>

Read(t, f, count) == Enter(t, f, "read", count, "lock", "ok")

Write(t, f, buf) == Enter(t, f, "write", buf, "lock", "ok")

Llseek(t, f, arg) == Enter(t, f, "llseek", arg, "lock", "ok")

(* aesd_ioctl copies struct aesd_seekto before it takes the lock. *)
Ioctl(t, f, seekto) == Enter(t, f, "ioctl", seekto, "lock", "ok")

(* An unknown command, or a struct aesd_seekto that cannot be read. *)
IoctlRejected(t, f) ==
  \E err \in {"ENOTTY", "EFAULT"} : Enter(t, f, "ioctl", NULL, "ret", err)

(* The call of t at a later point. *)
Progress(t, pc, pos, out, ret) ==
  [pc |-> pc, op |-> call[t].op, file |-> call[t].file, arg |-> call[t].arg,
   start |-> call[t].start, pos |-> pos, out |-> out, ret |-> ret]

(* Mutant: the lock is not waited for. *)
AcquireAtOnce(t) ==
  /\ call[t].pc = "lock"
  /\ lock' = t
  /\ call' = [call EXCEPT ![t] = Progress(t, "body", call[t].pos, call[t].out, "ok")]
  /\ UNCHANGED <<modVars, devVars, vfsVars, calls>>

(* mutex_lock_interruptible *)
Acquire(t) ==
  /\ call[t].pc = "lock" /\ lock = NULL
  /\ lock' = t
  /\ call' = [call EXCEPT ![t] = Progress(t, "body", call[t].pos, call[t].out, "ok")]
  /\ UNCHANGED <<modVars, devVars, vfsVars, calls>>

Interrupted(t) ==
  /\ call[t].pc = "lock" /\ lock # NULL
  /\ call' = [call EXCEPT ![t] = Progress(t, "ret", call[t].pos, call[t].out, "ERESTARTSYS")]
  /\ UNCHANGED <<modVars, devVars, lock, vfsVars, calls>>

InBody(t, op) == call[t].pc = "body" /\ call[t].op = op

(* mutex_unlock and return. *)
Finish(t, pos, out, ret) ==
  /\ lock' = NULL
  /\ call' = [call EXCEPT ![t] = Progress(t, "ret", pos, out, ret)]
  /\ UNCHANGED <<modVars, calls>>

(* Back in the VFS: ksys_read and ksys_write store the position they passed *)
(* to the driver, unless it returned an error.                              *)
Return(t) ==
  LET c == call[t]
  IN  /\ c.pc = "ret"
      /\ f_pos' = IF c.op \in {"read", "write"} /\ c.ret = "ok"
                  THEN [f_pos EXCEPT ![c.file] = c.pos] ELSE f_pos
      /\ call' = [call EXCEPT ![t] = IdleCall]
      /\ UNCHANGED <<modVars, devVars, lock, opened, calls>>
-----------------------------------------------------------------------------
(***************************************************************************)
(* aesd_read                                                               *)
(***************************************************************************)
FoundEntry(t) == ForeachEntry(circular_buffer, FindIndex(circular_buffer, call[t].pos))
FoundOffset(t) == FindOffset(circular_buffer, call[t].pos)
Remaining(t) == FoundEntry(t).size - FoundOffset(t)
CountLeft(t) == call[t].arg - Len(call[t].out)

(* Mutant: the copy starts at the beginning of the entry.                   *)
CopiedFromStart(t, n) == SubSeq(mem[FoundEntry(t).buffptr], 1, n)

(* The n bytes that copy_to_user copies. *)
Copied(t, n) == SubSeq(mem[FoundEntry(t).buffptr], FoundOffset(t) + 1, FoundOffset(t) + n)

Found(t) == FindIndex(circular_buffer, call[t].pos) # -1

(* The rest of an entry is smaller than what is wanted: copy it, go on. *)
ReadEntry(t) ==
  /\ InBody(t, "read") /\ Found(t) /\ Remaining(t) < CountLeft(t)
  /\ call' = [call EXCEPT ![t] = Progress(t, "body", call[t].pos + Remaining(t),
                                               call[t].out \o Copied(t, Remaining(t)), "ok")]
  /\ UNCHANGED <<modVars, devVars, lock, vfsVars, calls>>

(* The last entry needed: retval is the total copied by this call, and     *)
(* the position advances by retval.                                        *)
ReadLast(t) ==
  LET out == call[t].out \o Copied(t, CountLeft(t))
  IN  /\ InBody(t, "read") /\ Found(t) /\ Remaining(t) >= CountLeft(t)
      /\ Finish(t, call[t].pos + Len(out), out, "ok")
      /\ UNCHANGED <<devVars, vfsVars>>

(* No entry at the position. *)
ReadEnd(t) ==
  /\ InBody(t, "read") /\ ~Found(t)
  /\ Finish(t, call[t].pos, call[t].out, "ok")
  /\ UNCHANGED <<devVars, vfsVars>>

(* Mutant: the error path of copy_to_user keeps the lock.                  *)
ReadFaultKeepsLock(t) ==
  /\ InBody(t, "read") /\ Found(t) /\ CountLeft(t) > 0
  /\ call' = [call EXCEPT ![t] = Progress(t, "ret", call[t].pos, call[t].out, "EFAULT")]
  /\ UNCHANGED <<modVars, lock, calls, devVars, vfsVars>>

(* copy_to_user fails. *)
ReadFault(t) ==
  /\ InBody(t, "read") /\ Found(t) /\ CountLeft(t) > 0
  /\ Finish(t, call[t].pos, call[t].out, "EFAULT")
  /\ UNCHANGED <<devVars, vfsVars>>
-----------------------------------------------------------------------------
(***************************************************************************)
(* aesd_write                                                              *)
(***************************************************************************)
Pending == IF entry.buffptr = NULL THEN << >> ELSE mem[entry.buffptr]

(* kmalloc fails, or krealloc does, whose result then replaces the pointer *)
(* to a block that is still allocated.                                     *)
WriteNoMem(t) ==
  /\ InBody(t, "write")
  /\ entry.buffptr # NULL => KreallocMayFail
  /\ entry' = ZeroEntry
  /\ Finish(t, call[t].pos, << >>, "ENOMEM")
  /\ UNCHANGED <<circular_buffer, size, allocated, mem, vfsVars>>

Kfree(m, S) == [b \in Blocks |-> IF b \in S THEN << >> ELSE m[b]]

(* copy_from_user fails: the partial command is freed with the new bytes.  *)
WriteFault(t) ==
  /\ InBody(t, "write")
  /\ allocated' = allocated \ {entry.buffptr}
  /\ mem' = Kfree(mem, {entry.buffptr})
  /\ entry' = ZeroEntry
  /\ Finish(t, call[t].pos, << >>, "EFAULT")
  /\ UNCHANGED <<circular_buffer, size, vfsVars>>

(* kmalloc returns any free block; krealloc may also keep the old one.     *)
NewBlocks == (Blocks \ allocated) \cup ({entry.buffptr} \ {NULL})

(* The block, the contents and the entry once the new bytes are in. *)
GrownMem(b, data) == [Kfree(mem, {entry.buffptr}) EXCEPT ![b] = Pending \o data]
GrownEntry(b, data) == [buffptr |-> b, size |-> entry.size + Len(data)]

(* Mutant: a newline anywhere ends the command. *)
IsCommandAnywhere(s) == \E i \in 1..Len(s) : s[i] = Newline

(* The test on the last byte written so far. *)
IsCommand(s) == s[Len(s)] = Newline

WritePartial(t) ==
  \E b \in NewBlocks :
    LET data == call[t].arg
    IN  /\ InBody(t, "write") /\ ~IsCommand(Pending \o data)
        /\ entry' = GrownEntry(b, data)
        /\ allocated' = (allocated \ {entry.buffptr}) \cup {b}
        /\ mem' = GrownMem(b, data)
        /\ Finish(t, call[t].pos + Len(data), << >>, "ok")
        /\ UNCHANGED <<circular_buffer, size, vfsVars>>

(* The slot that find_entry_offset_for_fpos(0) returns: the oldest entry.  *)
OldSlot == (FindIndex(circular_buffer, 0) + circular_buffer.out_offs) % MaxOps

(* Mutant: the pointer to free is read from the slot after it was reused.  *)
EvictedFromSlot(newBuffer) ==
  IF circular_buffer.full THEN {newBuffer.entry[OldSlot].buffptr} ELSE {}

(* Mutant: the evicted block is not freed.                                 *)
EvictedNone(newBuffer) == {}

(* The block kfree'd on a full buffer: oldEntryBuff, saved before the add. *)
Evicted(newBuffer) ==
  IF circular_buffer.full THEN {circular_buffer.entry[OldSlot].buffptr} ELSE {}

(* Mutant: the new bytes are not counted. *)
NewSizeNotAdded(newBuffer, count) ==
  IF circular_buffer.full THEN size - newBuffer.entry[OldSlot].size ELSE size

(* aesd_device.size afterwards: oldEntry still points to the slot, which   *)
(* by now holds the new entry, and count is the length of this write.      *)
NewSize(newBuffer, count) ==
  (IF circular_buffer.full THEN size - newBuffer.entry[OldSlot].size ELSE size) + count

WriteCommit(t) ==
  \E b \in NewBlocks :
    LET data == call[t].arg
        newBuffer == aesd_circular_buffer_add_entry(circular_buffer, GrownEntry(b, data))
    IN  /\ InBody(t, "write") /\ IsCommand(Pending \o data)
        /\ circular_buffer' = newBuffer
        /\ entry' = ZeroEntry
        /\ size' = NewSize(newBuffer, Len(data))
        /\ allocated' = ((allocated \ {entry.buffptr}) \cup {b}) \ Evicted(newBuffer)
        /\ mem' = Kfree(GrownMem(b, data), Evicted(newBuffer))
        /\ Finish(t, call[t].pos + Len(data), << >>, "ok")
        /\ UNCHANGED vfsVars
-----------------------------------------------------------------------------
(***************************************************************************)
(* aesd_llseek: fixed_size_llseek with aesd_device.size as the file size.  *)
(***************************************************************************)
fixed_size_llseek(arg, pos) ==
  CASE arg.whence = "SET" -> arg.offset
    [] arg.whence = "CUR" -> pos + arg.offset
    [] arg.whence = "END" -> size + arg.offset
    [] OTHER -> -1

SeekAllowed(arg, pos) ==
  \/ fixed_size_llseek(arg, pos) \in 0..size
  \/ arg.whence = "CUR" /\ arg.offset = 0

LlseekBody(t) ==
  LET c == call[t]
  IN  /\ InBody(t, "llseek")
      /\ IF SeekAllowed(c.arg, f_pos[c.file])
         THEN /\ f_pos' = [f_pos EXCEPT ![c.file] = fixed_size_llseek(c.arg, @)]
              /\ Finish(t, c.pos, << >>, "ok")
         ELSE /\ f_pos' = f_pos
              /\ Finish(t, c.pos, << >>, "EINVAL")
      /\ UNCHANGED <<devVars, opened>>

(***************************************************************************)
(* aesd_adjust_file_offset                                                 *)
(***************************************************************************)
(* Mutant: a seek to the byte after the last one of a command is accepted. *)
ValidSeekToEnd(s) ==
  /\ s.write_cmd < ForeachCount(circular_buffer)
  /\ s.write_cmd_offset <= ForeachEntry(circular_buffer, s.write_cmd).size

ValidSeekTo(s) ==
  /\ s.write_cmd < ForeachCount(circular_buffer)
  /\ s.write_cmd_offset < ForeachEntry(circular_buffer, s.write_cmd).size

IoctlBody(t) ==
  LET c == call[t]
  IN  /\ InBody(t, "ioctl")
      /\ IF ValidSeekTo(c.arg)
         THEN /\ f_pos' = [f_pos EXCEPT ![c.file] =
                             TotalSize(circular_buffer, c.arg.write_cmd)
                               + c.arg.write_cmd_offset]
              /\ Finish(t, c.pos, << >>, "ok")
         ELSE /\ f_pos' = f_pos
              /\ Finish(t, c.pos, << >>, "EINVAL")
      /\ UNCHANGED <<devVars, opened>>
-----------------------------------------------------------------------------
Body(t) ==
  \/ ReadEntry(t) \/ ReadLast(t) \/ ReadEnd(t) \/ ReadFault(t)
  \/ WriteNoMem(t) \/ WriteFault(t) \/ WritePartial(t) \/ WriteCommit(t)
  \/ LlseekBody(t) \/ IoctlBody(t)

Call(t, f) ==
  \/ \E n \in Counts : Read(t, f, n)
  \/ \E d \in Payloads : Write(t, f, d)
  \/ \E s \in Seeks : Llseek(t, f, s)
  \/ \E s \in SeekTos : Ioctl(t, f, s)
  \/ IoctlRejected(t, f)

(* Nobody makes another call. *)
Done ==
  /\ \A t \in Threads : call[t].pc = "idle"
  /\ calls = MaxCalls \/ module \in {"gone", "oops"}
  /\ UNCHANGED vars

Next ==
  \/ InitModule \/ InitModuleNoRegion \/ InitModuleNoCdev \/ InitModuleOops
  \/ CleanupModule
  \/ \E f \in Files : Open(f) \/ Release(f)
  \/ \E t \in Threads, f \in Files : Call(t, f)
  \/ \E t \in Threads : Acquire(t) \/ Interrupted(t) \/ Body(t) \/ Return(t)
  \/ Done

Spec == Init /\ [][Next]_vars

(* A thread that can run does run, and a kernel mutex is handed to its     *)
(* waiters in turn.  Nothing makes a thread issue a call.                  *)
Fairness ==
  \A t \in Threads : WF_vars(Body(t)) /\ WF_vars(Return(t)) /\ SF_vars(Acquire(t))

FairSpec == Spec /\ Fairness
=============================================================================
