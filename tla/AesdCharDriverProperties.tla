---------------------- MODULE AesdCharDriverProperties ----------------------
(* What the users of /dev/aesdchar, and the driver itself, may rely on. *)
EXTENDS AesdCharDriver, SequencesExt

Stored == {i \in Slots : circular_buffer.entry[i].buffptr # NULL}
BlockOf(i) == circular_buffer.entry[i].buffptr
PendingBlocks == {entry.buffptr} \ {NULL}

EntryTypes == [buffptr : Blocks \cup {NULL}, size : Nat]

IsCall(c) ==
  /\ c \in [pc : {"idle", "lock", "body", "ret"},
            op : {"none", "read", "write", "llseek", "ioctl"},
            file : Files \cup {NULL}, arg : {c.arg},
            start : Nat, pos : Nat, out : Seq(Bytes),
            ret : {"ok", "ERESTARTSYS", "EFAULT", "ENOMEM", "EINVAL", "ENOTTY"}]
  /\ c.pc = "idle" <=> c = IdleCall
  /\ c.op = "read" => c.arg \in Counts
  /\ c.op = "write" => c.arg \in Payloads
  /\ c.op = "llseek" => c.arg \in Seeks
  /\ c.op = "ioctl" /\ c.pc \in {"lock", "body"} => c.arg \in SeekTos

(* Every variable keeps its type: file positions stay natural numbers,     *)
(* whatever is sought, read and written; aesd_device.size (a loff_t) may   *)
(* go below zero.                                                          *)
TypeOK ==
  /\ module \in {"none", "live", "gone", "oops"} /\ entry_live \in BOOLEAN
  /\ IsBuffer(circular_buffer, EntryTypes)
  /\ entry \in EntryTypes /\ size \in Int
  /\ lock \in Threads \cup {NULL}
  /\ allocated \subseteq Blocks /\ mem \in [Blocks -> Seq(Bytes)]
  /\ opened \subseteq Files /\ f_pos \in [Files -> Nat]
  /\ DOMAIN call = Threads /\ (\A t \in Threads : IsCall(call[t])) /\ calls \in Nat

(* aesd_device.lock is held by exactly the thread that is in the body of   *)
(* aesd_read, aesd_write, aesd_llseek or aesd_adjust_file_offset: every    *)
(* early return of those functions has unlocked it.                        *)
LockDiscipline == \A t \in Threads : call[t].pc = "body" <=> lock = t

EndsInNewline(s) == s[Len(s)] = Newline

OwnsBlock(e) == e.buffptr \in allocated /\ e.size = Len(mem[e.buffptr]) /\ e.size > 0

(* Every entry that the ring or aesd_device.entry holds owns an allocated  *)
(* block of exactly entry->size bytes, and no two of them own the same     *)
(* one: neither krealloc in aesd_write nor the kfree of an evicted command *)
(* leaves a dangling or a shared pointer.  The structure aesd_device.entry *)
(* points to is live as long as a file is open.                            *)
EntriesOwnMemory ==
  /\ opened # {} => entry_live
  /\ \A i \in Slots : circular_buffer.entry[i] = ZeroEntry \/ OwnsBlock(circular_buffer.entry[i])
  /\ entry = ZeroEntry \/ OwnsBlock(entry)
  /\ \A i, j \in Stored : i # j => BlockOf(i) # BlockOf(j)
  /\ \A i \in Stored : BlockOf(i) # entry.buffptr

(* AESD_CIRCULAR_BUFFER_FOREACH visits the slots that hold a command and   *)
(* no other: find_entry_offset_for_fpos never looks at a zeroed slot.      *)
ForeachVisitsStored ==
  /\ ForeachTerminates(circular_buffer)
  /\ {(k + circular_buffer.out_offs) % MaxOps : k \in 0 .. ForeachCount(circular_buffer) - 1}
       = Stored

(* While the module is loaded, a block that is allocated is in the ring or *)
(* is the partial command.  It holds as long as krealloc does not fail in  *)
(* aesd_write (KreallocMayFail = FALSE).                                   *)
NoLeak == module = "live" => allocated = {BlockOf(i) : i \in Stored} \cup PendingBlocks

(* A finished command ends in a newline, and a partial one does not: what  *)
(* aesd_write holds back in aesd_device.entry is never a whole command.    *)
CommandsTerminated ==
  /\ \A i \in Stored : EndsInNewline(mem[BlockOf(i)])
  /\ entry # ZeroEntry => ~EndsInNewline(Pending)

(* The commands in the order of AESD_CIRCULAR_BUFFER_FOREACH. *)
Commands ==
  [k \in 1..ForeachCount(circular_buffer) |-> mem[ForeachEntry(circular_buffer, k - 1).buffptr]]

(***************************************************************************)
(* The device as aesd-circular-buffer.c describes it: "if all buffer       *)
(* strings were concatenated end to end".                                  *)
(***************************************************************************)
Contents == FlattenSeq(Commands)

(* The step in which t's call leaves the driver's body with success. *)
Completes(t, op) ==
  call[t].pc = "body" /\ call[t].op = op /\ call'[t].pc = "ret" /\ call'[t].ret = "ok"

(* aesd_read hands out the bytes of the contents from the position on, as  *)
(* many as are wanted and there are, across as many entries as it takes.   *)
ReadReturnsSlice ==
  [][\A t \in Threads : Completes(t, "read") =>
       call'[t].out = SubSeq(Contents, call[t].start + 1,
                             Min({call[t].start + call[t].arg, Len(Contents)}))]_vars

(* A seek by AESDCHAR_IOCSEEKTO succeeds just when the command and the     *)
(* offset exist, and it leaves the file at the byte of the contents that   *)
(* is that byte of that command.                                           *)
SeekToAddresses ==
  [][\A t \in Threads :
       InBody(t, "ioctl") /\ call'[t].pc = "ret" =>
         LET c == call[t].arg.write_cmd + 1
             o == call[t].arg.write_cmd_offset + 1
         IN  /\ call'[t].ret = "ok" <=> c \in DOMAIN Commands /\ o \in DOMAIN Commands[c]
             /\ call'[t].ret = "ok" =>
                  /\ f_pos'[call[t].file] = Len(FlattenSeq(SubSeq(Commands, 1, c - 1))) + o - 1
                  /\ Contents[f_pos'[call[t].file] + 1] = Commands[c][o]]_vars

Device == INSTANCE CommandDevice
            WITH Capacity <- MaxOps, Items <- {}, log <- Commands, partial <- Pending,
                 loaded <- module = "live"

(* The device keeps the last MaxOps commands, each the concatenation of    *)
(* the writes since the newline before it, whatever the interleaving of    *)
(* calls, seeks, reads, interrupted calls and failures.                    *)
ImplementsCommandDevice == Device!DSpec

(* A system call that was made returns, however the threads contend for    *)
(* aesd_device.lock: no path of the driver returns with the lock held.     *)
CallsReturn == \A t \in Threads : (call[t].pc # "idle") ~> (call[t].pc = "idle")
=============================================================================
