-------------------------- MODULE CircularBufferOps --------------------------
(***************************************************************************)
(* The operations of aesd-char-driver/aesd-circular-buffer.[ch] as         *)
(* functions of a buffer value.  A buffer is the C structure, a record     *)
(* [entry, in_offs, out_offs, full]; an entry is a record [buffptr, size]. *)
(***************************************************************************)
EXTENDS Integers, FiniteSets

CONSTANTS
  MaxOps,  (* AESDCHAR_MAX_WRITE_OPERATIONS_SUPPORTED, 10 in the code *)
  NULL     (* the null pointer                                        *)

(* in_offs and out_offs are uint8_t and are incremented before they are    *)
(* compared with MaxOps, so MaxOps itself has to be a uint8_t value.       *)
ASSUME MaxOpsAssumption == MaxOps \in 1..255

Slots == 0 .. MaxOps - 1

(* What memset(0) leaves in a slot. *)
ZeroEntry == [buffptr |-> NULL, size |-> 0]

(***************************************************************************)
(* aesd_circular_buffer_init                                               *)
(***************************************************************************)
aesd_circular_buffer_init ==
  [entry |-> [i \in Slots |-> ZeroEntry],
   in_offs |-> 0, out_offs |-> 0, full |-> FALSE]

(***************************************************************************)
(* aesd_circular_buffer_add_entry                                          *)
(***************************************************************************)
(* Mutant: the wrap comes one step late. *)
AdvanceOffsLate(i) == IF i + 1 > MaxOps THEN 0 ELSE i + 1

AdvanceOffs(i) == IF i + 1 >= MaxOps THEN 0 ELSE i + 1

(* Mutant: the oldest entry is overwritten but out_offs stays behind.      *)
AddEntryKeepsOut(b, e) ==
  [entry    |-> [b.entry EXCEPT ![b.in_offs] = e],
   in_offs  |-> AdvanceOffs(b.in_offs),
   out_offs |-> b.out_offs,
   full     |-> b.full \/ AdvanceOffs(b.in_offs) = b.out_offs]

(* Mutant: out_offs moves on every add, as if the buffer were always full. *)
AddEntryAlwaysEvicts(b, e) ==
  [entry    |-> [b.entry EXCEPT ![b.in_offs] = e],
   in_offs  |-> AdvanceOffs(b.in_offs),
   out_offs |-> AdvanceOffs(b.out_offs),
   full     |-> b.full \/ AdvanceOffs(b.in_offs) = b.out_offs]

aesd_circular_buffer_add_entry(b, e) ==
  [entry    |-> [b.entry EXCEPT ![b.in_offs] = e],
   in_offs  |-> AdvanceOffs(b.in_offs),
   out_offs |-> IF b.full THEN AdvanceOffs(b.out_offs) ELSE b.out_offs,
   full     |-> b.full \/ AdvanceOffs(b.in_offs) = b.out_offs]

(***************************************************************************)
(* AESD_CIRCULAR_BUFFER_FOREACH.  Iteration k runs with index = k % MaxOps *)
(* and looks at slot (index + out_offs) % MaxOps.  The loop is left before *)
(* iteration k when index + out_offs = in_offs, a sum that is NOT reduced  *)
(* modulo MaxOps; "pass" keeps a full buffer from being left at k = 0.     *)
(* If no k in 0..MaxOps leaves the loop then none ever does, since index   *)
(* repeats with period MaxOps.                                             *)
(***************************************************************************)

(* Mutant: without "pass" a full buffer looks empty. *)
ForeachStopsNoPass(b, k) == (k % MaxOps) + b.out_offs = b.in_offs

(* Mutant: "pass" is never cleared. *)
ForeachStopsPassKept(b, k) == (k % MaxOps) + b.out_offs = b.in_offs /\ ~b.full

ForeachStops(b, k) ==
  /\ (k % MaxOps) + b.out_offs = b.in_offs
  /\ b.full => k > 0

ForeachTerminates(b) == \E k \in 0..MaxOps : ForeachStops(b, k)

(* The number of iterations, when the loop terminates. *)
ForeachCount(b) ==
  CHOOSE k \in 0..MaxOps :
    ForeachStops(b, k) /\ \A j \in 0..(k-1) : ~ForeachStops(b, j)

(* The entry that iteration k visits. *)
ForeachEntry(b, k) == b.entry[(k + b.out_offs) % MaxOps]

(***************************************************************************)
(* The bytes of the first k visited entries, each named by its entry and   *)
(* its place in that entry.  Their number is the running total of sizes    *)
(* that the loops of find_entry_offset_for_fpos and                        *)
(* aesd_adjust_file_offset hold before iteration k.                        *)
(***************************************************************************)
BytesBefore(b, k) ==
  UNION {{i} \X (0 .. ForeachEntry(b, i).size - 1) : i \in 0..(k-1)}

TotalSize(b, k) == Cardinality(BytesBefore(b, k))

(***************************************************************************)
(* aesd_circular_buffer_find_entry_offset_for_fpos.  FindIndex is the      *)
(* iteration whose entry is returned, -1 where the code returns NULL;      *)
(* FindOffset is *entry_offset_byte_rtn.                                   *)
(***************************************************************************)
FindCandidates(b, char_offset) ==
  {k \in 0 .. ForeachCount(b) - 1 :
     TotalSize(b, k) + ForeachEntry(b, k).size > char_offset}

(* Mutant: >= returns the entry before the one that holds the offset.      *)
FindCandidatesGeq(b, char_offset) ==
  {k \in 0 .. ForeachCount(b) - 1 :
     TotalSize(b, k) + ForeachEntry(b, k).size >= char_offset}

FindIndexGeq(b, char_offset) ==
  LET hits == FindCandidatesGeq(b, char_offset)
  IN  IF hits = {} THEN -1
      ELSE CHOOSE k \in hits : \A j \in hits : k <= j

FindIndex(b, char_offset) ==
  LET hits == FindCandidates(b, char_offset)
  IN  IF hits = {} THEN -1
      ELSE CHOOSE k \in hits : \A j \in hits : k <= j

FindOffset(b, char_offset) ==
  char_offset - TotalSize(b, FindIndex(b, char_offset))

(***************************************************************************)
(* The shape of every buffer the operations can build.  Entries are never  *)
(* taken out, so a buffer that is not full has never wrapped.              *)
(***************************************************************************)
RingShape(b) ==
  /\ b.full  => b.in_offs = b.out_offs
  /\ ~b.full => b.out_offs = 0

IsBuffer(b, E) ==
  b \in [entry : [Slots -> E], in_offs : Slots, out_offs : Slots, full : BOOLEAN]
=============================================================================
