--------------------------- MODULE CircularBuffer ---------------------------
(***************************************************************************)
(* The circular buffer of aesd-circular-buffer.c as a component of its     *)
(* own, used the way its unit test and the driver use it: init, then any   *)
(* sequence of add_entry calls.                                            *)
(***************************************************************************)
EXTENDS CircularBufferOps, SequencesExt

CONSTANT Entries   (* the entries a caller adds *)

ASSUME EntriesAssumption ==
  \A e \in Entries : e = [buffptr |-> e.buffptr, size |-> e.size] /\ e.size \in Nat

VARIABLE buffer

Init == buffer = aesd_circular_buffer_init

AddEntry(e) == buffer' = aesd_circular_buffer_add_entry(buffer, e)

Next == \E e \in Entries : AddEntry(e)

Spec == Init /\ [][Next]_buffer
-----------------------------------------------------------------------------
(* Every field stays in the range its C type and the array bounds give it: *)
(* in_offs and out_offs always index the entry array.                      *)
TypeOK == IsBuffer(buffer, Entries \cup {ZeroEntry})

(* A buffer that is not full has never wrapped (out_offs = 0) and a full   *)
(* one has in_offs = out_offs.  FOREACH compares index + out_offs with     *)
(* in_offs without reducing the sum, which is right only in these states.  *)
Shape == RingShape(buffer)

(* AESD_CIRCULAR_BUFFER_FOREACH leaves its loop in every reachable state.  *)
Terminates == ForeachTerminates(buffer)

(* The entries FOREACH visits, in order. *)
Visited == [k \in 1..ForeachCount(buffer) |-> ForeachEntry(buffer, k - 1)]

(* All stored bytes end to end, each given as <<visit, offset in entry>>:  *)
(* the reading of char_offset in the comment of find_entry_offset_for_fpos *)
(* ("the zero referenced character index if all buffer strings were        *)
(* concatenated end to end").                                              *)
Concatenated ==
  FlattenSeq([k \in 1..Len(Visited) |->
                [j \in 1..Visited[k].size |-> <<k - 1, j - 1>>]])

(* find_entry_offset_for_fpos maps every offset of the concatenation to    *)
(* the entry and the byte that are there, and every offset past the end to *)
(* NULL.                                                                   *)
FindMatchesConcatenation ==
  \A p \in 0 .. Len(Concatenated) + 1 :
    IF p < Len(Concatenated)
    THEN <<FindIndex(buffer, p), FindOffset(buffer, p)>> = Concatenated[p + 1]
    ELSE FindIndex(buffer, p) = -1

(* FOREACH visits exactly the last MaxOps entries added, oldest first: the *)
(* buffer implements the bounded log of its documentation.                 *)
Abstract == INSTANCE BoundedLog WITH Capacity <- MaxOps, Items <- Entries, log <- Visited

ImplementsBoundedLog == Abstract!LSpec
=============================================================================
