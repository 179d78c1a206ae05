-------------------------- MODULE MCAesdCharDriver --------------------------
(* TLC instances of AesdCharDriver. *)
EXTENDS AesdCharDriverProperties

MCBytes == {"a", "b", "nl"}

(* A piece of a command, the end of one, and one with a newline inside.    *)
MCPayloads == {<<"a">>, <<"b", "nl">>, <<"nl", "b">>}
MCOnePiece == {<<"a">>, <<"b", "nl">>}

MCSeeks ==
  {[whence |-> "SET", offset |-> 0], [whence |-> "SET", offset |-> 2],
   [whence |-> "CUR", offset |-> -1], [whence |-> "CUR", offset |-> 0],
   [whence |-> "END", offset |-> 0], [whence |-> "BAD", offset |-> 0]}
MCRewind == {[whence |-> "SET", offset |-> 0]}

MCSeekTos == [write_cmd : 0..2, write_cmd_offset : {1, 2}]
MCSeekToOne == {[write_cmd |-> 1, write_cmd_offset |-> 0]}
MCNone == {}

MCBlockSymmetry == Permutations(Blocks)
MCSymmetry == Permutations(Blocks) \cup Permutations(Threads) \cup Permutations(Files)
-----------------------------------------------------------------------------
(***************************************************************************)
(* What the sources say of the driver and the driver does not do.          *)
(***************************************************************************)

(* aesd_device.size, logged by aesd_llseek as the "Total size" and summed  *)
(* over all entries in the loop commented out above that line, is the      *)
(* length of the contents.                                                 *)
SizeIsTotal == module = "live" => size = Len(Contents)

(* A read "only the requested number of bytes" long leaves the position    *)
(* right behind the bytes it returned.                                     *)
ReadAdvancesByCount ==
  [][\A t \in Threads : Completes(t, "read") =>
       call'[t].pos = call[t].start + Len(call'[t].out)]_vars
=============================================================================
