---------------------------- MODULE MCAesdSystem ----------------------------
(* A TLC instance of AesdSystem. *)
EXTENDS AesdSystemProperties

MCBytes == {"a", "b", "nl"}
MCLines == {<<"a", "nl">>, <<"b", "a", "nl">>}
MCSeeks == {RewindArg}

ASSUME MCAssumption == WholeLines /\ FitsStdioBuffer

(* A byte of the second line, and one that is there in the longer line only. *)
MCSeekTos == {[write_cmd |-> 1, write_cmd_offset |-> 0], [write_cmd |-> 0, write_cmd_offset |-> 2]}
=============================================================================
