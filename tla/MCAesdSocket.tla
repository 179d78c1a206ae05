---------------------------- MODULE MCAesdSocket ----------------------------
(* TLC instances of AesdSocket. *)
EXTENDS AesdSocketProperties, TLC

(* A piece of a line, and the end of one with more behind it; whole lines; *)
(* a seek command, to a byte that some records have and some have not,     *)
(* with and without its comma.                                             *)
MCPieces == {<<"a">>, <<"nl", "a">>}
MCOneLine == {<<"b", "nl", "a">>}
MCSeeks == {<<"a", "nl">>, <<"b">>, <<"seek", ",", "nl">>, <<"seek", "nl">>}
MCSeekTarget == "seek" :> [cmd |-> 1, off |-> 2]
MCNothing == << >>
MCTwoKept == << <<"k", "nl">>, <<"l", "nl">> >>
MCStamp == <<"t", "nl">>

HandledFaults == {"startup", "bind", "accept", "thread_arg", "create"}
AllFaults == HandledFaults \cup {"node", "fopen", "realloc", "fwrite", "send", "sigpipe"}
NoFaults == {}

AnyThread == Procs
MainOnly == {"main"}

MCSymmetry == Permutations(Conns)
=============================================================================
