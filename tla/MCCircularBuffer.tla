-------------------------- MODULE MCCircularBuffer --------------------------
(* TLC instance of CircularBuffer, with the array size of the code.        *)
EXTENDS CircularBuffer

(* Two strings of different lengths, as in the unit test's write1..write10. *)
MCEntries == {[buffptr |-> "x", size |-> 1], [buffptr |-> "yy", size |-> 2]}
=============================================================================
