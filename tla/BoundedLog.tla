----------------------------- MODULE BoundedLog -----------------------------
(***************************************************************************)
(* What the circular buffer promises (comments of aesd-circular-buffer.c): *)
(* a log of the most recent Capacity items, oldest first.  Adding to a     *)
(* full log drops the oldest item and nothing else.                        *)
(***************************************************************************)
EXTENDS Naturals, Sequences

CONSTANTS Capacity, Items

VARIABLE log

Push(s, x) == IF Len(s) < Capacity THEN Append(s, x) ELSE Append(Tail(s), x)

LInit == log = << >>

LAdd(x) == log' = Push(log, x)

LNext == \E x \in Items : LAdd(x)

LSpec == LInit /\ [][LNext]_log
=============================================================================
