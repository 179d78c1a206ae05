---------------------------- MODULE OrderedList -----------------------------
(* What the SLIST macros promise: a sequence without repetitions, to which *)
(* elements are added in front and from which any one may be removed.      *)
EXTENDS SequencesExt, Naturals

CONSTANT Items

VARIABLE items

Holds(x) == \E i \in 1..Len(items) : items[i] = x

OInsert(x) == ~Holds(x) /\ items' = <<x>> \o items

ORemove(x) == \E i \in 1..Len(items) : items[i] = x /\ items' = RemoveAt(items, i)

OSpec == items = << >> /\ [][\E x \in Items : OInsert(x) \/ ORemove(x)]_items
=============================================================================
