------------------------------ MODULE SlistOps ------------------------------
(***************************************************************************)
(* The singly linked lists of server/queue.h, pointer by pointer: a list   *)
(* is the head's slh_first and the sle_next of every element, which is     *)
(* meaningless for elements that are in no list.  Only the macros that     *)
(* aesdsocket.c uses are here.                                             *)
(***************************************************************************)
CONSTANT NULL

(* SLIST_INIT, for elements whose links were never set. *)
SLIST_INIT(Elems) == [first |-> NULL, next |-> [e \in Elems |-> NULL]]

SLIST_FIRST(l) == l.first

SLIST_NEXT(l, e) == l.next[e]

(* Mutant: the new element's link is not set. *)
SlistInsertHeadUnlinked(l, e) == [l EXCEPT !.first = e]

SLIST_INSERT_HEAD(l, e) == [first |-> e, next |-> [l.next EXCEPT ![e] = l.first]]

SLIST_REMOVE_HEAD(l) == [l EXCEPT !.first = l.next[l.first]]

SLIST_REMOVE_AFTER(l, e) == [l EXCEPT !.next[e] = l.next[l.next[e]]]

(* The elements that are reached from the head: the least set that holds   *)
(* the first one and the successor of every one it holds.                  *)
Closed(l, S) ==
  /\ l.first # NULL => l.first \in S
  /\ \A e \in S : l.next[e] # NULL => l.next[e] \in S

Reach(l) == {e \in DOMAIN l.next : \A S \in SUBSET DOMAIN l.next : Closed(l, S) => e \in S}

(* The element at which the search loop of SLIST_REMOVE stops. *)
Before(l, e) == CHOOSE c \in Reach(l) : l.next[c] = e

(* Mutant: the search is left out, and what comes before e is cut off. *)
SlistRemoveCuts(l, e) == [l EXCEPT !.first = l.next[e]]

SLIST_REMOVE(l, e) ==
  IF SLIST_FIRST(l) = e THEN SLIST_REMOVE_HEAD(l) ELSE SLIST_REMOVE_AFTER(l, Before(l, e))

(* free() of an element: nothing is said of its link any more. *)
Forget(l, e) == [l EXCEPT !.next[e] = NULL]
=============================================================================
