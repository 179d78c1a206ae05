------------------------------- MODULE Slist --------------------------------
(***************************************************************************)
(* One list of queue.h as aesdsocket.c uses it: elements are inserted at   *)
(* the head, and SLIST_FOREACH_SAFE walks the list while the element it is *)
(* at is removed and freed (finished threads) or kept (running ones).      *)
(***************************************************************************)
EXTENDS SlistOps, Integers, Sequences, FiniteSets

CONSTANT Elems

ASSUME ElemsAssumption == NULL \notin Elems

VARIABLES
  list,
  var, tvar,    (* the cursors of the walk; NULL outside of one *)
  walk,         (* what the list held when the walk began, or NULL *)
  visited       (* the elements the body of the walk was run for *)

slVars == <<list, var, tvar, walk, visited>>

(* The elements in the order of their links. *)
AsSeq(l) ==
  LET n == Cardinality(Reach(l))
  IN  CHOOSE s \in [1..n -> Reach(l)] :
        \A i \in 1..n : s[i] = IF i = 1 THEN SLIST_FIRST(l) ELSE SLIST_NEXT(l, s[i - 1])

SlInit ==
  /\ list = SLIST_INIT(Elems)
  /\ var = NULL /\ tvar = NULL /\ walk = NULL /\ visited = << >>

SlInsert(e) ==
  /\ walk = NULL /\ e \notin Reach(list)
  /\ list' = SLIST_INSERT_HEAD(list, e)
  /\ UNCHANGED <<var, tvar, walk, visited>>

SlForeach ==
  /\ walk = NULL
  /\ var' = SLIST_FIRST(list) /\ walk' = AsSeq(list) /\ visited' = << >>
  /\ UNCHANGED <<list, tvar>>

(* Mutant: plain SLIST_FOREACH, which reads the link after the body ran.   *)
SlVisitUnsafe ==
  /\ walk # NULL /\ var # NULL
  /\ visited' = Append(visited, var)
  /\ list' \in {list, Forget(SLIST_REMOVE(list, var), var)}
  /\ var' = SLIST_NEXT(list', var)
  /\ UNCHANGED <<tvar, walk>>

(* tvar is read first; then the body runs and may remove the element. *)
SlVisit ==
  /\ walk # NULL /\ var # NULL
  /\ tvar' = SLIST_NEXT(list, var) /\ visited' = Append(visited, var)
  /\ list' \in {list, Forget(SLIST_REMOVE(list, var), var)}
  /\ var' = tvar'
  /\ UNCHANGED walk

SlEnd ==
  /\ walk # NULL /\ var = NULL
  /\ walk' = NULL /\ visited' = << >> /\ tvar' = NULL
  /\ UNCHANGED <<list, var>>

SlNext == (\E e \in Elems : SlInsert(e)) \/ SlForeach \/ SlVisit \/ SlEnd

SlSpec == SlInit /\ [][SlNext]_slVars
-----------------------------------------------------------------------------
Ordered == INSTANCE OrderedList WITH Items <- Elems, items <- AsSeq(list)

(* The links always form the list they should: SLIST_REMOVE takes out its  *)
(* element wherever it is, and loses, repeats or reorders no other.        *)
ImplementsOrderedList == Ordered!OSpec

(* SLIST_FOREACH_SAFE runs its body once for each element that was in the  *)
(* list, in order, whichever of them the body removes.                     *)
WalkVisitsAll == walk # NULL /\ var = NULL => visited = walk
=============================================================================
