---------------------------- MODULE SlistLemmas -----------------------------
(***************************************************************************)
(* What the SLIST macros of server/queue.h do to the set of elements on a  *)
(* list.  Everything follows from Reach being the least set closed under   *)
(* the links.                                                              *)
(***************************************************************************)
EXTENDS SlistOps, TLAPS

(* A list of elements of E; elements are no null pointers. *)
IsList(l, E) ==
  /\ NULL \notin E
  /\ l \in [first : E \cup {NULL}, next : [E -> E \cup {NULL}]]

(* No element has two predecessors, the last one is unique, and the first  *)
(* one has no predecessor: a chain, not a cycle or a rho.                  *)
IsChain(l) ==
  /\ \A c, d \in Reach(l) : l.next[c] = l.next[d] => c = d
  /\ \A c \in Reach(l) : l.next[c] # l.first

(* The links of elements that are not on the list are null. *)
RestUnlinked(l) == \A e \in DOMAIN l.next : e \notin Reach(l) => l.next[e] = NULL

(* The elements on a list are closed under its links, *)
LEMMA ReachClosed ==
  ASSUME NEW E, NEW l, IsList(l, E)
  PROVE  Reach(l) \subseteq E /\ Closed(l, Reach(l))
BY DEF IsList, Reach, Closed

(* and are in every set that is. *)
LEMMA ReachLeast ==
  ASSUME NEW E, NEW l, IsList(l, E), NEW S, S \subseteq E, Closed(l, S)
  PROVE  Reach(l) \subseteq S
BY DEF IsList, Reach

(* A list is empty exactly when slh_first is null. *)
LEMMA ReachEmpty ==
  ASSUME NEW E, NEW l, IsList(l, E)
  PROVE  /\ l.first = NULL => Reach(l) = {}
         /\ l.first # NULL => l.first \in Reach(l)
<1>1. l.first = NULL => Closed(l, {})
  BY DEF Closed
<1>2. l.first = NULL => Reach(l) \subseteq {}
  BY <1>1, ReachLeast
<1>3. l.first # NULL => l.first \in Reach(l)
  BY ReachClosed DEF Closed
<1> QED BY <1>2, <1>3

(* The search loop of SLIST_REMOVE stops: an element that is not the first *)
(* one has a predecessor on the list.                                      *)
LEMMA BeforeExists ==
  ASSUME NEW E, NEW l, IsList(l, E), NEW e \in Reach(l), e # l.first
  PROVE  Before(l, e) \in Reach(l) /\ l.next[Before(l, e)] = e
<1>1. SUFFICES \E c \in Reach(l) : l.next[c] = e
  BY <1>1 DEF Before
<1>2. SUFFICES ASSUME \A c \in Reach(l) : l.next[c] # e
               PROVE  FALSE
  OBVIOUS
<1>3. Closed(l, Reach(l) \ {e})
  BY <1>2, ReachClosed DEF Closed
<1>4. Reach(l) \subseteq Reach(l) \ {e}
  BY <1>3, ReachClosed, ReachLeast
<1> QED BY <1>4

(* On a chain no element is its own successor. *)
LEMMA NoSelfLoop ==
  ASSUME NEW E, NEW l, IsList(l, E), IsChain(l), NEW e \in Reach(l)
  PROVE  l.next[e] # e
<1>1. SUFFICES ASSUME l.next[e] = e
               PROVE  FALSE
  OBVIOUS
<1>2. e # l.first
  BY <1>1 DEF IsChain
<1>3. \A c \in Reach(l) \ {e} : l.next[c] # e
  BY <1>1 DEF IsChain
<1>4. Closed(l, Reach(l) \ {e})
  BY <1>2, <1>3, ReachClosed DEF Closed
<1>5. Reach(l) \subseteq Reach(l) \ {e}
  BY <1>4, ReachClosed, ReachLeast
<1> QED BY <1>5

(* SLIST_INIT gives the empty list. *)
LEMMA InitIsChain ==
  ASSUME NEW E, NULL \notin E
  PROVE  LET l == SLIST_INIT(E)
         IN  IsList(l, E) /\ Reach(l) = {} /\ IsChain(l) /\ RestUnlinked(l)
<1> DEFINE l == SLIST_INIT(E)
<1>1. IsList(l, E) /\ l.first = NULL /\ \A e \in E : l.next[e] = NULL
  BY DEF IsList, SLIST_INIT
<1>2. Reach(l) = {}
  BY <1>1, ReachEmpty
<1>3. RestUnlinked(l)
  BY <1>1 DEF RestUnlinked, IsList
<1> QED BY <1>1, <1>2, <1>3 DEF IsChain

(* SLIST_INSERT_HEAD adds one element, and keeps the chain. *)
LEMMA InsertHead ==
  ASSUME NEW E, NEW l, IsList(l, E), NEW e \in E, e \notin Reach(l)
  PROVE  LET n == SLIST_INSERT_HEAD(l, e)
         IN  /\ IsList(n, E)
             /\ Reach(n) = Reach(l) \cup {e}
             /\ n.first = e
             /\ IsChain(l) => IsChain(n)
             /\ RestUnlinked(l) => RestUnlinked(n)
<1> DEFINE n == SLIST_INSERT_HEAD(l, e)
<1>1. /\ IsList(n, E) /\ n.first = e /\ n.next[e] = l.first
      /\ \A c \in E \ {e} : n.next[c] = l.next[c]
  BY DEF IsList, SLIST_INSERT_HEAD
<1> HIDE DEF n
<1>e. e # NULL /\ l.first # e
  BY ReachEmpty DEF IsList
<1>2. Reach(n) \subseteq Reach(l) \cup {e}
  <2>1. Closed(n, Reach(l) \cup {e})
    BY <1>1, ReachClosed DEF Closed
  <2> QED BY <1>1, <2>1, ReachClosed, ReachLeast
<1>3. Reach(l) \subseteq Reach(n)
  <2>1. Closed(l, Reach(l) \cap Reach(n))
    BY <1>1, <1>e, ReachClosed DEF Closed
  <2>2. Reach(l) \subseteq Reach(l) \cap Reach(n)
    BY <2>1, ReachClosed, ReachLeast
  <2> QED BY <2>2
<1>4. Reach(n) = Reach(l) \cup {e}
  BY <1>1, <1>2, <1>3, <1>e, ReachClosed DEF Closed
<1>5. ASSUME IsChain(l) PROVE IsChain(n)
  <2>1. \A c \in Reach(l) : c # e /\ n.next[c] = l.next[c] /\ n.next[c] # l.first
    BY <1>1, <1>5, ReachClosed DEF IsChain
  <2>2. \A c, d \in Reach(n) : n.next[c] = n.next[d] => c = d
    BY <1>1, <1>4, <1>5, <2>1 DEF IsChain
  <2>3. \A c \in Reach(n) : n.next[c] # e
    BY <1>1, <1>4, <1>e, <2>1, ReachClosed DEF Closed
  <2> QED BY <1>1, <2>2, <2>3 DEF IsChain
<1>6. ASSUME RestUnlinked(l) PROVE RestUnlinked(n)
  BY <1>1, <1>4, <1>6 DEF RestUnlinked, IsList
<1> QED BY <1>1, <1>4, <1>5, <1>6 DEF n

(* The list after an element was removed and freed. *)
Removed(l, e) == Forget(SLIST_REMOVE(l, e), e)

(* SLIST_REMOVE of the first element relinks slh_first, and of another one *)
(* the link of its predecessor.                                            *)
LEMMA RemovedLinks ==
  ASSUME NEW E, NEW l, IsList(l, E), NEW e \in Reach(l)
  PROVE  LET n == Removed(l, e)
             b == Before(l, e)
         IN  /\ IsList(n, E)
             /\ n.next[e] = NULL
             /\ e = l.first =>
                  /\ n.first = l.next[e]
                  /\ \A c \in E \ {e} : n.next[c] = l.next[c]
             /\ e # l.first =>
                  /\ n.first = l.first
                  /\ b \in Reach(l) /\ l.next[b] = e
                  /\ b # e => n.next[b] = l.next[e]
                  /\ \A c \in E \ {e, b} : n.next[c] = l.next[c]
<1>0. e \in E /\ l.next[e] \in E \cup {NULL}
  BY ReachClosed DEF IsList
<1>1. CASE e = l.first
  <2>1. Removed(l, e) = [first |-> l.next[e], next |-> [l.next EXCEPT ![e] = NULL]]
    <3>1. SLIST_REMOVE(l, e) = [l EXCEPT !.first = l.next[e]]
      BY <1>1 DEF SLIST_REMOVE, SLIST_FIRST, SLIST_REMOVE_HEAD
    <3>2. SLIST_REMOVE(l, e) = [first |-> l.next[e], next |-> l.next]
      BY <3>1 DEF IsList
    <3> QED BY <3>2 DEF Removed, Forget
  <2> QED BY <1>0, <1>1, <2>1 DEF IsList
<1>2. CASE e # l.first
  <2> DEFINE b == Before(l, e)
  <2>1. b \in Reach(l) /\ b \in E /\ l.next[b] = e
    BY <1>2, BeforeExists, ReachClosed
  <2> HIDE DEF b
  <2>2. Removed(l, e) = [first |-> l.first,
                         next |-> [l.next EXCEPT ![b] = l.next[e], ![e] = NULL]]
    BY <1>2, <2>1 DEF Removed, Forget, SLIST_REMOVE, SLIST_FIRST, SLIST_REMOVE_AFTER, IsList, b
  <2>3. /\ IsList(Removed(l, e), E)
        /\ Removed(l, e).next[e] = NULL /\ Removed(l, e).first = l.first
        /\ b # e => Removed(l, e).next[b] = l.next[e]
        /\ \A c \in E \ {e, b} : Removed(l, e).next[c] = l.next[c]
    BY <1>0, <2>1, <2>2 DEF IsList
  <2> QED BY <1>2, <2>1, <2>3 DEF b
<1> QED BY <1>1, <1>2

(* Removing an element of a chain takes that element off the list and no   *)
(* other, and leaves a chain.                                              *)
LEMMA RemoveKeepsChain ==
  ASSUME NEW E, NEW l, IsList(l, E), IsChain(l), NEW e \in Reach(l)
  PROVE  LET n == Removed(l, e)
         IN  /\ IsList(n, E)
             /\ Reach(n) = Reach(l) \ {e}
             /\ IsChain(n)
             /\ RestUnlinked(l) => RestUnlinked(n)
<1> DEFINE n == Removed(l, e)
           b == Before(l, e)
           S == Reach(l) \ {e}
<1>0. /\ Reach(l) \subseteq E /\ Closed(l, Reach(l)) /\ e \in E /\ NULL \notin E
      /\ l.next[e] # e /\ S \subseteq E
  BY ReachClosed, NoSelfLoop DEF IsList
<1>1. /\ IsList(n, E) /\ n.next[e] = NULL
      /\ e = l.first =>
           n.first = l.next[e] /\ \A c \in E \ {e} : n.next[c] = l.next[c]
      /\ e # l.first =>
           /\ n.first = l.first /\ b \in Reach(l) /\ l.next[b] = e
           /\ b # e => n.next[b] = l.next[e]
           /\ \A c \in E \ {e, b} : n.next[c] = l.next[c]
  BY RemovedLinks
<1> HIDE DEF n, b
<1>2. e # l.first => b # e
  BY <1>0, <1>1
<1>3. Closed(n, S)
  BY <1>0, <1>1, <1>2 DEF Closed, IsChain
<1>4. Reach(n) \subseteq S
  BY <1>0, <1>1, <1>3, ReachLeast
<1>5. Closed(n, Reach(n)) /\ Reach(n) \subseteq E
  BY <1>1, ReachClosed
<1>6. e # l.first => b \in Reach(n)
  <2>1. SUFFICES ASSUME e # l.first, b \notin Reach(n)
                 PROVE  FALSE
    OBVIOUS
  <2>2. Closed(l, Reach(n))
    BY <1>1, <1>4, <1>5, <2>1 DEF Closed
  <2>3. Reach(l) \subseteq Reach(n)
    BY <1>5, <2>2, ReachLeast
  <2> QED BY <1>1, <2>1, <2>3
<1>7. Closed(l, Reach(n) \cup {e})
  BY <1>0, <1>1, <1>2, <1>4, <1>5, <1>6 DEF Closed
<1>8. Reach(n) = S
  <2>1. Reach(l) \subseteq Reach(n) \cup {e}
    BY <1>0, <1>5, <1>7, ReachLeast
  <2> QED BY <1>4, <2>1
<1>9. IsChain(n)
  <2>1. CASE e = l.first
    BY <1>0, <1>1, <1>8, <2>1 DEF IsChain
  <2>2. CASE e # l.first
    <3>1. \A c \in S : n.next[c] = IF c = b THEN l.next[e] ELSE l.next[c]
      BY <1>0, <1>1, <1>2, <2>2
    <3>2. \A c, d \in S : n.next[c] = n.next[d] => c = d
      BY <3>1 DEF IsChain
    <3>3. \A c \in S : n.next[c] # n.first
      BY <1>1, <2>2, <3>1 DEF IsChain
    <3> QED BY <1>8, <3>2, <3>3 DEF IsChain
  <2> QED BY <2>1, <2>2
<1>10. ASSUME RestUnlinked(l) PROVE RestUnlinked(n)
  <2>1. ASSUME NEW c \in E, c \notin Reach(n), c # e
        PROVE  n.next[c] = NULL
    BY <1>0, <1>1, <1>8, <1>10, <2>1 DEF RestUnlinked, IsList
  <2> QED BY <1>1, <2>1 DEF RestUnlinked, IsList
<1> QED BY <1>1, <1>8, <1>9, <1>10 DEF n
=============================================================================
