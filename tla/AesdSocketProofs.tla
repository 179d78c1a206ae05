-------------------------- MODULE AesdSocketProofs --------------------------
(***************************************************************************)
(* Proofs about the threads of server/aesdsocket.c, for every number of    *)
(* connections, every set of received chunks and every set of failures     *)
(* except where a theorem names one.                                       *)
(***************************************************************************)
EXTENDS AesdSocketProperties, SlistLemmas, WellFoundedInduction

-----------------------------------------------------------------------------
(* The inductive invariant, in parts.  These hold whatever fails.          *)

(* The timestamp thread is started by listen, that of a connection after   *)
(* it was accepted.                                                        *)
ThreadStarts ==
  /\ \A c \in Conns : conn[c].sock \in {"none", "pending"} => pc[c] = "none"
  /\ pc["main"] \in {"startup", "socket", "bind", "listen"} => pc["ts"] = "none"
  /\ pc["main"] \in {"create", "add"} => client \in Conns
  /\ pc["main"] = "create" =>
       pc[client] = "none" /\ conn[client].sock = "open"

(* A thread starts to send at the place its request has put the file to,   *)
(* and has sent the records between there and where it is, or their        *)
(* beginnings.                                                             *)
RecordSent(c, l, i) ==
  LET e == conn[c].echoed[i]
      r == RecordFrom(l, conn[c].from, i)
  IN  IF conn[c].short THEN IsPrefix(e, r) ELSE e = r

SentSoFar(c) ==
  LET d == conn[c] IN
  /\ pc[c] \in {"none", "fopen", "recv", "lock", "locked"} =>
       d.pos = Start /\ d.from = Start /\ d.echoed = << >> /\ ~d.short
  /\ pc[c] = "echo" /\ process = "running" =>
       /\ d.from.cmd + Len(d.echoed) = d.pos.cmd /\ d.pos.cmd <= Len(data.log)
       /\ d.pos.off = IF Len(d.echoed) = 0 THEN d.from.off ELSE 0
       /\ \A i \in 1..Len(d.echoed) : RecordSent(c, data.log, i)

EchoSoFar == \A c \in Conns : SentSoFar(c)

(* A message has at most one newline, at its end, and none while more is   *)
(* to be received.                                                         *)
LineSoFar(c) ==
  LET m == conn[c].message IN
  /\ \A i \in 1 .. Len(m) - 1 : m[i] # Newline
  /\ pc[c] \in {"none", "fopen"} => m = << >>
  /\ pc[c] \in {"none", "fopen", "recv"} => ~HasNewline(m) /\ ~conn[c].gone

OneLine == \A c \in Conns : LineSoFar(c)

(* As long as fwrite succeeds: the line of a connector that is sending is  *)
(* the end of the last one in the file, and it sends from the beginning if *)
(* the file accepts a rewind.                                              *)
LastIsOwn(c) ==
  LET m == conn[c].message IN
  pc[c] = "echo" /\ process = "running" /\ SeekTokens(m) = {} =>
    /\ (UseCharDevice => data.size >= 0) => conn[c].from = Start
    /\ HasNewline(m) => Len(data.log) > 0 /\ IsSuffix(m, data.log[Len(data.log)])

OwnLineLast == \A c \in Conns : LastIsOwn(c)

(* As long as signals interrupt no recv: a message has its newline, or its *)
(* client is gone.                                                         *)
WholeLine ==
  \A c \in Conns :
    pc[c] \in {"lock", "locked", "echo"} => (conn[c].gone <=> ~HasNewline(conn[c].message))

(* As long as only the main thread cleans up, *)
MainCleansUp == \A p \in Procs \ {"main"} : pc[p] \notin {"clean", "clean_join"}

(* the list is a chain of threads to be joined, of exactly those if        *)
(* add_node never fails, *)
ListHoldsThreads ==
  /\ IsChain(head) /\ RestUnlinked(head)
  /\ \A c \in Nodes : conn[c].arg = "live" /\ c \notin joined /\ pc[c] # "none"
  /\ pc["main"] \in {"create", "add"} => client \notin Nodes /\ conn[client].arg = "live"
  /\ pc["main"] = "add" => client \notin joined /\ pc[client] # "none"
  /\ \A c \in Conns :
       /\ c \in joined => pc[c] = "exited"
       /\ pc[c] = "exited" => conn[c].sock = "closed"
       /\ conn[c].sock = "open" => conn[c].arg = "live"
       /\ "node" \notin Faults =>
            /\ pc[c] # "none" /\ c \notin joined => c \in Nodes \/ (pc["main"] = "add" /\ client = c)
            /\ conn[c].arg = "live" => c \in Nodes \/ (pc["main"] \in {"create", "add"} /\ client = c)

(* the cursors of SLIST_FOREACH_SAFE are on the list, and cleanup always   *)
(* removes the first node, *)
CursorsOnList ==
  LET c == cur["main"] IN
  /\ pc["main"] \in {"scan", "clean"} => c \in Nodes \cup {NULL}
  /\ pc["main"] \in {"join", "clean_join"} => c \in Nodes /\ tmp["main"] = SLIST_NEXT(head, c)
  /\ pc["main"] \in {"clean", "clean_join"} => c = SLIST_FIRST(head)

(* and the socket is open until cleanup closes it. *)
SocketOpen ==
  process = "running" /\ pc["main"] \notin {"startup", "socket"} /\ ~failed => sockfd = "open"
-----------------------------------------------------------------------------
(* Facts about the operators of the model.                                 *)

(* A non-empty set of numbers has a least one. *)
LEMMA LeastNumber ==
  ASSUME NEW S, S \subseteq Nat, S # {}
  PROVE  \E i \in S : \A j \in S : i <= j
<1>1. \E i \in S : \A j \in S : ~(<<j, i>> \in OpToRel(<, Nat))
  BY WFMin, NatLessThanWellFounded
<1>2. PICK i \in S : \A j \in S : ~(<<j, i>> \in OpToRel(<, Nat))
  BY <1>1
<1>3. \A j \in Nat : j < i => <<j, i>> \in OpToRel(<, Nat)
  BY DEF OpToRel
<1>4. \A j \in S : ~(j < i)
  BY <1>2, <1>3, Zenon
<1>5. i \in Nat /\ \A j \in S : i <= j
  BY <1>4, SMT
<1> QED BY <1>5

(* memchr finds the first newline of a chunk. *)
LEMMA NewlineAtIsFirst ==
  ASSUME NEW d \in Seq(Tokens), HasNewline(d)
  PROVE  /\ NewlineAt(d) \in 1..Len(d) /\ d[NewlineAt(d)] = Newline
         /\ \A j \in 1 .. NewlineAt(d) - 1 : d[j] # Newline
<1> DEFINE S == {i \in 1..Len(d) : d[i] = Newline}
<1>1. S \subseteq Nat /\ S # {}
  BY DEF HasNewline
<1>2. PICK i \in S : \A j \in S : i <= j
  <2> HIDE DEF S
  <2> QED BY <1>1, LeastNumber
<1>3. i \in 1..Len(d) /\ d[i] = Newline /\ \A j \in 1 .. i - 1 : d[j] # Newline
  BY <1>2
<1> QED BY <1>3 DEF NewlineAt

(* What is kept of a chunk has at most one newline, at its end; it has one *)
(* exactly when the chunk has.                                             *)
LEMMA ChunkIsLine ==
  ASSUME NEW d \in Chunks
  PROVE  /\ Chunk(d) \in Seq(Tokens) /\ Len(Chunk(d)) > 0
         /\ \A i \in 1 .. Len(Chunk(d)) - 1 : Chunk(d)[i] # Newline
         /\ HasNewline(d) <=> Chunk(d)[Len(Chunk(d))] = Newline
<1>1. d \in Seq(Tokens) /\ Len(d) > 0
  BY ServerAssumption
<1>2. CASE HasNewline(d)
  <2> DEFINE n == NewlineAt(d)
  <2>1. n \in 1..Len(d) /\ d[n] = Newline /\ \A j \in 1 .. n - 1 : d[j] # Newline
    BY <1>1, <1>2, NewlineAtIsFirst
  <2>2. Chunk(d) = SubSeq(d, 1, n)
    BY <1>2 DEF Chunk
  <2> HIDE DEF n
  <2>3. Chunk(d) \in Seq(Tokens) /\ Len(Chunk(d)) = n /\ \A i \in 1..n : Chunk(d)[i] = d[i]
    BY <1>1, <2>1, <2>2
  <2> QED BY <1>2, <2>1, <2>3
<1>3. CASE ~HasNewline(d)
  <2>1. Chunk(d) = d /\ \A i \in 1..Len(d) : d[i] # Newline
    BY <1>3 DEF Chunk, HasNewline
  <2> QED BY <1>1, <1>3, <2>1
<1> QED BY <1>2, <1>3

(* A write leaves a file of lines. *)
LEMMA FileWriteType ==
  ASSUME NEW f \in FileRecord, NEW m \in Seq(Tokens)
  PROVE  FileWrite(f, m) \in FileRecord
<1>1. f.log \in Seq(Seq(Tokens)) /\ f.partial \in Seq(Tokens) /\ f.size \in Int
  BY DEF FileRecord
<1>2. f.partial \o m \in Seq(Tokens) /\ << >> \in Seq(Tokens)
  BY <1>1
<1>3. Len(f.log) >= MaxOps => Tail(f.log) \in Seq(Seq(Tokens))
  BY <1>1, ServerAssumption
<1>4. Append(IF Len(f.log) >= MaxOps THEN Tail(f.log) ELSE f.log, f.partial \o m) \in Seq(Seq(Tokens))
  BY <1>1, <1>2, <1>3
<1>5. f.size - (IF Len(f.log) >= MaxOps THEN Len(f.partial \o m) ELSE 0) + Len(m) \in Int
  BY <1>1, <1>2
<1>6. Append(f.log, m) \in Seq(Seq(Tokens))
  BY <1>1
<1>7. CASE ~UseCharDevice
  BY <1>6, <1>7 DEF FileWrite, FileRecord
<1>8. CASE UseCharDevice /\ m[Len(m)] # Newline
  BY <1>2, <1>8 DEF FileWrite, FileRecord
<1>9. CASE UseCharDevice /\ m[Len(m)] = Newline
  BY <1>2, <1>4, <1>5, <1>9 DEF FileWrite, FileRecord
<1> QED BY <1>7, <1>8, <1>9

(* strstr finds the first seek command of a message. *)
LEMMA FirstSeekIsFirst ==
  ASSUME NEW m \in Seq(Tokens), SeekTokens(m) # {}
  PROVE  FirstSeek(m) \in SeekTokens(m) /\ \A j \in SeekTokens(m) : FirstSeek(m) <= j
<1>1. SeekTokens(m) \subseteq Nat
  BY DEF SeekTokens
<1>2. \E i \in SeekTokens(m) : \A j \in SeekTokens(m) : i <= j
  BY <1>1, LeastNumber
<1> QED BY <1>2 DEF FirstSeek

(* A seek leaves the file at a byte that is there, or at its beginning. *)
LEMMA SeekPlaceType ==
  ASSUME NEW m \in Seq(Tokens), SeekTokens(m) # {}, data \in FileRecord
  PROVE  SeekPlace(m) \in [cmd : Nat, off : Nat] /\ SeekPlace(m).cmd <= Len(data.log)
<1> DEFINE t == SeekTarget[m[FirstSeek(m)]]
<1>1. m[FirstSeek(m)] \in DOMAIN SeekTarget
  BY FirstSeekIsFirst DEF SeekTokens
<1>2. t \in [cmd : Nat, off : Nat] /\ Len(data.log) \in Nat
  BY <1>1, ServerAssumption DEF FileRecord
<1>3. Start \in [cmd : Nat, off : Nat] /\ Start.cmd = 0
  BY DEF Start
<1>4. SeekPlace(m) = Start \/ (SeekPlace(m) = t /\ t.cmd < Len(data.log))
  BY DEF SeekPlace
<1> HIDE DEF t
<1> QED BY <1>2, <1>3, <1>4

(* So does a rewind, which may leave it behind the last byte. *)
LEMMA RewindPlaceType ==
  ASSUME NEW f \in FileRecord, NEW n, NEW at \in RewindPlaces(f, n)
  PROVE  at \in [cmd : Nat, off : Nat] /\ at.cmd <= Len(f.log)
<1>1. f.log \in Seq(Seq(Tokens)) /\ Len(f.log) \in Nat
  BY DEF FileRecord
<1>2. CASE at = Start
  BY <1>1, <1>2 DEF Start
<1>3. CASE at \in Places(f.log)
  <2>1. CASE at = [cmd |-> Len(f.log), off |-> 0]
    BY <1>1, <2>1
  <2>2. ASSUME NEW k \in 0 .. Len(f.log) - 1, at \in [cmd : {k}, off : 0 .. Len(f.log[k + 1]) - 1]
        PROVE  at \in [cmd : Nat, off : Nat] /\ at.cmd <= Len(f.log)
    BY <1>1, <2>2
  <2> QED BY <1>3, <2>1, <2>2 DEF Places
<1> QED BY <1>2, <1>3 DEF RewindPlaces

-----------------------------------------------------------------------------
(* Types. *)

TypeInv == TypeOK /\ ThreadStarts

(* What no step of an answer changes: the other connections, and of its    *)
(* own what the rest of the server looks at.                               *)
SameSession(c) ==
  /\ \A d \in Conns \ {c} : conn'[d] = conn[d]
  /\ conn'[c].sock = conn[c].sock /\ conn'[c].arg = conn[c].arg
  /\ conn'[c].finished = conn[c].finished /\ conn'[c].gone = conn[c].gone
  /\ conn'[c].message = conn[c].message

(* A write or a seek leaves the file at a place where the answer starts. *)
LEMMA AnswerFrom ==
  ASSUME TypeInv, NEW c \in Conns, WriteMessage(c) \/ SeekMessage(c)
  PROVE  /\ FileTypes' /\ ConnTypes' /\ SameSession(c)
         /\ conn'[c].pos = conn'[c].from /\ conn'[c].pos.cmd <= Len(data'.log)
         /\ conn'[c].echoed = conn[c].echoed /\ conn'[c].short = conn[c].short
         /\ WriteMessage(c) => conn'[c].from \in RewindPlaces(data', Len(conn[c].message))
<1> DEFINE m == conn[c].message
<1>0. ConnTypes /\ FileTypes /\ conn[c] \in ConnRecord /\ data \in FileRecord /\ m \in Seq(Tokens)
  BY DEF TypeInv, TypeOK, FileTypes, ConnTypes, ConnRecord
<1>1. FileTypes'
  <2>1. CASE WriteMessage(c)
    BY <1>0, <2>1, FileWriteType DEF WriteMessage, FileTypes
  <2>2. CASE SeekMessage(c)
    BY <1>0, <2>2 DEF SeekMessage, FileTypes, file
  <2> QED BY <2>1, <2>2
<1>2. \E at \in [cmd : Nat, off : Nat] :
        /\ ReadsFrom(c, at) /\ at.cmd <= Len(data'.log)
        /\ WriteMessage(c) => at \in RewindPlaces(data', Len(m))
  <2>1. CASE WriteMessage(c)
    <3>1. PICK at \in RewindPlaces(data', Len(m)) : ReadsFrom(c, at)
      BY <2>1 DEF WriteMessage
    <3>2. at \in [cmd : Nat, off : Nat] /\ at.cmd <= Len(data'.log)
      BY <1>1, <3>1, RewindPlaceType DEF FileTypes
    <3> QED BY <3>1, <3>2
  <2>2. CASE SeekMessage(c)
    <3>1. /\ SeekTokens(m) # {} /\ ReadsFrom(c, SeekPlace(m)) /\ data' = data
      BY <2>2 DEF SeekMessage, file
    <3>2. SeekPlace(m) \in [cmd : Nat, off : Nat] /\ SeekPlace(m).cmd <= Len(data.log)
      BY <1>0, <3>1, SeekPlaceType
    <3>3. ~WriteMessage(c)
      BY <3>1 DEF WriteMessage
    <3> QED BY <3>1, <3>2, <3>3
  <2> QED BY <2>1, <2>2
<1>3. PICK at \in [cmd : Nat, off : Nat] :
        /\ ReadsFrom(c, at) /\ at.cmd <= Len(data'.log)
        /\ WriteMessage(c) => at \in RewindPlaces(data', Len(m))
  BY <1>2
<1>4. conn' = [conn EXCEPT ![c] = [conn[c] EXCEPT !.pos = at, !.from = at]]
  BY <1>0, <1>3 DEF ReadsFrom, ConnTypes
<1>5. [conn[c] EXCEPT !.pos = at, !.from = at] \in ConnRecord
  BY <1>0, <1>3 DEF ConnRecord
<1>6. ConnTypes'
  BY <1>0, <1>4, <1>5 DEF ConnTypes
<1>7. conn'[c] = [conn[c] EXCEPT !.pos = at, !.from = at] /\ \A d \in Conns \ {c} : conn'[d] = conn[d]
  BY <1>0, <1>4 DEF ConnTypes
<1>8. /\ conn'[c].sock = conn[c].sock /\ conn'[c].arg = conn[c].arg
      /\ conn'[c].finished = conn[c].finished /\ conn'[c].gone = conn[c].gone
      /\ conn'[c].message = conn[c].message /\ conn'[c].pos = at /\ conn'[c].from = at
      /\ conn'[c].echoed = conn[c].echoed /\ conn'[c].short = conn[c].short
  BY <1>0, <1>7 DEF ConnRecord
<1> QED BY <1>1, <1>3, <1>6, <1>7, <1>8 DEF SameSession

(* A send, complete or cut. *)
Sent(c) == Echo(c) \/ SendFails(c) \/ (c \in SignalTargets /\ SignalCutsSend(c))

LEMMA SentIsSend ==
  ASSUME TypeInv, NEW c \in Conns, Sent(c)
  PROVE  /\ \E n \in Int : Sends(c, n) /\ (n = Left(c) \/ n \in 0 .. Left(c) - 1)
         /\ exit_requested' \in BOOLEAN /\ signals' \in Nat
<1>1. conn[c].pos \in [cmd : Nat, off : Nat] /\ data.log \in Seq(Seq(Tokens))
  BY DEF TypeInv, TypeOK, ConnTypes, ConnRecord, FileTypes, FileRecord
<1>2. exit_requested \in BOOLEAN /\ signals \in Nat
  BY DEF TypeInv, TypeOK, SetupTypes
<1>3. conn[c].pos.cmd < Len(data.log)
  BY DEF Sent, Echo, SendFails, SignalCutsSend, SendCut, Sends
<1>4. Left(c) \in Int
  <2>1. data.log[conn[c].pos.cmd + 1] \in Seq(Tokens) /\ conn[c].pos.off \in Nat
    BY <1>1, <1>3
  <2> DEFINE r == data.log[conn[c].pos.cmd + 1]
  <2>2. Left(c) = Len(r) - conn[c].pos.off
    BY DEF Left
  <2> HIDE DEF r
  <2>3. Len(r) \in Nat
    BY SMTT(40), <2>1 DEF r
  <2> QED BY <2>1, <2>2, <2>3
<1>5. Echo(c) \/ SendCut(c)
  BY DEF Sent, SendFails, SignalCutsSend
<1>6. CASE Echo(c)
  BY <1>2, <1>4, <1>6 DEF Echo, sig
<1>7. CASE SendCut(c)
  <2>1. \E n \in 0 .. Left(c) - 1 : Sends(c, n)
    BY <1>7 DEF SendCut
  <2>2. \E n \in Int : Sends(c, n) /\ (n = Left(c) \/ n \in 0 .. Left(c) - 1)
    BY <1>4, <2>1
  <2>3. UNCHANGED sig \/ HandlesSignal(c)
    BY DEF Sent, Echo, SendFails, SignalCutsSend
  <2>4. exit_requested' \in BOOLEAN
    BY Zenon, <1>2, <2>3 DEF HandlesSignal, sig
  <2>5. signals' \in Nat
    BY <1>2, <2>3 DEF HandlesSignal, sig
  <2> QED BY <2>2, <2>4, <2>5
<1> QED BY <1>5, <1>6, <1>7

(* It changes nothing but what the connector has sent. *)
LEMMA SentFrame ==
  ASSUME TypeInv, NEW c \in Conns, Sent(c)
  PROVE  /\ process = "running" /\ pc[c] = "echo" /\ UNCHANGED <<process, pc, setup, list, file>>
         /\ ConnTypes' /\ SameSession(c) /\ conn'[c].from = conn[c].from
<1> DEFINE at == conn[c].pos
           r == data.log[at.cmd + 1]
<1>0. /\ ConnTypes /\ conn[c] \in ConnRecord /\ pc \in [Procs -> MainLabels \cup TimestampLabels \cup ConnectorLabels]
      /\ data.log \in Seq(Seq(Tokens)) /\ at \in [cmd : Nat, off : Nat] /\ c \in Procs
      /\ conn[c].echoed \in Seq(Seq(Tokens)) /\ conn[c].short \in BOOLEAN
  BY DEF TypeInv, TypeOK, ControlTypes, ConnTypes, ConnRecord, FileTypes, FileRecord, Procs
<1>1. PICK n \in Int : Sends(c, n) /\ (n = Left(c) \/ n \in 0 .. Left(c) - 1)
  BY SentIsSend
<1>2. /\ process = "running" /\ pc[c] = "echo" /\ UNCHANGED <<process, pc, setup, list, file>>
      /\ at.cmd < Len(data.log)
  BY <1>0, <1>1 DEF Sends, Step, At, Goto
<1>3. r \in Seq(Tokens) /\ Left(c) = Len(r) - at.off
  BY <1>0, <1>2 DEF Left
<1> DEFINE x == SubSeq(r, at.off + 1, at.off + n)
           new == [conn[c] EXCEPT !.echoed = Append(@, x), !.pos = [cmd |-> at.cmd + 1, off |-> 0],
                                  !.short = @ \/ n < Left(c)]
<1>4. conn' = [conn EXCEPT ![c] = new]
  BY <1>0, <1>1 DEF Sends, ConnTypes
<1>5. new \in ConnRecord
  <2>0. at.off \in Nat /\ at.cmd \in Nat /\ Len(r) \in Nat
    BY SMTT(40), <1>0, <1>3
  <2>1. at.off \in Nat /\ at.cmd \in Nat /\ at.off + n <= Len(r)
    <3> HIDE DEF r, at
    <3> QED BY <1>1, <1>3, <2>0
  <2>2. x \in Seq(Tokens)
    <3> HIDE DEF r, at
    <3> QED BY <1>1, <1>3, <2>1
  <2> HIDE DEF x
  <2>3. Append(conn[c].echoed, x) \in Seq(Seq(Tokens)) /\ [cmd |-> at.cmd + 1, off |-> 0] \in [cmd : Nat, off : Nat]
    BY <1>0, <2>1, <2>2
  <2>4. (conn[c].short \/ n < Left(c)) \in BOOLEAN
    BY <1>0, Zenon
  <2> QED BY <1>0, <2>3, <2>4 DEF ConnRecord
<1> HIDE DEF new
<1>6. ConnTypes' /\ conn'[c] = new /\ \A d \in Conns \ {c} : conn'[d] = conn[d]
  BY <1>0, <1>4, <1>5 DEF ConnTypes
<1>7. /\ new.sock = conn[c].sock /\ new.arg = conn[c].arg /\ new.finished = conn[c].finished
      /\ new.gone = conn[c].gone /\ new.message = conn[c].message /\ new.from = conn[c].from
  BY <1>0 DEF new, ConnRecord
<1> QED BY <1>2, <1>6, <1>7 DEF SameSession

(* Every step keeps every variable in its type.  What is not obvious: the  *)
(* element SLIST_REMOVE looks for has a predecessor, so the link it writes *)
(* is that of a node; what a write leaves is a file; and a seek leaves a   *)
(* position in it.                                                         *)
LEMMA TypesStep ==
  ASSUME TypeInv, Next
  PROVE  TypeOK'
<1> USE DEF Procs, At, Goto, Step, Ends, setup, sig, list, file,
            MainLabels, TimestampLabels, ConnectorLabels
<1>0. /\ ControlTypes /\ SetupTypes /\ ListTypes /\ ConnTypes /\ FileTypes /\ ThreadStarts
      /\ {"main", "ts"} \cap Conns = {}
  BY ServerAssumption DEF TypeInv, TypeOK
<1>1. ASSUME NEW p \in Procs, cur[p] \in Nodes, RemoveNode(cur[p])
      PROVE  IsList(head', Conns) /\ ConnTypes'
  <2>1. IsList(head, Conns) /\ cur[p] \in Conns /\ cur[p] \in Reach(head)
    BY <1>0, <1>1, ReachClosed, ServerAssumption DEF Nodes, IsList, ListTypes
  <2>2. head' = Removed(head, cur[p]) /\ conn' = [conn EXCEPT ![cur[p]].arg = "freed"]
    BY <1>1 DEF RemoveNode, Removed
  <2>3. IsList(head', Conns)
    BY <2>1, <2>2, RemovedLinks
  <2>4. ConnTypes'
    BY ZenonT(60), <1>0, <2>1, <2>2 DEF ConnTypes, ConnRecord
  <2> QED BY <2>3, <2>4
<1>2. CASE MainStep
  <2>1. CASE Startup
    BY <1>0, <2>1 DEF Startup, TypeOK, ControlTypes, SetupTypes, ListTypes,
      ConnTypes, FileTypes
  <2>2. CASE CreateSocket
    BY <1>0, <2>2 DEF CreateSocket, TypeOK, ControlTypes, SetupTypes,
      ListTypes, ConnTypes, FileTypes
  <2>3. CASE Bind
    BY <1>0, <2>3 DEF Bind, TypeOK, ControlTypes, SetupTypes, ListTypes,
      ConnTypes, FileTypes
  <2>4. CASE Listen
    BY <1>0, <2>4 DEF Listen, TypeOK, ControlTypes, SetupTypes, ListTypes,
      ConnTypes, FileTypes
  <2>5. CASE TestExit
    <3>1. ControlTypes'
      BY <1>0, <2>5 DEF TestExit, EnterCleanup, SLIST_FIRST, ControlTypes
    <3>2. ListTypes'
      BY <1>0, <2>5 DEF TestExit, EnterCleanup, SLIST_FIRST, ListTypes
    <3> QED BY <1>0, <2>5, <3>1, <3>2 DEF TypeOK, TestExit, SetupTypes,
      ConnTypes, FileTypes, EnterCleanup
  <2>6. CASE CallAccept
    BY <1>0, <2>6 DEF CallAccept, TypeOK, ControlTypes, SetupTypes, ListTypes,
      ConnTypes, FileTypes
  <2>7. ASSUME NEW c \in Conns, Accept(c) PROVE TypeOK'
    <3>1. ControlTypes'
      BY <1>0, <2>7 DEF Accept, ControlTypes
    <3>2. conn' = [conn EXCEPT ![c] = [conn[c] EXCEPT !.sock = "open", !.arg =
      "live"]]
      BY <1>0, <2>7 DEF Accept, ConnTypes
    <3>3. [conn[c] EXCEPT !.sock = "open", !.arg = "live"] \in ConnRecord
      BY <1>0 DEF ConnTypes, ConnRecord
    <3>4. ConnTypes'
      BY <1>0, <3>2, <3>3 DEF ConnTypes
    <3> QED BY <1>0, <2>7, <3>1, <3>4 DEF TypeOK, Accept, SetupTypes,
      ListTypes, FileTypes
  <2>8. CASE CreateThread
    <3>1. ControlTypes'
      BY <1>0, <2>8 DEF CreateThread, ThreadStarts, ControlTypes
    <3> QED BY <1>0, <2>8, <3>1 DEF TypeOK, CreateThread, SetupTypes,
      ListTypes, ConnTypes, FileTypes
  <2>9. CASE AddNode
    BY <1>0, <2>9 DEF AddNode, ThreadStarts, SLIST_INSERT_HEAD, TypeOK,
      ControlTypes, SetupTypes, ListTypes, ConnTypes, FileTypes
  <2>10. CASE ScanVisits
    <3>1. ControlTypes'
      BY <1>0, <2>10 DEF ScanVisits, SLIST_NEXT, Nodes, Reach, ControlTypes
    <3>2. ListTypes'
      BY <1>0, <2>10 DEF ScanVisits, SLIST_NEXT, Nodes, Reach, ListTypes
    <3> QED BY <1>0, <2>10, <3>1, <3>2 DEF TypeOK, ScanVisits, SetupTypes,
      ConnTypes, FileTypes
  <2>11. CASE ScanEnds
    BY <1>0, <2>11 DEF ScanEnds, TypeOK, ControlTypes, SetupTypes, ListTypes,
      ConnTypes, FileTypes
  <2>12. CASE JoinAndRemove("main", "join", "scan")
    <3>1. IsList(head', Conns) /\ ConnTypes' /\ cur["main"] \in Conns
      BY <1>0, <1>1, <2>12, ReachClosed, ServerAssumption DEF JoinAndRemove, Nodes, IsList, ListTypes
    <3>2. ControlTypes'
      BY <1>0, <2>12 DEF JoinAndRemove, ControlTypes
    <3>3. ListTypes'
      BY <1>0, <2>12, <3>1 DEF JoinAndRemove, ListTypes, IsList
    <3> QED BY <1>0, <2>12, <3>1, <3>2, <3>3 DEF TypeOK, JoinAndRemove, SetupTypes, FileTypes
  <2> QED
    BY <1>2, <2>1, <2>2, <2>3, <2>4, <2>5, <2>6, <2>7, <2>8, <2>9, <2>10,
      <2>11, <2>12 DEF MainStep
<1>3. ASSUME NEW p \in Procs, CleanupStep(p) PROVE TypeOK'
  <2>1. CASE CleanVisits(p)
    BY <1>0, <2>1 DEF CleanVisits, SLIST_NEXT, Nodes, Reach, TypeOK,
      ControlTypes, SetupTypes, ListTypes, ConnTypes, FileTypes
  <2>2. CASE CleanupEnds(p)
    <3>1. data' \in FileRecord
      <4>1. << >> \in Seq(Seq(Tokens)) /\ data \in FileRecord
        BY <1>0 DEF FileTypes
      <4>2. [data EXCEPT !.log = << >>] \in FileRecord
        BY <4>1 DEF FileRecord
      <4>3. data' = data \/ data' = [data EXCEPT !.log = << >>]
        BY <2>2 DEF CleanupEnds
      <4> QED BY <4>1, <4>2, <4>3
    <3> QED BY <1>0, <2>2, <3>1 DEF CleanupEnds, TypeOK, ControlTypes, SetupTypes, ListTypes,
      ConnTypes, FileTypes
  <2>3. CASE JoinAndRemove(p, "clean_join", "clean")
    <3>1. IsList(head', Conns) /\ ConnTypes' /\ cur[p] \in Conns
      BY <1>0, <1>1, <2>3, ReachClosed, ServerAssumption DEF JoinAndRemove, Nodes, IsList, ListTypes
    <3>2. ControlTypes'
      BY <1>0, <2>3 DEF JoinAndRemove, ControlTypes
    <3>3. ListTypes'
      BY <1>0, <2>3, <3>1 DEF JoinAndRemove, ListTypes, IsList
    <3> QED BY <1>0, <2>3, <3>1, <3>2, <3>3 DEF TypeOK, JoinAndRemove, SetupTypes, FileTypes
  <2> QED
    BY <1>3, <2>1, <2>2, <2>3 DEF CleanupStep
<1>4. CASE TimestampStep
  <2>1. CASE TimestampOpens
    BY <1>0, <2>1 DEF TimestampOpens, TypeOK, ControlTypes, SetupTypes,
      ListTypes, ConnTypes, FileTypes
  <2>2. CASE TimestampTests
    <3>1. ControlTypes'
      BY <1>0, <2>2 DEF TimestampTests, ControlTypes
    <3> QED BY <1>0, <2>2, <3>1 DEF TypeOK, TimestampTests, SetupTypes,
      ListTypes, ConnTypes, FileTypes
  <2>3. CASE TimestampWakes
    BY <1>0, <2>3 DEF TimestampWakes, TypeOK, ControlTypes, SetupTypes,
      ListTypes, ConnTypes, FileTypes
  <2>4. CASE TimestampLocks
    BY <1>0, <2>4 DEF TimestampLocks, TypeOK, ControlTypes, SetupTypes,
      ListTypes, ConnTypes, FileTypes
  <2>5. CASE TimestampWrites
    <3>1. ControlTypes'
      BY <1>0, <2>5 DEF TimestampWrites, ControlTypes
    <3>2. FileTypes'
      BY <1>0, <2>5, FileWriteType, ServerAssumption DEF TimestampWrites,
        FileTypes
    <3> QED BY <1>0, <2>5, <3>1, <3>2 DEF TypeOK, TimestampWrites, SetupTypes,
      ListTypes, ConnTypes
  <2> QED
    BY <1>4, <2>1, <2>2, <2>3, <2>4, <2>5 DEF TimestampStep
<1>5. ASSUME NEW c \in Conns, ConnectorStep(c) PROVE TypeOK'
  <2>1. CASE ConnectorOpens(c)
    BY <1>0, <2>1 DEF ConnectorOpens, TypeOK, ControlTypes, SetupTypes,
      ListTypes, ConnTypes, FileTypes
  <2>2. CASE Lock(c)
    BY <1>0, <2>2 DEF Lock, TypeOK, ControlTypes, SetupTypes, ListTypes,
      ConnTypes, FileTypes
  <2>3. CASE WriteMessage(c)
    <3>1. ControlTypes'
      BY <1>0, <2>3 DEF WriteMessage, ControlTypes
    <3> QED BY <1>0, <2>3, <3>1, AnswerFrom DEF TypeOK, WriteMessage, SetupTypes, ListTypes
  <2>4. CASE SeekMessage(c)
    <3>1. ControlTypes'
      BY <1>0, <2>4 DEF SeekMessage, ControlTypes
    <3> QED BY <1>0, <2>4, <3>1, AnswerFrom DEF TypeOK, SeekMessage, SetupTypes, ListTypes
  <2>5. CASE SeekWithoutComma(c)
    BY <1>0, <2>5 DEF SeekWithoutComma, TypeOK, ControlTypes, SetupTypes,
      ListTypes, ConnTypes, FileTypes
  <2>6. CASE TouchesFreedArg(c)
    BY <1>0, <2>6 DEF TouchesFreedArg, TypeOK, ControlTypes, SetupTypes, ListTypes, ConnTypes,
      FileTypes
  <2>7. CASE Unlock(c)
    <3>1. ControlTypes'
      BY <1>0, <2>7 DEF Unlock, ControlTypes
    <3>2. conn' = [conn EXCEPT ![c] = [conn[c] EXCEPT !.message = << >>, !.gone = FALSE,
                     !.pos = Start, !.from = Start, !.echoed = << >>, !.short = FALSE]]
      BY <1>0, <2>7 DEF Unlock, DropsMessage, ConnTypes
    <3>3. Start \in [cmd : Nat, off : Nat] /\ << >> \in Seq(Tokens) /\ << >> \in Seq(Seq(Tokens))
      BY DEF Start
    <3>4. [conn[c] EXCEPT !.message = << >>, !.gone = FALSE, !.pos = Start, !.from = Start,
             !.echoed = << >>, !.short = FALSE] \in ConnRecord
      BY ZenonT(60), <1>0, <3>3 DEF ConnTypes, ConnRecord
    <3>5. ConnTypes'
      BY <1>0, <3>2, <3>4 DEF ConnTypes
    <3> QED BY <1>0, <2>7, <3>1, <3>5 DEF TypeOK, Unlock, SetupTypes, ListTypes, FileTypes
  <2>8. CASE Finish(c)
    <3>1. ControlTypes'
      BY <1>0, <2>8 DEF Finish, ControlTypes
    <3>2. ConnTypes'
      BY ZenonT(40), <1>0, <2>8 DEF Finish, ConnTypes, ConnRecord
    <3> QED BY <1>0, <2>8, <3>1, <3>2 DEF TypeOK, Finish, SetupTypes,
      ListTypes, FileTypes
  <2>9. CASE Close(c)
    <3>1. ControlTypes'
      BY <1>0, <2>9 DEF Close, ControlTypes
    <3>2. ConnTypes'
      BY ZenonT(40), <1>0, <2>9 DEF Close, ConnTypes, ConnRecord
    <3> QED BY <1>0, <2>9, <3>1, <3>2 DEF TypeOK, Close, SetupTypes,
      ListTypes, FileTypes
  <2> QED
    BY <1>5, <2>1, <2>2, <2>3, <2>4, <2>5, <2>6, <2>7, <2>8, <2>9 DEF
      ConnectorStep
<1>6. ASSUME NEW c \in Conns, RecvEnds(c) \/ (\E d \in Chunks : RecvChunk(c, d)) \/ Connect(c) PROVE TypeOK'
  <2>1. CASE RecvEnds(c)
    <3>1. ControlTypes'
      BY <1>0, <2>1 DEF RecvEnds, AfterRecv, ControlTypes
    <3>2. ConnTypes'
      BY ZenonT(40), <1>0, <2>1 DEF RecvEnds, AfterRecv, ConnTypes, ConnRecord
    <3> QED BY <1>0, <2>1, <3>1, <3>2 DEF TypeOK, RecvEnds, SetupTypes,
      ListTypes, FileTypes
  <2>2. ASSUME NEW d \in Chunks, RecvChunk(c, d) PROVE TypeOK'
    <3>1. ControlTypes'
      BY <1>0, <2>2 DEF RecvChunk, ControlTypes
    <3>2. conn[c].message \o Chunk(d) \in Seq(Tokens)
      BY <1>0, ChunkIsLine DEF ConnTypes, ConnRecord
    <3>3. ConnTypes'
      BY ZenonT(40), <1>0, <2>2, <3>2 DEF RecvChunk, ConnTypes, ConnRecord
    <3> QED BY <1>0, <2>2, <3>1, <3>3 DEF TypeOK, RecvChunk, SetupTypes,
      ListTypes, FileTypes
  <2>3. CASE Connect(c)
    <3>1. ConnTypes'
      BY ZenonT(40), <1>0, <2>3 DEF Connect, ConnTypes, ConnRecord
    <3> QED BY <1>0, <2>3, <3>1 DEF TypeOK, Connect, ControlTypes, SetupTypes,
      ListTypes, FileTypes
  <2> QED
    BY <1>6, <2>1, <2>2, <2>3
<1>7. ASSUME NEW c \in Conns, Sent(c) PROVE TypeOK'
  BY <1>0, <1>7, SentIsSend, SentFrame DEF TypeOK, ControlTypes, SetupTypes, ListTypes, FileTypes
<1>8. CASE Fault
  <2>1. CASE StartupFails
    BY <1>0, <2>1 DEF StartupFails, TypeOK, ControlTypes, SetupTypes,
      ListTypes, ConnTypes, FileTypes
  <2>2. CASE BindRetry
    BY <1>0, <2>2 DEF BindRetry, TypeOK, ControlTypes, SetupTypes, ListTypes,
      ConnTypes, FileTypes
  <2>3. CASE SetupFails
    BY <1>0, <2>3 DEF SetupFails, EnterCleanup, SLIST_FIRST, TypeOK,
      ControlTypes, SetupTypes, ListTypes, ConnTypes, FileTypes
  <2>4. CASE TimestampNotStarted
    BY <1>0, <2>4 DEF TimestampNotStarted, TypeOK, ControlTypes, SetupTypes,
      ListTypes, ConnTypes, FileTypes
  <2>5. CASE AcceptFails
    <3>1. ControlTypes'
      BY ZenonT(40), <1>0, <2>5 DEF AcceptFails, EnterCleanup, SLIST_FIRST, ControlTypes
    <3>2. ListTypes'
      BY <1>0, <2>5 DEF AcceptFails, EnterCleanup, SLIST_FIRST, ListTypes
    <3> QED BY <1>0, <2>5, <3>1, <3>2 DEF TypeOK, AcceptFails, SetupTypes,
      ConnTypes, FileTypes, EnterCleanup
  <2>6. CASE CreateThreadFails
    <3>1. ControlTypes'
      BY <1>0, <2>6 DEF CreateThreadFails, ControlTypes
    <3>2. client \in Conns
      BY <1>0, <2>6 DEF CreateThreadFails, ThreadStarts
    <3>3. conn' = [conn EXCEPT ![client] = [conn[client] EXCEPT !.arg =
      "freed", !.sock = "closed"]]
      BY <1>0, <2>6, <3>2 DEF CreateThreadFails, ConnTypes
    <3>4. [conn[client] EXCEPT !.arg = "freed", !.sock = "closed"] \in
      ConnRecord
      BY <1>0, <3>2 DEF ConnTypes, ConnRecord
    <3>5. ConnTypes'
      BY <1>0, <3>2, <3>3, <3>4 DEF ConnTypes
    <3> QED BY <1>0, <2>6, <3>1, <3>5 DEF TypeOK, CreateThreadFails,
      SetupTypes, ListTypes, FileTypes
  <2>7. CASE AddNodeFails
    BY <1>0, <2>7 DEF AddNodeFails, SLIST_FIRST, TypeOK, ControlTypes,
      SetupTypes, ListTypes, ConnTypes, FileTypes
  <2>8. ASSUME NEW c \in Conns, AcceptNoMemory(c) PROVE TypeOK'
    <3>1. ControlTypes'
      BY <1>0, <2>8 DEF AcceptNoMemory, ControlTypes
    <3>2. ConnTypes'
      BY ZenonT(60), <1>0, <2>8 DEF AcceptNoMemory, ConnTypes, ConnRecord
    <3> QED BY <1>0, <2>8, <3>1, <3>2 DEF TypeOK, AcceptNoMemory, SetupTypes,
      ListTypes, FileTypes
  <2>9. ASSUME NEW c \in Conns, ReallocFails(c) PROVE TypeOK'
    <3>1. ControlTypes'
      BY <1>0, <2>9 DEF ReallocFails, ControlTypes
    <3> QED BY <1>0, <2>9, <3>1 DEF TypeOK, ReallocFails, SetupTypes,
      ListTypes, ConnTypes, FileTypes
  <2>10. ASSUME NEW c \in Conns, WriteMessageFails(c) PROVE TypeOK'
    BY <1>0, <2>10 DEF WriteMessageFails, TypeOK, ControlTypes, SetupTypes,
      ListTypes, ConnTypes, FileTypes
  <2>11. ASSUME NEW c \in Conns, SigPipe(c) PROVE TypeOK'
    BY <1>0, <2>11 DEF SigPipe, TypeOK, ControlTypes, SetupTypes, ListTypes,
      ConnTypes, FileTypes
  <2>12. ASSUME NEW p \in Procs, FopenFails(p) PROVE TypeOK'
    BY <1>0, <2>12 DEF FopenFails, EnterCleanup, SLIST_FIRST, TypeOK,
      ControlTypes, SetupTypes, ListTypes, ConnTypes, FileTypes
  <2>13. ASSUME NEW p \in Procs, TouchesFreedNode(p) PROVE TypeOK'
    BY <1>0, <2>13 DEF TouchesFreedNode, TypeOK, ControlTypes, SetupTypes,
      ListTypes, ConnTypes, FileTypes
  <2>14. ASSUME NEW c \in Conns, SendFails(c) PROVE TypeOK'
    BY <1>7, <2>14 DEF Sent
  <2> QED
    BY <1>8, <2>1, <2>2, <2>3, <2>4, <2>5, <2>6, <2>7, <2>8, <2>9, <2>10,
      <2>11, <2>12, <2>13, <2>14 DEF Fault
<1>9. ASSUME NEW p \in SignalTargets, signal_handler(p) PROVE TypeOK'
  <2>0. p \in Procs
    BY ServerAssumption
  <2>1. ControlTypes'
    BY <1>0, <1>9, <2>0 DEF signal_handler, HandlesSignal, EnterCleanup, SLIST_FIRST,
      AfterRecv, ControlTypes
  <2>2. SetupTypes'
    BY <1>0, <1>9, <2>0 DEF signal_handler, HandlesSignal, EnterCleanup, SLIST_FIRST,
      AfterRecv, SetupTypes
  <2>3. ListTypes'
    BY <1>0, <1>9, <2>0 DEF signal_handler, HandlesSignal, EnterCleanup, SLIST_FIRST,
      AfterRecv, ListTypes
  <2> QED
    BY <1>0, <1>9, <2>1, <2>2, <2>3 DEF TypeOK, signal_handler, EnterCleanup, ConnTypes, FileTypes
<1> QED
  BY <1>2, <1>3, <1>4, <1>5, <1>6, <1>7, <1>8, <1>9 DEF Next, Sent
-----------------------------------------------------------------------------
(* Who touches what.                                                       *)

(* A step of c's own thread that says something of c, *)
OwnStep(c) ==
  \/ ConnectorStep(c) \/ Sent(c) \/ RecvEnds(c) \/ (\E d \in Chunks : RecvChunk(c, d))
  \/ ReallocFails(c) \/ WriteMessageFails(c) \/ FopenFails(c)
  \/ c \in SignalTargets /\ signal_handler(c)
  \/ CleanVisits(c) \/ JoinAndRemove(c, "clean_join", "clean")

(* and a step of somebody else that does. *)
StepAbout(c) ==
  \/ Accept(c) \/ AcceptNoMemory(c) \/ Connect(c)
  \/ client = c /\ (CreateThread \/ CreateThreadFails)
  \/ cur["main"] = c /\ JoinAndRemove("main", "join", "scan")
  \/ \E p \in Procs : cur[p] = c /\ JoinAndRemove(p, "clean_join", "clean")

(* The label and the record of a connection change in no other step. *)
LEMMA OthersUntouched ==
  ASSUME TypeInv, Next, NEW c \in Conns
  PROVE  (pc'[c] = pc[c] /\ conn'[c] = conn[c]) \/ OwnStep(c) \/ StepAbout(c)
<1> USE DEF Procs, At, Goto, Step, Ends, setup, sig, list, file
<1> DEFINE Same == pc'[c] = pc[c] /\ conn'[c] = conn[c]
           Goal == Same \/ OwnStep(c) \/ StepAbout(c)
<1>0. /\ ControlTypes /\ ListTypes /\ ConnTypes
      /\ {"main", "ts"} \cap Conns = {}
  BY ServerAssumption DEF TypeInv, TypeOK
<1>1. CASE MainStep
  <2>1. CASE Startup
    BY <1>0, <2>1 DEF Startup, ControlTypes, ConnTypes, OwnStep, StepAbout,
      ConnectorStep
  <2>2. CASE CreateSocket
    BY <1>0, <2>2 DEF CreateSocket, ControlTypes, ConnTypes, OwnStep, StepAbout,
      ConnectorStep
  <2>3. CASE Bind
    BY <1>0, <2>3 DEF Bind, ControlTypes, ConnTypes, OwnStep, StepAbout,
      ConnectorStep
  <2>4. CASE Listen
    BY <1>0, <2>4 DEF Listen, ControlTypes, ConnTypes, OwnStep, StepAbout,
      ConnectorStep
  <2>5. CASE TestExit
    BY <1>0, <2>5 DEF TestExit, EnterCleanup, ControlTypes, ConnTypes, OwnStep,
      StepAbout, ConnectorStep
  <2>6. CASE CallAccept
    BY <1>0, <2>6 DEF CallAccept, ControlTypes, ConnTypes, OwnStep, StepAbout,
      ConnectorStep
  <2>7. ASSUME NEW d \in Conns, Accept(d) PROVE Goal
    BY <1>0, <2>7 DEF Accept, ControlTypes, ConnTypes, OwnStep, StepAbout,
      ConnectorStep
  <2>8. CASE CreateThread
    BY <1>0, <2>8 DEF CreateThread, ControlTypes, ConnTypes, OwnStep, StepAbout,
      ConnectorStep
  <2>9. CASE AddNode
    BY <1>0, <2>9 DEF AddNode, ControlTypes, ConnTypes, OwnStep, StepAbout,
      ConnectorStep
  <2>10. CASE ScanVisits
    BY <1>0, <2>10 DEF ScanVisits, ControlTypes, ConnTypes, OwnStep, StepAbout,
      ConnectorStep
  <2>11. CASE ScanEnds
    BY <1>0, <2>11 DEF ScanEnds, ControlTypes, ConnTypes, OwnStep, StepAbout,
      ConnectorStep
  <2>12. CASE JoinAndRemove("main", "join", "scan")
    BY <1>0, <2>12 DEF JoinAndRemove, RemoveNode, ControlTypes, ConnTypes,
      OwnStep, StepAbout, ConnectorStep
  <2> QED BY <1>1, <2>1, <2>2, <2>3, <2>4, <2>5, <2>6, <2>7, <2>8, <2>9, <2>10,
    <2>11, <2>12 DEF MainStep
<1>2. ASSUME NEW p \in Procs, CleanupStep(p) PROVE Goal
  <2>1. CASE CleanVisits(p)
    BY <1>0, <2>1 DEF CleanVisits, ControlTypes, ConnTypes, OwnStep, StepAbout,
      ConnectorStep
  <2>2. CASE JoinAndRemove(p, "clean_join", "clean")
    <3>1. CASE p = c
      BY <2>2, <3>1 DEF OwnStep
    <3>2. CASE cur[p] = c
      BY <2>2, <3>2 DEF StepAbout
    <3>3. CASE p # c /\ cur[p] # c
      BY <1>0, <2>2, <3>3 DEF JoinAndRemove, RemoveNode, ControlTypes, ConnTypes
    <3> QED BY <3>1, <3>2, <3>3
  <2>3. CASE CleanupEnds(p)
    BY <1>0, <2>3 DEF CleanupEnds, ControlTypes, ConnTypes, OwnStep, StepAbout,
      ConnectorStep
  <2> QED BY <1>2, <2>1, <2>2, <2>3 DEF CleanupStep
<1>3. CASE TimestampStep
  <2>1. CASE TimestampOpens
    BY <1>0, <2>1 DEF TimestampOpens, ControlTypes, ConnTypes, OwnStep,
      StepAbout, ConnectorStep
  <2>2. CASE TimestampTests
    BY <1>0, <2>2 DEF TimestampTests, ControlTypes, ConnTypes, OwnStep,
      StepAbout, ConnectorStep
  <2>3. CASE TimestampWakes
    BY <1>0, <2>3 DEF TimestampWakes, ControlTypes, ConnTypes, OwnStep,
      StepAbout, ConnectorStep
  <2>4. CASE TimestampLocks
    BY <1>0, <2>4 DEF TimestampLocks, ControlTypes, ConnTypes, OwnStep,
      StepAbout, ConnectorStep
  <2>5. CASE TimestampWrites
    BY <1>0, <2>5 DEF TimestampWrites, ControlTypes, ConnTypes, OwnStep,
      StepAbout, ConnectorStep
  <2> QED BY <1>3, <2>1, <2>2, <2>3, <2>4, <2>5 DEF TimestampStep
<1>4. ASSUME NEW d \in Conns, ConnectorStep(d) PROVE Goal
  <2>1. CASE ConnectorOpens(d)
    BY <1>0, <2>1 DEF ConnectorOpens, ControlTypes, ConnTypes, OwnStep,
      StepAbout, ConnectorStep
  <2>2. CASE Lock(d)
    BY <1>0, <2>2 DEF Lock, ControlTypes, ConnTypes, OwnStep, StepAbout,
      ConnectorStep
  <2>3. CASE WriteMessage(d)
    BY ZenonT(40), <1>0, AnswerFrom, <2>3 DEF WriteMessage, SameSession, ControlTypes, ConnTypes, OwnStep, StepAbout,
      ConnectorStep
  <2>4. CASE SeekMessage(d)
    BY ZenonT(40), <1>0, AnswerFrom, <2>4 DEF SeekMessage, SameSession, ControlTypes, ConnTypes, OwnStep, StepAbout,
      ConnectorStep
  <2>5. CASE SeekWithoutComma(d)
    BY <1>0, <2>5 DEF SeekWithoutComma, ControlTypes, ConnTypes, OwnStep,
      StepAbout, ConnectorStep
  <2>6. CASE TouchesFreedArg(d)
    BY <1>0, <2>6 DEF TouchesFreedArg, ControlTypes, ConnTypes, OwnStep, StepAbout,
      ConnectorStep
  <2>7. CASE Unlock(d)
    BY <1>0, <2>7 DEF Unlock, DropsMessage, ControlTypes, ConnTypes, OwnStep, StepAbout,
      ConnectorStep
  <2>8. CASE Finish(d)
    BY <1>0, <2>8 DEF Finish, ControlTypes, ConnTypes, OwnStep, StepAbout,
      ConnectorStep
  <2>9. CASE Close(d)
    BY <1>0, <2>9 DEF Close, ControlTypes, ConnTypes, OwnStep, StepAbout,
      ConnectorStep
  <2> QED BY <1>4, <2>1, <2>2, <2>3, <2>4, <2>5, <2>6, <2>7, <2>8, <2>9 DEF
    ConnectorStep
<1>5. ASSUME NEW d \in Conns, RecvEnds(d) \/ (\E s \in Chunks : RecvChunk(d, s))
  \/ Connect(d) PROVE Goal
  <2>1. CASE RecvEnds(d)
    BY <1>0, <2>1 DEF RecvEnds, ControlTypes, ConnTypes, OwnStep, StepAbout,
      ConnectorStep
  <2>2. ASSUME NEW s \in Chunks, RecvChunk(d, s) PROVE Goal
    <3>1. CASE d = c
      BY <2>2, <3>1 DEF OwnStep
    <3>2. CASE d # c
      BY <1>0, <2>2, <3>2 DEF RecvChunk, ControlTypes, ConnTypes
    <3> QED BY <3>1, <3>2
  <2>3. CASE Connect(d)
    BY <1>0, <2>3 DEF Connect, ControlTypes, ConnTypes, OwnStep, StepAbout,
      ConnectorStep
  <2> QED BY <1>5, <2>1, <2>2, <2>3
<1>6. ASSUME NEW d \in Conns, Sent(d) PROVE Goal
  BY <1>0, <1>6, SentFrame DEF SameSession, OwnStep
<1>7. CASE Fault
  <2>1. CASE StartupFails
    BY <1>0, <2>1 DEF StartupFails, ControlTypes, ConnTypes, OwnStep, StepAbout,
      ConnectorStep
  <2>2. CASE BindRetry
    BY <1>0, <2>2 DEF BindRetry, ControlTypes, ConnTypes, OwnStep, StepAbout,
      ConnectorStep
  <2>3. CASE SetupFails
    BY <1>0, <2>3 DEF SetupFails, EnterCleanup, ControlTypes, ConnTypes,
      OwnStep, StepAbout, ConnectorStep
  <2>4. CASE TimestampNotStarted
    BY <1>0, <2>4 DEF TimestampNotStarted, ControlTypes, ConnTypes, OwnStep,
      StepAbout, ConnectorStep
  <2>5. CASE AcceptFails
    BY <1>0, <2>5 DEF AcceptFails, EnterCleanup, ControlTypes, ConnTypes,
      OwnStep, StepAbout, ConnectorStep
  <2>6. CASE CreateThreadFails
    BY <1>0, <2>6 DEF CreateThreadFails, ControlTypes, ConnTypes, OwnStep,
      StepAbout, ConnectorStep
  <2>7. CASE AddNodeFails
    BY <1>0, <2>7 DEF AddNodeFails, ControlTypes, ConnTypes, OwnStep, StepAbout,
      ConnectorStep
  <2>8. ASSUME NEW d \in Conns, AcceptNoMemory(d) PROVE Goal
    BY <1>0, <2>8 DEF AcceptNoMemory, ControlTypes, ConnTypes, OwnStep,
      StepAbout, ConnectorStep
  <2>9. ASSUME NEW d \in Conns, ReallocFails(d) PROVE Goal
    BY <1>0, <2>9 DEF ReallocFails, ControlTypes, ConnTypes, OwnStep, StepAbout,
      ConnectorStep
  <2>10. ASSUME NEW d \in Conns, WriteMessageFails(d) PROVE Goal
    BY <1>0, <2>10 DEF WriteMessageFails, ControlTypes, ConnTypes, OwnStep,
      StepAbout, ConnectorStep
  <2>11. ASSUME NEW d \in Conns, SigPipe(d) PROVE Goal
    BY <1>0, <2>11 DEF SigPipe, ControlTypes, ConnTypes, OwnStep, StepAbout,
      ConnectorStep
  <2>12. ASSUME NEW p \in Procs, FopenFails(p) PROVE Goal
    BY <1>0, <2>12 DEF FopenFails, EnterCleanup, ControlTypes, ConnTypes,
      OwnStep, StepAbout, ConnectorStep
  <2>13. ASSUME NEW p \in Procs, TouchesFreedNode(p) PROVE Goal
    BY <1>0, <2>13 DEF TouchesFreedNode, ControlTypes, ConnTypes, OwnStep,
      StepAbout, ConnectorStep
  <2>14. ASSUME NEW d \in Conns, SendFails(d) PROVE Goal
    BY <1>6, <2>14 DEF Sent
  <2> QED BY <1>7, <2>1, <2>2, <2>3, <2>4, <2>5, <2>6, <2>7, <2>8, <2>9, <2>10,
    <2>11, <2>12, <2>13, <2>14 DEF Fault
<1>8. ASSUME NEW p \in SignalTargets, signal_handler(p) PROVE Goal
  BY <1>0, <1>8 DEF signal_handler, HandlesSignal, EnterCleanup, ControlTypes, ConnTypes,
    OwnStep, StepAbout, ConnectorStep
<1> QED BY <1>1, <1>2, <1>3, <1>4, <1>5, <1>6, <1>7, <1>8 DEF Next, Sent

(* A thread between locking and unlocking file_mutex. *)
InSection(p) == pc[p] \in {"locked", "echo", "ts_write"}

SameSections(S) == \A p \in S : InSection(p)' <=> InSection(p)

(* file_mutex changes hands only as a thread enters the section when it is *)
(* free, or leaves it.                                                     *)
LEMMA SectionMoves ==
  ASSUME TypeInv, Next
  PROVE  \/ mutex' = mutex /\ SameSections(Procs)
         \/ \E p \in Procs :
              mutex = NULL /\ mutex' = p /\ InSection(p)' /\ SameSections(Procs \ {p})
         \/ \E p \in Procs :
              mutex' = NULL /\ InSection(p) /\ ~InSection(p)' /\ SameSections(Procs \ {p})
<1> USE DEF Procs, At, Goto, Step, Ends, setup, sig, list, file, SameSections, InSection
<1> DEFINE Goal ==
             \/ mutex' = mutex /\ SameSections(Procs)
             \/ \E p \in Procs :
                  mutex = NULL /\ mutex' = p /\ InSection(p)' /\ SameSections(Procs \ {p})
             \/ \E p \in Procs :
                  mutex' = NULL /\ InSection(p) /\ ~InSection(p)' /\ SameSections(Procs \ {p})
<1>0. ControlTypes /\ ThreadStarts /\ {"main", "ts"} \cap Conns = {}
  BY ServerAssumption DEF TypeInv, TypeOK
<1>1. CASE MainStep
  <2>1. CASE Startup
    BY <1>0, <2>1 DEF Startup, ControlTypes
  <2>2. CASE CreateSocket
    BY <1>0, <2>2 DEF CreateSocket, ControlTypes
  <2>3. CASE Bind
    BY <1>0, <2>3 DEF Bind, ControlTypes
  <2>4. CASE Listen
    BY <1>0, <2>4 DEF Listen, ThreadStarts, ControlTypes
  <2>5. CASE TestExit
    BY <1>0, <2>5 DEF TestExit, EnterCleanup, ControlTypes
  <2>6. CASE CallAccept
    BY <1>0, <2>6 DEF CallAccept, ControlTypes
  <2>7. ASSUME NEW d \in Conns, Accept(d) PROVE Goal
    BY <1>0, <2>7 DEF Accept, ControlTypes
  <2>8. CASE CreateThread
    BY <1>0, <2>8 DEF CreateThread, ThreadStarts, ControlTypes
  <2>9. CASE AddNode
    BY <1>0, <2>9 DEF AddNode, ControlTypes
  <2>10. CASE ScanVisits
    BY <1>0, <2>10 DEF ScanVisits, ControlTypes
  <2>11. CASE ScanEnds
    BY <1>0, <2>11 DEF ScanEnds, ControlTypes
  <2>12. CASE JoinAndRemove("main", "join", "scan")
    BY <1>0, <2>12 DEF JoinAndRemove, RemoveNode, ControlTypes
  <2> QED BY <1>1, <2>1, <2>2, <2>3, <2>4, <2>5, <2>6, <2>7, <2>8, <2>9, <2>10,
    <2>11, <2>12 DEF MainStep
<1>2. ASSUME NEW p \in Procs, CleanupStep(p) PROVE Goal
  <2>1. CASE CleanVisits(p)
    BY <1>0, <2>1 DEF CleanVisits, ControlTypes
  <2>2. CASE JoinAndRemove(p, "clean_join", "clean")
    BY <1>0, <2>2 DEF JoinAndRemove, RemoveNode, ControlTypes
  <2>3. CASE CleanupEnds(p)
    BY <1>0, <2>3 DEF CleanupEnds, ControlTypes
  <2> QED BY <1>2, <2>1, <2>2, <2>3 DEF CleanupStep
<1>3. CASE TimestampStep
  <2>1. CASE TimestampOpens
    BY <1>0, <2>1 DEF TimestampOpens, ControlTypes
  <2>2. CASE TimestampTests
    BY <1>0, <2>2 DEF TimestampTests, ControlTypes
  <2>3. CASE TimestampWakes
    BY <1>0, <2>3 DEF TimestampWakes, ControlTypes
  <2>4. CASE TimestampLocks
    BY <1>0, <2>4 DEF TimestampLocks, ControlTypes
  <2>5. CASE TimestampWrites
    BY <1>0, <2>5 DEF TimestampWrites, ControlTypes
  <2> QED BY <1>3, <2>1, <2>2, <2>3, <2>4, <2>5 DEF TimestampStep
<1>4. ASSUME NEW d \in Conns, ConnectorStep(d) PROVE Goal
  <2>1. CASE ConnectorOpens(d)
    BY <1>0, <2>1 DEF ConnectorOpens, ControlTypes
  <2>2. CASE Lock(d)
    BY <1>0, <2>2 DEF Lock, ControlTypes
  <2>3. CASE WriteMessage(d)
    BY <1>0, AnswerFrom, <2>3 DEF WriteMessage, SameSession, ControlTypes
  <2>4. CASE SeekMessage(d)
    BY <1>0, AnswerFrom, <2>4 DEF SeekMessage, SameSession, ControlTypes
  <2>5. CASE SeekWithoutComma(d)
    BY <1>0, <2>5 DEF SeekWithoutComma, ControlTypes
  <2>6. CASE TouchesFreedArg(d)
    BY <1>0, <2>6 DEF TouchesFreedArg, ControlTypes
  <2>7. CASE Unlock(d)
    BY <1>0, <2>7 DEF Unlock, DropsMessage, ControlTypes
  <2>8. CASE Finish(d)
    BY <1>0, <2>8 DEF Finish, ControlTypes
  <2>9. CASE Close(d)
    BY <1>0, <2>9 DEF Close, ControlTypes
  <2> QED BY <1>4, <2>1, <2>2, <2>3, <2>4, <2>5, <2>6, <2>7, <2>8, <2>9 DEF
    ConnectorStep
<1>5. ASSUME NEW d \in Conns, RecvEnds(d) \/ (\E s \in Chunks : RecvChunk(d, s))
  \/ Connect(d) PROVE Goal
  <2>1. CASE RecvEnds(d)
    BY <1>0, <2>1 DEF RecvEnds, AfterRecv, ControlTypes
  <2>2. ASSUME NEW s \in Chunks, RecvChunk(d, s) PROVE Goal
    BY <1>0, <2>2 DEF RecvChunk, ControlTypes
  <2>3. CASE Connect(d)
    BY <1>0, <2>3 DEF Connect, ControlTypes
  <2> QED BY <1>5, <2>1, <2>2, <2>3
<1>6. ASSUME NEW d \in Conns, Sent(d) PROVE Goal
  BY <1>0, <1>6, SentFrame DEF SameSession, SameSections, InSection
<1>7. CASE Fault
  <2>1. CASE StartupFails
    BY <1>0, <2>1 DEF StartupFails, ControlTypes
  <2>2. CASE BindRetry
    BY <1>0, <2>2 DEF BindRetry, ControlTypes
  <2>3. CASE SetupFails
    BY <1>0, <2>3 DEF SetupFails, EnterCleanup, ControlTypes
  <2>4. CASE TimestampNotStarted
    BY <1>0, <2>4 DEF TimestampNotStarted, ControlTypes
  <2>5. CASE AcceptFails
    BY <1>0, <2>5 DEF AcceptFails, EnterCleanup, ControlTypes
  <2>6. CASE CreateThreadFails
    BY <1>0, <2>6 DEF CreateThreadFails, ControlTypes
  <2>7. CASE AddNodeFails
    BY <1>0, <2>7 DEF AddNodeFails, ControlTypes
  <2>8. ASSUME NEW d \in Conns, AcceptNoMemory(d) PROVE Goal
    BY <1>0, <2>8 DEF AcceptNoMemory, ControlTypes
  <2>9. ASSUME NEW d \in Conns, ReallocFails(d) PROVE Goal
    BY <1>0, <2>9 DEF ReallocFails, ControlTypes
  <2>10. ASSUME NEW d \in Conns, WriteMessageFails(d) PROVE Goal
    BY <1>0, <2>10 DEF WriteMessageFails, ControlTypes
  <2>11. ASSUME NEW d \in Conns, SigPipe(d) PROVE Goal
    BY <1>0, <2>11 DEF SigPipe, ControlTypes
  <2>12. ASSUME NEW p \in Procs, FopenFails(p) PROVE Goal
    BY <1>0, <2>12 DEF FopenFails, EnterCleanup, ControlTypes
  <2>13. ASSUME NEW p \in Procs, TouchesFreedNode(p) PROVE Goal
    BY <1>0, <2>13 DEF TouchesFreedNode, ControlTypes
  <2>14. ASSUME NEW d \in Conns, SendFails(d) PROVE Goal
    BY <1>6, <2>14 DEF Sent
  <2> QED BY <1>7, <2>1, <2>2, <2>3, <2>4, <2>5, <2>6, <2>7, <2>8, <2>9, <2>10,
    <2>11, <2>12, <2>13, <2>14 DEF Fault
<1>8. ASSUME NEW p \in SignalTargets, signal_handler(p) PROVE Goal
  BY <1>0, <1>8, ServerAssumption DEF signal_handler, HandlesSignal, EnterCleanup, AfterRecv,
    ControlTypes
<1> QED BY <1>1, <1>2, <1>3, <1>4, <1>5, <1>6, <1>7, <1>8 DEF Next, Sent

(* While the process runs the file is written to only by a thread that is  *)
(* in the section and not yet sending.                                     *)
LEMMA WritersInSection ==
  ASSUME TypeInv, Next, data' # data, process' = "running"
  PROVE  \/ TimestampWrites
         \/ \E c \in Conns : WriteMessage(c)
<1> USE DEF Procs, At, Goto, Step, Ends, setup, sig, list, file
<1>0. SUFFICES ASSUME ~TimestampWrites, \A c \in Conns : ~WriteMessage(c)
               PROVE  FALSE
  OBVIOUS
<1>1. ASSUME MainStep PROVE FALSE
  BY <1>0, <1>1 DEF MainStep, Startup, CreateSocket, Bind, Listen, TestExit,
    EnterCleanup, CallAccept, Accept, CreateThread, AddNode, ScanVisits,
    ScanEnds, JoinAndRemove, RemoveNode
<1>2. ASSUME NEW p \in Procs, CleanupStep(p) PROVE FALSE
  BY <1>0, <1>2 DEF CleanupStep, CleanVisits, JoinAndRemove, RemoveNode,
    CleanupEnds
<1>3. ASSUME TimestampStep PROVE FALSE
  BY <1>0, <1>3 DEF TimestampStep, TimestampOpens, TimestampTests,
    TimestampWakes, TimestampLocks, TimestampWrites
<1>4. ASSUME NEW d \in Conns, ConnectorStep(d) PROVE FALSE
  BY <1>0, <1>4 DEF ConnectorStep, ConnectorOpens, Lock, WriteMessage,
    SeekMessage, SeekWithoutComma, TouchesFreedArg, Unlock, Finish, Close
<1>5. ASSUME NEW d \in Conns, RecvEnds(d) \/ (\E s \in Chunks : RecvChunk(d, s))
  \/ Connect(d) PROVE FALSE
  BY <1>0, <1>5 DEF RecvEnds, RecvChunk, Connect
<1>6. ASSUME NEW d \in Conns, Sent(d) PROVE FALSE
  BY <1>0, <1>6, SentFrame DEF SameSession, file
<1>7. ASSUME Fault PROVE FALSE
  BY <1>0, <1>6, <1>7 DEF Fault, StartupFails, BindRetry, SetupFails, EnterCleanup,
    TimestampNotStarted, AcceptFails, CreateThreadFails, AddNodeFails,
    AcceptNoMemory, ReallocFails, WriteMessageFails, SigPipe, FopenFails,
    TouchesFreedNode, Sent
<1>8. ASSUME NEW p \in SignalTargets, signal_handler(p) PROVE FALSE
  BY <1>0, <1>8 DEF signal_handler, HandlesSignal, EnterCleanup
<1> QED BY <1>1, <1>2, <1>3, <1>4, <1>5, <1>6, <1>7, <1>8 DEF Next, Sent
-----------------------------------------------------------------------------
(* What holds whatever fails.                                              *)

(* Threads start in order: only pthread_create takes a thread from none.   *)
LEMMA StartsStep ==
  ASSUME TypeInv, Next
  PROVE  ThreadStarts'
<1> USE DEF Procs, At, Goto, Step, Ends, setup, sig, list, file, MainLabels
<1>0. ControlTypes /\ ConnTypes /\ ThreadStarts /\ {"main", "ts"} \cap Conns = {}
  BY ServerAssumption DEF TypeInv, TypeOK
<1>1. CASE MainStep
  <2>1. CASE Startup
    BY <1>0, <2>1 DEF Startup, ControlTypes, ConnTypes, ConnRecord, ThreadStarts
  <2>2. CASE CreateSocket
    BY <1>0, <2>2 DEF CreateSocket, ControlTypes, ConnTypes, ConnRecord,
      ThreadStarts
  <2>3. CASE Bind
    BY <1>0, <2>3 DEF Bind, ControlTypes, ConnTypes, ConnRecord, ThreadStarts
  <2>4. CASE Listen
    BY <1>0, <2>4 DEF Listen, ControlTypes, ConnTypes, ConnRecord, ThreadStarts
  <2>5. CASE TestExit
    BY ZenonT(40), <1>0, <2>5 DEF TestExit, EnterCleanup, ControlTypes, ConnTypes,
      ConnRecord, ThreadStarts
  <2>6. CASE CallAccept
    BY <1>0, <2>6 DEF CallAccept, ControlTypes, ConnTypes, ConnRecord,
      ThreadStarts
  <2>7. ASSUME NEW d \in Conns, Accept(d) PROVE ThreadStarts'
    BY <1>0, <2>7 DEF Accept, ControlTypes, ConnTypes, ConnRecord, ThreadStarts
  <2>8. CASE CreateThread
    BY <1>0, <2>8 DEF CreateThread, ControlTypes, ConnTypes, ConnRecord,
      ThreadStarts
  <2>9. CASE AddNode
    BY <1>0, <2>9 DEF AddNode, ControlTypes, ConnTypes, ConnRecord, ThreadStarts
  <2>10. CASE ScanVisits
    BY ZenonT(40), <1>0, <2>10 DEF ScanVisits, ControlTypes, ConnTypes, ConnRecord,
      ThreadStarts
  <2>11. CASE ScanEnds
    BY <1>0, <2>11 DEF ScanEnds, ControlTypes, ConnTypes, ConnRecord,
      ThreadStarts
  <2>12. CASE JoinAndRemove("main", "join", "scan")
    BY <1>0, <2>12 DEF JoinAndRemove, RemoveNode, ControlTypes, ConnTypes,
      ConnRecord, ThreadStarts
  <2> QED BY <1>1, <2>1, <2>2, <2>3, <2>4, <2>5, <2>6, <2>7, <2>8, <2>9, <2>10,
    <2>11, <2>12 DEF MainStep
<1>2. ASSUME NEW p \in Procs, CleanupStep(p) PROVE ThreadStarts'
  <2>1. CASE CleanVisits(p)
    BY <1>0, <2>1 DEF CleanVisits, ControlTypes, ConnTypes, ConnRecord,
      ThreadStarts
  <2>2. CASE JoinAndRemove(p, "clean_join", "clean")
    <3>1. /\ pc' = [pc EXCEPT ![p] = "clean"] /\ pc[p] = "clean_join"
          /\ conn' = [conn EXCEPT ![cur[p]].arg = "freed"]
          /\ client' = client
      BY <2>2 DEF JoinAndRemove, RemoveNode
    <3>2. \A c \in Conns : conn'[c].sock = conn[c].sock
      BY <1>0, <3>1 DEF ConnTypes, ConnRecord
    <3>3. \A q \in Procs : pc'[q] = "none" <=> pc[q] = "none"
      BY <1>0, <3>1 DEF ControlTypes
    <3> QED BY <1>0, <3>1, <3>2, <3>3 DEF ControlTypes, ThreadStarts
  <2>3. CASE CleanupEnds(p)
    BY <1>0, <2>3 DEF CleanupEnds, ControlTypes, ConnTypes, ConnRecord,
      ThreadStarts
  <2> QED BY <1>2, <2>1, <2>2, <2>3 DEF CleanupStep
<1>3. CASE TimestampStep
  <2>1. CASE TimestampOpens
    BY <1>0, <2>1 DEF TimestampOpens, ControlTypes, ConnTypes, ConnRecord,
      ThreadStarts
  <2>2. CASE TimestampTests
    BY ZenonT(40), <1>0, <2>2 DEF TimestampTests, ControlTypes, ConnTypes, ConnRecord,
      ThreadStarts
  <2>3. CASE TimestampWakes
    BY <1>0, <2>3 DEF TimestampWakes, ControlTypes, ConnTypes, ConnRecord,
      ThreadStarts
  <2>4. CASE TimestampLocks
    BY <1>0, <2>4 DEF TimestampLocks, ControlTypes, ConnTypes, ConnRecord,
      ThreadStarts
  <2>5. CASE TimestampWrites
    BY <1>0, <2>5 DEF TimestampWrites, ControlTypes, ConnTypes, ConnRecord,
      ThreadStarts
  <2> QED BY <1>3, <2>1, <2>2, <2>3, <2>4, <2>5 DEF TimestampStep
<1>4. ASSUME NEW d \in Conns, ConnectorStep(d) PROVE ThreadStarts'
  <2>1. CASE ConnectorOpens(d)
    BY <1>0, <2>1 DEF ConnectorOpens, ControlTypes, ConnTypes, ConnRecord,
      ThreadStarts
  <2>2. CASE Lock(d)
    BY <1>0, <2>2 DEF Lock, ControlTypes, ConnTypes, ConnRecord, ThreadStarts
  <2>3. CASE WriteMessage(d)
    BY <1>0, AnswerFrom, <2>3 DEF WriteMessage, SameSession, ControlTypes, ThreadStarts
  <2>4. CASE SeekMessage(d)
    BY <1>0, AnswerFrom, <2>4 DEF SeekMessage, SameSession, ControlTypes, ThreadStarts
  <2>5. CASE SeekWithoutComma(d)
    BY <1>0, <2>5 DEF SeekWithoutComma, ControlTypes, ConnTypes, ConnRecord,
      ThreadStarts
  <2>6. CASE TouchesFreedArg(d)
    BY <1>0, <2>6 DEF TouchesFreedArg, ControlTypes, ConnTypes, ConnRecord, ThreadStarts
  <2>7. CASE Unlock(d)
    BY <1>0, <2>7 DEF Unlock, DropsMessage, ControlTypes, ConnTypes, ConnRecord, ThreadStarts
  <2>8. CASE Finish(d)
    BY <1>0, <2>8 DEF Finish, ControlTypes, ConnTypes, ConnRecord, ThreadStarts
  <2>9. CASE Close(d)
    BY <1>0, <2>9 DEF Close, ControlTypes, ConnTypes, ConnRecord, ThreadStarts
  <2> QED BY <1>4, <2>1, <2>2, <2>3, <2>4, <2>5, <2>6, <2>7, <2>8, <2>9 DEF
    ConnectorStep
<1>5. ASSUME NEW d \in Conns, RecvEnds(d) \/ (\E s \in Chunks : RecvChunk(d, s))
  \/ Connect(d) PROVE ThreadStarts'
  <2>1. CASE RecvEnds(d)
    BY <1>0, <2>1 DEF RecvEnds, AfterRecv, ControlTypes, ConnTypes, ConnRecord,
      ThreadStarts
  <2>2. ASSUME NEW s \in Chunks, RecvChunk(d, s) PROVE ThreadStarts'
    BY SMTT(40), <1>0, <2>2 DEF RecvChunk, ControlTypes, ConnTypes, ConnRecord,
      ThreadStarts
  <2>3. CASE Connect(d)
    BY <1>0, <2>3 DEF Connect, ControlTypes, ConnTypes, ConnRecord, ThreadStarts
  <2> QED BY <1>5, <2>1, <2>2, <2>3
<1>6. ASSUME NEW d \in Conns, Sent(d) PROVE ThreadStarts'
  BY <1>0, <1>6, SentFrame DEF SameSession, ThreadStarts
<1>7. CASE Fault
  <2>1. CASE StartupFails
    BY <1>0, <2>1 DEF StartupFails, ControlTypes, ConnTypes, ConnRecord,
      ThreadStarts
  <2>2. CASE BindRetry
    BY <1>0, <2>2 DEF BindRetry, ControlTypes, ConnTypes, ConnRecord,
      ThreadStarts
  <2>3. CASE SetupFails
    BY <1>0, <2>3 DEF SetupFails, EnterCleanup, ControlTypes, ConnTypes,
      ConnRecord, ThreadStarts
  <2>4. CASE TimestampNotStarted
    BY <1>0, <2>4 DEF TimestampNotStarted, ControlTypes, ConnTypes, ConnRecord,
      ThreadStarts
  <2>5. CASE AcceptFails
    BY ZenonT(40), <1>0, <2>5 DEF AcceptFails, EnterCleanup, ControlTypes, ConnTypes,
      ConnRecord, ThreadStarts
  <2>6. CASE CreateThreadFails
    BY <1>0, <2>6 DEF CreateThreadFails, ControlTypes, ConnTypes, ConnRecord,
      ThreadStarts
  <2>7. CASE AddNodeFails
    BY <1>0, <2>7 DEF AddNodeFails, ControlTypes, ConnTypes, ConnRecord,
      ThreadStarts
  <2>8. ASSUME NEW d \in Conns, AcceptNoMemory(d) PROVE ThreadStarts'
    BY <1>0, <2>8 DEF AcceptNoMemory, ControlTypes, ConnTypes, ConnRecord,
      ThreadStarts
  <2>9. ASSUME NEW d \in Conns, ReallocFails(d) PROVE ThreadStarts'
    <3>1. /\ conn' = conn /\ client' = client /\ pc'["main"] = pc["main"] /\ pc'["ts"] = pc["ts"]
          /\ \A c \in Conns : pc[c] = "none" => pc'[c] = "none"
      BY <1>0, <2>9 DEF ReallocFails, ControlTypes
    <3> QED BY <1>0, <3>1 DEF ThreadStarts
  <2>10. ASSUME NEW d \in Conns, WriteMessageFails(d) PROVE ThreadStarts'
    BY <1>0, <2>10 DEF WriteMessageFails, ControlTypes, ConnTypes, ConnRecord,
      ThreadStarts
  <2>11. ASSUME NEW d \in Conns, SigPipe(d) PROVE ThreadStarts'
    BY <1>0, <2>11 DEF SigPipe, ControlTypes, ConnTypes, ConnRecord,
      ThreadStarts
  <2>12. ASSUME NEW p \in Procs, FopenFails(p) PROVE ThreadStarts'
    BY <1>0, <2>12 DEF FopenFails, EnterCleanup, ControlTypes, ConnTypes,
      ConnRecord, ThreadStarts
  <2>13. ASSUME NEW p \in Procs, TouchesFreedNode(p) PROVE ThreadStarts'
    BY <1>0, <2>13 DEF TouchesFreedNode, ControlTypes, ConnTypes, ConnRecord,
      ThreadStarts
  <2>14. ASSUME NEW d \in Conns, SendFails(d) PROVE ThreadStarts'
    BY <1>6, <2>14 DEF Sent
  <2> QED BY <1>7, <2>1, <2>2, <2>3, <2>4, <2>5, <2>6, <2>7, <2>8, <2>9, <2>10,
    <2>11, <2>12, <2>13, <2>14 DEF Fault
<1>8. ASSUME NEW p \in SignalTargets, signal_handler(p) PROVE ThreadStarts'
  BY ZenonT(40), <1>0, <1>8, ServerAssumption DEF signal_handler, HandlesSignal, EnterCleanup, AfterRecv,
    ControlTypes, ConnTypes, ConnRecord, ThreadStarts
<1> QED BY <1>1, <1>2, <1>3, <1>4, <1>5, <1>6, <1>7, <1>8 DEF Next, Sent

(* file_mutex is locked when it is free and unlocked by its owner. *)
LEMMA MutexStep ==
  ASSUME TypeInv, MutexDiscipline, Next
  PROVE  MutexDiscipline'
<1>1. NULL \notin Procs /\ \A p \in Procs : mutex = p <=> InSection(p)
  BY ServerAssumption DEF MutexDiscipline, InSection
<1>2. \A p \in Procs : mutex' = p <=> InSection(p)'
  BY <1>1, SectionMoves DEF SameSections
<1> QED BY <1>2 DEF MutexDiscipline, InSection

(* As long as only the main thread cleans up, its pthread_join returns     *)
(* because the thread has ended: nobody else is in pthread_join.           *)
LEMMA JoinSucceeds ==
  ASSUME TypeInv, MainCleansUp, NEW c \in Conns \cup {"ts"}, Joinable("main", c)
  PROVE  pc[c] = "exited"
<1>0. /\ {"main", "ts"} \cap Conns = {} /\ c \in Procs \ {"main"}
      /\ \A q \in Procs \ {"main"} : pc[q] \notin {"join", "clean", "clean_join"}
  BY ServerAssumption DEF TypeInv, TypeOK, ControlTypes, TimestampLabels, ConnectorLabels,
     MainCleansUp, Procs
<1>1. \A q \in Procs \ {"main"} : \A d : ~Waits(q, d)
  BY <1>0 DEF Waits
<1> QED BY <1>0, <1>1 DEF Joinable

(* The thread_arg of a connector is freed after the connector was joined:  *)
(* not while it needs it.                                                  *)
LEMMA ArgStep ==
  ASSUME TypeInv, MainCleansUp, MainCleansUp', ListHoldsThreads, ThreadArgLive, Next
  PROVE  ThreadArgLive'
<1> USE DEF Procs, At, Goto, Step, Ends, setup, sig, list, file
<1> DEFINE Needs == {"fopen", "recv", "lock", "locked", "echo", "finish"}
<1>0. /\ ControlTypes /\ ConnTypes /\ ThreadStarts /\ {"main", "ts"} \cap Conns = {}
      /\ \A c \in Conns : pc[c] \in Needs => conn[c].arg = "live"
  BY ServerAssumption DEF TypeInv, TypeOK, ThreadArgLive, OthersCleanUp, MainCleansUp
<1>1. SUFFICES ASSUME NEW c \in Conns, pc'[c] \in Needs
               PROVE  conn'[c].arg = "live"
  BY DEF ThreadArgLive
<1>2. CASE pc'[c] = pc[c] /\ conn'[c] = conn[c]
  BY <1>0, <1>1, <1>2
<1>3. CASE OwnStep(c)
  <2>1. CASE ConnectorOpens(c) \/ TouchesFreedArg(c) \/ Lock(c) \/ SeekWithoutComma(c)
             \/ Finish(c) \/ Close(c)
    BY <1>0, <1>1, <2>1 DEF ControlTypes, ConnTypes, ConnRecord, ConnectorOpens,
       TouchesFreedArg, Lock, SeekWithoutComma, Finish, Close
  <2>2. CASE WriteMessage(c) \/ SeekMessage(c)
    BY <1>0, <1>1, <2>2, AnswerFrom DEF SameSession, WriteMessage, SeekMessage
  <2>3. CASE Unlock(c)
    BY <1>0, <1>1, <2>3 DEF Unlock, DropsMessage, ConnTypes, ConnRecord
  <2>4. CASE Sent(c)
    BY <1>0, <1>1, <2>4, SentFrame DEF SameSession
  <2>5. CASE RecvEnds(c) \/ (\E d \in Chunks : RecvChunk(c, d)) \/ ReallocFails(c) \/ WriteMessageFails(c)
    BY <1>0, <1>1, <2>5 DEF ControlTypes, ConnTypes, ConnRecord, RecvEnds, RecvChunk,
       ReallocFails, WriteMessageFails
  <2>6. CASE FopenFails(c) \/ CleanVisits(c) \/ JoinAndRemove(c, "clean_join", "clean")
    BY <1>0, <1>1, <2>6 DEF ControlTypes, FopenFails, EnterCleanup, CleanVisits, JoinAndRemove
  <2>7. CASE signal_handler(c)
    BY <1>0, <1>1, <2>7 DEF ControlTypes, signal_handler, HandlesSignal, EnterCleanup
  <2> QED BY <1>3, <2>1, <2>2, <2>3, <2>4, <2>5, <2>6, <2>7 DEF OwnStep, ConnectorStep
<1>4. CASE StepAbout(c)
  <2>1. CASE Accept(c) \/ AcceptNoMemory(c) \/ Connect(c)
    BY <1>0, <1>1, <2>1 DEF ControlTypes, ConnTypes, ThreadStarts, Accept, AcceptNoMemory, Connect
  <2>2. CASE client = c /\ CreateThread
    BY <1>0, <1>1, <2>2 DEF ControlTypes, ListHoldsThreads, CreateThread
  <2>3. CASE client = c /\ CreateThreadFails
    BY <1>0, <1>1, <2>3 DEF ControlTypes, ConnTypes, ThreadStarts, CreateThreadFails
  <2>4. ASSUME cur["main"] = c, NEW l, NEW n, JoinAndRemove("main", l, n) PROVE FALSE
    <3>1. pc[c] = "exited"
      BY <2>4, JoinSucceeds DEF JoinAndRemove
    <3> QED BY <1>0, <1>1, <2>4, <3>1 DEF ControlTypes, JoinAndRemove
  <2>5. ASSUME NEW p \in Procs \ {"main"}, JoinAndRemove(p, "clean_join", "clean") PROVE FALSE
    BY <2>5 DEF JoinAndRemove, MainCleansUp
  <2> QED BY <1>4, <2>1, <2>2, <2>3, <2>4, <2>5 DEF StepAbout
<1> QED BY <1>2, <1>3, <1>4, OthersUntouched
-----------------------------------------------------------------------------
(* What a connector receives and sends.                                    *)

(* The end of a sequence, element by element. *)
LEMMA EndOfSequence ==
  ASSUME NEW S, NEW s \in Seq(S), NEW t \in Seq(S), Len(t) <= Len(s),
         \A i \in 1..Len(t) : t[i] = s[Len(s) - Len(t) + i]
  PROVE  t = SubSeq(s, Len(s) - Len(t) + 1, Len(s))
<1> DEFINE u == SubSeq(s, Len(s) - Len(t) + 1, Len(s))
<1>1. u \in Seq(S) /\ Len(u) = Len(t)
  OBVIOUS
<1>2. \A i \in 1..Len(t) : u[i] = s[Len(s) - Len(t) + i]
  OBVIOUS
<1> HIDE DEF u
<1>3. t = u
  BY <1>1, <1>2
<1> QED BY <1>3 DEF u

(* Nothing happens in a process that has ended. *)
LEMMA NextRuns ==
  ASSUME Next
  PROVE  process = "running"
<1> USE DEF At, Step
<1>1. CASE MainStep \/ TimestampStep
  BY <1>1 DEF MainStep, Startup, CreateSocket, Bind, Listen, TestExit, CallAccept, Accept,
     CreateThread, AddNode, ScanVisits, ScanEnds, JoinAndRemove, TimestampStep, TimestampOpens,
     TimestampTests, TimestampWakes, TimestampLocks, TimestampWrites
<1>2. ASSUME NEW p \in Procs, CleanupStep(p) PROVE process = "running"
  BY <1>2 DEF CleanupStep, CleanVisits, JoinAndRemove, CleanupEnds
<1>3. ASSUME NEW d \in Conns, ConnectorStep(d) PROVE process = "running"
  BY <1>3 DEF ConnectorStep, ConnectorOpens, TouchesFreedArg, Lock, WriteMessage, SeekMessage,
     SeekWithoutComma, Unlock, Finish, Close
<1>4. ASSUME NEW d \in Conns, RecvEnds(d) \/ (\E s \in Chunks : RecvChunk(d, s)) \/ Connect(d)
      PROVE process = "running"
  BY <1>4 DEF RecvEnds, RecvChunk, Connect
<1>5. ASSUME NEW d \in Conns, Sent(d) PROVE process = "running"
  BY <1>5 DEF Sent, Echo, SendFails, SignalCutsSend, SendCut, Sends
<1>6. CASE Fault
  BY <1>5, <1>6 DEF Fault, StartupFails, BindRetry, SetupFails, TimestampNotStarted, AcceptFails,
     CreateThreadFails, AddNodeFails, AcceptNoMemory, ReallocFails, WriteMessageFails, SigPipe,
     FopenFails, TouchesFreedNode, Sent
<1>7. ASSUME NEW p \in SignalTargets, signal_handler(p) PROVE process = "running"
  BY <1>7 DEF signal_handler, HandlesSignal
<1> QED BY <1>1, <1>2, <1>3, <1>4, <1>5, <1>6, <1>7 DEF Next, Sent

(* Nobody writes to the file while a connector sends it. *)
LEMMA FileHeldStill ==
  ASSUME TypeInv, MutexDiscipline, Next, process' = "running",
         NEW c \in Conns, pc[c] = "echo"
  PROVE  data' = data
<1>0. mutex = c /\ {"main", "ts"} \cap Conns = {}
  BY ServerAssumption DEF MutexDiscipline, Procs
<1>1. CASE TimestampWrites
  BY <1>0, <1>1 DEF TimestampWrites, Step, At, MutexDiscipline, Procs
<1>2. ASSUME NEW d \in Conns, WriteMessage(d) PROVE FALSE
  BY <1>0, <1>2 DEF WriteMessage, Step, At, MutexDiscipline, Procs
<1> QED BY <1>1, <1>2, WritersInSection

(* The records of a file are token sequences. *)
LEMMA RecordFromType ==
  ASSUME NEW l \in Seq(Seq(Tokens)), NEW at \in [cmd : Nat, off : Nat],
         NEW i \in Nat, i > 0, at.cmd + i <= Len(l)
  PROVE  RecordFrom(l, at, i) \in Seq(Tokens)
<1> DEFINE r == l[at.cmd + i]
           k == IF i = 1 THEN at.off + 1 ELSE 1
<1>1. r \in Seq(Tokens) /\ k \in Nat /\ k >= 1
  OBVIOUS
<1>2. RecordFrom(l, at, i) = SubSeq(r, k, Len(r))
  BY DEF RecordFrom
<1> HIDE DEF r, k
<1>3. SubSeq(r, k, Len(r)) \in Seq(Tokens)
  BY <1>1
<1> QED BY <1>2, <1>3

(* Beginnings of sequences. *)
LEMMA Prefixes ==
  /\ \A s \in Seq(Tokens) : IsPrefix(s, s)
  /\ \A s \in Seq(Tokens) : \A k, n \in Nat :
       k + n <= Len(s) => IsPrefix(SubSeq(s, k + 1, k + n), SubSeq(s, k + 1, Len(s)))
<1>1. ASSUME NEW s \in Seq(Tokens) PROVE IsPrefix(s, s)
  BY DEF IsPrefix
<1>2. ASSUME NEW s \in Seq(Tokens), NEW k \in Nat, NEW n \in Nat, k + n <= Len(s)
      PROVE  IsPrefix(SubSeq(s, k + 1, k + n), SubSeq(s, k + 1, Len(s)))
  <2> DEFINE a == SubSeq(s, k + 1, k + n)
             b == SubSeq(s, k + 1, Len(s))
             d == SubSeq(b, 1, n)
  <2>1. /\ a \in Seq(Tokens) /\ Len(a) = n /\ \A i \in 1..n : a[i] = s[k + i]
    BY <1>2
  <2>2. /\ b \in Seq(Tokens) /\ Len(b) = Len(s) - k /\ \A i \in 1..Len(b) : b[i] = s[k + i]
    BY <1>2
  <2> HIDE DEF a, b
  <2>3. n <= Len(b) /\ Len(b) \in Nat
    BY <1>2, <2>2
  <2>4. d \in Seq(Tokens) /\ Len(d) = n /\ \A i \in 1..n : d[i] = b[i]
    BY <2>2, <2>3
  <2> HIDE DEF d
  <2>5. ASSUME NEW i \in 1..n PROVE a[i] = d[i]
    <3>1. i \in 1..Len(b)
      BY <2>3
    <3>2. a[i] = s[k + i] /\ d[i] = b[i] /\ b[i] = s[k + i]
      BY <2>1, <2>2, <2>4, <3>1
    <3> QED BY <3>2
  <2>6. a = d
    BY <2>1, <2>4, <2>5
  <2> QED BY <2>1, <2>3, <2>6 DEF IsPrefix, a, b, d
<1> QED BY <1>1, <1>2

(* One more record, or its beginning, was sent. *)
LEMMA SentStep ==
  ASSUME TypeInv, NEW c \in Conns, SentSoFar(c), Sent(c)
  PROVE  SentSoFar(c)'
<1> DEFINE l == data.log
           e == conn[c].echoed
           at == conn[c].pos
           from == conn[c].from
           t == conn'[c].echoed
           r == l[at.cmd + 1]
<1>1. /\ process = "running" /\ pc[c] = "echo" /\ UNCHANGED <<process, pc, data>>
      /\ conn'[c].from = from
  BY SentFrame DEF file
<1>2. /\ l \in Seq(Seq(Tokens)) /\ e \in Seq(Seq(Tokens)) /\ conn[c].short \in BOOLEAN
      /\ at \in [cmd : Nat, off : Nat] /\ from \in [cmd : Nat, off : Nat]
      /\ ConnTypes
  BY DEF TypeInv, TypeOK, ConnTypes, ConnRecord, FileTypes, FileRecord
<1>3. PICK n \in Int : Sends(c, n) /\ (n = Left(c) \/ n \in 0 .. Left(c) - 1)
  BY SentIsSend
<1> DEFINE x == SubSeq(r, at.off + 1, at.off + n)
<1>4. /\ t = Append(e, x) /\ conn'[c].pos = [cmd |-> at.cmd + 1, off |-> 0]
      /\ conn'[c].short = (conn[c].short \/ n < Left(c)) /\ at.cmd < Len(l)
  <2>1. conn' = [conn EXCEPT ![c] = [conn[c] EXCEPT
           !.echoed = Append(@, x), !.pos = [cmd |-> at.cmd + 1, off |-> 0],
           !.short = @ \/ n < Left(c)]]
    BY <1>2, <1>3 DEF Sends, ConnTypes
  <2>2. at.cmd < Len(l)
    BY <1>3 DEF Sends
  <2> HIDE DEF x, at
  <2>3. conn'[c] = [conn[c] EXCEPT !.echoed = Append(@, x), !.pos = [cmd |-> at.cmd + 1, off |-> 0],
                      !.short = @ \/ n < Left(c)] /\ conn[c] \in ConnRecord
    BY <1>2, <2>1 DEF ConnTypes
  <2> QED BY <2>2, <2>3 DEF ConnRecord
<1>5. /\ from.cmd + Len(e) = at.cmd /\ at.off = IF Len(e) = 0 THEN from.off ELSE 0
      /\ \A i \in 1..Len(e) : RecordSent(c, l, i)
  BY <1>1 DEF SentSoFar
<1>6. r \in Seq(Tokens) /\ Left(c) = Len(r) - at.off
  <2>1. at.cmd \in Nat /\ at.cmd < Len(l) /\ l \in Seq(Seq(Tokens))
    BY <1>2, <1>4
  <2>2. Left(c) = Len(r) - at.off
    BY DEF Left
  <2> HIDE DEF l, at
  <2>3. at.cmd + 1 \in 1..Len(l)
    BY <2>1
  <2>4. r \in Seq(Tokens)
    BY <2>1, <2>3
  <2> QED BY <2>2, <2>4
<1> HIDE DEF l, e, at, from, t, r
<1>7. /\ at.cmd \in Nat /\ at.off \in Nat /\ from.cmd \in Nat /\ from.off \in Nat
      /\ Len(e) \in Nat /\ Len(r) \in Nat /\ Len(l) \in Nat
  BY <1>2, <1>6
<1>8. x \in Seq(Tokens)
  BY SMTT(40), <1>3, <1>6, <1>7
<1> HIDE DEF x
<1>9. Len(t) = Len(e) + 1 /\ t[Len(e) + 1] = x /\ \A i \in 1..Len(e) : t[i] = e[i]
  BY <1>2, <1>4, <1>8
<1>10. RecordFrom(l, from, Len(e) + 1) = SubSeq(r, at.off + 1, Len(r))
  <2>1. from.cmd + (Len(e) + 1) = at.cmd + 1
    BY <1>5, <1>7
  <2>2. (IF Len(e) + 1 = 1 THEN from.off + 1 ELSE 1) = at.off + 1
    BY <1>5, <1>7
  <2> QED BY <2>1, <2>2 DEF RecordFrom, r
<1>11. IF conn'[c].short THEN IsPrefix(x, RecordFrom(l, from, Len(e) + 1))
                         ELSE x = RecordFrom(l, from, Len(e) + 1)
  <2>1. CASE n = Left(c)
    <3>1. at.off + n = Len(r)
      BY <1>6, <1>7, <2>1
    <3>2. x = SubSeq(r, at.off + 1, Len(r))
      BY <3>1 DEF x
    <3> QED BY <1>8, <1>10, <3>2, Prefixes
  <2>2. CASE n \in 0 .. Left(c) - 1
    <3>1. n \in Nat /\ at.off + n <= Len(r) /\ n < Left(c)
      BY <1>6, <1>7, <2>2
    <3>2. IsPrefix(x, SubSeq(r, at.off + 1, Len(r)))
      BY <1>6, <1>7, <3>1, Prefixes DEF x
    <3> QED BY <1>4, <1>10, <3>1, <3>2
  <2> QED BY <1>3, <2>1, <2>2
<1>12. ASSUME NEW i \in 1..Len(t) PROVE RecordSent(c, l, i)'
  <2>0. l' = l /\ from' = from /\ t = conn'[c].echoed
    BY <1>1 DEF l, from, t
  <2>1. SUFFICES IF conn'[c].short THEN IsPrefix(t[i], RecordFrom(l, from, i))
                                   ELSE t[i] = RecordFrom(l, from, i)
    BY <2>0 DEF RecordSent, from
  <2>2. CASE i = Len(e) + 1
    BY <1>9, <1>11, <2>2
  <2>3. CASE i \in 1..Len(e)
    <3>1. IF conn[c].short THEN IsPrefix(e[i], RecordFrom(l, from, i))
                           ELSE e[i] = RecordFrom(l, from, i)
      BY <1>5, <2>3 DEF RecordSent, e, from
    <3>2. RecordFrom(l, from, i) \in Seq(Tokens)
      <4>1. i \in Nat /\ i > 0 /\ from.cmd + i <= Len(l)
        BY <1>4, <1>5, <1>7, <2>3
      <4> QED BY <1>2, <4>1, RecordFromType
    <3>3. IsPrefix(e[i], RecordFrom(l, from, i))
      BY <3>1, <3>2, Prefixes
    <3>4. t[i] = e[i] /\ (conn[c].short => conn'[c].short)
      BY <1>4, <1>9, <2>3
    <3> QED BY <3>1, <3>3, <3>4
  <2> QED BY <1>7, <1>9, <2>2, <2>3
<1>13. /\ from.cmd + Len(t) = at.cmd + 1 /\ at.cmd + 1 <= Len(l) /\ Len(t) # 0
  <2>1. at.cmd < Len(l)
    BY <1>4
  <2>2. from.cmd + Len(e) = at.cmd
    BY <1>5
  <2>3. Len(t) = Len(e) + 1
    BY <1>9
  <2>4. from.cmd + Len(t) = at.cmd + 1
    BY <1>7, <2>2, <2>3
  <2>5. at.cmd + 1 <= Len(l)
    BY <1>7, <2>1
  <2>6. Len(t) # 0
    BY <1>7, <2>3
  <2> QED BY <2>4, <2>5, <2>6
<1>14. /\ conn'[c].from.cmd + Len(t) = conn'[c].pos.cmd /\ conn'[c].pos.cmd <= Len(data'.log)
       /\ conn'[c].pos.off = 0 /\ Len(t) # 0 /\ data'.log = l
  BY <1>1, <1>4, <1>13 DEF l, from
<1> QED BY <1>1, <1>12, <1>14 DEF SentSoFar, t, l

(* A connector sends the file from the place its request has put it to,    *)
(* one record after the other.                                             *)
LEMMA EchoStep ==
  ASSUME TypeInv, TypeOK', MutexDiscipline, EchoSoFar, Next
  PROVE  EchoSoFar'
<1> USE DEF At, Goto, Step, Ends, setup, sig, list, file
<1>1. SUFFICES ASSUME NEW c \in Conns PROVE SentSoFar(c)'
  BY DEF EchoSoFar
<1> DEFINE Fresh(d) == d.pos = Start /\ d.from = Start /\ d.echoed = << >> /\ ~d.short
           Early == {"none", "fopen", "recv", "lock", "locked"}
<1>0. /\ ControlTypes /\ ConnTypes /\ ThreadStarts /\ data \in FileRecord /\ data' \in FileRecord
      /\ c \in Procs /\ {"main", "ts"} \cap Conns = {} /\ SentSoFar(c)
      /\ process = "running" /\ (pc[c] \in Early => Fresh(conn[c]))
  BY <1>1, NextRuns, ServerAssumption DEF TypeInv, TypeOK, FileTypes, EchoSoFar, SentSoFar, Procs
<1>2. CASE pc'[c] = pc[c] /\ conn'[c] = conn[c]
  BY <1>0, <1>1, <1>2, FileHeldStill DEF SentSoFar, RecordSent
<1>3. ASSUME pc'[c] # "echo", pc'[c] \in Early => Fresh(conn'[c])
      PROVE  SentSoFar(c)'
  BY <1>3 DEF SentSoFar
<1> DEFINE Same == /\ conn'[c].pos = conn[c].pos /\ conn'[c].from = conn[c].from
                   /\ conn'[c].echoed = conn[c].echoed /\ conn'[c].short = conn[c].short
<1>4. ASSUME Same, pc'[c] # "echo", pc'[c] \in Early => pc[c] \in Early
      PROVE  SentSoFar(c)'
  BY <1>0, <1>3, <1>4
<1>5. ASSUME pc'[c] = "echo", conn'[c].pos = conn'[c].from, conn'[c].echoed = << >>,
             conn'[c].pos \in [cmd : Nat, off : Nat], conn'[c].pos.cmd <= Len(data'.log)
      PROVE  SentSoFar(c)'
  BY <1>5 DEF SentSoFar
<1>6. CASE OwnStep(c)
  <2>1. CASE ConnectorOpens(c) \/ Lock(c) \/ Unlock(c) \/ Finish(c) \/ Close(c)
    BY <1>0, <1>3, <2>1 DEF ControlTypes, ConnTypes, ConnRecord, ConnectorOpens, Lock, Unlock,
       Finish, Close
  <2>2. CASE WriteMessage(c) \/ SeekMessage(c)
    <3>1. pc[c] = "locked" /\ pc'[c] = "echo"
      BY <1>0, <2>2 DEF WriteMessage, SeekMessage, ControlTypes
    <3>2. conn'[c].pos \in [cmd : Nat, off : Nat]
      BY <2>2, AnswerFrom DEF ConnTypes, ConnRecord
    <3> QED BY <1>0, <1>5, <2>2, <3>1, <3>2, AnswerFrom
  <2>3. CASE WriteMessageFails(c)
    <3>1. /\ pc[c] = "locked" /\ pc'[c] = "echo" /\ conn' = conn /\ Len(data'.log) \in Nat
      BY <1>0, <2>3 DEF ControlTypes, WriteMessageFails, FileRecord
    <3> QED BY <1>0, <1>5, <3>1 DEF Start
  <2>4. CASE Sent(c)
    BY <1>0, <2>4, SentStep
  <2>5. CASE SeekWithoutComma(c) \/ TouchesFreedArg(c)
    <3>1. conn' = conn /\ pc' = pc /\ process' # "running"
      BY <2>5 DEF SeekWithoutComma, TouchesFreedArg
    <3> QED BY <1>0, <3>1 DEF SentSoFar
  <2>6. CASE RecvEnds(c) \/ ReallocFails(c)
    <3>1. Same
      BY <1>0, <2>6 DEF ConnTypes, ConnRecord, RecvEnds, ReallocFails
    <3>2. pc[c] = "recv" /\ pc'[c] \in {"recv", "finish", "lock"}
      BY <1>0, <2>6 DEF ControlTypes, RecvEnds, AfterRecv, ReallocFails
    <3> QED BY <1>4, <3>1, <3>2
  <2>7. ASSUME NEW d \in Chunks, RecvChunk(c, d) PROVE SentSoFar(c)'
    BY <1>0, <1>3, <2>7 DEF ControlTypes, ConnTypes, ConnRecord, RecvChunk
  <2>8. CASE FopenFails(c) \/ CleanVisits(c)
    BY <1>0, <1>3, <2>8 DEF ControlTypes, FopenFails, EnterCleanup, CleanVisits
  <2>9. CASE JoinAndRemove(c, "clean_join", "clean")
    BY <1>0, <1>3, <2>9 DEF ControlTypes, JoinAndRemove
  <2>10. CASE signal_handler(c)
    <3>1. /\ conn' = conn /\ data' = data /\ process' = process
          /\ (pc[c] = "recv" /\ pc'[c] \in {"finish", "lock"}) \/ pc'[c] = pc[c] \/ pc'[c] = "clean"
      BY <1>0, <2>10 DEF ControlTypes, signal_handler, EnterCleanup, AfterRecv
    <3> QED BY <1>0, <1>2, <1>3, <3>1
  <2> QED BY <1>6, <2>1, <2>2, <2>3, <2>4, <2>5, <2>6, <2>7, <2>8, <2>9, <2>10
          DEF OwnStep, ConnectorStep
<1>7. CASE StepAbout(c)
  <2>1. CASE Accept(c) \/ AcceptNoMemory(c) \/ Connect(c)
    <3>1. Same
      BY <1>0, <2>1 DEF ConnTypes, ConnRecord, Accept, AcceptNoMemory, Connect
    <3>2. pc[c] = "none" /\ pc'[c] = "none"
      BY <1>0, <2>1 DEF ControlTypes, ThreadStarts, Accept, AcceptNoMemory, Connect
    <3> QED BY <1>4, <3>1, <3>2
  <2>2. CASE client = c /\ (CreateThread \/ CreateThreadFails)
    <3>1. Same
      BY <1>0, <2>2 DEF ConnTypes, ConnRecord, CreateThread, CreateThreadFails
    <3>2. pc[c] = "none" /\ pc'[c] \in {"none", "fopen"}
      BY <1>0, <2>2 DEF ControlTypes, ThreadStarts, CreateThread, CreateThreadFails
    <3> QED BY <1>4, <3>1, <3>2
  <2>3. ASSUME NEW p \in Procs, NEW l, NEW n, n \in {"scan", "clean"}, JoinAndRemove(p, l, n)
        PROVE  SentSoFar(c)'
    <3>1. /\ conn' = [conn EXCEPT ![cur[p]].arg = "freed"] /\ UNCHANGED <<process, data>>
          /\ pc' = [pc EXCEPT ![p] = n]
      BY <2>3 DEF JoinAndRemove, RemoveNode
    <3>2. /\ conn'[c].pos = conn[c].pos /\ conn'[c].from = conn[c].from
          /\ conn'[c].echoed = conn[c].echoed /\ conn'[c].short = conn[c].short
      BY <1>0, <3>1 DEF ConnTypes, ConnRecord
    <3>3. pc'[c] = pc[c] \/ pc'[c] \in {"scan", "clean"}
      BY <1>0, <2>3, <3>1 DEF ControlTypes
    <3> QED BY <1>0, <3>1, <3>2, <3>3 DEF SentSoFar, RecordSent
  <2> QED BY <1>7, <2>1, <2>2, <2>3 DEF StepAbout, Procs
<1> QED BY <1>2, <1>6, <1>7, OthersUntouched

(* Only its last fread, which finds the end of the file, ends an answer. *)
LEMMA AnsweredIsUnlock ==
  ASSUME TypeInv, Next, NEW c \in Conns, Answered(c)
  PROVE  Unlock(c)
<1> USE DEF At, Goto, Step, Ends, Answered
<1>0. ControlTypes /\ ThreadStarts /\ c \in Procs /\ {"main", "ts"} \cap Conns = {}
  BY ServerAssumption DEF TypeInv, TypeOK, Procs
<1>1. ~Sent(c)
  BY SentFrame
<1>2. CASE OwnStep(c)
  BY <1>0, <1>1, <1>2 DEF ControlTypes, OwnStep, ConnectorStep, ConnectorOpens, TouchesFreedArg,
     Lock, WriteMessage, SeekMessage, SeekWithoutComma, Finish, Close, RecvEnds, RecvChunk,
     ReallocFails, WriteMessageFails, FopenFails, EnterCleanup, signal_handler, CleanVisits,
     JoinAndRemove
<1>3. CASE StepAbout(c)
  BY <1>0, <1>3 DEF ControlTypes, ThreadStarts, StepAbout, Accept, AcceptNoMemory, Connect,
     CreateThread, CreateThreadFails, JoinAndRemove
<1> QED BY <1>2, <1>3, OthersUntouched

(* At its end an answer is the file from its place on. *)
LEMMA SnapshotStep ==
  ASSUME TypeInv, EchoSoFar, Next, NEW c \in Conns, Answered(c)
  PROVE  /\ Len(conn[c].echoed) = Len(data.log) - conn[c].from.cmd
         /\ \A i \in 1..Len(conn[c].echoed) : RecordSent(c, data.log, i)
<1> DEFINE l == data.log
           e == conn[c].echoed
           from == conn[c].from.cmd
           n == conn[c].pos.cmd
<1>1. Len(l) \in Nat /\ Len(e) \in Nat /\ n \in Nat /\ from \in Nat
  BY DEF TypeInv, TypeOK, ConnTypes, ConnRecord, FileTypes, FileRecord
<1>2. from + Len(e) = n /\ n <= Len(l) /\ \A i \in 1..Len(e) : RecordSent(c, l, i)
  BY NextRuns DEF Answered, EchoSoFar, SentSoFar
<1>3. n >= Len(l)
  BY AnsweredIsUnlock DEF Unlock
<1> HIDE DEF l, e, n, from
<1>4. Len(e) = Len(l) - from
  BY <1>1, <1>2, <1>3
<1> QED BY <1>2, <1>4 DEF l, e, from

(* Appending what is kept of a chunk to a message without a newline. *)
LEMMA AppendChunk ==
  ASSUME NEW m \in Seq(Tokens), ~HasNewline(m), NEW d \in Chunks
  PROVE  LET s == m \o Chunk(d)
         IN  /\ s \in Seq(Tokens) /\ Len(s) > 0
             /\ \A i \in 1 .. Len(s) - 1 : s[i] # Newline
             /\ HasNewline(s) <=> HasNewline(d)
<1> DEFINE k == Chunk(d)
           s == m \o k
<1>1. /\ k \in Seq(Tokens) /\ Len(k) > 0
      /\ \A i \in 1 .. Len(k) - 1 : k[i] # Newline
      /\ HasNewline(d) <=> k[Len(k)] = Newline
  BY ChunkIsLine
<1>2. \A i \in 1..Len(m) : m[i] # Newline
  BY DEF HasNewline
<1> HIDE DEF k
<1>3. /\ s \in Seq(Tokens) /\ Len(s) = Len(m) + Len(k) /\ Len(m) \in Nat /\ Len(k) \in Nat
      /\ \A i \in 1..Len(m) : s[i] = m[i]
      /\ \A i \in 1..Len(k) : s[Len(m) + i] = k[i]
  BY <1>1
<1> HIDE DEF s
<1>4. ASSUME NEW i \in 1 .. Len(s) - 1 PROVE s[i] # Newline
  <2>1. CASE i \in 1..Len(m)
    BY <1>2, <1>3, <2>1
  <2>2. CASE i \notin 1..Len(m)
    <3>1. i - Len(m) \in 1 .. Len(k) - 1 /\ i = Len(m) + (i - Len(m))
      BY <1>3, <1>4, <2>2
    <3>2. PICK j \in 1 .. Len(k) - 1 : i = Len(m) + j
      BY <3>1
    <3>3. k[j] # Newline /\ s[Len(m) + j] = k[j]
      BY <1>1, <1>3
    <3> QED BY <3>2, <3>3
  <2> QED BY <2>1, <2>2
<1>5. s[Len(s)] = k[Len(k)] /\ Len(s) \in 1..Len(s)
  BY <1>1, <1>3
<1>6. HasNewline(s) <=> s[Len(s)] = Newline
  <2>1. ASSUME NEW i \in 1..Len(s), s[i] = Newline PROVE i = Len(s)
    BY <1>3, <1>4, <2>1
  <2> QED BY <1>5, <2>1 DEF HasNewline
<1> QED BY <1>1, <1>3, <1>4, <1>5, <1>6 DEF s, k

(* A connector stops receiving at the first newline. *)
LEMMA LineStep ==
  ASSUME TypeInv, OneLine, Next
  PROVE  OneLine'
<1> USE DEF At, Goto, Step, Ends, setup, sig, list, file
<1>1. SUFFICES ASSUME NEW c \in Conns PROVE LineSoFar(c)'
  BY DEF OneLine
<1>0. /\ ControlTypes /\ ConnTypes /\ ThreadStarts /\ LineSoFar(c)
      /\ c \in Procs /\ {"main", "ts"} \cap Conns = {}
  BY <1>1, ServerAssumption DEF TypeInv, TypeOK, OneLine, Procs
<1>2. CASE pc'[c] = pc[c] /\ conn'[c] = conn[c]
  BY <1>0, <1>2 DEF LineSoFar
<1>3. CASE OwnStep(c)
  <2>1. ASSUME NEW d \in Chunks, RecvChunk(c, d) PROVE LineSoFar(c)'
    <3> DEFINE m == conn[c].message
               s == m \o Chunk(d)
    <3>1. /\ conn'[c].message = s /\ conn'[c].gone = conn[c].gone /\ pc[c] = "recv"
          /\ pc'[c] = IF HasNewline(d) THEN "lock" ELSE "recv"
      BY <1>0, <2>1 DEF ControlTypes, ConnTypes, ConnRecord, RecvChunk
    <3>2. m \in Seq(Tokens) /\ ~HasNewline(m) /\ ~conn[c].gone
      BY <1>0, <3>1 DEF ConnTypes, ConnRecord, LineSoFar
    <3>3. /\ \A i \in 1 .. Len(s) - 1 : s[i] # Newline
          /\ HasNewline(s) <=> HasNewline(d)
      BY <3>2, AppendChunk
    <3> HIDE DEF s
    <3> QED BY <3>1, <3>2, <3>3 DEF LineSoFar
  <2>2. CASE Unlock(c)
    <3>1. conn'[c].message = << >> /\ pc'[c] = "finish"
      BY <1>0, <2>2 DEF ControlTypes, ConnTypes, ConnRecord, Unlock, DropsMessage
    <3> QED BY <3>1 DEF LineSoFar
  <2>3. ASSUME ~Unlock(c), ~\E d \in Chunks : RecvChunk(c, d)
        PROVE  /\ conn'[c].message = conn[c].message
               /\ pc'[c] \in {"none", "fopen"} => pc'[c] = pc[c] /\ conn'[c].gone = conn[c].gone
               /\ pc'[c] = "recv" => pc[c] \in {"fopen", "recv"} /\ conn'[c].gone = conn[c].gone
    <3>1. CASE ConnectorStep(c)
      <4>1. CASE WriteMessage(c) \/ SeekMessage(c)
        BY <1>0, <4>1, AnswerFrom DEF ControlTypes, SameSession, WriteMessage, SeekMessage
      <4>2. CASE ~WriteMessage(c) /\ ~SeekMessage(c)
        BY <1>0, <2>3, <3>1, <4>2 DEF ControlTypes, ConnTypes, ConnRecord, ConnectorStep,
           ConnectorOpens, TouchesFreedArg, Lock, SeekWithoutComma, Finish, Close
      <4> QED BY <4>1, <4>2
    <3>2. CASE Sent(c)
      BY <3>2, SentFrame DEF SameSession
    <3>3. CASE RecvEnds(c) \/ ReallocFails(c) \/ WriteMessageFails(c)
      BY <1>0, <3>3 DEF ControlTypes, ConnTypes, ConnRecord, RecvEnds, AfterRecv,
         ReallocFails, WriteMessageFails
    <3>4. CASE FopenFails(c) \/ CleanVisits(c)
      BY <1>0, <3>4 DEF ControlTypes, FopenFails, EnterCleanup, CleanVisits
    <3>5. CASE JoinAndRemove(c, "clean_join", "clean")
      <4>1. pc'[c] = "clean" /\ conn' = [conn EXCEPT ![cur[c]].arg = "freed"]
        BY <1>0, <3>5 DEF ControlTypes, JoinAndRemove, RemoveNode
      <4> QED BY <1>0, <4>1 DEF ConnTypes, ConnRecord
    <3>6. CASE signal_handler(c)
      BY <1>0, <3>6 DEF ControlTypes, signal_handler, EnterCleanup, AfterRecv
    <3> QED BY <1>3, <2>3, <3>1, <3>2, <3>3, <3>4, <3>5, <3>6 DEF OwnStep
  <2> QED BY <1>0, <2>1, <2>2, <2>3 DEF LineSoFar
<1>4. CASE StepAbout(c)
  <2>1. conn'[c].message = conn[c].message /\ conn'[c].gone = conn[c].gone
    <3>1. CASE Accept(c)
      BY <1>0, <3>1 DEF ConnTypes, ConnRecord, Accept
    <3>2. CASE AcceptNoMemory(c) \/ Connect(c)
      BY <1>0, <3>2 DEF ConnTypes, ConnRecord, AcceptNoMemory, Connect
    <3>3. CASE client = c /\ (CreateThread \/ CreateThreadFails)
      BY <1>0, <3>3 DEF ConnTypes, ConnRecord, CreateThread, CreateThreadFails
    <3>4. CASE RemoveNode(c)
      BY <1>0, <3>4 DEF ConnTypes, ConnRecord, RemoveNode
    <3> QED BY <1>4, <3>1, <3>2, <3>3, <3>4 DEF StepAbout, JoinAndRemove
  <2>2. \/ pc'[c] = pc[c]
        \/ pc[c] = "none" /\ pc'[c] = "fopen"
        \/ pc'[c] \in {"clean", "scan"}
    BY <1>0, <1>4 DEF ControlTypes, ThreadStarts, StepAbout, Accept, AcceptNoMemory, Connect,
       CreateThread, CreateThreadFails, JoinAndRemove
  <2> QED BY <1>0, <2>1, <2>2 DEF LineSoFar
<1> QED BY <1>2, <1>3, <1>4, OthersUntouched

(* A whole line that is written is the end of the last line of the file.   *)
LEMMA WriteIsLast ==
  ASSUME NEW f \in FileRecord, NEW m \in Seq(Tokens), Len(m) > 0, m[Len(m)] = Newline
  PROVE  LET s == FileWrite(f, m).log
         IN  Len(s) > 0 /\ IsSuffix(m, s[Len(s)])
<1> DEFINE s == FileWrite(f, m).log
<1>0. f.log \in Seq(Seq(Tokens)) /\ f.partial \in Seq(Tokens)
  BY DEF FileRecord
<1>1. ASSUME NEW p \in Seq(Tokens) PROVE IsSuffix(m, p \o m)
  <2>1. /\ p \o m \in Seq(Tokens) /\ Len(p \o m) = Len(p) + Len(m) /\ Len(p) \in Nat /\ Len(m) \in Nat
        /\ \A i \in 1..Len(m) : (p \o m)[Len(p) + i] = m[i]
    OBVIOUS
  <2> DEFINE q == p \o m
  <2>2. Len(q) - Len(m) = Len(p)
    BY <2>1
  <2>3. \A i \in 1..Len(m) : m[i] = q[Len(q) - Len(m) + i]
    BY <2>1, <2>2
  <2>4. q \in Seq(Tokens) /\ Len(m) <= Len(q)
    BY <2>1
  <2> HIDE DEF q
  <2>5. m = SubSeq(q, Len(q) - Len(m) + 1, Len(q))
    BY <2>3, <2>4, EndOfSequence
  <2> QED BY <2>4, <2>5 DEF IsSuffix, q
<1>2. IsSuffix(m, m)
  <2>1. << >> \in Seq(Tokens) /\ << >> \o m = m
    OBVIOUS
  <2> QED BY <1>1, <2>1
<1>3. ASSUME NEW g \in Seq(Seq(Tokens)), NEW x \in Seq(Tokens), s = Append(g, x)
      PROVE  Len(s) > 0 /\ s[Len(s)] = x
  BY <1>3
<1>4. CASE ~UseCharDevice
  <2>1. s = Append(f.log, m)
    BY <1>4 DEF FileWrite
  <2> QED BY <1>0, <1>2, <1>3, <2>1
<1>5. CASE UseCharDevice
  <2> DEFINE g == IF Len(f.log) >= MaxOps THEN Tail(f.log) ELSE f.log
  <2>1. s = Append(g, f.partial \o m)
    BY <1>5 DEF FileWrite
  <2>2. g \in Seq(Seq(Tokens)) /\ f.partial \o m \in Seq(Tokens)
    BY <1>0, ServerAssumption
  <2> HIDE DEF g
  <2>3. Len(s) > 0 /\ s[Len(s)] = f.partial \o m
    BY <1>3, <2>1, <2>2
  <2> QED BY <1>0, <1>1, <2>3
<1> QED BY <1>4, <1>5

(* How a connector comes to be sending. *)
LEMMA ComesToEcho ==
  ASSUME TypeInv, Next, NEW c \in Conns, pc'[c] = "echo"
  PROVE  \/ /\ pc[c] = "echo" /\ process' = process /\ conn'[c].message = conn[c].message
            /\ conn'[c].from = conn[c].from /\ conn'[c].gone = conn[c].gone
         \/ process' # "running" /\ conn'[c] = conn[c] /\ pc[c] = "echo"
         \/ WriteMessage(c) \/ WriteMessageFails(c) \/ SeekMessage(c)
<1> USE DEF At, Goto, Step, Ends
<1>0. ControlTypes /\ ConnTypes /\ ThreadStarts /\ c \in Procs /\ {"main", "ts"} \cap Conns = {}
  BY ServerAssumption DEF TypeInv, TypeOK, Procs
<1>1. CASE Sent(c)
  BY <1>1, SentFrame DEF SameSession
<1>2. CASE OwnStep(c) /\ ~Sent(c)
  <2>1. CASE ConnectorStep(c)
    BY <1>0, <2>1 DEF ControlTypes, ConnectorStep, ConnectorOpens, TouchesFreedArg, Lock,
       SeekWithoutComma, Unlock, Finish, Close
  <2>2. CASE ~ConnectorStep(c)
    BY <1>0, <1>2, <2>2 DEF ControlTypes, OwnStep, RecvEnds, AfterRecv, RecvChunk, ReallocFails,
       FopenFails, EnterCleanup, signal_handler, CleanVisits, JoinAndRemove
  <2> QED BY <2>1, <2>2
<1>3. CASE StepAbout(c)
  <2>1. CASE Accept(c) \/ AcceptNoMemory(c) \/ Connect(c) \/ (client = c /\ (CreateThread \/ CreateThreadFails))
    BY <1>0, <2>1 DEF ControlTypes, ThreadStarts, Accept, AcceptNoMemory, Connect,
       CreateThread, CreateThreadFails
  <2>2. ASSUME NEW p \in Procs, NEW l, NEW n, n \in {"scan", "clean"}, JoinAndRemove(p, l, n)
        PROVE  /\ pc[c] = "echo" /\ process' = process /\ conn'[c].message = conn[c].message
               /\ conn'[c].from = conn[c].from /\ conn'[c].gone = conn[c].gone
    <3>1. /\ conn' = [conn EXCEPT ![cur[p]].arg = "freed"] /\ process' = process
          /\ pc' = [pc EXCEPT ![p] = n]
      BY <2>2 DEF JoinAndRemove, RemoveNode
    <3> QED BY <1>0, <2>2, <3>1 DEF ControlTypes, ConnTypes, ConnRecord
  <2> QED BY <1>3, <2>1, <2>2 DEF StepAbout, Procs
<1>4. CASE pc'[c] = pc[c] /\ conn'[c] = conn[c]
  <2>1. process = "running"
    BY NextRuns
  <2> QED BY <1>4, <2>1
<1> QED BY <1>1, <1>2, <1>3, <1>4, OthersUntouched

(* As long as fwrite succeeds, what a connector has written stays the last *)
(* line of the file until it has sent it.                                  *)
LEMMA OwnLineStep ==
  ASSUME "fwrite" \notin Faults, TypeInv, TypeOK', MutexDiscipline, OneLine, OwnLineLast, Next
  PROVE  OwnLineLast'
<1>1. SUFFICES ASSUME NEW c \in Conns, pc'[c] = "echo", process' = "running",
                      SeekTokens(conn'[c].message) = {}
               PROVE  /\ (UseCharDevice => data'.size >= 0) => conn'[c].from = Start
                      /\ HasNewline(conn'[c].message) =>
                           /\ Len(data'.log) > 0
                           /\ IsSuffix(conn'[c].message, data'.log[Len(data'.log)])
  BY DEF OwnLineLast, LastIsOwn
<1>0. /\ ConnTypes /\ data \in FileRecord /\ process = "running"
      /\ LineSoFar(c) /\ LastIsOwn(c)
  BY NextRuns DEF TypeInv, TypeOK, FileTypes, OneLine, OwnLineLast
<1>2. CASE pc[c] = "echo" /\ conn'[c].message = conn[c].message /\ conn'[c].from = conn[c].from
  <2>1. data' = data
    BY <1>1, <1>2, FileHeldStill
  <2> QED BY <1>0, <1>1, <1>2, <2>1 DEF LastIsOwn
<1>3. CASE WriteMessage(c)
  <2> DEFINE m == conn[c].message
  <2>1. /\ conn'[c].message = m /\ data' = FileWrite(data, m)
        /\ conn'[c].from \in RewindPlaces(data', Len(m))
    BY <1>3, AnswerFrom DEF SameSession, WriteMessage
  <2>2. m \in Seq(Tokens) /\ \A i \in 1 .. Len(m) - 1 : m[i] # Newline
    BY <1>0 DEF ConnTypes, ConnRecord, LineSoFar
  <2> HIDE DEF m
  <2>3. ASSUME HasNewline(m) PROVE Len(m) > 0 /\ m[Len(m)] = Newline
    BY <2>2, <2>3 DEF HasNewline
  <2>4. HasNewline(m) => Len(data'.log) > 0 /\ IsSuffix(m, data'.log[Len(data'.log)])
    BY <1>0, <2>1, <2>2, <2>3, WriteIsLast
  <2>5. ASSUME UseCharDevice => data'.size >= 0 PROVE conn'[c].from = Start
    <3>1. data'.size \in Int
      BY DEF TypeOK, FileTypes, FileRecord
    <3>2. ~(UseCharDevice /\ data'.size < 0)
      BY <2>5, <3>1
    <3> QED BY <2>1, <3>2 DEF RewindPlaces
  <2> QED BY <2>1, <2>4, <2>5
<1>4. CASE WriteMessageFails(c)
  BY <1>4 DEF WriteMessageFails
<1>5. CASE SeekMessage(c)
  <2>1. conn'[c].message = conn[c].message
    BY <1>5, AnswerFrom DEF SameSession
  <2> QED BY <1>1, <1>5, <2>1 DEF SeekMessage
<1> QED BY <1>1, <1>2, <1>3, <1>4, <1>5, ComesToEcho

(* As long as no signal interrupts recv, a message without a newline is    *)
(* that of a client that has closed the connection.                        *)
LEMMA WholeStep ==
  ASSUME SignalTargets \cap Conns = {}, TypeInv, OneLine, WholeLine, Next
  PROVE  WholeLine'
<1> USE DEF At, Goto, Step, Ends
<1> DEFINE After == {"lock", "locked", "echo"}
<1>1. SUFFICES ASSUME NEW c \in Conns, pc'[c] \in After
               PROVE  conn'[c].gone <=> ~HasNewline(conn'[c].message)
  BY DEF WholeLine
<1>0. /\ ControlTypes /\ ConnTypes /\ ThreadStarts /\ LineSoFar(c)
      /\ c \in Procs /\ {"main", "ts"} \cap Conns = {} /\ c \notin SignalTargets
      /\ pc[c] \in After => (conn[c].gone <=> ~HasNewline(conn[c].message))
  BY ServerAssumption DEF TypeInv, TypeOK, OneLine, WholeLine, Procs
<1>2. CASE pc'[c] = pc[c] /\ conn'[c] = conn[c]
  BY <1>0, <1>1, <1>2
<1>3. CASE OwnStep(c)
  <2>1. ASSUME NEW d \in Chunks, RecvChunk(c, d)
        PROVE  conn'[c].gone <=> ~HasNewline(conn'[c].message)
    <3> DEFINE m == conn[c].message
               s == m \o Chunk(d)
    <3>1. /\ conn'[c].message = s /\ conn'[c].gone = conn[c].gone /\ pc[c] = "recv"
          /\ HasNewline(d)
      BY <1>0, <1>1, <2>1 DEF ControlTypes, ConnTypes, ConnRecord, RecvChunk
    <3>2. m \in Seq(Tokens) /\ ~HasNewline(m) /\ ~conn[c].gone
      BY <1>0, <3>1 DEF ConnTypes, ConnRecord, LineSoFar
    <3>3. HasNewline(s) <=> HasNewline(d)
      BY <3>2, AppendChunk
    <3> QED BY <3>1, <3>2, <3>3
  <2>2. CASE RecvEnds(c)
    BY <1>0, <2>2 DEF ConnTypes, ConnRecord, RecvEnds, LineSoFar
  <2>3. CASE ConnectorStep(c)
    <3>1. pc[c] \in After /\ ~Unlock(c)
      BY <1>0, <1>1, <2>3 DEF ControlTypes, ConnectorStep, ConnectorOpens, TouchesFreedArg,
         Lock, WriteMessage, SeekMessage, SeekWithoutComma, Unlock, Finish, Close
    <3>2. conn'[c].message = conn[c].message /\ conn'[c].gone = conn[c].gone
      <4>1. CASE WriteMessage(c) \/ SeekMessage(c)
        BY <4>1, AnswerFrom DEF SameSession
      <4>2. CASE ~WriteMessage(c) /\ ~SeekMessage(c)
        BY <1>0, <2>3, <3>1, <4>2 DEF ConnTypes, ConnRecord, ConnectorStep, ConnectorOpens,
           TouchesFreedArg, Lock, SeekWithoutComma, Finish, Close
      <4> QED BY <4>1, <4>2
    <3> QED BY <1>0, <3>1, <3>2
  <2>4. CASE ReallocFails(c) \/ WriteMessageFails(c)
    BY <1>0, <1>1, <2>4 DEF ControlTypes, ReallocFails, WriteMessageFails
  <2>5. CASE FopenFails(c) \/ CleanVisits(c) \/ JoinAndRemove(c, "clean_join", "clean")
    BY <1>0, <1>1, <2>5 DEF ControlTypes, FopenFails, EnterCleanup, CleanVisits, JoinAndRemove
  <2>6. CASE Sent(c)
    BY <1>0, <2>6, SentFrame DEF SameSession
  <2> QED BY <1>0, <1>3, <2>1, <2>2, <2>3, <2>4, <2>5, <2>6 DEF OwnStep
<1>4. CASE StepAbout(c)
  <2>1. CASE Accept(c) \/ AcceptNoMemory(c) \/ Connect(c)
    BY <1>0, <1>1, <2>1 DEF ControlTypes, ThreadStarts, Accept, AcceptNoMemory, Connect
  <2>2. CASE client = c /\ (CreateThread \/ CreateThreadFails)
    BY <1>0, <1>1, <2>2 DEF ControlTypes, ThreadStarts, CreateThread, CreateThreadFails
  <2>3. ASSUME NEW p \in Procs, NEW l, NEW n, n \in {"scan", "clean"}, JoinAndRemove(p, l, n)
        PROVE  conn'[c].gone <=> ~HasNewline(conn'[c].message)
    <3>1. /\ conn' = [conn EXCEPT ![cur[p]].arg = "freed"]
          /\ pc' = [pc EXCEPT ![p] = n]
      BY <2>3 DEF JoinAndRemove, RemoveNode
    <3>2. /\ conn'[c].message = conn[c].message /\ conn'[c].gone = conn[c].gone
          /\ pc[c] = pc'[c]
      BY <1>0, <1>1, <2>3, <3>1 DEF ControlTypes, ConnTypes, ConnRecord
    <3> QED BY <1>0, <1>1, <3>2
  <2> QED BY <1>4, <2>1, <2>2, <2>3 DEF StepAbout, Procs
<1> QED BY <1>2, <1>3, <1>4, OthersUntouched
-----------------------------------------------------------------------------
(* The list of threads.                                                    *)

(* A thread enters cleanup when its fopen fails, and does not come back    *)
(* from it.                                                                *)
CleanupSame ==
  \A p \in Procs \ {"main"} :
    pc'[p] \in {"clean", "clean_join"} <=> pc[p] \in {"clean", "clean_join"}

LEMMA CleanupMoves ==
  ASSUME TypeInv, Next
  PROVE  CleanupSame \/ \E p \in Procs : FopenFails(p)
<1> USE DEF Procs, At, Goto, Step, Ends
<1>0. ControlTypes /\ ThreadStarts /\ {"main", "ts"} \cap Conns = {}
  BY ServerAssumption DEF TypeInv, TypeOK
<1>1. CASE MainStep
  <2>1. CASE Startup
    BY <1>0, <2>1 DEF Startup, ControlTypes, CleanupSame
  <2>2. CASE CreateSocket
    BY <1>0, <2>2 DEF CreateSocket, ControlTypes, CleanupSame
  <2>3. CASE Bind
    BY <1>0, <2>3 DEF Bind, ControlTypes, CleanupSame
  <2>4. CASE Listen
    BY <1>0, <2>4 DEF Listen, ThreadStarts, ControlTypes, CleanupSame
  <2>5. CASE TestExit
    BY <1>0, <2>5 DEF TestExit, EnterCleanup, ControlTypes, CleanupSame
  <2>6. CASE CallAccept
    BY <1>0, <2>6 DEF CallAccept, ControlTypes, CleanupSame
  <2>7. ASSUME NEW d \in Conns, Accept(d) PROVE CleanupSame
    BY <1>0, <2>7 DEF Accept, ControlTypes, CleanupSame
  <2>8. CASE CreateThread
    BY <1>0, <2>8 DEF CreateThread, ThreadStarts, ControlTypes, CleanupSame
  <2>9. CASE AddNode
    BY <1>0, <2>9 DEF AddNode, ControlTypes, CleanupSame
  <2>10. CASE ScanVisits
    BY <1>0, <2>10 DEF ScanVisits, ControlTypes, CleanupSame
  <2>11. CASE ScanEnds
    BY <1>0, <2>11 DEF ScanEnds, ControlTypes, CleanupSame
  <2>12. CASE JoinAndRemove("main", "join", "scan")
    BY <1>0, <2>12 DEF JoinAndRemove, RemoveNode, ControlTypes, CleanupSame
  <2> QED BY <1>1, <2>1, <2>2, <2>3, <2>4, <2>5, <2>6, <2>7, <2>8, <2>9, <2>10,
    <2>11, <2>12 DEF MainStep
<1>2. ASSUME NEW p \in Procs, CleanupStep(p) PROVE CleanupSame
  <2>1. CASE CleanVisits(p)
    BY <1>0, <2>1 DEF CleanVisits, ControlTypes, CleanupSame
  <2>2. CASE JoinAndRemove(p, "clean_join", "clean")
    BY <1>0, <2>2 DEF JoinAndRemove, RemoveNode, ControlTypes, CleanupSame
  <2>3. CASE CleanupEnds(p)
    BY <1>0, <2>3 DEF CleanupEnds, ControlTypes, CleanupSame
  <2> QED BY <1>2, <2>1, <2>2, <2>3 DEF CleanupStep
<1>3. CASE TimestampStep
  <2>1. CASE TimestampOpens
    BY <1>0, <2>1 DEF TimestampOpens, ControlTypes, CleanupSame
  <2>2. CASE TimestampTests
    BY <1>0, <2>2 DEF TimestampTests, ControlTypes, CleanupSame
  <2>3. CASE TimestampWakes
    BY <1>0, <2>3 DEF TimestampWakes, ControlTypes, CleanupSame
  <2>4. CASE TimestampLocks
    BY <1>0, <2>4 DEF TimestampLocks, ControlTypes, CleanupSame
  <2>5. CASE TimestampWrites
    BY <1>0, <2>5 DEF TimestampWrites, ControlTypes, CleanupSame
  <2> QED BY <1>3, <2>1, <2>2, <2>3, <2>4, <2>5 DEF TimestampStep
<1>4. ASSUME NEW d \in Conns, ConnectorStep(d) PROVE CleanupSame
  <2>1. CASE ConnectorOpens(d)
    BY <1>0, <2>1 DEF ConnectorOpens, ControlTypes, CleanupSame
  <2>2. CASE Lock(d)
    BY <1>0, <2>2 DEF Lock, ControlTypes, CleanupSame
  <2>3. CASE WriteMessage(d)
    BY <1>0, AnswerFrom, <2>3 DEF WriteMessage, SameSession, ControlTypes, CleanupSame
  <2>4. CASE SeekMessage(d)
    BY <1>0, AnswerFrom, <2>4 DEF SeekMessage, SameSession, ControlTypes, CleanupSame
  <2>5. CASE SeekWithoutComma(d)
    BY <1>0, <2>5 DEF SeekWithoutComma, ControlTypes, CleanupSame
  <2>6. CASE TouchesFreedArg(d)
    BY <1>0, <2>6 DEF TouchesFreedArg, ControlTypes, CleanupSame
  <2>7. CASE Unlock(d)
    BY <1>0, <2>7 DEF Unlock, DropsMessage, ControlTypes, CleanupSame
  <2>8. CASE Finish(d)
    BY <1>0, <2>8 DEF Finish, ControlTypes, CleanupSame
  <2>9. CASE Close(d)
    BY <1>0, <2>9 DEF Close, ControlTypes, CleanupSame
  <2> QED BY <1>4, <2>1, <2>2, <2>3, <2>4, <2>5, <2>6, <2>7, <2>8, <2>9 DEF
    ConnectorStep
<1>5. ASSUME NEW d \in Conns, RecvEnds(d) \/ (\E s \in Chunks : RecvChunk(d, s))
  \/ Connect(d) PROVE CleanupSame
  <2>1. CASE RecvEnds(d)
    BY <1>0, <2>1 DEF RecvEnds, AfterRecv, ControlTypes, CleanupSame
  <2>2. ASSUME NEW s \in Chunks, RecvChunk(d, s) PROVE CleanupSame
    BY <1>0, <2>2 DEF RecvChunk, ControlTypes, CleanupSame
  <2>3. CASE Connect(d)
    BY <1>0, <2>3 DEF Connect, ControlTypes, CleanupSame
  <2> QED BY <1>5, <2>1, <2>2, <2>3
<1>6. ASSUME NEW d \in Conns, Sent(d) PROVE CleanupSame
  BY <1>0, <1>6, SentFrame DEF SameSession, CleanupSame
<1> DEFINE Goal == CleanupSame \/ \E p \in Procs : FopenFails(p)
<1>7. ASSUME Fault PROVE Goal
  <2>1. CASE StartupFails
    BY <1>0, <2>1 DEF StartupFails, ControlTypes, CleanupSame
  <2>2. CASE BindRetry
    BY <1>0, <2>2 DEF BindRetry, ControlTypes, CleanupSame
  <2>3. CASE SetupFails
    BY <1>0, <2>3 DEF SetupFails, EnterCleanup, ControlTypes, CleanupSame
  <2>4. CASE TimestampNotStarted
    BY <1>0, <2>4 DEF TimestampNotStarted, ControlTypes, CleanupSame
  <2>5. CASE AcceptFails
    BY <1>0, <2>5 DEF AcceptFails, EnterCleanup, ControlTypes, CleanupSame
  <2>6. CASE CreateThreadFails
    BY <1>0, <2>6 DEF CreateThreadFails, ControlTypes, CleanupSame
  <2>7. CASE AddNodeFails
    BY <1>0, <2>7 DEF AddNodeFails, ControlTypes, CleanupSame
  <2>8. ASSUME NEW d \in Conns, AcceptNoMemory(d) PROVE CleanupSame
    BY <1>0, <2>8 DEF AcceptNoMemory, ControlTypes, CleanupSame
  <2>9. ASSUME NEW d \in Conns, ReallocFails(d) PROVE CleanupSame
    BY <1>0, <2>9 DEF ReallocFails, ControlTypes, CleanupSame
  <2>10. ASSUME NEW d \in Conns, WriteMessageFails(d) PROVE CleanupSame
    BY <1>0, <2>10 DEF WriteMessageFails, ControlTypes, CleanupSame
  <2>11. ASSUME NEW d \in Conns, SigPipe(d) PROVE CleanupSame
    BY <1>0, <2>11 DEF SigPipe, ControlTypes, CleanupSame
  <2>12. ASSUME NEW p \in Procs, FopenFails(p) PROVE Goal
    BY <2>12
  <2>13. ASSUME NEW p \in Procs, TouchesFreedNode(p) PROVE CleanupSame
    BY <1>0, <2>13 DEF TouchesFreedNode, ControlTypes, CleanupSame
  <2>14. ASSUME NEW d \in Conns, SendFails(d) PROVE CleanupSame
    BY <1>6, <2>14 DEF Sent
  <2> QED BY <1>7, <2>1, <2>2, <2>3, <2>4, <2>5, <2>6, <2>7, <2>8, <2>9, <2>10,
    <2>11, <2>12, <2>13, <2>14 DEF Fault
<1>8. ASSUME NEW p \in SignalTargets, signal_handler(p) PROVE CleanupSame
  BY SMTT(30), <1>0, <1>8, ServerAssumption DEF signal_handler, HandlesSignal, EnterCleanup, AfterRecv,
    TimestampLabels, ConnectorLabels, ControlTypes, CleanupSame
<1> QED BY <1>1, <1>2, <1>3, <1>4, <1>5, <1>6, <1>7, <1>8 DEF Next, Sent

(* A failing fopen is a connector's or the timestamp thread's. *)
LEMMA FopenEntersCleanup ==
  ASSUME TypeInv, NEW p \in Procs, FopenFails(p)
  PROVE  /\ p # "main" /\ "fopen" \in Faults /\ pc' = [pc EXCEPT ![p] = "clean"]
         /\ ~MainCleansUp'
<1>1. /\ pc \in [Procs -> MainLabels \cup TimestampLabels \cup ConnectorLabels]
      /\ pc["main"] \in MainLabels
  BY DEF TypeInv, TypeOK, ControlTypes
<1>2. pc[p] = "fopen" /\ "fopen" \in Faults /\ pc' = [pc EXCEPT ![p] = "clean"]
  BY DEF FopenFails, At, EnterCleanup, Goto
<1>3. p # "main"
  BY <1>1, <1>2 DEF MainLabels
<1> QED BY <1>1, <1>2, <1>3 DEF MainCleansUp

(* A cleanup beside that of the main thread never ends, and there is none  *)
(* if fopen does not fail.                                                 *)
LEMMA CleanupIsMain ==
  ASSUME TypeInv, Next
  PROVE  /\ MainCleansUp' => MainCleansUp
         /\ "fopen" \notin Faults /\ MainCleansUp => MainCleansUp'
<1>1. CASE CleanupSame
  BY <1>1 DEF CleanupSame, MainCleansUp
<1>2. ASSUME NEW p \in Procs, FopenFails(p)
      PROVE  "fopen" \in Faults /\ ~MainCleansUp'
  BY <1>2, FopenEntersCleanup
<1> QED BY <1>1, <1>2, CleanupMoves

(* What the list invariant sees of a connection and of the main thread. *)
Unseen ==
  /\ head' = head /\ joined' = joined /\ client' = client
  /\ pc'["main"] = pc["main"] \/ {pc["main"], pc'["main"]} \cap {"create", "add"} = {}
  /\ \A c \in Conns :
       /\ conn'[c].arg = conn[c].arg /\ conn'[c].sock = conn[c].sock
       /\ pc'[c] = "none" <=> pc[c] = "none"
       /\ pc'[c] = "exited" <=> pc[c] = "exited"

(* A step that touches neither the list nor the cursors, and no thread     *)
(* that is in the list or about to be, keeps the list invariant.           *)
LEMMA ListFrame ==
  ASSUME TypeInv, ListHoldsThreads, Unseen
  PROVE  ListHoldsThreads'
<1>1. Nodes \subseteq Conns
  BY DEF TypeInv, TypeOK, ListTypes, Nodes, Reach
<1>2. pc["main"] \in {"create", "add"} => client \in Conns
  BY DEF TypeInv, ThreadStarts
<1>3. Nodes' = Nodes /\ IsChain(head') /\ RestUnlinked(head')
  BY DEF Unseen, ListHoldsThreads, Nodes
<1>4. \A c \in Nodes' : conn'[c].arg = "live" /\ c \notin joined' /\ pc'[c] # "none"
  BY <1>1, <1>3 DEF Unseen, ListHoldsThreads
<1>5. /\ pc'["main"] \in {"create", "add"} <=> pc["main"] \in {"create", "add"}
      /\ pc'["main"] = "add" <=> pc["main"] = "add"
      /\ client' = client /\ joined' = joined
  BY DEF Unseen
<1>6. /\ pc["main"] \in {"create", "add"} => client \notin Nodes /\ conn'[client].arg = "live"
      /\ pc["main"] = "add" => client \notin joined' /\ pc'[client] # "none"
  BY <1>2 DEF Unseen, ListHoldsThreads
<1>7. ASSUME NEW c \in Conns
      PROVE  /\ conn'[c].arg = conn[c].arg /\ conn'[c].sock = conn[c].sock
             /\ pc'[c] = "none" <=> pc[c] = "none"
             /\ pc'[c] = "exited" <=> pc[c] = "exited"
  BY DEF Unseen
<1> QED BY <1>3, <1>4, <1>5, <1>6, <1>7 DEF ListHoldsThreads

(* remove_node after pthread_join takes the joined thread, and no other,   *)
(* off the list.                                                           *)
LEMMA JoinKeepsList ==
  ASSUME TypeInv, MainCleansUp, ListHoldsThreads, NEW l, NEW n, n \in {"scan", "clean"},
         pc["main"] \notin {"create", "add"}, JoinAndRemove("main", l, n)
  PROVE  /\ ListHoldsThreads'
         /\ cur["main"] \in Nodes /\ Nodes' = Nodes \ {cur["main"]}
         /\ head' = Removed(head, cur["main"]) /\ pc[cur["main"]] = "exited"
<1> DEFINE c == cur["main"]
<1>0. /\ ControlTypes /\ ConnTypes /\ ListTypes /\ {"main", "ts"} \cap Conns = {}
      /\ IsList(head, Conns) /\ Nodes \subseteq Conns
  BY ServerAssumption, ReachClosed DEF TypeInv, TypeOK, IsList, ListTypes, Nodes, Procs
<1>1. /\ c \in Nodes /\ c \notin joined /\ joined' = joined \cup {c} /\ pc[c] = "exited"
      /\ head' = Removed(head, c) /\ conn' = [conn EXCEPT ![c].arg = "freed"]
      /\ pc' = [pc EXCEPT !["main"] = n] /\ client' = client
  <2>1. c \in Nodes /\ Joinable("main", c) /\ joined' = joined \cup {d \in {c} : pc[d] = "exited"}
    BY DEF JoinAndRemove
  <2>2. pc[c] = "exited" /\ c \notin joined
    BY <1>0, <2>1, JoinSucceeds DEF ListHoldsThreads
  <2>3. joined' = joined \cup {c}
    BY <2>1, <2>2
  <2>4. /\ head' = Removed(head, c) /\ conn' = [conn EXCEPT ![c].arg = "freed"]
        /\ pc' = [pc EXCEPT !["main"] = n] /\ client' = client
    BY DEF JoinAndRemove, RemoveNode, Removed, Step, Goto
  <2> QED BY <2>1, <2>2, <2>3, <2>4
<1> HIDE DEF c
<1>2. /\ Reach(head') = Reach(head) \ {c} /\ IsChain(head') /\ RestUnlinked(head')
  BY <1>0, <1>1, RemoveKeepsChain DEF ListHoldsThreads, Nodes
<1>3. /\ \A d \in Conns : pc'[d] = pc[d] /\ conn'[d].sock = conn[d].sock
      /\ \A d \in Conns \ {c} : conn'[d].arg = conn[d].arg
      /\ conn'[c].arg = "freed" /\ conn[c].sock = "closed"
      /\ pc'["main"] = n
  BY <1>0, <1>1 DEF ControlTypes, ConnTypes, ConnRecord, ListHoldsThreads, Procs
<1>4. \A d \in Nodes' : conn'[d].arg = "live" /\ d \notin joined' /\ pc'[d] # "none"
  BY <1>0, <1>1, <1>2, <1>3 DEF ListHoldsThreads, Nodes
<1>5. ASSUME NEW d \in Conns
      PROVE  /\ d \in joined' => pc'[d] = "exited"
             /\ pc'[d] = "exited" => conn'[d].sock = "closed"
             /\ conn'[d].sock = "open" => conn'[d].arg = "live"
             /\ "node" \notin Faults =>
                  /\ pc'[d] # "none" /\ d \notin joined' => d \in Nodes'
                  /\ conn'[d].arg = "live" => d \in Nodes'
  BY <1>0, <1>1, <1>2, <1>3 DEF ListHoldsThreads, Nodes
<1>6. ListHoldsThreads'
  BY <1>2, <1>3, <1>4, <1>5 DEF ListHoldsThreads
<1> QED BY <1>1, <1>2, <1>6 DEF c, Nodes

(* Each started thread that was not joined is on the list once. *)
LEMMA ListStep ==
  ASSUME TypeInv, MainCleansUp, MainCleansUp', ListHoldsThreads, Next
  PROVE  ListHoldsThreads'
<1> USE DEF Procs, At, Goto, Step, Ends, setup, sig, list, file
<1>0. /\ ControlTypes /\ ConnTypes /\ ThreadStarts /\ {"main", "ts"} \cap Conns = {}
      /\ MainCleansUp /\ Nodes \subseteq Conns
  BY ServerAssumption DEF TypeInv, TypeOK, ListTypes, Nodes, Reach
<1>1. CASE MainStep
  <2>1. CASE Startup
    BY <1>0, <2>1 DEF Startup, ControlTypes, ConnTypes, ConnRecord,
      ListHoldsThreads, Nodes
  <2>2. CASE CreateSocket
    BY <1>0, <2>2 DEF CreateSocket, ControlTypes, ConnTypes, ConnRecord,
      ListHoldsThreads, Nodes
  <2>3. CASE Bind
    BY <1>0, <2>3 DEF Bind, ControlTypes, ConnTypes, ConnRecord,
      ListHoldsThreads, Nodes
  <2>4. CASE Listen
    <3>1. Unseen
      BY <1>0, <2>4 DEF Unseen, Listen, ControlTypes, ConnTypes, ConnRecord
    <3> QED BY <3>1, ListFrame
  <2>5. CASE TestExit
    <3>1. Unseen
      BY <1>0, <2>5 DEF Unseen, TestExit, EnterCleanup, ControlTypes, ConnTypes,
        ConnRecord
    <3> QED BY <3>1, ListFrame
  <2>6. CASE CallAccept
    BY <1>0, <2>6 DEF CallAccept, ControlTypes, ConnTypes, ConnRecord,
      ListHoldsThreads, Nodes
  <2>7. ASSUME NEW d \in Conns, Accept(d) PROVE ListHoldsThreads'
    BY <1>0, <2>7 DEF Accept, ThreadStarts, ControlTypes, ConnTypes, ConnRecord,
      ListHoldsThreads, Nodes
  <2>8. CASE CreateThread
    <3>1. /\ client \in Conns /\ pc[client] = "none" /\ conn[client].arg = "live"
          /\ pc["main"] = "create" /\ pc'["main"] = "add" /\ pc'[client] = "fopen"
          /\ \A c \in Conns \ {client} : pc'[c] = pc[c]
          /\ UNCHANGED <<head, joined, client, conn>>
      BY <1>0, <2>8 DEF CreateThread, ControlTypes, ThreadStarts, ListHoldsThreads
    <3> QED BY <1>0, <3>1 DEF ListHoldsThreads, Nodes
  <2>9. CASE AddNode
    <3>1. /\ client \in Conns /\ pc["main"] = "add" /\ pc'["main"] = "scan"
          /\ head' = SLIST_INSERT_HEAD(head, client) /\ \A c \in Conns : pc'[c] = pc[c]
          /\ UNCHANGED <<joined, client, conn>>
      BY <1>0, <2>9 DEF AddNode, ControlTypes, ThreadStarts
    <3>2. IsList(head, Conns) /\ client \notin Reach(head)
      BY <3>1, ServerAssumption DEF TypeInv, TypeOK, ListTypes, IsList, ListHoldsThreads, Nodes
    <3>3. /\ Reach(head') = Reach(head) \cup {client}
          /\ IsChain(head') /\ RestUnlinked(head')
      BY <3>1, <3>2, InsertHead DEF ListHoldsThreads
    <3> QED BY <1>0, <3>1, <3>3 DEF ListHoldsThreads, Nodes
  <2>10. CASE ScanVisits
    <3>1. Unseen
      BY <1>0, <2>10 DEF Unseen, ScanVisits, ControlTypes, ConnTypes, ConnRecord
    <3> QED BY <3>1, ListFrame
  <2>11. CASE ScanEnds
    BY <1>0, <2>11 DEF ScanEnds, ControlTypes, ConnTypes, ConnRecord,
      ListHoldsThreads, Nodes
  <2>12. CASE JoinAndRemove("main", "join", "scan")
    <3>1. pc["main"] \notin {"create", "add"}
      BY <2>12 DEF JoinAndRemove
    <3> QED BY <2>12, <3>1, JoinKeepsList
  <2> QED BY <1>1, <2>1, <2>2, <2>3, <2>4, <2>5, <2>6, <2>7, <2>8, <2>9, <2>10,
    <2>11, <2>12 DEF MainStep
<1>2. ASSUME NEW p \in Procs, CleanupStep(p) PROVE ListHoldsThreads'
  <2>1. CASE CleanVisits(p)
    BY <1>0, <2>1 DEF CleanVisits, ControlTypes, ConnTypes, ConnRecord,
      ListHoldsThreads, Nodes
  <2>2. CASE JoinAndRemove(p, "clean_join", "clean")
    <3>1. p = "main" /\ pc["main"] \notin {"create", "add"}
      BY <1>0, <2>2 DEF JoinAndRemove, MainCleansUp
    <3>2. JoinAndRemove("main", "clean_join", "clean")
      BY <2>2, <3>1
    <3> QED BY <3>1, <3>2, JoinKeepsList
  <2>3. CASE CleanupEnds(p)
    BY <1>0, <2>3 DEF CleanupEnds, ControlTypes, ConnTypes, ConnRecord,
      ListHoldsThreads, Nodes
  <2> QED BY <1>2, <2>1, <2>2, <2>3 DEF CleanupStep
<1>3. CASE TimestampStep
  <2>1. CASE TimestampOpens
    BY <1>0, <2>1 DEF TimestampOpens, ControlTypes, ConnTypes, ConnRecord,
      ListHoldsThreads, Nodes
  <2>2. CASE TimestampTests
    <3>1. Unseen
      BY <1>0, <2>2 DEF Unseen, TimestampTests, ControlTypes, ConnTypes,
        ConnRecord
    <3> QED BY <3>1, ListFrame
  <2>3. CASE TimestampWakes
    BY <1>0, <2>3 DEF TimestampWakes, ControlTypes, ConnTypes, ConnRecord,
      ListHoldsThreads, Nodes
  <2>4. CASE TimestampLocks
    BY <1>0, <2>4 DEF TimestampLocks, ControlTypes, ConnTypes, ConnRecord,
      ListHoldsThreads, Nodes
  <2>5. CASE TimestampWrites
    BY <1>0, <2>5 DEF TimestampWrites, ControlTypes, ConnTypes, ConnRecord,
      ListHoldsThreads, Nodes
  <2> QED BY <1>3, <2>1, <2>2, <2>3, <2>4, <2>5 DEF TimestampStep
<1>4. ASSUME NEW d \in Conns, ConnectorStep(d) PROVE ListHoldsThreads'
  <2>1. CASE ConnectorOpens(d)
    BY <1>0, <2>1 DEF ConnectorOpens, ControlTypes, ConnTypes, ConnRecord,
      ListHoldsThreads, Nodes
  <2>2. CASE Lock(d)
    BY <1>0, <2>2 DEF Lock, ControlTypes, ConnTypes, ConnRecord,
      ListHoldsThreads, Nodes
  <2>3. CASE WriteMessage(d) \/ SeekMessage(d)
    <3>1. /\ pc[d] = "locked" /\ pc' = [pc EXCEPT ![d] = "echo"] /\ UNCHANGED <<head, joined, client>>
      BY <2>3 DEF WriteMessage, SeekMessage
    <3>2. SameSession(d)
      BY <2>3, AnswerFrom
    <3>3. Unseen
      BY <1>0, <3>1, <3>2 DEF Unseen, SameSession, ControlTypes
    <3> QED BY <3>3, ListFrame
  <2>5. CASE SeekWithoutComma(d)
    BY <1>0, <2>5 DEF SeekWithoutComma, ControlTypes, ConnTypes, ConnRecord,
      ListHoldsThreads, Nodes
  <2>6. CASE TouchesFreedArg(d)
    <3>1. Unseen
      BY <1>0, <2>6 DEF Unseen, TouchesFreedArg, ControlTypes, ConnTypes, ConnRecord
    <3> QED BY <3>1, ListFrame
  <2>7. CASE Unlock(d)
    <3>1. Unseen
      BY <1>0, <2>7 DEF Unseen, Unlock, DropsMessage, ControlTypes, ConnTypes, ConnRecord
    <3> QED BY <3>1, ListFrame
  <2>8. CASE Finish(d)
    BY <1>0, <2>8 DEF Finish, ControlTypes, ConnTypes, ConnRecord,
      ListHoldsThreads, Nodes
  <2>9. CASE Close(d)
    BY <1>0, <2>9 DEF Close, ControlTypes, ConnTypes, ConnRecord,
      ListHoldsThreads, Nodes
  <2> QED BY <1>4, <2>1, <2>2, <2>3, <2>5, <2>6, <2>7, <2>8, <2>9 DEF
    ConnectorStep
<1>5. ASSUME NEW d \in Conns, RecvEnds(d) \/ (\E s \in Chunks : RecvChunk(d, s))
  \/ Connect(d) PROVE ListHoldsThreads'
  <2>1. CASE RecvEnds(d)
    BY SMTT(40), <1>0, <2>1 DEF RecvEnds, AfterRecv, ControlTypes, ConnTypes, ConnRecord,
      ListHoldsThreads, Nodes
  <2>2. ASSUME NEW s \in Chunks, RecvChunk(d, s) PROVE ListHoldsThreads'
    BY <1>0, <2>2 DEF RecvChunk, ControlTypes, ConnTypes, ConnRecord,
      ListHoldsThreads, Nodes
  <2>3. CASE Connect(d)
    <3>1. /\ pc' = pc /\ UNCHANGED <<head, joined, client>> /\ pc[d] = "none"
          /\ \A c \in Conns : conn'[c].arg = conn[c].arg
          /\ \A c \in Conns \ {d} : conn'[c].sock = conn[c].sock
          /\ conn'[d].sock = "pending"
          /\ pc["main"] \in {"create", "add"} => client \in Conns
      BY <1>0, <2>3 DEF Connect, ThreadStarts, ConnTypes, ConnRecord
    <3> QED BY <1>0, <3>1 DEF ListHoldsThreads, Nodes
  <2> QED BY <1>5, <2>1, <2>2, <2>3
<1>6. ASSUME NEW d \in Conns, Sent(d) PROVE ListHoldsThreads'
  <2>1. Unseen
    BY <1>6, SentFrame DEF Unseen, SameSession
  <2> QED BY <2>1, ListFrame
<1>7. CASE Fault
  <2>1. CASE StartupFails
    BY <1>0, <2>1 DEF StartupFails, ControlTypes, ConnTypes, ConnRecord,
      ListHoldsThreads, Nodes
  <2>2. CASE BindRetry
    BY <1>0, <2>2 DEF BindRetry, ControlTypes, ConnTypes, ConnRecord,
      ListHoldsThreads, Nodes
  <2>3. CASE SetupFails
    BY <1>0, <2>3 DEF SetupFails, EnterCleanup, ControlTypes, ConnTypes,
      ConnRecord, ListHoldsThreads, Nodes
  <2>4. CASE TimestampNotStarted
    BY <1>0, <2>4 DEF TimestampNotStarted, ControlTypes, ConnTypes, ConnRecord,
      ListHoldsThreads, Nodes
  <2>5. CASE AcceptFails
    <3>1. Unseen
      BY <1>0, <2>5 DEF Unseen, AcceptFails, EnterCleanup, ControlTypes,
        ConnTypes, ConnRecord
    <3> QED BY <3>1, ListFrame
  <2>6. CASE CreateThreadFails
    <3>1. /\ client \in Conns /\ pc[client] = "none"
          /\ pc["main"] = "create" /\ pc'["main"] = "test"
          /\ UNCHANGED <<head, joined, client>> /\ \A c \in Conns : pc'[c] = pc[c]
      BY <1>0, <2>6 DEF CreateThreadFails, ControlTypes, ThreadStarts
    <3>2. /\ conn'[client].arg = "freed" /\ conn'[client].sock = "closed"
          /\ \A c \in Conns \ {client} : conn'[c] = conn[c]
      BY <1>0, <2>6, <3>1 DEF CreateThreadFails, ConnTypes, ConnRecord
    <3> QED BY <1>0, <3>1, <3>2 DEF ListHoldsThreads, Nodes
  <2>7. CASE AddNodeFails
    <3>1. /\ "node" \in Faults /\ pc["main"] = "add" /\ pc'["main"] = "scan"
          /\ UNCHANGED <<head, joined, client, conn>> /\ \A c \in Conns : pc'[c] = pc[c]
      BY <1>0, <2>7 DEF AddNodeFails, ControlTypes
    <3> QED BY <1>0, <3>1 DEF ListHoldsThreads, Nodes
  <2>8. ASSUME NEW d \in Conns, AcceptNoMemory(d) PROVE ListHoldsThreads'
    BY <1>0, <2>8 DEF AcceptNoMemory, ThreadStarts, ControlTypes, ConnTypes,
      ConnRecord, ListHoldsThreads, Nodes
  <2>9. ASSUME NEW d \in Conns, ReallocFails(d) PROVE ListHoldsThreads'
    <3>1. Unseen
      BY <1>0, <2>9 DEF Unseen, ReallocFails, ControlTypes, ConnTypes, ConnRecord
    <3> QED BY <3>1, ListFrame
  <2>10. ASSUME NEW d \in Conns, WriteMessageFails(d) PROVE ListHoldsThreads'
    BY <1>0, <2>10 DEF WriteMessageFails, ControlTypes, ConnTypes, ConnRecord,
      ListHoldsThreads, Nodes
  <2>11. ASSUME NEW d \in Conns, SigPipe(d) PROVE ListHoldsThreads'
    BY <1>0, <2>11 DEF SigPipe, ControlTypes, ConnTypes, ConnRecord,
      ListHoldsThreads, Nodes
  <2>12. ASSUME NEW p \in Procs, FopenFails(p) PROVE ListHoldsThreads'
    BY <2>12, FopenEntersCleanup
  <2>13. ASSUME NEW p \in Procs, TouchesFreedNode(p) PROVE ListHoldsThreads'
    BY <1>0, <2>13 DEF TouchesFreedNode, ControlTypes, ConnTypes, ConnRecord,
      ListHoldsThreads, Nodes
  <2>14. ASSUME NEW d \in Conns, SendFails(d) PROVE ListHoldsThreads'
    BY <1>6, <2>14 DEF Sent
  <2> QED BY <1>7, <2>1, <2>2, <2>3, <2>4, <2>5, <2>6, <2>7, <2>8, <2>9, <2>10,
    <2>11, <2>12, <2>13, <2>14 DEF Fault
<1>8. ASSUME NEW p \in SignalTargets, signal_handler(p) PROVE ListHoldsThreads'
  <2>1. Unseen
    BY ZenonT(40), <1>0, <1>8, ServerAssumption DEF Unseen, signal_handler, HandlesSignal, EnterCleanup,
      AfterRecv, TimestampLabels, ConnectorLabels, ControlTypes, ConnTypes,
      ConnRecord
  <2> QED BY <2>1, ListFrame
<1> QED BY <1>1, <1>2, <1>3, <1>4, <1>5, <1>6, <1>7, <1>8 DEF Next, Sent
-----------------------------------------------------------------------------
(* The main thread, as long as no other thread cleans up.                  *)

(* A step of the main thread that changes where it is or what it keeps, *)
MainAction ==
  \/ MainStep \/ CleanupStep("main") \/ SetupFails \/ AcceptFails \/ CreateThreadFails
  \/ AddNodeFails \/ (\E c \in Conns : AcceptNoMemory(c))
  \/ "main" \in SignalTargets /\ signal_handler("main")

(* and what every other step leaves alone. *)
MainSame ==
  /\ pc'["main"] = pc["main"] /\ cur'["main"] = cur["main"] /\ tmp'["main"] = tmp["main"]
  /\ head' = head /\ sockfd' = sockfd /\ failed' = failed

(* Only the main thread itself then moves the main thread and its list.    *)
LEMMA MainUntouched ==
  ASSUME TypeInv, MainCleansUp, MainCleansUp', Next
  PROVE  MainSame \/ MainAction
<1> USE DEF Procs, At, Goto, Step, Ends, setup, sig, list, file
<1> DEFINE Goal == MainSame \/ MainAction
<1>0. ControlTypes /\ ListTypes /\ MainCleansUp /\ {"main", "ts"} \cap Conns = {}
  BY ServerAssumption DEF TypeInv, TypeOK
<1>1. CASE MainStep
  BY <1>1 DEF MainAction
<1>2. ASSUME NEW p \in Procs, CleanupStep(p) PROVE Goal
  <2>1. p = "main" \/ CleanupEnds(p)
    BY <1>0, <1>2 DEF CleanupStep, CleanVisits, JoinAndRemove, MainCleansUp
  <2>2. CASE p = "main"
    BY <1>2, <2>2 DEF MainAction
  <2>3. CASE p # "main"
    BY <1>0, <2>1, <2>3 DEF CleanupEnds, MainCleansUp
  <2> QED BY <2>2, <2>3
<1>3. CASE TimestampStep
  <2>1. CASE TimestampOpens
    BY <1>0, <2>1 DEF TimestampOpens, MainSame, MainAction, ControlTypes,
      ListTypes
  <2>2. CASE TimestampTests
    BY <1>0, <2>2 DEF TimestampTests, MainSame, MainAction, ControlTypes,
      ListTypes
  <2>3. CASE TimestampWakes
    BY <1>0, <2>3 DEF TimestampWakes, MainSame, MainAction, ControlTypes,
      ListTypes
  <2>4. CASE TimestampLocks
    BY <1>0, <2>4 DEF TimestampLocks, MainSame, MainAction, ControlTypes,
      ListTypes
  <2>5. CASE TimestampWrites
    BY <1>0, <2>5 DEF TimestampWrites, MainSame, MainAction, ControlTypes,
      ListTypes
  <2> QED BY <1>3, <2>1, <2>2, <2>3, <2>4, <2>5 DEF TimestampStep
<1>4. ASSUME NEW d \in Conns, ConnectorStep(d) PROVE Goal
  <2>1. CASE ConnectorOpens(d)
    BY <1>0, <2>1 DEF ConnectorOpens, MainSame, MainAction, ControlTypes,
      ListTypes
  <2>2. CASE Lock(d)
    BY <1>0, <2>2 DEF Lock, MainSame, MainAction, ControlTypes, ListTypes
  <2>3. CASE WriteMessage(d)
    BY <1>0, AnswerFrom, <2>3 DEF WriteMessage, SameSession, MainSame, MainAction, ControlTypes,
      ListTypes
  <2>4. CASE SeekMessage(d)
    BY <1>0, AnswerFrom, <2>4 DEF SeekMessage, SameSession, MainSame, MainAction, ControlTypes, ListTypes
  <2>5. CASE SeekWithoutComma(d)
    BY <1>0, <2>5 DEF SeekWithoutComma, MainSame, MainAction, ControlTypes,
      ListTypes
  <2>6. CASE TouchesFreedArg(d)
    BY <1>0, <2>6 DEF TouchesFreedArg, MainSame, MainAction, ControlTypes, ListTypes
  <2>7. CASE Unlock(d)
    BY <1>0, <2>7 DEF Unlock, DropsMessage, MainSame, MainAction, ControlTypes, ListTypes
  <2>8. CASE Finish(d)
    BY <1>0, <2>8 DEF Finish, MainSame, MainAction, ControlTypes, ListTypes
  <2>9. CASE Close(d)
    BY <1>0, <2>9 DEF Close, MainSame, MainAction, ControlTypes, ListTypes
  <2> QED BY <1>4, <2>1, <2>2, <2>3, <2>4, <2>5, <2>6, <2>7, <2>8, <2>9 DEF
    ConnectorStep
<1>5. ASSUME NEW d \in Conns, RecvEnds(d) \/ (\E s \in Chunks : RecvChunk(d, s))
  \/ Connect(d) PROVE Goal
  <2>1. CASE RecvEnds(d)
    BY <1>0, <2>1 DEF RecvEnds, MainSame, MainAction, ControlTypes, ListTypes
  <2>2. ASSUME NEW s \in Chunks, RecvChunk(d, s) PROVE Goal
    BY <1>0, <2>2 DEF RecvChunk, MainSame, MainAction, ControlTypes, ListTypes
  <2>3. CASE Connect(d)
    BY <1>0, <2>3 DEF Connect, MainSame, MainAction, ControlTypes, ListTypes
  <2> QED BY <1>5, <2>1, <2>2, <2>3
<1>6. ASSUME NEW d \in Conns, Sent(d) PROVE Goal
  BY <1>0, <1>6, SentFrame DEF SameSession, MainSame, list, setup
<1>7. CASE Fault
  <2>1. CASE StartupFails
    BY <1>0, <2>1 DEF StartupFails, MainSame, MainAction, ControlTypes,
      ListTypes
  <2>2. CASE BindRetry
    BY <1>0, <2>2 DEF BindRetry, MainSame, MainAction, ControlTypes, ListTypes
  <2>3. CASE SetupFails
    BY <1>0, <2>3 DEF SetupFails, EnterCleanup, MainSame, MainAction,
      ControlTypes, ListTypes
  <2>4. CASE TimestampNotStarted
    BY <1>0, <2>4 DEF TimestampNotStarted, MainSame, MainAction, ControlTypes,
      ListTypes
  <2>5. CASE AcceptFails
    BY <1>0, <2>5 DEF AcceptFails, EnterCleanup, MainSame, MainAction,
      ControlTypes, ListTypes
  <2>6. CASE CreateThreadFails
    BY <1>0, <2>6 DEF CreateThreadFails, MainSame, MainAction, ControlTypes,
      ListTypes
  <2>7. CASE AddNodeFails
    BY <1>0, <2>7 DEF AddNodeFails, MainSame, MainAction, ControlTypes,
      ListTypes
  <2>8. ASSUME NEW d \in Conns, AcceptNoMemory(d) PROVE Goal
    BY <1>0, <2>8 DEF AcceptNoMemory, MainSame, MainAction, ControlTypes,
      ListTypes
  <2>9. ASSUME NEW d \in Conns, ReallocFails(d) PROVE Goal
    BY <1>0, <2>9 DEF ReallocFails, MainSame, MainAction, ControlTypes,
      ListTypes
  <2>10. ASSUME NEW d \in Conns, WriteMessageFails(d) PROVE Goal
    BY <1>0, <2>10 DEF WriteMessageFails, MainSame, MainAction, ControlTypes,
      ListTypes
  <2>11. ASSUME NEW d \in Conns, SigPipe(d) PROVE Goal
    BY <1>0, <2>11 DEF SigPipe, MainSame, MainAction, ControlTypes, ListTypes
  <2>12. ASSUME NEW p \in Procs, FopenFails(p) PROVE Goal
    BY <2>12, FopenEntersCleanup
  <2>13. ASSUME NEW p \in Procs, TouchesFreedNode(p) PROVE Goal
    BY <1>0, <2>13 DEF TouchesFreedNode, MainSame, MainAction, ControlTypes,
      ListTypes
  <2>14. ASSUME NEW d \in Conns, SendFails(d) PROVE Goal
    BY <1>6, <2>14 DEF Sent
  <2> QED BY <1>7, <2>1, <2>2, <2>3, <2>4, <2>5, <2>6, <2>7, <2>8, <2>9, <2>10,
    <2>11, <2>12, <2>13, <2>14 DEF Fault
<1>8. ASSUME NEW p \in SignalTargets, signal_handler(p) PROVE Goal
  BY <1>0, <1>8 DEF signal_handler, HandlesSignal, EnterCleanup, MainSame, MainAction,
    ControlTypes, ListTypes
<1> QED BY <1>1, <1>2, <1>3, <1>4, <1>5, <1>6, <1>7, <1>8 DEF Next, Sent

(* After a node was removed the scan goes on with the successor that was   *)
(* read before, and cleanup with the new first node.                       *)
LEMMA JoinMovesOn ==
  ASSUME TypeInv, MainCleansUp, ListHoldsThreads, CursorsOnList, NEW l, NEW n,
         l \in {"join", "clean_join"}, n \in {"scan", "clean"}, n = "clean" => l = "clean_join",
         JoinAndRemove("main", l, n)
  PROVE  CursorsOnList'
<1> DEFINE c == cur["main"]
<1>0. /\ ControlTypes /\ ListTypes /\ IsList(head, Conns) /\ IsChain(head)
      /\ Nodes = Reach(head) /\ "main" \in Procs
  BY ServerAssumption DEF TypeInv, TypeOK, ListTypes, IsList, Nodes, ListHoldsThreads, Procs
<1>1. pc["main"] = l /\ pc'["main"] = n /\ cur'["main"] = tmp["main"]
  BY <1>0 DEF JoinAndRemove, Step, At, Goto, ControlTypes, ListTypes
<1>2. c \in Nodes /\ Nodes' = Nodes \ {c} /\ head' = Removed(head, c)
  BY <1>1, JoinKeepsList
<1>3. tmp["main"] = head.next[c] /\ (l = "clean_join" => c = head.first)
  BY <1>1 DEF CursorsOnList, SLIST_FIRST, SLIST_NEXT
<1>4. head.next[c] # c /\ head.next[c] \in Nodes \cup {NULL}
  BY <1>0, <1>2, ReachClosed, NoSelfLoop DEF Closed
<1>5. l = "clean_join" => head'.first = head.next[c]
  BY <1>0, <1>2, <1>3, RemovedLinks
<1> QED BY <1>1, <1>2, <1>3, <1>4, <1>5 DEF CursorsOnList, SLIST_FIRST

(* The cursors of SLIST_FOREACH_SAFE stay on the list.  A scan goes from a *)
(* node to its successor, which a removal does not free; cleanup starts at *)
(* the first node, so that the successor becomes the first.                *)
LEMMA CursorsStep ==
  ASSUME TypeInv, MainCleansUp, MainCleansUp', ListHoldsThreads, CursorsOnList, Next
  PROVE  CursorsOnList'
<1> USE DEF Procs, At, Goto, Step
<1>0. /\ ControlTypes /\ ListTypes /\ ThreadStarts /\ CursorsOnList
      /\ {"main", "ts"} \cap Conns = {} /\ NULL \notin Conns
      /\ IsList(head, Conns) /\ IsChain(head)
      /\ Nodes = Reach(head) /\ Nodes \subseteq Conns
      /\ "main" \in Procs
  BY ServerAssumption, ReachClosed
  DEF TypeInv, TypeOK, ListTypes, IsList, Nodes, ListHoldsThreads
<1>1. SLIST_FIRST(head) \in Nodes \cup {NULL}
  BY <1>0, ReachEmpty DEF SLIST_FIRST
<1>2. \A c \in Nodes : SLIST_NEXT(head, c) \in (Nodes \ {c}) \cup {NULL}
  <2>1. Closed(head, Nodes) /\ \A c \in Nodes : head.next[c] # c
    BY <1>0, ReachClosed, NoSelfLoop
  <2> QED BY <2>1 DEF Closed, SLIST_NEXT
<1>3. CASE MainSame
  BY <1>0, <1>3 DEF MainSame, CursorsOnList, Nodes
<1>4. ASSUME EnterCleanup("main")
      PROVE  CursorsOnList'
  BY <1>0, <1>1, <1>4 DEF EnterCleanup, ControlTypes, ListTypes, CursorsOnList, Nodes
<1>5. CASE MainStep
  <2>1. CASE Startup \/ CreateSocket \/ Bind \/ Listen \/ CallAccept
    BY <1>0, <2>1 DEF Startup, CreateSocket, Bind, Listen, CallAccept, ControlTypes, CursorsOnList
  <2>2. CASE TestExit
    BY <1>0, <1>4, <2>2 DEF TestExit, ControlTypes, CursorsOnList
  <2>3. CASE (\E c \in Conns : Accept(c)) \/ CreateThread \/ ScanEnds
    BY <1>0, <2>3 DEF Accept, CreateThread, ScanEnds, ThreadStarts, ControlTypes, CursorsOnList
  <2>4. CASE AddNode
    <3>1. /\ client \in Conns \ Nodes /\ head' = SLIST_INSERT_HEAD(head, client)
          /\ pc'["main"] = "scan" /\ cur'["main"] = client
      BY <1>0, <2>4 DEF AddNode, ThreadStarts, ListHoldsThreads, ControlTypes, ListTypes
    <3>2. client \in Nodes'
      BY <1>0, <3>1, InsertHead DEF Nodes
    <3> QED BY <3>1, <3>2 DEF CursorsOnList
  <2>5. CASE ScanVisits
    BY <1>0, <1>2, <2>5 DEF ScanVisits, ControlTypes, ListTypes, CursorsOnList, Nodes
  <2>6. CASE JoinAndRemove("main", "join", "scan")
    BY <2>6, JoinMovesOn
  <2> QED BY <1>5, <2>1, <2>2, <2>3, <2>4, <2>5, <2>6 DEF MainStep
<1>6. CASE CleanupStep("main")
  <2>1. CASE CleanVisits("main")
    BY <1>0, <1>2, <2>1 DEF CleanVisits, ControlTypes, ListTypes, CursorsOnList, Nodes
  <2>2. CASE JoinAndRemove("main", "clean_join", "clean")
    BY <2>2, JoinMovesOn
  <2>3. CASE CleanupEnds("main")
    BY <1>0, <2>3 DEF CleanupEnds, list, CursorsOnList, Nodes
  <2> QED BY <1>6, <2>1, <2>2, <2>3 DEF CleanupStep
<1>7. CASE SetupFails \/ AcceptFails
  BY <1>0, <1>4, <1>7 DEF SetupFails, AcceptFails, ControlTypes, CursorsOnList
<1>8. CASE CreateThreadFails \/ (\E c \in Conns : AcceptNoMemory(c))
  BY <1>0, <1>8 DEF CreateThreadFails, AcceptNoMemory, ControlTypes, CursorsOnList
<1>9. CASE AddNodeFails
  BY <1>0, <1>1, <1>9 DEF AddNodeFails, ControlTypes, ListTypes, CursorsOnList, Nodes
<1>10. CASE signal_handler("main")
  BY <1>0, <1>4, <1>10 DEF signal_handler, list, ControlTypes, MainLabels, CursorsOnList, Nodes
<1> QED BY <1>3, <1>5, <1>6, <1>7, <1>8, <1>9, <1>10, MainUntouched DEF MainAction

(* The listening socket is open until cleanup closes it. *)
LEMMA SocketStep ==
  ASSUME TypeInv, MainCleansUp, MainCleansUp', SocketOpen, Next
  PROVE  SocketOpen'
<1> USE DEF Procs, At, Goto, Step, setup
<1>0. /\ ControlTypes /\ SocketOpen /\ {"main", "ts"} \cap Conns = {} /\ "main" \in Procs
      /\ process = "running" /\ ThreadStarts /\ SetupTypes
  BY ServerAssumption, NextRuns DEF TypeInv, TypeOK
<1>1. CASE MainSame
  BY <1>0, <1>1 DEF MainSame, SocketOpen
<1>2. CASE MainStep
  <2>1. CASE Startup \/ CreateSocket \/ Bind \/ Listen \/ CallAccept
    BY <1>0, <2>1 DEF Startup, CreateSocket, Bind, Listen, CallAccept, ControlTypes, SocketOpen
  <2>2. CASE TestExit
    BY <1>0, <2>2 DEF TestExit, EnterCleanup, ControlTypes, SocketOpen
  <2>3. CASE (\E c \in Conns : Accept(c)) \/ CreateThread \/ AddNode \/ ScanVisits \/ ScanEnds
    BY <1>0, <2>3 DEF Accept, CreateThread, AddNode, ScanVisits, ScanEnds, ThreadStarts, SocketOpen
  <2>4. CASE JoinAndRemove("main", "join", "scan")
    BY <1>0, <2>4 DEF JoinAndRemove, SocketOpen
  <2> QED BY <1>2, <2>1, <2>2, <2>3, <2>4 DEF MainStep
<1>3. CASE CleanupStep("main")
  BY <1>0, <1>3 DEF CleanupStep, CleanVisits, JoinAndRemove, CleanupEnds, SocketOpen
<1>4. CASE SetupFails
  BY <1>4 DEF SetupFails, SocketOpen
<1>5. CASE AcceptFails \/ CreateThreadFails \/ AddNodeFails \/ (\E c \in Conns : AcceptNoMemory(c))
  BY <1>0, <1>5 DEF AcceptFails, CreateThreadFails, AddNodeFails, AcceptNoMemory, EnterCleanup,
     SocketOpen
<1>6. CASE signal_handler("main")
  BY <1>0, <1>6 DEF signal_handler, EnterCleanup, AfterRecv, ControlTypes, MainLabels, SocketOpen
<1> QED BY <1>1, <1>2, <1>3, <1>4, <1>5, <1>6, MainUntouched DEF MainAction
-----------------------------------------------------------------------------
(* How the process ends.                                                   *)

(* A process that ends without failing or being killed ends so.            *)
LEMMA HowItEnds ==
  ASSUME TypeInv, Next
  PROVE  \/ process' \in {"running", "failure", "killed", "freed_message", "bad_pointer"}
         \/ process' = "exited" /\ CleanupEnds("main")
         \/ process' = "freed_arg" /\ \E c \in Conns : TouchesFreedArg(c)
         \/ process' = "freed_node" /\ \E p \in Procs : TouchesFreedNode(p)
<1> USE DEF At, Goto, Step, Ends
<1>0. process = "running"
  BY NextRuns
<1>1. CASE MainStep
  BY <1>0, <1>1 DEF MainStep, Startup, CreateSocket, Bind, Listen, TestExit, EnterCleanup, CallAccept,
     Accept, CreateThread, AddNode, ScanVisits, ScanEnds, JoinAndRemove
<1>2. CASE TimestampStep
  BY <1>0, <1>2 DEF TimestampStep, TimestampOpens, TimestampTests, TimestampWakes, TimestampLocks,
     TimestampWrites
<1>3. ASSUME NEW c \in Conns, Sent(c) PROVE process' = "running"
  BY <1>0, <1>3, SentFrame
<1>4. CASE Fault
  <2>1. CASE StartupFails \/ BindRetry \/ SetupFails \/ TimestampNotStarted
    BY <1>0, <2>1 DEF StartupFails, BindRetry, SetupFails, EnterCleanup, TimestampNotStarted
  <2>2. CASE AcceptFails \/ CreateThreadFails \/ AddNodeFails
    BY <1>0, <2>2 DEF AcceptFails, EnterCleanup, CreateThreadFails, AddNodeFails
  <2>3. ASSUME NEW c \in Conns,
               \/ AcceptNoMemory(c) \/ ReallocFails(c) \/ WriteMessageFails(c) \/ SigPipe(c)
        PROVE  process' \in {"running", "killed", "freed_message"}
    BY <1>0, <2>3 DEF AcceptNoMemory, ReallocFails, WriteMessageFails, SigPipe
  <2>4. ASSUME NEW c \in Conns, SendFails(c) PROVE process' = "running"
    BY <1>3, <2>4 DEF Sent
  <2>5. ASSUME NEW p \in Procs, FopenFails(p) PROVE process' = "running"
    BY <1>0, <2>5 DEF FopenFails, EnterCleanup
  <2>6. ASSUME NEW p \in Procs, TouchesFreedNode(p) PROVE process' = "freed_node"
    BY <2>6 DEF TouchesFreedNode
  <2> QED BY <1>4, <2>1, <2>2, <2>3, <2>4, <2>5, <2>6 DEF Fault
<1>5. ASSUME NEW p \in Procs, CleanupStep(p)
      PROVE  \/ process' \in {"running", "failure"}
             \/ process' = "exited" /\ CleanupEnds("main")
  <2>1. CASE CleanVisits(p) \/ JoinAndRemove(p, "clean_join", "clean")
    BY <1>0, <2>1 DEF CleanVisits, JoinAndRemove
  <2>2. CASE CleanupEnds(p) /\ p # "main"
    BY <2>2 DEF CleanupEnds
  <2>3. CASE CleanupEnds(p) /\ p = "main"
    <3>1. process' \in {"exited", "failure"}
      BY <2>3 DEF CleanupEnds
    <3> QED BY <2>3, <3>1
  <2> QED BY <1>5, <2>1, <2>2, <2>3 DEF CleanupStep
<1>6. ASSUME NEW c \in Conns, ConnectorStep(c)
      PROVE  \/ process' \in {"running", "bad_pointer"}
             \/ process' = "freed_arg" /\ TouchesFreedArg(c)
  BY <1>0, <1>6 DEF ConnectorStep, ConnectorOpens, TouchesFreedArg, Lock, WriteMessage, SeekMessage,
     SeekWithoutComma, Unlock, Finish, Close
<1>7. ASSUME NEW c \in Conns, RecvEnds(c) \/ (\E d \in Chunks : RecvChunk(c, d)) \/ Connect(c)
      PROVE  process' = "running"
  BY <1>0, <1>7 DEF RecvEnds, RecvChunk, Connect
<1>8. ASSUME NEW p \in SignalTargets, signal_handler(p) PROVE process' = "running"
  BY <1>0, <1>8 DEF signal_handler, HandlesSignal, EnterCleanup
<1> QED BY <1>1, <1>2, <1>3, <1>4, <1>5, <1>6, <1>7, <1>8 DEF Next, Sent

(* Nothing that was freed is used. *)
LEMMA UndefinedStep ==
  ASSUME TypeInv, MainCleansUp, CursorsOnList, ThreadArgLive, Next
  PROVE  process' \notin {"freed_node", "freed_arg"}
<1>1. ASSUME NEW p \in Procs, TouchesFreedNode(p) PROVE FALSE
  <2>1. CASE p = "main"
    BY <1>1, <2>1 DEF TouchesFreedNode, CursorsOnList
  <2>2. CASE p # "main"
    BY <1>1, <2>2, ServerAssumption DEF TouchesFreedNode, MainCleansUp, TypeInv, TypeOK,
       ControlTypes, TimestampLabels, ConnectorLabels, Procs
  <2> QED BY <2>1, <2>2
<1>2. ASSUME NEW c \in Conns, TouchesFreedArg(c) PROVE FALSE
  BY <1>2 DEF TouchesFreedArg, ThreadArgLive, OthersCleanUp, MainCleansUp
<1> QED BY <1>1, <1>2, HowItEnds

(* Cleanup has joined every thread when it returns from main. *)
LEMMA ExitStep ==
  ASSUME "node" \notin Faults, TypeInv, MutexDiscipline, MainCleansUp, ListHoldsThreads,
         CursorsOnList, SocketOpen, Next
  PROVE  CleanExit'
<1>1. SUFFICES ASSUME process' = "exited" PROVE CleanExit'
  BY DEF CleanExit
<1>2. CleanupEnds("main")
  BY <1>1, HowItEnds
<1>3. /\ pc["main"] = "clean" /\ cur["main"] = NULL /\ process = "running" /\ ~failed
      /\ UNCHANGED <<pc, head, joined, conn, mutex>>
      /\ sockfd' = IF sockfd = "open" THEN "closed" ELSE sockfd
      /\ pc["ts"] \in {"none", "exited"} /\ (UseCharDevice \/ data'.log = << >>)
  <2>1. pc["ts"] \in {"none", "exited"}
    BY <1>2, JoinSucceeds DEF CleanupEnds
  <2>2. UseCharDevice \/ data'.log = << >>
    BY <1>2 DEF CleanupEnds, TypeInv, TypeOK, FileTypes, FileRecord
  <2> QED BY <1>1, <1>2, <2>1, <2>2 DEF CleanupEnds, At, list
<1>4. /\ IsList(head, Conns) /\ head.first = NULL /\ Nodes = {}
  <2>1. IsList(head, Conns)
    BY ServerAssumption DEF TypeInv, TypeOK, ListTypes, IsList, Procs
  <2>2. head.first = NULL
    BY <1>3 DEF CursorsOnList, SLIST_FIRST
  <2> QED BY <2>1, <2>2, ReachEmpty DEF Nodes
<1>5. head = SLIST_INIT(Conns)
  BY <1>4 DEF IsList, ListHoldsThreads, RestUnlinked, Nodes, SLIST_INIT
<1>6. sockfd' = "closed"
  BY <1>3 DEF SocketOpen
<1>7. ASSUME NEW c \in Conns
      PROVE  /\ conn[c].arg # "live" /\ conn[c].sock # "open"
             /\ pc[c] # "none" => pc[c] = "exited" /\ c \in joined
  BY <1>3, <1>4 DEF ListHoldsThreads
<1>8. mutex = NULL
  <2>1. ASSUME NEW p \in Procs PROVE mutex # p
    BY <1>3, <1>7, <2>1 DEF MutexDiscipline, Procs
  <2> QED BY <2>1 DEF TypeInv, TypeOK, FileTypes
<1> QED BY <1>3, <1>5, <1>6, <1>7, <1>8 DEF CleanExit
-----------------------------------------------------------------------------
(* The theorems.                                                           *)

(* The server starts with every variable in its type.                      *)
LEMMA TypeInit ==
  ASSUME Init
  PROVE  TypeInv
<1> USE DEF Init, Procs, SLIST_INIT
<1>0. /\ {"main", "ts"} \cap Conns = {} /\ NULL \notin Procs /\ Kept \in Seq(Seq(Tokens))
      /\ KeptSize \in Int
  BY ServerAssumption
<1>1. ControlTypes
  BY <1>0 DEF ControlTypes, MainLabels, TimestampLabels, ConnectorLabels
<1>2. SetupTypes
  <2>1. bind_attempts \in 0..5 /\ signals \in Nat /\ sockfd \in {"none", "open", "closed"}
    OBVIOUS
  <2>2. failed \in BOOLEAN /\ exit_requested \in BOOLEAN
    BY Zenon
  <2> QED BY <2>1, <2>2 DEF SetupTypes
<1>3. ListTypes
  <2>1. head \in [first : Conns \cup {NULL}, next : [Conns -> Conns \cup {NULL}]]
    OBVIOUS
  <2>2. cur \in [Procs -> Conns \cup {NULL}] /\ tmp \in [Procs -> Conns \cup {NULL}]
    OBVIOUS
  <2> QED BY <2>1, <2>2 DEF ListTypes
<1>4. ConnTypes /\ FileTypes
  BY <1>0 DEF ConnTypes, ConnRecord, FileTypes, FileRecord, Start
<1>5. ThreadStarts
  BY <1>0 DEF ThreadStarts
<1> QED BY <1>1, <1>2, <1>3, <1>4, <1>5 DEF TypeInv, TypeOK

(* Stuttering keeps the types.                                             *)
LEMMA TypeStutters ==
  ASSUME TypeInv, UNCHANGED vars
  PROVE  TypeInv'
BY DEF TypeInv, TypeOK, ControlTypes, SetupTypes, ListTypes, ConnTypes, FileTypes, ThreadStarts,
   vars, setup, sig, list, file

(* The types that every other proof about the server starts from: where    *)
(* each thread may be, what its variables hold and which list the cursors  *)
(* walk.                                                                   *)
THEOREM TypeInvariant == Spec => []TypeInv
<1>1. TypeInv /\ [Next]_vars => TypeInv'
  <2>1. CASE TypeInv /\ Next
    BY <2>1, TypesStep, StartsStep DEF TypeInv
  <2> QED BY <2>1, TypeStutters
<1> QED BY <1>1, TypeInit, PTL DEF Spec

(* Every variable of the server keeps its type, for every number of        *)
(* connections and whatever fails: remove_node always finds the node it    *)
(* looks for, and a sixth bind is not retried.                             *)
THEOREM TypeCorrect == Spec => []TypeOK
<1>1. TypeInv => TypeOK
  BY DEF TypeInv
<1> QED BY <1>1, TypeInvariant, PTL

(* file_mutex is held by exactly the thread between lock and unlock.       *)
THEOREM MutexIsHeld == Spec => []MutexDiscipline
<1>1. Init => MutexDiscipline
  BY ServerAssumption DEF Init, MutexDiscipline, Procs
<1>2. TypeInv /\ MutexDiscipline /\ [Next]_vars => MutexDiscipline'
  <2>1. CASE UNCHANGED vars
    BY <2>1 DEF MutexDiscipline, vars, file
  <2> QED BY <2>1, MutexStep
<1> QED BY <1>1, <1>2, TypeInvariant, PTL DEF Spec

(* What a connector has sent so far is the file from where it started, as  *)
(* it still is.                                                            *)
LEMMA EchoInvariant == Spec => []EchoSoFar
<1>1. Init => EchoSoFar
  BY ServerAssumption DEF Init, EchoSoFar, SentSoFar, Procs
<1>2. TypeInv /\ TypeInv' /\ MutexDiscipline /\ EchoSoFar /\ [Next]_vars => EchoSoFar'
  <2>1. CASE UNCHANGED vars
    BY <2>1 DEF EchoSoFar, SentSoFar, RecordSent, vars, file
  <2> QED BY <2>1, EchoStep DEF TypeInv
<1> QED BY <1>1, <1>2, TypeInvariant, MutexIsHeld, PTL DEF Spec

(* A message never holds more than the one line it ends with.              *)
LEMMA LineInvariant == Spec => []OneLine
<1>1. Init => OneLine
  BY ServerAssumption DEF Init, OneLine, LineSoFar, HasNewline, Procs
<1>2. TypeInv /\ OneLine /\ [Next]_vars => OneLine'
  <2>1. CASE UNCHANGED vars
    BY <2>1 DEF OneLine, LineSoFar, vars
  <2> QED BY <2>1, LineStep
<1> QED BY <1>1, <1>2, TypeInvariant, PTL DEF Spec

(* What a connector has sent when it is done is the data file from the     *)
(* place its request has put it to, as it is at that moment, and bytes are *)
(* missing only where a send was cut: the mutex is held from the write to  *)
(* the last send.                                                          *)
THEOREM EchoesAreSnapshots == Spec => EchoIsSnapshot
<1>1. ASSUME TypeInv, EchoSoFar, Next, NEW c \in Conns, Answered(c)
      PROVE  LET e == conn[c].echoed
                 from == conn[c].from
             IN  /\ Len(e) = Len(data.log) - from.cmd
                 /\ \A i \in 1..Len(e) :
                      LET r == RecordFrom(data.log, from, i)
                      IN  IF conn[c].short THEN IsPrefix(e[i], r) ELSE e[i] = r
  BY <1>1, SnapshotStep DEF RecordSent
<1>2. TypeInv /\ EchoSoFar /\ [Next]_vars =>
        [\A c \in Conns : Answered(c) =>
           LET e == conn[c].echoed
               from == conn[c].from
           IN  /\ Len(e) = Len(data.log) - from.cmd
               /\ \A i \in 1..Len(e) :
                    LET r == RecordFrom(data.log, from, i)
                    IN  IF conn[c].short THEN IsPrefix(e[i], r) ELSE e[i] = r]_vars
  BY <1>1
<1> QED BY <1>2, TypeInvariant, EchoInvariant, PTL DEF Spec, EchoIsSnapshot

(* As long as fwrite succeeds, a client that sent a line which is no seek  *)
(* command gets it back as the end of the last thing it is sent, unless    *)
(* one of the sends was cut or the device has refused the rewind.          *)
THEOREM OwnLineIsEchoed ==
  ASSUME "fwrite" \notin Faults
  PROVE  Spec => OwnLineEchoed
<1>1. Init => OwnLineLast
  BY ServerAssumption DEF Init, OwnLineLast, LastIsOwn, Procs
<1>2. TypeInv /\ TypeInv' /\ MutexDiscipline /\ EchoSoFar /\ OneLine /\ OwnLineLast /\ [Next]_vars
      => OwnLineLast'
  <2>1. CASE UNCHANGED vars
    BY <2>1 DEF OwnLineLast, LastIsOwn, vars, file
  <2> QED BY <2>1, OwnLineStep DEF TypeInv
<1>3. ASSUME TypeInv, EchoSoFar, OwnLineLast, Next, NEW c \in Conns, Answered(c),
             SeekTokens(conn[c].message) = {}, HasNewline(conn[c].message), ~conn[c].short,
             UseCharDevice => data.size >= 0
      PROVE  LET e == conn[c].echoed IN e # << >> /\ IsSuffix(conn[c].message, e[Len(e)])
  <2> DEFINE e == conn[c].echoed
             s == data.log
             m == conn[c].message
             n == Len(s)
  <2>1. conn[c].from = Start /\ n > 0 /\ IsSuffix(m, s[n])
    BY <1>3, NextRuns DEF OwnLineLast, LastIsOwn, Answered
  <2>2. e \in Seq(Seq(Tokens)) /\ s \in Seq(Seq(Tokens)) /\ n \in Nat
    BY <1>3 DEF TypeInv, TypeOK, ConnTypes, ConnRecord, FileTypes, FileRecord
  <2>3. Len(e) = n /\ \A i \in 1..Len(e) : e[i] = RecordFrom(s, Start, i)
    BY <1>3, <2>1, <2>2, SnapshotStep DEF RecordSent, Start
  <2> HIDE DEF e, s, m, n
  <2>4. s[n] \in Seq(Tokens)
    BY <2>1, <2>2 DEF n
  <2>5. RecordFrom(s, Start, n) = SubSeq(s[n], 1, Len(s[n]))
    BY <2>1, <2>2 DEF RecordFrom, Start
  <2>6. SubSeq(s[n], 1, Len(s[n])) = s[n]
    <3> DEFINE x == s[n]
    <3> HIDE DEF x
    <3>1. x \in Seq(Tokens)
      BY <2>4 DEF x
    <3>2. SubSeq(x, 1, Len(x)) = x
      BY <3>1
    <3> QED BY <3>2 DEF x
  <2>7. n \in 1..Len(e)
    BY <2>1, <2>2, <2>3
  <2>8. e[Len(e)] = s[n]
    BY <2>3, <2>5, <2>6, <2>7
  <2>9. e # << >>
    BY <2>1, <2>2, <2>3
  <2> QED BY <2>1, <2>8, <2>9 DEF e, m
<1>4. TypeInv /\ EchoSoFar /\ OwnLineLast /\ [Next]_vars =>
        [\A c \in Conns :
           /\ Answered(c) /\ SeekTokens(conn[c].message) = {} /\ HasNewline(conn[c].message)
           /\ ~conn[c].short /\ (UseCharDevice => data.size >= 0)
           => LET e == conn[c].echoed IN e # << >> /\ IsSuffix(conn[c].message, e[Len(e)])]_vars
  BY <1>3
<1> QED BY <1>1, <1>2, <1>4, TypeInvariant, MutexIsHeld, EchoInvariant, LineInvariant, PTL
        DEF Spec, OwnLineEchoed

(* If no signal is handled on a connector's thread, what is written is one *)
(* whole line, or all that a client sent before it closed the connection.  *)
THEOREM WholeLinesWritten ==
  ASSUME SignalTargets \cap Conns = {}
  PROVE  Spec => []WholeUnlessGone
<1>1. Init => WholeLine
  BY ServerAssumption DEF Init, WholeLine, Procs
<1>2. TypeInv /\ OneLine /\ WholeLine /\ [Next]_vars => WholeLine'
  <2>1. CASE UNCHANGED vars
    BY <2>1 DEF WholeLine, vars
  <2> QED BY <2>1, WholeStep
<1>3. TypeInv /\ OneLine /\ WholeLine => WholeUnlessGone
  <2>1. SUFFICES ASSUME TypeInv, OneLine, WholeLine, NEW c \in Conns,
                        pc[c] \in {"locked", "echo"}, HasNewline(conn[c].message)
                 PROVE  NewlineAt(conn[c].message) = Len(conn[c].message)
    BY DEF WholeLine, WholeUnlessGone
  <2> DEFINE m == conn[c].message
  <2>2. m \in Seq(Tokens) /\ \A i \in 1 .. Len(m) - 1 : m[i] # Newline
    BY <2>1 DEF TypeInv, TypeOK, ConnTypes, ConnRecord, OneLine, LineSoFar
  <2>3. NewlineAt(m) \in 1..Len(m) /\ m[NewlineAt(m)] = Newline
    BY <2>1, <2>2, NewlineAtIsFirst
  <2> QED BY <2>2, <2>3
<1> QED BY <1>1, <1>2, <1>3, TypeInvariant, LineInvariant, PTL DEF Spec

(* As long as only the main thread walks it, the list holds threads that   *)
(* are to be joined.                                                       *)
ListInv == MainCleansUp => ListHoldsThreads /\ CursorsOnList /\ SocketOpen

(* Whatever fails. *)
LEMMA ListInvariant == Spec => []ListInv
<1>1. Init => ListInv
  <2>0. SUFFICES ASSUME Init PROVE ListInv
    OBVIOUS
  <2>1. {"main", "ts"} \cap Conns = {} /\ NULL \notin Conns
    BY ServerAssumption DEF Procs
  <2>2. Nodes = {} /\ IsChain(head) /\ RestUnlinked(head)
    BY <2>0, <2>1, InitIsChain DEF Init, Nodes
  <2>3. ListHoldsThreads
    BY <2>0, <2>1, <2>2 DEF Init, ListHoldsThreads, Procs
  <2>4. CursorsOnList /\ SocketOpen
    BY <2>0, <2>1 DEF Init, CursorsOnList, SocketOpen, Procs
  <2> QED BY <2>3, <2>4 DEF ListInv
<1>2. TypeInv /\ ListInv /\ [Next]_vars => ListInv'
  <2>1. CASE UNCHANGED vars
    BY <2>1 DEF ListInv, MainCleansUp, ListHoldsThreads, CursorsOnList, SocketOpen, Nodes, vars,
       setup, list
  <2>2. CASE TypeInv /\ ListInv /\ Next
    <3>1. SUFFICES ASSUME MainCleansUp'
                   PROVE  ListHoldsThreads' /\ CursorsOnList' /\ SocketOpen'
      BY DEF ListInv
    <3>2. TypeInv /\ MainCleansUp /\ ListHoldsThreads /\ CursorsOnList /\ SocketOpen /\ Next
      BY <2>2, <3>1, CleanupIsMain DEF ListInv
    <3> QED BY <3>1, <3>2, ListStep, CursorsStep, SocketStep
  <2> QED BY <2>1, <2>2
<1> QED BY <1>1, <1>2, TypeInvariant, PTL DEF Spec

(* Nobody but the main thread cleans up if fopen never fails. *)
LEMMA MainCleansUpAlone ==
  ASSUME "fopen" \notin Faults
  PROVE  Spec => []MainCleansUp
<1>1. Init => MainCleansUp
  BY ServerAssumption DEF Init, MainCleansUp, Procs
<1>2. TypeInv /\ MainCleansUp /\ [Next]_vars => MainCleansUp'
  <2>1. CASE UNCHANGED vars
    BY <2>1 DEF MainCleansUp, vars
  <2> QED BY <2>1, CleanupIsMain
<1> QED BY <1>1, <1>2, TypeInvariant, PTL DEF Spec

(* The thread_arg of a connector is freed only once the connector no       *)
(* longer needs it, whatever fails, as long as no other thread than main   *)
(* is in cleanup.                                                          *)
THEOREM ArgumentsLive == Spec => []ThreadArgLive
<1>1. Init => ThreadArgLive
  BY ServerAssumption DEF Init, ThreadArgLive, Procs
<1>2. TypeInv /\ ListInv /\ ThreadArgLive /\ [Next]_vars => ThreadArgLive'
  <2>1. CASE UNCHANGED vars
    BY <2>1 DEF ThreadArgLive, OthersCleanUp, vars
  <2>2. ASSUME TypeInv, ListInv, ThreadArgLive, Next, MainCleansUp' PROVE ThreadArgLive'
    <3>1. MainCleansUp /\ ListHoldsThreads
      BY <2>2, CleanupIsMain DEF ListInv
    <3> QED BY <2>2, <3>1, ArgStep
  <2>3. ASSUME ~MainCleansUp' PROVE ThreadArgLive'
    BY <2>3 DEF MainCleansUp, ThreadArgLive, OthersCleanUp
  <2> QED BY <2>1, <2>2, <2>3
<1> QED BY <1>1, <1>2, TypeInvariant, ListInvariant, PTL DEF Spec

(* A started connector that was not joined is on the list once, and a node *)
(* never outlives its thread_arg, as long as fopen and add_node succeed.   *)
THEOREM ListHasThreads ==
  ASSUME Faults \cap {"fopen", "node"} = {}
  PROVE  Spec => []ListMatchesThreads
<1>0. "fopen" \notin Faults /\ "node" \notin Faults
  OBVIOUS
<1>1. TypeInv /\ MainCleansUp /\ ListInv => ListMatchesThreads
  BY <1>0 DEF ListInv, ListHoldsThreads, ListMatchesThreads, IsChain, Nodes, SLIST_FIRST, SLIST_NEXT
<1>2. Spec => []MainCleansUp
  BY <1>0, MainCleansUpAlone
<1> QED BY <1>1, <1>2, TypeInvariant, ListInvariant, PTL

(* When main returns, every connector was joined, its node and its         *)
(* thread_arg were freed, no accepted connection is open, the timestamp    *)
(* thread has ended and the regular file is gone, as long as fopen and     *)
(* add_node succeed.                                                       *)
THEOREM ExitIsClean ==
  ASSUME Faults \cap {"fopen", "node"} = {}
  PROVE  Spec => []CleanExit
<1>0. "fopen" \notin Faults /\ "node" \notin Faults
  OBVIOUS
<1>1. Init => CleanExit
  BY DEF Init, CleanExit
<1>2. TypeInv /\ MutexDiscipline /\ MainCleansUp /\ ListInv /\ CleanExit /\ [Next]_vars => CleanExit'
  <2>1. CASE UNCHANGED vars
    BY <2>1 DEF CleanExit, vars, setup, list, file
  <2> QED BY <1>0, <2>1, ExitStep DEF ListInv
<1>3. Spec => []MainCleansUp
  BY <1>0, MainCleansUpAlone
<1> QED BY <1>1, <1>2, <1>3, TypeInvariant, MutexIsHeld, ListInvariant, PTL DEF Spec

(* No thread uses a node or a thread_arg after it was freed, whatever      *)
(* fails, unless another thread than main is in cleanup.                   *)
THEOREM NothingFreedUsed == Spec => []NothingUndefined
<1>1. Init => NothingUndefined
  BY DEF Init, NothingUndefined
<1>2. TypeInv /\ ListInv /\ ThreadArgLive /\ NothingUndefined /\ [Next]_vars => NothingUndefined'
  <2>1. CASE UNCHANGED vars
    BY <2>1 DEF NothingUndefined, OthersCleanUp, vars
  <2>2. ASSUME TypeInv, ListInv, ThreadArgLive, Next, MainCleansUp' PROVE NothingUndefined'
    <3>1. MainCleansUp /\ CursorsOnList
      BY <2>2, CleanupIsMain DEF ListInv
    <3> QED BY <2>2, <3>1, UndefinedStep DEF NothingUndefined
  <2>3. ASSUME ~MainCleansUp' PROVE NothingUndefined'
    BY <2>3 DEF MainCleansUp, NothingUndefined, OthersCleanUp
  <2> QED BY <2>1, <2>2, <2>3
<1> QED BY <1>1, <1>2, TypeInvariant, ListInvariant, ArgumentsLive, PTL DEF Spec
=============================================================================
