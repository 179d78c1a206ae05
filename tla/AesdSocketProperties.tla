------------------------ MODULE AesdSocketProperties ------------------------
(* What the threads of server/aesdsocket.c may rely on. *)
EXTENDS AesdSocket

(* Where each thread may be. *)
MainLabels == {"startup", "socket", "bind", "listen", "test", "call_accept", "accept",
               "create", "add", "scan", "join", "clean", "clean_join"}
TimestampLabels == {"none", "fopen", "ts_test", "ts_sleep", "ts_awake", "ts_lock", "ts_write",
                    "exited", "clean", "clean_join"}
ConnectorLabels == {"none", "fopen", "recv", "lock", "locked", "echo", "finish", "close",
                    "exited", "clean", "clean_join"}

ControlTypes ==
  /\ process \in {"running", "exited", "failure", "killed",
                  "freed_node", "freed_arg", "freed_message", "bad_pointer"}
  /\ pc \in [Procs -> MainLabels \cup TimestampLabels \cup ConnectorLabels]
  /\ pc["main"] \in MainLabels /\ pc["ts"] \in TimestampLabels
  /\ \A c \in Conns : pc[c] \in ConnectorLabels

SetupTypes ==
  /\ sockfd \in {"none", "open", "closed"} /\ bind_attempts \in 0..5 /\ failed \in BOOLEAN
  /\ exit_requested \in BOOLEAN /\ signals \in Nat

ListTypes ==
  /\ client \in Conns \cup {NULL} /\ joined \subseteq Conns
  /\ head \in [first : Conns \cup {NULL}, next : [Conns -> Conns \cup {NULL}]]
  /\ cur \in [Procs -> Conns \cup {NULL}] /\ tmp \in [Procs -> Conns \cup {NULL}]

ConnRecord ==
  [sock : {"none", "pending", "open", "closed"}, arg : {"none", "live", "freed"},
   finished : BOOLEAN, gone : BOOLEAN, message : Seq(Tokens),
   pos : [cmd : Nat, off : Nat], from : [cmd : Nat, off : Nat],
   echoed : Seq(Seq(Tokens)), short : BOOLEAN]

ConnTypes == conn \in [Conns -> ConnRecord]

FileRecord == [log : Seq(Seq(Tokens)), partial : Seq(Tokens), size : Int]
FileTypes == mutex \in Procs \cup {NULL} /\ data \in FileRecord /\ ticks \in Nat

(* Every variable keeps its type: bind is retried at most five times, and  *)
(* list cursors are nodes or NULL.                                         *)
TypeOK == ControlTypes /\ SetupTypes /\ ListTypes /\ ConnTypes /\ FileTypes

(* file_mutex is held by exactly the thread that is between lock and       *)
(* unlock, in connector or in timestamp_thread.                            *)
MutexDiscipline ==
  \A p \in Procs : mutex = p <=> pc[p] \in {"locked", "echo", "ts_write"}

(* A thread whose fopen failed runs cleanup beside the main thread: the    *)
(* second pthread_join for a thread fails, and remove_node then frees what *)
(* a running thread uses.                                                  *)
OthersCleanUp == \E p \in Procs \ {"main"} : pc[p] \in {"clean", "clean_join"}

(* connector reads thread_arg when it starts and writes "finished" near    *)
(* its end; until then it was not freed, since the main thread calls       *)
(* remove_node only for threads it has joined.  It holds whatever else     *)
(* fails, as long as no other thread runs cleanup.                         *)
ThreadArgLive ==
  OthersCleanUp \/
  \A c \in Conns :
    pc[c] \in {"fopen", "recv", "lock", "locked", "echo", "finish"} => conn[c].arg = "live"

(* A started connector that was not joined has one node in the list, so    *)
(* that somebody will join it; a node never outlives its thread_arg.  The  *)
(* main loop is between pthread_create and add_node for at most one.       *)
ListMatchesThreads ==
  /\ \A c, d \in Nodes : SLIST_NEXT(head, c) = SLIST_NEXT(head, d) => c = d
  /\ SLIST_FIRST(head) \notin {SLIST_NEXT(head, c) : c \in Nodes}
  /\ \A c \in Nodes : conn[c].arg = "live" /\ c \notin joined
  /\ \A c \in Conns :
       pc[c] # "none" /\ c \notin joined => c \in Nodes \/ (pc["main"] = "add" /\ client = c)

(* No thread uses a list node or a thread_arg after it was freed, whatever *)
(* fails and wherever signals are handled, unless another thread than main *)
(* runs cleanup because its fopen failed.                                  *)
NothingUndefined == process \in {"freed_node", "freed_arg"} => OthersCleanUp

(* When main returns, every connector was joined, its node and thread_arg  *)
(* were freed, every accepted connection was closed, and the timestamp     *)
(* thread has ended, so that the regular file is not written to once it    *)
(* was removed.                                                            *)
CleanExit ==
  process = "exited" =>
    /\ head = SLIST_INIT(Conns) /\ mutex = NULL /\ sockfd = "closed"
    /\ \A c \in Conns :
         /\ conn[c].arg # "live" /\ conn[c].sock # "open"
         /\ pc[c] # "none" => pc[c] = "exited" /\ c \in joined
    /\ pc["ts"] \in {"none", "exited"} /\ (UseCharDevice \/ data.log = << >>)

(* The step in which a connector has sent its answer. *)
Answered(c) == pc[c] = "echo" /\ pc'[c] = "finish"

IsPrefix(s, t) == Len(s) <= Len(t) /\ s = SubSeq(t, 1, Len(s))
IsSuffix(m, s) == Len(m) <= Len(s) /\ m = SubSeq(s, Len(s) - Len(m) + 1, Len(s))

(* The i-th record of a log from a place on. *)
RecordFrom(l, at, i) ==
  SubSeq(l[at.cmd + i], IF i = 1 THEN at.off + 1 ELSE 1, Len(l[at.cmd + i]))

(* What a connector sends back is the file as it is at one moment, from    *)
(* the place where its request has put the position up to the end: no      *)
(* other thread writes between its own write and its last send.  Bytes are *)
(* missing only at the end of a send that was cut.                         *)
EchoIsSnapshot ==
  [][\A c \in Conns : Answered(c) =>
       LET e == conn[c].echoed
           from == conn[c].from
       IN  /\ Len(e) = Len(data.log) - from.cmd
           /\ \A i \in 1..Len(e) :
                LET r == RecordFrom(data.log, from, i)
                IN  IF conn[c].short THEN IsPrefix(e[i], r) ELSE e[i] = r]_vars

(* A client that sent a whole line gets it back as the end of the last     *)
(* thing it is sent, unless the line is a seek command.  It holds when     *)
(* fwrite succeeds, no send was cut and the device accepts the rewind.     *)
OwnLineEchoed ==
  [][\A c \in Conns :
       /\ Answered(c) /\ SeekTokens(conn[c].message) = {} /\ HasNewline(conn[c].message)
       /\ ~conn[c].short /\ (UseCharDevice => data.size >= 0)
       => LET e == conn[c].echoed IN e # << >> /\ IsSuffix(conn[c].message, e[Len(e)])]_vars

(* What is written is one line, or all that a client sent before it closed *)
(* the connection.  It holds as long as signals interrupt no recv.         *)
WholeUnlessGone ==
  \A c \in Conns :
    LET m == conn[c].message
    IN  pc[c] \in {"locked", "echo"} =>
          IF conn[c].gone THEN ~HasNewline(m) ELSE HasNewline(m) /\ NewlineAt(m) = Len(m)

(* The client sends its line or closes; it takes what it is sent. *)
KeepsSending(c) == []<>(pc[c] # "recv")
KeepsReading(c) == []<>(pc[c] # "echo")

(* An accepted connection gets its thread, its turn with file_mutex and    *)
(* its answer, and is closed, if its client sends a line or closes it and  *)
(* no client leaves a connector in send, where it has file_mutex.          *)
ConnectionsServed ==
  (\A d \in Conns : KeepsReading(d)) =>
    \A c \in Conns : KeepsSending(c) =>
      ((conn[c].sock = "open") ~> (conn[c].sock = "closed" \/ process # "running"))

(* Once main has entered cleanup the process ends, unless some client      *)
(* leaves its connector in recv or in send, which cleanup waits for.       *)
CleanupCompletes ==
  (\A c \in Conns : KeepsSending(c) /\ KeepsReading(c)) =>
    ((pc["main"] = "clean") ~> (process # "running"))

(* A process that was asked to stop stops. *)
StopsOnSignal == exit_requested ~> (process # "running")
=============================================================================
