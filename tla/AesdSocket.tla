----------------------------- MODULE AesdSocket -----------------------------
(***************************************************************************)
(* The server of server/aesdsocket.c: the main thread, one connector       *)
(* thread per accepted connection, the timestamp thread of the build that  *)
(* keeps its data in a regular file, and the signal handler.  The threads  *)
(* share file_mutex, the data file and exit_requested; the main thread     *)
(* keeps the list "head" of the threads it has to join.  Bytes are tokens, *)
(* and the data file is modelled by what the server relies on: a regular   *)
(* file grows, /dev/aesdchar keeps the last MaxOps commands and refuses a  *)
(* seek when its account of their size is below zero.                      *)
(***************************************************************************)
EXTENDS SlistOps, Integers, Sequences, FiniteSets

CONSTANTS
  Conns,         (* client connections; each is served by its own thread   *)
  UseCharDevice, (* USE_AESD_CHAR_DEVICE                                   *)
  MaxOps,        (* commands that /dev/aesdchar keeps                      *)
  Chunks,        (* what one recv may return: non-empty token sequences    *)
  Newline, Comma,
  Kept, KeptSize,  (* the lines the data file holds when the server starts *)
                 (* and aesd_device.size, which is less if a line was      *)
                 (* written in pieces                                      *)
  SeekTarget,    (* tokens "AESDCHAR_IOCSEEKTO:<x>,<y>" without the comma, *)
                 (* and the place [cmd |-> x, off |-> y] that they name    *)
  Stamp,         (* the line that the timestamp thread writes              *)
  Faults,        (* the calls that may fail                                *)
  SignalTargets, (* the threads that SIGINT and SIGTERM may be handled on  *)
  MaxSignals, MaxTicks, MaxLen   (* bounds: signals, timestamps, tokens of *)
                                 (* a message                              *)

Procs == {"main", "ts"} \cup Conns

(* What occurs in a message, a stamp or a line of the file. *)
TokensOf(s) == {s[i] : i \in 1..Len(s)}
Tokens == UNION {TokensOf(s) : s \in Chunks \cup {Stamp} \cup TokensOf(Kept)}

ASSUME ServerAssumption ==
  /\ NULL \notin Procs /\ {"main", "ts"} \cap Conns = {}
  /\ UseCharDevice \in BOOLEAN /\ MaxOps \in Nat \ {0}
  /\ Chunks \subseteq Seq(Tokens) /\ Stamp \in Seq(Tokens) /\ Kept \in Seq(Seq(Tokens))
  /\ (\A d \in Chunks : Len(d) > 0) /\ Len(Kept) <= MaxOps
  /\ KeptSize \in Int
  /\ \A t \in DOMAIN SeekTarget : SeekTarget[t] \in [cmd : Nat, off : Nat]
  /\ SignalTargets \subseteq Procs
  /\ MaxSignals \in Nat /\ MaxTicks \in Nat /\ MaxLen \in Nat

VARIABLES
  process,       (* "running", or how it ended                             *)
  pc,            (* what each thread is about to do                        *)
  sockfd, bind_attempts, failed,  (* listening socket; EXIT_FAILURE ahead? *)
  exit_requested, signals,
  client,        (* client_sock of the main loop                           *)
  head, joined,  (* the list of threads; those that were joined            *)
  cur, tmp,      (* cursors of SLIST_FOREACH_SAFE, per thread              *)
  conn,          (* socket, thread_arg and locals of each connection       *)
  mutex, data, ticks   (* owner of file_mutex; the file; timestamps in it  *)

setup == <<sockfd, bind_attempts, failed>>
sig == <<exit_requested, signals>>
list == <<client, head, joined, cur, tmp>>
file == <<mutex, data, ticks>>
vars == <<process, pc, setup, sig, list, conn, file>>

(* A place in the file: the byte at offset off of the record behind the    *)
(* first cmd ones.                                                         *)
Start == [cmd |-> 0, off |-> 0]

Init ==
  /\ process = "running"
  /\ pc = [p \in Procs |-> IF p = "main" THEN "startup" ELSE "none"]
  /\ sockfd = "none" /\ bind_attempts = 0 /\ failed = FALSE
  /\ exit_requested = FALSE /\ signals = 0
  /\ client = NULL /\ head = SLIST_INIT(Conns) /\ joined = {}
  /\ cur = [p \in Procs |-> NULL] /\ tmp = [p \in Procs |-> NULL]
  /\ conn = [c \in Conns |->
               [sock |-> "none", arg |-> "none", finished |-> FALSE, gone |-> FALSE,
                message |-> << >>, pos |-> Start, from |-> Start,
                echoed |-> << >>, short |-> FALSE]]
  /\ mutex = NULL /\ data = [log |-> Kept, partial |-> << >>, size |-> KeptSize] /\ ticks = 0

At(p, l) == process = "running" /\ pc[p] = l
Goto(p, l) == pc' = [pc EXCEPT ![p] = l] /\ UNCHANGED process
Step(p, from, to) == At(p, from) /\ Goto(p, to)

(* exit, a signal that kills, or the use of a freed node, thread_arg or    *)
(* message_buf, or of an invalid pointer: nothing of the process is        *)
(* described after it.                                                     *)
Ends(result) == process' = result /\ UNCHANGED <<pc, setup, sig, list, conn, file>>
-----------------------------------------------------------------------------
(***************************************************************************)
(* The list of threads, and remove_node.                                   *)
(***************************************************************************)
Nodes == Reach(head)

(* Mutant: the node stays in the list. *)
RemoveNodeKept(c) ==
  /\ head' = head
  /\ conn' = [conn EXCEPT ![c].arg = "freed"]

RemoveNode(c) ==
  /\ head' = Forget(SLIST_REMOVE(head, c), c)
  /\ conn' = [conn EXCEPT ![c].arg = "freed"]

(* cleanup() is entered. *)
EnterCleanup(p) ==
  /\ Goto(p, "clean")
  /\ cur' = [cur EXCEPT ![p] = SLIST_FIRST(head)]
  /\ UNCHANGED <<client, head, joined, tmp>>
-----------------------------------------------------------------------------
(***************************************************************************)
(* main: startup                                                           *)
(***************************************************************************)
(* setup_signal_handlers and, with -d, daemonize in the surviving process, *)
Startup ==
  /\ Step("main", "startup", "socket")
  /\ UNCHANGED <<setup, sig, list, conn, file>>

StartupFails == At("main", "startup") /\ "startup" \in Faults /\ Ends("failure")

(* socket and setsockopt, *)
CreateSocket ==
  /\ Step("main", "socket", "bind")
  /\ sockfd' = "open"
  /\ UNCHANGED <<bind_attempts, failed, sig, list, conn, file>>

(* bind, tried again after ten seconds (bind_attempts is not used again),  *)
Bind ==
  /\ Step("main", "bind", "listen")
  /\ bind_attempts' = 0
  /\ UNCHANGED <<sockfd, failed, sig, list, conn, file>>

(* Mutant: there is no limit. *)
BindRetryForever ==
  /\ At("main", "bind") /\ "bind" \in Faults
  /\ bind_attempts' = bind_attempts + 1
  /\ UNCHANGED <<process, pc, sockfd, failed, sig, list, conn, file>>

BindRetry ==
  /\ At("main", "bind") /\ "bind" \in Faults /\ bind_attempts < 5
  /\ bind_attempts' = bind_attempts + 1
  /\ UNCHANGED <<process, pc, sockfd, failed, sig, list, conn, file>>

(* and listen.  In the regular file build the timestamp thread is started. *)
Listen ==
  /\ At("main", "listen")
  /\ pc' = [pc EXCEPT !["main"] = "test", !["ts"] = IF UseCharDevice THEN "none" ELSE "fopen"]
  /\ UNCHANGED <<process, setup, sig, list, conn, file>>

(* socket, setsockopt, the sixth bind or listen fails: cleanup and exit.   *)
SetupFails ==
  /\ \/ At("main", "socket") /\ "startup" \in Faults /\ sockfd' \in {"none", "open"}
     \/ At("main", "bind") /\ "bind" \in Faults /\ bind_attempts >= 5 /\ UNCHANGED sockfd
     \/ At("main", "listen") /\ "startup" \in Faults /\ UNCHANGED sockfd
  /\ failed' = TRUE /\ EnterCleanup("main")
  /\ UNCHANGED <<bind_attempts, sig, conn, file>>

(* pthread_create of the timestamp thread fails: exit without cleanup.     *)
TimestampNotStarted ==
  At("main", "listen") /\ ~UseCharDevice /\ "startup" \in Faults /\ Ends("failure")
-----------------------------------------------------------------------------
(***************************************************************************)
(* main: the accept loop                                                   *)
(***************************************************************************)
TestExit ==
  /\ At("main", "test")
  /\ IF exit_requested THEN EnterCleanup("main") ELSE Goto("main", "call_accept") /\ UNCHANGED list
  /\ UNCHANGED <<setup, sig, conn, file>>

(* From here on, and not before, a signal makes accept return. *)
CallAccept ==
  /\ Step("main", "call_accept", "accept")
  /\ UNCHANGED <<setup, sig, list, conn, file>>

(* accept returns a connection, and its thread_arg is allocated. *)
Accept(c) ==
  /\ conn[c].sock = "pending" /\ Step("main", "accept", "create")
  /\ client' = c
  /\ conn' = [conn EXCEPT ![c].sock = "open", ![c].arg = "live"]
  /\ UNCHANGED <<setup, sig, head, joined, cur, tmp, file>>

(* thread_arg cannot be allocated: the connection is closed. *)
AcceptNoMemory(c) ==
  /\ conn[c].sock = "pending" /\ "thread_arg" \in Faults /\ Step("main", "accept", "test")
  /\ conn' = [conn EXCEPT ![c].sock = "closed"]
  /\ UNCHANGED <<setup, sig, list, file>>

(* accept returns -1. *)
AcceptFails ==
  /\ At("main", "accept") /\ "accept" \in Faults
  /\ IF exit_requested THEN EnterCleanup("main") ELSE Goto("main", "test") /\ UNCHANGED list
  /\ UNCHANGED <<setup, sig, conn, file>>

(* pthread_create: from here on the new thread runs. *)
CreateThread ==
  /\ At("main", "create")
  /\ pc' = [pc EXCEPT !["main"] = "add", ![client] = "fopen"]
  /\ UNCHANGED <<process, setup, sig, list, conn, file>>

CreateThreadFails ==
  /\ "create" \in Faults /\ Step("main", "create", "test")
  /\ conn' = [conn EXCEPT ![client].arg = "freed", ![client].sock = "closed"]
  /\ UNCHANGED <<setup, sig, list, file>>

(* add_node, and the scan for finished threads starts at the head. *)
AddNode ==
  /\ Step("main", "add", "scan")
  /\ head' = SLIST_INSERT_HEAD(head, client)
  /\ cur' = [cur EXCEPT !["main"] = client]
  /\ UNCHANGED <<setup, sig, client, joined, tmp, conn, file>>

AddNodeFails ==
  /\ "node" \in Faults /\ Step("main", "add", "scan")
  /\ cur' = [cur EXCEPT !["main"] = SLIST_FIRST(head)]
  /\ UNCHANGED <<setup, sig, client, head, joined, tmp, conn, file>>

ScanEnds ==
  /\ cur["main"] = NULL /\ Step("main", "scan", "test")
  /\ UNCHANGED <<setup, sig, list, conn, file>>

(* tmp is read before the node is looked at. *)
ScanVisits ==
  LET c == cur["main"]
  IN  /\ At("main", "scan") /\ c \in Nodes
      /\ tmp' = [tmp EXCEPT !["main"] = SLIST_NEXT(head, c)]
      /\ IF conn[c].finished
         THEN Goto("main", "join") /\ UNCHANGED cur
         ELSE Goto("main", "scan") /\ cur' = [cur EXCEPT !["main"] = SLIST_NEXT(head, c)]
      /\ UNCHANGED <<setup, sig, client, head, joined, conn, file>>
-----------------------------------------------------------------------------
(* q is in pthread_join for c. *)
Waits(q, c) ==
  \/ pc[q] \in {"join", "clean_join"} /\ cur[q] = c
  \/ pc[q] = "clean" /\ cur[q] = NULL /\ c = "ts"

(* pthread_join by p returns: c has ended, or the call fails at once,      *)
(* because p joins itself or a thread that waits for it (EDEADLK), or      *)
(* because another thread waits for c already (EINVAL).                    *)
Joinable(p, c) ==
  pc[c] = "exited" \/ p = c \/ Waits(c, p) \/ \E q \in Procs \ {p} : Waits(q, c)

(* Mutant: the node is removed without pthread_join. *)
RemoveWithoutJoin(p, l, next) ==
  LET c == cur[p]
  IN  /\ Step(p, l, next) /\ c \in Nodes
      /\ joined' = joined \cup {d \in {c} : pc[d] = "exited"}
      /\ RemoveNode(c)
      /\ cur' = [cur EXCEPT ![p] = tmp[p]]
      /\ UNCHANGED <<setup, sig, client, tmp, file>>

(* pthread_join and remove_node, in the scan and in cleanup.  The result   *)
(* of pthread_join is not looked at.                                       *)
JoinAndRemove(p, l, next) ==
  LET c == cur[p]
  IN  /\ Step(p, l, next) /\ c \in Nodes /\ Joinable(p, c)
      /\ joined' = joined \cup {d \in {c} : pc[d] = "exited"}
      /\ RemoveNode(c)
      /\ cur' = [cur EXCEPT ![p] = tmp[p]]
      /\ UNCHANGED <<setup, sig, client, tmp, file>>

(***************************************************************************)
(* cleanup, on the main thread or on a thread whose fopen failed.          *)
(***************************************************************************)
(* Mutant: plain SLIST_FOREACH, which reads the link of the freed node.    *)
CleanVisitsUnsafe(p) ==
  /\ cur[p] \in Nodes /\ Step(p, "clean", "clean_join")
  /\ tmp' = [tmp EXCEPT ![p] = cur[p]]
  /\ UNCHANGED <<setup, sig, client, head, joined, cur, conn, file>>

CleanVisits(p) ==
  /\ cur[p] \in Nodes /\ Step(p, "clean", "clean_join")
  /\ tmp' = [tmp EXCEPT ![p] = SLIST_NEXT(head, cur[p])]
  /\ UNCHANGED <<setup, sig, client, head, joined, cur, conn, file>>

(* Another thread has freed the node this one is at. *)
TouchesFreedNode(p) ==
  /\ pc[p] \in {"clean", "clean_join", "scan", "join"} /\ process = "running"
  /\ cur[p] # NULL /\ cur[p] \notin Nodes
  /\ Ends("freed_node")

(* The timestamp thread is joined, the socket closed, the file removed.    *)
CleanupEnds(p) ==
  /\ At(p, "clean") /\ cur[p] = NULL /\ (pc["ts"] = "none" \/ Joinable(p, "ts"))
  /\ sockfd' = IF sockfd = "open" THEN "closed" ELSE sockfd
  /\ data' = IF UseCharDevice THEN data ELSE [data EXCEPT !.log = << >>]
  /\ process' = IF p = "main" /\ ~failed THEN "exited" ELSE "failure"
  /\ UNCHANGED <<pc, bind_attempts, failed, sig, list, conn, mutex, ticks>>
-----------------------------------------------------------------------------
(***************************************************************************)
(* connector: opening the file and receiving one message                   *)
(***************************************************************************)
ConnectorOpens(c) ==
  /\ conn[c].arg = "live" /\ Step(c, "fopen", "recv")
  /\ UNCHANGED <<setup, sig, list, conn, file>>

(* thread_arg was freed before the connector reads its client_sock or sets *)
(* its finished.                                                           *)
TouchesFreedArg(c) ==
  /\ process = "running" /\ pc[c] \in {"fopen", "finish"} /\ conn[c].arg # "live"
  /\ Ends("freed_arg")

(* fopen fails, in a connector or in the timestamp thread. *)
FopenFails(p) ==
  /\ At(p, "fopen") /\ "fopen" \in Faults
  /\ EnterCleanup(p)
  /\ UNCHANGED <<setup, sig, conn, file>>

HasNewline(d) == \E i \in 1..Len(d) : d[i] = Newline
NewlineAt(d) == CHOOSE i \in 1..Len(d) : d[i] = Newline /\ \A j \in 1..(i-1) : d[j] # Newline

(* Mutant: the whole chunk is kept. *)
WholeChunk(d) == d

(* What is kept of a chunk: all of it, or up to its first newline. *)
Chunk(d) == IF HasNewline(d) THEN SubSeq(d, 1, NewlineAt(d)) ELSE d

RecvChunk(c, d) ==
  /\ At(c, "recv") /\ Len(conn[c].message) + Len(Chunk(d)) <= MaxLen
  /\ Goto(c, IF HasNewline(d) THEN "lock" ELSE "recv")
  /\ conn' = [conn EXCEPT ![c].message = @ \o Chunk(d)]
  /\ UNCHANGED <<setup, sig, list, file>>

(* Where the receive loop goes on: message_buf may be empty. *)
AfterRecv(c) == IF conn[c].message = << >> THEN "finish" ELSE "lock"

(* recv returns 0 or an error: the client closed or reset the connection.  *)
RecvEnds(c) ==
  /\ Step(c, "recv", AfterRecv(c))
  /\ conn' = [conn EXCEPT ![c].gone = TRUE]
  /\ UNCHANGED <<setup, sig, list, file>>

(* realloc fails: nothing was received yet, or message_buf is freed and    *)
(* then searched, written and freed again.                                 *)
ReallocFails(c) ==
  /\ At(c, "recv") /\ "realloc" \in Faults
  /\ \/ conn[c].message = << >> /\ Goto(c, "finish") /\ UNCHANGED <<setup, sig, list, conn, file>>
     \/ conn[c].message # << >> /\ Ends("freed_message")
-----------------------------------------------------------------------------
(***************************************************************************)
(* connector: the section under file_mutex                                 *)
(***************************************************************************)
(* Mutant: the mutex is not waited for. *)
LockAtOnce(c) ==
  /\ Step(c, "lock", "locked")
  /\ mutex' = c
  /\ UNCHANGED <<setup, sig, list, conn, data, ticks>>

Lock(c) ==
  /\ mutex = NULL /\ Step(c, "lock", "locked")
  /\ mutex' = c
  /\ UNCHANGED <<setup, sig, list, conn, data, ticks>>

(* write(2) on the data file: a regular file opened for appending, or the  *)
(* device, which holds back what does not end in a newline.  When the      *)
(* device is full, size loses the length of the command in the evicted     *)
(* slot, which is the new one already, and gains that of the last piece.   *)
FileWrite(f, m) ==
  LET full == Len(f.log) >= MaxOps
      command == f.partial \o m
  IN  IF ~UseCharDevice THEN [f EXCEPT !.log = Append(@, m)]
      ELSE IF m[Len(m)] # Newline THEN [f EXCEPT !.partial = command]
      ELSE [log |-> Append(IF full THEN Tail(f.log) ELSE f.log, command),
            partial |-> << >>,
            size |-> f.size - (IF full THEN Len(command) ELSE 0) + Len(m)]

(* The places of the bytes of a log, and its end; where byte n is. *)
Places(l) ==
  {[cmd |-> Len(l), off |-> 0]} \cup
  UNION {[cmd : {k}, off : 0..(Len(l[k + 1]) - 1)] : k \in 0..(Len(l) - 1)}

BytesBefore(l, at) == at.off + Cardinality(UNION {{i} \X (1..Len(l[i])) : i \in 1..at.cmd})

IsByte(l, at, n) == BytesBefore(l, at) = n \/ (at.cmd = Len(l) /\ BytesBefore(l, at) < n)

(* strstr and strchr *)
SeekTokens(m) == {i \in 1..Len(m) : m[i] \in DOMAIN SeekTarget}
FirstSeek(m) == CHOOSE i \in SeekTokens(m) : \A j \in SeekTokens(m) : i <= j
HasComma(m) == \E i \in FirstSeek(m)..Len(m) : m[i] = Comma

(* rewind: the device refuses it when its size is below zero, and the file *)
(* stays behind the n bytes that were written.                             *)
RewindPlaces(f, n) ==
  IF UseCharDevice /\ f.size < 0 THEN {at \in Places(f.log) : IsByte(f.log, at, n)} ELSE {Start}

(* The file is at this place when the answer is read from it. *)
ReadsFrom(c, at) == conn' = [conn EXCEPT ![c].pos = at, ![c].from = at]

(* fwrite, fflush, rewind. *)
WriteMessage(c) ==
  /\ SeekTokens(conn[c].message) = {} /\ Step(c, "locked", "echo")
  /\ data' = FileWrite(data, conn[c].message)
  /\ \E at \in RewindPlaces(data', Len(conn[c].message)) : ReadsFrom(c, at)
  /\ UNCHANGED <<setup, sig, list, mutex, ticks>>

(* The results of fwrite and fflush are not looked at. *)
WriteMessageFails(c) ==
  /\ SeekTokens(conn[c].message) = {} /\ "fwrite" \in Faults /\ Step(c, "locked", "echo")
  /\ UNCHANGED <<setup, sig, list, conn, file>>

(* ioctl(AESDCHAR_IOCSEEKTO): when it fails, on a regular file or for a    *)
(* byte that is not there, the file is still at its beginning.             *)
SeekPlace(m) ==
  LET t == SeekTarget[m[FirstSeek(m)]]
  IN  IF UseCharDevice /\ t.cmd < Len(data.log) /\ t.off < Len(data.log[t.cmd + 1])
      THEN t ELSE Start

SeekMessage(c) ==
  /\ SeekTokens(conn[c].message) # {} /\ HasComma(conn[c].message) /\ Step(c, "locked", "echo")
  /\ ReadsFrom(c, SeekPlace(conn[c].message))
  /\ UNCHANGED <<setup, sig, list, file>>

(* strchr finds no comma: atoi is called with an invalid pointer.          *)
SeekWithoutComma(c) ==
  /\ At(c, "locked") /\ SeekTokens(conn[c].message) # {} /\ ~HasComma(conn[c].message)
  /\ Ends("bad_pointer")

(* fread and send, a record of the file at a time: n bytes of what is left *)
(* of the record reach the client.                                         *)
Left(c) == Len(data.log[conn[c].pos.cmd + 1]) - conn[c].pos.off

Sends(c, n) ==
  LET at == conn[c].pos
  IN  /\ at.cmd < Len(data.log) /\ Step(c, "echo", "echo")
      /\ conn' = [conn EXCEPT
           ![c].echoed = Append(@, SubSeq(data.log[at.cmd + 1], at.off + 1, at.off + n)),
           ![c].pos = [cmd |-> at.cmd + 1, off |-> 0],
           ![c].short = @ \/ n < Left(c)]
      /\ UNCHANGED <<setup, list, file>>

(* send returns when the client has taken the data. *)
Echo(c) == Sends(c, Left(c)) /\ UNCHANGED sig

(* send fails or takes less: its result is not looked at. *)
SendCut(c) == conn[c].pos.cmd < Len(data.log) /\ \E n \in 0..(Left(c) - 1) : Sends(c, n)

SendFails(c) == "send" \in Faults /\ SendCut(c) /\ UNCHANGED sig

(* SIGPIPE is not handled: sending to a client that has gone ends it all.  *)
SigPipe(c) ==
  At(c, "echo") /\ conn[c].pos.cmd < Len(data.log) /\ "sigpipe" \in Faults /\ Ends("killed")

(* message_buf is freed and file_mutex unlocked; the record of what was    *)
(* sent ends with it.                                                      *)
DropsMessage(c) ==
  conn' = [conn EXCEPT ![c].message = << >>, ![c].gone = FALSE, ![c].pos = Start,
                       ![c].from = Start, ![c].echoed = << >>, ![c].short = FALSE]

(* Mutant: file_mutex is not released. *)
UnlockForgotten(c) ==
  /\ conn[c].pos.cmd >= Len(data.log) /\ Step(c, "echo", "finish")
  /\ DropsMessage(c)
  /\ UNCHANGED <<setup, sig, list, file>>

Unlock(c) ==
  /\ conn[c].pos.cmd >= Len(data.log) /\ Step(c, "echo", "finish")
  /\ mutex' = NULL
  /\ DropsMessage(c)
  /\ UNCHANGED <<setup, sig, list, data, ticks>>

(* fclose and thread_arg->finished = 1, *)
Finish(c) ==
  /\ conn[c].arg = "live" /\ Step(c, "finish", "close")
  /\ conn' = [conn EXCEPT ![c].finished = TRUE]
  /\ UNCHANGED <<setup, sig, list, file>>

(* close(client_sock) and return. *)
Close(c) ==
  /\ Step(c, "close", "exited")
  /\ conn' = [conn EXCEPT ![c].sock = "closed"]
  /\ UNCHANGED <<setup, sig, list, file>>
-----------------------------------------------------------------------------
(***************************************************************************)
(* timestamp_thread                                                        *)
(***************************************************************************)
TimestampOpens == Step("ts", "fopen", "ts_test") /\ UNCHANGED <<setup, sig, list, conn, file>>

(* while (!exit_requested), tested again when the sleep is over. *)
TimestampTests ==
  /\ \/ Step("ts", "ts_test", IF exit_requested THEN "exited" ELSE "ts_sleep")
     \/ Step("ts", "ts_awake", IF exit_requested THEN "exited" ELSE "ts_lock")
  /\ UNCHANGED <<setup, sig, list, conn, file>>

(* clock_nanosleep returns after ten seconds, or on a signal. *)
TimestampWakes ==
  /\ ticks < MaxTicks \/ exit_requested
  /\ Step("ts", "ts_sleep", "ts_awake")
  /\ UNCHANGED <<setup, sig, list, conn, file>>

(* Mutant: the mutex is not waited for. *)
TimestampLocksAtOnce ==
  /\ Step("ts", "ts_lock", "ts_write")
  /\ mutex' = "ts"
  /\ UNCHANGED <<setup, sig, list, conn, data, ticks>>

TimestampLocks ==
  /\ mutex = NULL /\ Step("ts", "ts_lock", "ts_write")
  /\ mutex' = "ts"
  /\ UNCHANGED <<setup, sig, list, conn, data, ticks>>

TimestampWrites ==
  /\ Step("ts", "ts_write", "ts_test")
  /\ data' = FileWrite(data, Stamp) /\ mutex' = NULL /\ ticks' = ticks + 1
  /\ UNCHANGED <<setup, sig, list, conn>>
-----------------------------------------------------------------------------
(***************************************************************************)
(* The environment: clients connect, and signals are handled on some       *)
(* thread, interrupting the accept, recv or send it is blocked in ("recv"  *)
(* and "echo" also stand for the moment before the call).                  *)
(***************************************************************************)
Connect(c) ==
  /\ process = "running" /\ conn[c].sock = "none"
  /\ sockfd = "open" /\ pc["main"] \notin {"bind", "listen"}
  /\ conn' = [conn EXCEPT ![c].sock = "pending"]
  /\ UNCHANGED <<process, pc, setup, sig, list, file>>

HandlesSignal(p) ==
  /\ process = "running" /\ pc[p] \notin {"none", "startup", "exited"} /\ signals < MaxSignals
  /\ exit_requested' = TRUE /\ signals' = signals + 1

signal_handler(p) ==
  /\ HandlesSignal(p)
  /\ \/ pc[p] = "accept" /\ EnterCleanup(p)
     \/ pc[p] = "recv" /\ Goto(p, AfterRecv(p)) /\ UNCHANGED list
     \/ pc[p] # "accept" /\ UNCHANGED <<process, pc, list>>
  /\ UNCHANGED <<setup, conn, file>>

(* The thread is blocked in send, which returns what it has sent so far.   *)
SignalCutsSend(c) == HandlesSignal(c) /\ SendCut(c)
-----------------------------------------------------------------------------
MainStep ==
  \/ Startup \/ CreateSocket \/ Bind \/ Listen
  \/ TestExit \/ CallAccept \/ (\E c \in Conns : Accept(c)) \/ CreateThread \/ AddNode
  \/ ScanVisits \/ ScanEnds \/ JoinAndRemove("main", "join", "scan")

CleanupStep(p) == CleanVisits(p) \/ JoinAndRemove(p, "clean_join", "clean") \/ CleanupEnds(p)

ConnectorStep(c) ==
  \/ ConnectorOpens(c) \/ TouchesFreedArg(c) \/ Lock(c)
  \/ WriteMessage(c) \/ SeekMessage(c) \/ SeekWithoutComma(c)
  \/ Unlock(c) \/ Finish(c) \/ Close(c)

TimestampStep ==
  TimestampOpens \/ TimestampTests \/ TimestampWakes \/ TimestampLocks \/ TimestampWrites

Fault ==
  \/ StartupFails \/ BindRetry \/ SetupFails \/ TimestampNotStarted
  \/ AcceptFails \/ CreateThreadFails \/ AddNodeFails
  \/ \E c \in Conns : \/ AcceptNoMemory(c) \/ ReallocFails(c) \/ WriteMessageFails(c)
                      \/ SendFails(c) \/ SigPipe(c)
  \/ \E p \in Procs : FopenFails(p) \/ TouchesFreedNode(p)

Next ==
  \/ MainStep \/ TimestampStep \/ Fault
  \/ \E p \in Procs : CleanupStep(p)
  \/ \E c \in Conns :
       \/ ConnectorStep(c) \/ Echo(c) \/ RecvEnds(c) \/ (\E d \in Chunks : RecvChunk(c, d))
       \/ Connect(c)
  \/ \E p \in SignalTargets : signal_handler(p)
  \/ \E c \in SignalTargets \cap Conns : SignalCutsSend(c)

Spec == Init /\ [][Next]_vars

(* A thread that can run does run.  Clients need not connect, send, read   *)
(* or close (recv and send may block for ever), and nobody has to send a   *)
(* signal.                                                                 *)
FairSpec ==
  /\ Spec
  /\ WF_vars(MainStep \/ CleanupStep("main"))
  /\ WF_vars(TimestampStep \/ CleanupStep("ts"))
  /\ \A c \in Conns : WF_vars(ConnectorStep(c) \/ CleanupStep(c))

(* Clients that finish their message or close the connection, and read     *)
(* their answer.                                                           *)
PoliteSpec == FairSpec /\ \A c \in Conns : WF_vars(RecvEnds(c)) /\ WF_vars(Echo(c))
=============================================================================
