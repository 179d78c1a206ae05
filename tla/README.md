# A TLA+ verification project for aesdchar and aesdsocket

The repository holds a Linux character driver (`aesd-char-driver/`) that keeps
the last ten commands written to `/dev/aesdchar`, a threaded TCP server
(`server/aesdsocket.c`) that appends each line a client sends to that device
(or, in another build, to a regular file) and sends the contents back, and a
set of small exercises.  This project models the driver, the server, the two
together and the exercises, model-checks them with TLC and proves, with TLAPS, the
safety properties of every one of these parts.

## 1. Inventory

| Component | State | Operations | Interacts with |
|---|---|---|---|
| circular buffer, `aesd-circular-buffer.[ch]` | `entry[10]`, `in_offs`, `out_offs`, `full` | `init`, `add_entry`, `find_entry_offset_for_fpos`, `FOREACH` | called by the driver with its lock held |
| character driver, `aesd-char-driver/main.c` | one `aesd_device`: the buffer, the partial command `entry`, `size`, `lock` | module load and unload, `open`, `release`, `read`, `write`, `llseek`, `ioctl` | the VFS (file positions), kernel allocator, user memory that may fault |
| server, `server/aesdsocket.c` | listening socket, `exit_requested`, list `head` of threads, `file_mutex` | startup, accept loop, `add_node`, `remove_node`, `cleanup`, `signal_handler` | clients, signals, its own threads |
| connector threads | `thread_arg`, `message_buf`, an open data file | receive a line, write it or seek, echo the file, finish | share `file_mutex` and the data file; the main thread polls `finished` and joins |
| timestamp thread (regular file build) | its open file | sleep, test `exit_requested`, write a stamp | shares `file_mutex` and the data file |
| SLIST macros, `server/queue.h` | links between nodes | insert at head, remove, safe iteration | used by main and cleanup |
| server over driver | every connector's open file and its stdio buffer | `fwrite` and `fflush`, `rewind`, `ioctl`, `fread`, `fclose` as system calls | `file_mutex`, `aesd_device` |
| `examples/systemcalls` | the caller, its child, the stdio buffers of both | `do_system`, `do_exec`, `do_exec_redirect` | fork, execv, waitpid |
| `examples/threading` | one mutex, `thread_data` of each thread | start, sleep, lock, sleep, unlock, join | time |
| `finder-app/writer.c` | directories and files | `create_file`, `create_directories` | other writers |
| shell scripts, autotest validation | none of their own | call tools | - |

What is hard in this code, and what makes each part correct:

* **Circular buffer.** Off-by-one at the wrap and at the tenth entry.  `FOREACH`
  compares `index + out_offs` with `in_offs` *without* reducing the sum modulo
  the array size, which is right only because entries are never removed: a
  buffer that is not full has `out_offs = 0`.  Correct means: offsets index the
  array, `FOREACH` ends, it visits the last ten entries oldest first, and an
  offset is looked up as in the concatenation of all entries.
* **Driver.** `aesd_read` copies entry after entry while other threads wait for
  the lock; `copy_to_user` sleeps and may fail; waiting for the lock may be
  interrupted; `aesd_write` moves a block from the allocator to the partial
  command to the ring to `kfree`, with error exits in between; the VFS stores a
  position after the lock was released.  Correct means: every block has one
  owner, no path returns with the lock held, reads return the bytes at the
  position, commands are kept whole and in order.
* **Server.** Threads are created, polled, joined and freed while running;
  signals arrive at any point; lines arrive in pieces; every library call may
  fail.  Correct means: a client is answered with one consistent moment of the
  file that contains its own line; no thread uses a freed structure; after
  shutdown nothing is left behind; everything accepted is served.

* **Server over driver.** A client's answer takes one write, one seek and several
  reads, each with its own result, over a driver whose size and position handling
  is inexact.  Correct means: the client cannot tell; it sees one moment of the
  device with its own line last.
* **List macros.** An element is removed and freed while the list is walked.
* **Exercises.** `fork` copies a stdio buffer; a child may return into its
  caller's code; threads sleep with a mutex held; two writers create the same
  directory between each other's `stat` and `mkdir`.

The hazards, each with its source line and the properties that watch it, are
listed under `hazards` in `PROJECT.json`.

## 2. Modules

| Module | What it is |
|---|---|
| `CircularBufferOps` | the C functions and the macro as operators on the structure `[entry, in_offs, out_offs, full]`; also used by the driver |
| `CircularBuffer` | the buffer as a component: init, then any sequence of adds |
| `BoundedLog` | abstract: the last `Capacity` items |
| `CircularBufferLemmas`, `CircularBufferProofs` | lemmas on the operators, theorems on the component |
| `AesdCharDriver` | the driver, its callers, the VFS and the allocator |
| `AesdCharDriverProperties` | its properties and the mapping to `CommandDevice` |
| `CommandDevice` | abstract (extends `BoundedLog`): bytes held back until a newline, then the last `Capacity` commands |
| `AesdCharDriverProofs` | theorems on the driver: the lock, memory, `FOREACH`, types, and that a lookup stays inside its entry |
| `AesdCharDriverRefinement` | no leak, the refinement to `CommandDevice`, and what reads and seeks do |
| `AesdSocket` | the server: main, connectors, timestamp thread, signals, failures |
| `AesdSocketProperties` | its properties |
| `SlistLemmas`, `AesdSocketProofs` | lemmas on the list macros, theorems on the server |
| `SlistOps`, `Slist` | the SLIST macros on pointers, also used by `AesdSocket`; a list that is extended, walked and shortened |
| `OrderedList` | abstract: a sequence without repetitions |
| `AesdSystem` | connector threads over `AesdCharDriver` (which it extends) |
| `AesdSystemProperties` | its properties and the mapping to `LineService` |
| `AesdSystemProofs` | theorems on the composition, and the refinement to `LineService` |
| `LineService` | abstract (extends `CommandDevice`): requests served one at a time, each answered with one moment's contents |
| `SystemCalls`, `Threading`, `Writer` | the three exercises, with their properties |
| `ExercisesProofs` | theorems on the list macros and the exercises |
| `MCCircularBuffer`, `MCAesdCharDriver`, `MCAesdSocket`, `MCAesdSystem`, `MCExercises` | finite instances; that of the driver also holds the properties that its violation runs refute |

Definitions marked *Mutant* are deliberately wrong variants of the definition
that follows them.  No specification uses them: they exist so that each
property can be shown to fail on a plausible bug.

### Circular buffer

`aesd_circular_buffer_add_entry(b, e)` is the C function with the structure as
a value; `AdvanceOffs` is the increment followed by the reset at the end of the
array.  `FOREACH` is modelled by its loop test: `ForeachStops(b, k)` holds when
the loop is left before iteration `k`, `ForeachCount` is the first such `k`, and
`ForeachEntry(b, k)` the entry visited there.  If no `k` in `0..MaxOps` stops the
loop then none does, since the index repeats.  The running total of sizes that
`find_entry_offset_for_fpos` keeps is `TotalSize(b, k)`, defined as the number of
bytes before entry `k` so that no recursion is needed.  The early returns on
`NULL` arguments change no state and are left out.

### Driver

The variables of `aesd_device` keep their C names.  Memory is explicit:
`allocated` is the set of live blocks and `mem` their contents, so a dangling or
shared pointer and a leak are visible.  A system call of thread `t` is
`call[t]`, with a `pc` that goes `idle -> lock -> body -> ret -> idle`:

* `Read`, `Write`, `Llseek`, `Ioctl` enter the call; a read or a write works on
  a copy of the file's position that the VFS made (`start`, `pos`).
  `IoctlRejected` stands for the checks that fail before the lock.
* `Acquire` and `Interrupted` are `mutex_lock_interruptible`.
* the bodies: `ReadEntry`, `ReadLast`, `ReadEnd`, `ReadFault`; `WriteNoMem`,
  `WriteFault`, `WritePartial`, `WriteCommit`; `LlseekBody`; `IoctlBody`.
  `aesd_read` takes one step per entry since `copy_to_user` may sleep there.
  The others are one step each: nobody without the lock touches the device, and
  `LockDiscipline` is checked and proved.
* `Return` is the VFS storing the position of a successful read or write.

`InitModule*` and `CleanupModule` are `insmod` and `rmmod` with their failures.
`krealloc` may keep the block or move it (`NewBlocks`).  `NewSize` keeps the
order of the code: `oldEntry` points into the array and is read *after* the new
entry was put there.  `fixed_size_llseek` and the position handling are kernel
code, modelled from their use and marked external.

### Server

`pc[p]` is where each thread is.  Bytes are tokens: `"nl"`, `","`, letters, and
one token for `AESDCHAR_IOCSEEKTO:<x>,<y>` without its comma, whose `SeekTarget` is
`[cmd |-> x, off |-> y]`; `Chunk` keeps what the receive loop keeps of one `recv`.  The
data file is what the server relies on: a log of records, growing for the regular
file, bounded for the device, and the device's held-back partial command and
`size`.  `FileWrite` is `aesd_write` with the account of `main.c:157-163`, and
`RewindPlaces` what follows from it: `aesd_llseek` refuses the rewind when `size` is
below zero, and the file stays behind the bytes just written.  A place is a
record and an offset in it.

A `send` of one record is one step, so another thread could come in between if the
mutex did not stop it.  It delivers the rest of the record (`Echo`), or less:
`SendFails` (`"send" \in Faults`) and `SignalCutsSend` (a signal handled while the
connector is in `send`); the code goes on in either case, and `short` remembers it.  A
client that does not read is an `Echo` that does not happen: the connector keeps
`file_mutex`.

`head` is the list of `SlistOps`, the first node and every node's link; `cur` and
`tmp` are the cursors of `SLIST_FOREACH_SAFE`, read and used in different steps as in
the code.  `cleanup` is written once, for any thread, because a connector whose `fopen`
fails calls it too.  `Joinable` is when `pthread_join` returns: the thread has ended,
or the call fails at once, for a thread that joins itself or is waited for by the
one it joins, and for a second thread that joins the same one.  The code does not
look at the result, so `JoinAndRemove` goes on either way.

Nothing is said of the process after a use of something freed or invalid; it ends
with a result that names it: `freed_node` (`TouchesFreedNode`), `freed_arg`
(`TouchesFreedArg`: `connector` reads `client_sock` at its start and writes `finished` at
its end), `freed_message` (`ReallocFails`), `bad_pointer` (`SeekWithoutComma`).
`Faults` names the calls that may fail in a run, `SignalTargets` the threads a signal
may be handled on.

### Server over driver

`AesdSystem` extends the driver's module and drives it: its threads are the
connectors, each with an open file of its own, and every action that enters a
call is one of the calls stdio makes for `connector`.  `Flush` is the one `write`
of `fwrite` and `fflush`, `Rewind` an `lseek` whose result is ignored, `Fread` one
`read` of a stdio buffer, repeated until it returns nothing; `InDriver` is the
driver's own work on the call, step by step.  `stage` is where a connector is,
`request` and `answer` what it has received and sent.  Receiving is one step, since
`AesdSocket` has its details.

`LineService` says what a client may expect.  `StepOf` maps the stages to it: a line
is posted when `aesd_write` has committed it, and an answer is given, all at once,
when the last read has returned.  That the reads of one answer fit together is
what the refinement shows.  Two predicates on what clients send state where it
holds: `WholeLines`, no client goes away in the middle of a line, and
`FitsStdioBuffer`, all lines kept fit one stdio buffer.  They are hypotheses of the
theorems that need them and of the run, no assumptions of the module.

### List macros

A list is `[first, next]`: `slh_first` and all `sle_next`.  `Reach` is the set of
elements on the list, defined as the least set closed under the links so that no
recursion is needed.  `Forget` stands for `free`: the link of a freed element
reads as nothing.  `Slist` walks the list with the two cursors of
`SLIST_FOREACH_SAFE`.

### Exercises

`SystemCalls` has the caller and the child as processes; `exBuf` is the stdio
buffer, which `fork` copies, `execv` discards and `exit` writes to wherever
descriptor 1 goes.  `exBuffered` chooses between a terminal, where lines are
written at once, and a file or pipe.  When `execv` fails the function returns in
the child, too, which goes on as the caller.  An interrupted `waitpid` leaves
`status` uninitialized: any status is then possible.

`Threading` has a clock, `Second` ticks to a second, that advances only while
somebody sleeps.  `Slept` is the integer division of the code; a sleep that a signal
handler interrupts, whose result the code ignores, is not modelled.

In `Writer` a path is the sequence of its names.  `WrStat` and `WrMkdir` are separate
steps; `mkdir` looks at the directory as it is then.  `Denied` are directories
without permission to create, and `OldFiles` regular files that stand where a
directory is wanted.  `fprintf` and `fclose`, whose results are ignored, may fail:
`WrWriteFails` reports success as `WrWrite` does, and the file has less than the data.

## 3. Runs

All runs finish within three minutes on two workers.

| Run | Instance | Checks | Shows |
|---|---|---|---|
| `circular_buffer` | the code's 10 slots, two entry sizes | `TypeOK`, `Shape`, `Terminates`, `FindMatchesConcatenation`, `ImplementsBoundedLog` | every buffer that can be built is walked and searched correctly, and adding drops only the oldest |
| `driver_sequential` | 1 thread, 1 file, 2 slots, 4 blocks, 7 calls | `TypeOK`, `EntriesOwnMemory`, `ForeachVisitsStored`, `NoLeak`, `CommandsTerminated`, `ReadReturnsSlice`, `SeekToAddresses`, `ImplementsCommandDevice` | any seven calls, each able to fail, including writes that wrap the ring, pieces of commands and newlines inside a write |
| `driver_concurrent` | 2 threads on 1 file, 1 slot, 3 blocks, 4 calls | `LockDiscipline`, `ReadReturnsSlice`, `ImplementsCommandDevice`, `CallsReturn` | the same under contention, interruption and fair scheduling |
| `driver_size` (violation) | 2 slots, 7 calls | `SizeIsTotal` | `size` is not the length of the contents |
| `driver_position` (violation) | 2 slots, 5 calls | `ReadAdvancesByCount` | a read over two entries skips bytes |
| `system` | 2 connectors, the driver with 2 slots and 3 blocks, 4 requests: two lines, a seek to an existing byte, one that may not exist | `RewindAccepted`, `DeviceUncontended`, `ImplementsLineService`, `SessionsEnd` | the composition is a line service; no rewind is refused; `file_mutex` keeps the server's calls from waiting in the driver |
| `socket_file` | 2 clients, timestamp thread, handled failures | `CleanExit`, `WholeUnlessGone`, `ListMatchesThreads`, `OwnLineEchoed` | lines in pieces or cut off; the linked list is exactly the threads to be joined; a client gets its own line back last; a normal exit leaves nothing behind |
| `socket_faults` | 2 clients, device of 2 commands that is full already, lines, pieces and seeks with an offset, every failure, a signal on any thread | `TypeOK`, `MutexDiscipline`, `ThreadArgLive`, `NothingUndefined`, `EchoIsSnapshot` | what survives even the failures the code does not handle: refused rewinds, short, interrupted and failing sends, failing joins |
| `socket_live` | 2 clients, timestamp thread, a signal on any thread | `ConnectionsServed`, `CleanupCompletes` | no connection starves and cleanup ends, as far as the clients let them |
| `socket_stop` (violation) | 2 clients that finish and read, on the device, so without the timestamp thread | `StopsOnSignal` | a signal between the loop test and `accept` is lost |
| `exercises` | 4 list elements; one call of each function of `systemcalls.c`; 2 threads with waits below, of and above a second; 2 writers with any of 7 paths | `WalkVisitsAll`, `ImplementsOrderedList`, `CallerTextOnce`, `ExitCodeReported`, `ThHoldsAlmostAsAsked`, `ThCompletes`, `WrCreatedIsThere`, `WrFailsForAReason` | see below |
| `exec_result` (violation) | one call | `TrueMeansSuccess` | `do_exec` returns true when `fork` failed |

`exercises` runs four independent programs in one state space (`program` says
which): the macros keep exactly the elements that were not removed and a safe walk
visits each once; text the caller printed before the call is written once,
whichever of parent and child ends first; exit codes of commands that exit by
themselves are reported (`do_system`, `do_exec`); a thread that reports success has
held the mutex for as long as was asked, less at most a part of a second, and all
end unless an unlock fails; a writer that reports success has its file, with its
data if `fprintf` and `fclose` succeeded; and a writer fails only for a reason of its own path, never
because another writer was faster.

**Why the bounds are enough.**  The buffer run has no bound but the code's own.
Two slots make the ring fill, wrap and evict within four commands, and the
buffer itself is proved for every size.  Seven calls are enough for fill, evict,
a partial command across the wrap and a read or seek after it.  Four blocks let
an allocation choose between reuse and a fresh block while the ring and the
partial command are both full.  In the concurrent run one slot makes every
commit evict, so that a writer that got into a read would always disturb it.
A device of two commands that is full already (`Kept`) evicts with every line.
Its `KeptSize` of 2, less than the four bytes of the two lines, is what writing a
line in two pieces leaves; from there a line in two pieces, of three bytes in all,
brings `size` below zero and the rewind is refused, within `MaxLen` tokens.  The
seek names an offset that some records have and some have not.  In the composition four requests fill two slots and evict twice
while another connector waits between its `fopen` and the mutex; seven bytes, the
smallest stdio buffer with room for two lines of three, make every read one that
could return more than one entry.  Four elements put a removed one at the head, in
the middle and at the end of the list.  Two
clients suffice for every pairwise race of connectors; main, the timestamp
thread and the signal are actors beside them.  `MaxLen` cuts a message off at
two or three tokens; `MaxTicks`, `MaxSignals` and `MaxCalls` bound what would
otherwise repeat for ever.  Symmetry is used on blocks and on connections, in
runs without temporal liveness only.

**Fairness.**  In the driver a thread in a body or on its way out is scheduled
(weak fairness) and a waiter gets the mutex eventually (strong fairness of
`Acquire`: kernel mutexes queue their waiters).  Nothing makes a thread issue a
call.  In the server each thread is scheduled (weak fairness per thread; no
connector competes for the mutex more than once, and the timestamp thread
sleeps between its turns).  Nothing makes clients connect or signals arrive.
`recv` and `send` are not scheduled, they wait for the client: `send` blocks once the
socket buffers are full, and it does so with `file_mutex` held.  `FairSpec` therefore
asks nothing of `RecvChunk`, `RecvEnds` and `Echo`, and the liveness properties name
what they need of clients.  `KeepsSending(c)`: client `c` sends a line or closes;
`KeepsReading(c)`: it takes what it is sent.  `ConnectionsServed` holds for a client that
keeps sending if *all* clients keep reading, since one that does not stops all
others at `file_mutex`; `CleanupCompletes` holds if all keep sending and reading, since
`cleanup` waits in `pthread_join` for every connector.  Both fail without these
conditions: there is no timeout in the protocol.  `PoliteSpec` states the conditions
as fairness, for the violation run, whose counterexample so has well-behaved
clients.

In the composition each connector is scheduled (weak fairness); there are
finitely many requests, so none can be overtaken for ever.  In the threading
exercise time passes and a thread that can run does; nothing makes a call fail or a
thread start.

**Deadlock** is checked in the driver, buffer and system runs (`Done` and
`SysDone` are the only ways to stop there).  The exercises end.  In the server runs it is switched off: a server whose clients
have all been served waits in `accept`, and a process that has ended stays so.

### What the violations show

Each is a disagreement between code and text in the repository, recorded under
`findings`: the size accounting of `aesd_write` (`main.c:159-163`), the position
after a read over several entries (`main.c:89`), the signal lost before `accept`
(`aesdsocket.c:381-383`) and the result of `do_exec` (`systemcalls.c:71-74`).

### Combinations known to fail, kept out of the passing runs

* `KreallocMayFail = TRUE` in `driver_sequential`: `NoLeak` fails, the old block is lost
  (`main.c:132`).  `driver_concurrent` has it `TRUE`.
* `"node" \in Faults`: `CleanExit` fails, a started thread has no list node.
* `"realloc" \in Faults`: `message_buf` is freed and used (`aesdsocket.c:108-122`): the
  process ends as `freed_message`, and nothing is said of it after that.
* signals handled on connectors: `WholeUnlessGone` fails, an interrupted `recv`
  stores what came so far.  Linux hands a process-directed signal to the main
  thread when it does not block it, which is why the passing runs use `MainOnly`.
* `"fopen" \in Faults`: the thread runs `cleanup` beside `main` (`aesdsocket.c:87-91`).
  Nodes are freed that the other is using; and when both join one thread the second
  `pthread_join` fails at once (`EINVAL`; POSIX leaves it undefined), its result is
  ignored (`aesdsocket.c:226,417`), and `remove_node` frees the `thread_arg` of a running
  thread.  `ThreadArgLive` and `NothingUndefined` except the states in which a thread
  other than `main` is in `cleanup` (`OthersCleanUp`), and fail without that exception.
* short, failing or interrupted sends (`"send"`, `SignalCutsSend`): the result of `send`
  is ignored (`aesdsocket.c:152`), and the answer lacks bytes in its middle.
  `EchoIsSnapshot` allows for just that.
* a refused rewind (`aesdsocket.c:145`): after lines written in pieces `size` is below
  zero, and the answer starts behind the bytes just written, so it lacks the
  client's own line if it was the last.  `OwnLineEchoed` excepts it.
* clients that do not read: the connector stays in `send` with `file_mutex` held, and
  `ConnectionsServed` and `CleanupCompletes` fail without `KeepsReading`.
* `SeekWithoutComma`: `atoi` of an invalid pointer (`aesdsocket.c:131`), the process ends
  as `bad_pointer`.
* `NoLeak` without `module = "live"`: fails, `rmmod` frees `aesd_device.entry` but no
  stored command (`main.c:324`).
* `AesdSystem` with lines that are cut off before their newline (without
  `WholeLines`): `RewindAccepted` fails.  A command made of several writes
  is counted with its last piece and uncounted, when the ring is full, with its
  whole length (`main.c:157-163`); `size` falls below zero, the driver refuses
  the seek to 0, and the file stays behind as many bytes as the client wrote: it
  is sent the contents without their first bytes.
* `AesdSystem` with more contents than a stdio buffer (without `FitsStdioBuffer`, for
  instance `StdioBuf = 3`): `ImplementsLineService` fails, since reads that span
  entries skip bytes (`main.c:89`, `driver_position`), and so do answers.
* `SystemCalls`: the line printed between `fflush` and `fork` (`systemcalls.c:134`) is
  written twice when stdout is fully buffered.
* `Threading`: `threading.h:29-30` promises milliseconds, `threading.c:20,27` sleeps for
  whole seconds: up to a second is missing, and waits below a second are none.  A
  property that asks for all of `wait_to_release_ms` fails.
* `Writer`: the results of `fprintf` and `fclose` are ignored (`writer.c:81-84`), so that
  success is reported for data that was not written (`WrWriteFails`).
* `Writer`: two writers of one file each report success and one of them loses its
  data; `/x` always fails because its directory name is empty; and `main` returns
  0 when it fails.
* `"fwrite" \in Faults`: `OwnLineEchoed` fails, the result of `fwrite` is ignored.

## 4. Proofs

The theorems hold for every number of threads, files, blocks, slots, clients and
calls and every set of payloads that satisfy the named assumptions:
`MaxOpsAssumption` (`MaxOps \in 1..255`, what a `uint8_t` offset can index; the
code has 10), `EntriesAssumption` (the buffer alone), `DriverAssumption`
(`NULL` is none of the blocks, threads or files; payloads are non-empty
sequences of bytes; arguments of the calls are integers of the right sign),
`ServerAssumption` (the threads of the server are different, what a client sends
and what the file held before are sequences of tokens), `SystemAssumption` (every connector has a file of its own;
types of the constants), `ElemsAssumption`,
`ThreadingAssumption` and `WriterAssumption` (types of the constants).

**Circular buffer** (`CircularBufferProofs`, lemmas in `CircularBufferLemmas`).

* `BufferInvariant`: `Spec => [](TypeOK /\ Shape /\ Terminates)`; `BufferTypes` and
  `ForeachEnds` state two of its parts alone.
* `BufferImplementsLog`: `Spec => ImplementsBoundedLog`.
* `FindIsExact`: `Spec => []FindMatchesConcatenation`, a position is found in the
  entry, and at the byte of it, that it has in the concatenation of all strings.

The inductive invariant is `IsBuffer /\ RingShape`: a full buffer has
`in_offs = out_offs`, one that is not full has `out_offs = 0`.  Types alone are
not enough: without the shape `FOREACH` would not stop.  `ForeachCountIs` then
gives the number of iterations, and an add maps to `Push`.

`FlattenSeq`, the concatenation, is a recursive function of the library.  No
induction principle can be applied to it here, so the lemmas take another way:
`Totals(s, T)` says that `T` holds the running totals of the lengths of `s`; the
function is unfolded one step at a time, and that the first `k` sequences take
`T[k]` places, each item at its own, is proved for all `k` because there is no
least `k` where it fails.  `FlattenSeqIs` states the result, and
`TotalSizesAreTotals` that the sums of `find_entry_offset_for_fpos` are such totals.

**The lock** (`AesdCharDriverProofs`).  `LockIsDisciplined` proves
`LockDiscipline`; the invariant adds only that `call` is a function on the
threads.  Every body ends in `Finish` or keeps the lock (`BodyEnds`).

**Memory** (`AesdCharDriverProofs`).  `DeviceInvariants` proves the inductive
invariant `CallInv /\ MemInv /\ LiveInv`:

* `MemTypes` includes `RingShape`;
* `Ownership` speaks of `UsedSlots`, all slots of a full ring and those before
  `in_offs` otherwise: a used slot owns a block of its size, an unused one is
  zero, and no two owners, the partial command included, share a block;
* `Terminated`: stored commands end in a newline, the partial one does not;
* `LiveInv`: files are open only while the module is live, and then the
  structure behind `aesd_device.entry` is.

The step that needs it is `WriteCommit` on a full ring.  The code frees the block
of the entry found at position 0, and the add overwrites the slot at `in_offs`.
`OldSlotIsOverwritten` shows that these are the same slot, which needs the
shape of the ring and that every stored entry has a positive size, so the block
freed is the one no slot refers to any more.  Three results follow:
`MemoryIsOwned` (`EntriesOwnMemory`), `CommandsAreTerminated`
(`CommandsTerminated`) and `ForeachIsExact` (`ForeachVisitsStored`).

**Types and reads** (`AesdCharDriverProofs`).  `DriverTypes` proves `TypeOK`.  Its
substance is `aesd_read`: what is copied is a sequence of bytes only if the
offset that `find_entry_offset_for_fpos` returns lies inside the entry it
returns.  `FindIsInside` proves that, from `TotalSizeStep` (each iteration adds
the size of its entry) and the choice of the first entry that reaches the
position; the invariant adds that a read has not copied more than `count`.

**Leaks and refinement** (`AesdCharDriverRefinement`).  `OpenInv` adds that a call
under way has its file open, so the module is loaded.  `NothingLeaks` proves
`~KreallocMayFail => (Spec => []NoLeak)`: the hypothesis is necessary.
`DriverImplementsDevice` proves `Spec => ImplementsCommandDevice` under the
mapping `log <- Commands` (the blocks in the order of `FOREACH`),
`partial <- Pending`, `loaded <- module = "live"`: `WritePartial` and
`WriteCommit` map to `DPartial` and `DCommand`, the failing writes to `DDrop`,
load and unload to `DLoad` and `DUnload`, and every other step stutters.

**Reads and seeks** (`AesdCharDriverRefinement`).  `ReadsReturnSlices` proves
`ReadReturnsSlice` and `SeeksAddress` proves `SeekToAddresses`, both over the one string
that all commands make.  The invariant (`ReadInvariant`) adds `ReadInv`: a read
that has the lock has copied the contents from where it started to where it is.
That is inductive only because the contents do not change between its steps, which
needs the lock (`ContentsStay`), and because each block that is copied is the
command `FOREACH` would visit there, which needs the ownership of memory.
`ReadInv` says nothing of the position after the call: `ReadLast` leaves it wrong,
as the run `driver_position` shows.

**Server** (`AesdSocketProofs`, list lemmas in `SlistLemmas`).  The invariant is built
in layers, each proved with the ones before it as hypotheses:

* `TypeInv` is `TypeOK` with `ThreadStarts` (which threads may exist at which point of
  `main`, and who owns the `thread_arg` between `accept` and `pthread_create`);
* `MutexDiscipline`: the holder of `file_mutex` is exactly the thread that is between
  its lock and its unlock;
* `EchoSoFar`: what a connector has sent is what stands in the file, as it is now,
  from the place its request or its rewind left (`from`) to where it is, complete
  unless a send was cut (`short`).  It needs the mutex: nobody else may append or
  evict meanwhile;
* `OneLine`: a message has at most one newline, at its end, and none while more is
  to be received; `WholeLine`: it has one or its client is gone; `OwnLineLast`: while
  a connector sends, its line ends the last record of the file, and it sends from
  the beginning if `size` was not below zero;
* `ListInv`: as long as no thread but `main` is in `cleanup` (`MainCleansUp`), the list is
  a chain of threads to be joined, each with a live `thread_arg`, and of all of them
  (but for the one `main` is about to add) if `add_node` never fails; the cursors of
  `SLIST_FOREACH_SAFE` stay on it; the socket is open until `cleanup` closes it.  It is
  proved whatever fails: a thread that enters `cleanup` leaves it only with the process.

| Theorem | States | Hypothesis beside the assumptions |
|---|---|---|
| `TypeCorrect` | `TypeOK` | - |
| `MutexIsHeld` | `MutexDiscipline` | - |
| `ArgumentsLive` | `ThreadArgLive` | - (the property excepts `OthersCleanUp`) |
| `NothingFreedUsed` | `NothingUndefined` | - (the same) |
| `EchoesAreSnapshots` | `EchoIsSnapshot` | - (the property says what a cut send leaves out) |
| `OwnLineIsEchoed` | `OwnLineEchoed` | `fwrite` does not fail (the property excepts cut sends and a refused rewind) |
| `WholeLinesWritten` | `WholeUnlessGone` | no signal is handled on a connector |
| `ListHasThreads` | `ListMatchesThreads` | neither `fopen` nor the allocation of a node fails |
| `ExitIsClean` | `CleanExit` | the same |

Every hypothesis and every exception is necessary: section 3 lists what happens
without it.  The list
lemmas rest on `Reach` being the least closed set: `IsChain` says that no two elements
share a successor and none points back to `first`, `RestUnlinked` that elements off
the list have no link, and insertion and removal keep both.

**Composition** (`AesdSystemProofs`).  `SystemUsesDriver` proves `SysSpec => Spec`: the
composition only makes calls the driver's own specification allows, so each of
the driver's theorems holds of the composed system.  `DeviceIsUncontended` proves
`DeviceUncontended`.  Both hold for whatever clients send.  `RewindIsAccepted` proves
`WholeLines => (SysSpec => []RewindAccepted)`, and the refinement needs
`FitsStdioBuffer` beside it; nothing in the server enforces either, section 3 says
what happens without.  The invariant:

* `CallsMatch`: a connector is in a system call only at the stages that make one;
  `MutexHeld`: the holder of `file_mutex` is exactly the connector between its lock
  and its unlock.  So at most one connector is in the driver;
* `SizeCounts`: nothing is held back (`entry` is zero) and `aesd_device.size` is a
  natural number.  The second is false of the driver alone, where a command made
  of several pieces takes `size` below zero.  Here every write is a whole line, and
  on a full ring the code subtracts the size of the new entry itself, since it
  reads the slot after the add (`OldSlotIsOverwritten` again): `size` never falls;
* `RewindIsLlseek`: a connector that rewinds is in `llseek` with the argument 0, which
  `SizeCounts` puts in range.

`SystemImplementsService` proves, of `WholeLines` and `FitsStdioBuffer`,
`SysSpec => ImplementsLineService` under the mapping of section 2.  Its invariant `WholeInv` (`ServersInvariant`) adds, to all of the above and
the invariant of reads:

* `LinesInv`: every line that is kept was written by one write of the server;
* `ServeInv`: for each connector, the call under way is the one that its stage and its
  request ask for (`CallFits`), and what it has sent is the part of the contents
  between the bytes its request skips and the position of its file (`AnswerFits`).

Three facts carry it.  Other connectors do not see a line being written, since all
they have sent and all positions they depend on are theirs while they hold
`file_mutex`.  A read has room for all lines (`LinesFit`, from `FitsStdioBuffer`), so
`ReadLast`, the exit that leaves the position wrong, is never taken.  The part that
was sent and the part a read returns meet at the position (`SlicesMeet`), so when a
read returns nothing the answer is complete.  Then `Receive`, `LockFile`,
`WriteCommit`, the return of the last read, `UnlockFile` and `Fclose` map to the six
steps of the service, `InitModule` to `DLoad`, and every other step stutters.

**List macros and exercises** (`ExercisesProofs`).

* `WalkIsComplete` proves `WalkVisitsAll` and `SlistImplementsOrderedList` proves
  `ImplementsOrderedList`.  A list has one order (`IsOrder`) that starts at `first` and
  follows the links, and `AsSeqIs` shows that the refinement mapping finds it.
  `SlWalkInv`: a walk has visited what came first, its cursor is at the next one, and
  from there on the links are as they were when it began, whatever was removed.
* `CallerTextIsOnce` proves `CallerTextOnce` from `ExTextInv`: until `fflush` the line is in
  the parent's buffer or written, after it no buffer holds it.  `ExitCodeIsReported`
  proves `ExitCodeReported` from `ExResultInv`; it is about commands that exited by
  themselves.
* `HoldsAlmostAsAsked` proves `ThHoldsAlmostAsAsked` from `ThHoldInv`, a thread that holds
  the mutex wakes the whole seconds after it took it, and `SleptIsNat`, these are more
  than what was asked less one second.
* `CreatedIsThere` and `FailsForAReason` prove `WrCreatedIsThere` and
  `WrFailsForAReason` from `WrInv`: what is above a directory is a directory
  (`WrTree`), and the levels a writer has dealt with exist, whoever made them
  (`WrLevelOK`); `WrOwnData` says whose data a file holds that one writer has.

**Only model-checked:** liveness (`CallsReturn`, `ConnectionsServed`,
`CleanupCompletes`, `SessionsEnd`, `ThCompletes`), which needs fairness and is beyond
the prover.  Every other property of the passing runs is stated by a theorem.

## 5. Not modelled, and why

* Zero-length writes: `aesd_write` would look at the byte before the buffer; the
  server never issues one (`aesdsocket.c:122`), so `Payloads` are non-empty.
* Overflow of `loff_t` and `size_t`: not reachable with ten commands in memory.
  `uint8_t` offsets are covered by the assumption `MaxOps \in 1..255`.
* Loading the module again after `rmmod`; device number allocation and `mknod`.
* Daemonising is a single step: the surviving child is the process modelled.
* Logging, address formatting, and the text of a timestamp (one constant line).
* stdio after a failed write: glibc keeps what it could not write and tries again
  in `fclose`.  `WriteMessageFails` loses the message; in `AesdSystem` writes do not
  fail.
* Messages longer than the stdio buffer, which `fwrite` hands to the file in several
  writes: a message is one write here and in `AesdSystem`.  On the device only the
  last of these would end in a newline, as for lines that arrive cut off.
* Sleeps of the threading exercise cut short by a signal handler: the exercise
  installs none.
* Failures of allocation and of copies in the driver while the server uses it:
  `AesdCharDriver` has them alone.
* The text of the command in the exercises, and the format string of
  `writer.c:81` (the data is used as the format).
* The shell scripts, the test harness and the unused list kinds of `queue.h`.

## 6. Plan

1. *(done)* circular buffer, driver and server with their runs; the safety
   proofs of the buffer and the driver.
2. *(done)* the composition of server and driver and its abstract service; the
   SLIST macros on pointers, in the server too; the three exercises.
3. *(done)* proofs about the composition, the server, the list macros and the
   exercises.
4. *(done)* lemmas about concatenation, and from them `FindMatchesConcatenation`,
   `ReadReturnsSlice` and `SeekToAddresses`.
5. *(done)* `ImplementsLineService`: the refinement of the composition.
6. *(done)* what the server ignores: failing joins, short and blocking sends, refused
   rewinds; and what the writer ignores.
7. Left: an own component for stdio, with its buffer, so that messages and answers of
   several buffers can be composed with the driver.
