------------------------ MODULE AesdSystemProperties ------------------------
(* What the clients of aesdsocket over aesdchar may rely on. *)
EXTENDS AesdSystem

(* The commands in the order of AESD_CIRCULAR_BUFFER_FOREACH. *)
Lines ==
  [k \in 1..ForeachCount(circular_buffer) |-> mem[ForeachEntry(circular_buffer, k - 1).buffptr]]

(* How far a request is: a line counts once aesd_write has committed it,   *)
(* an answer once the last read has returned.                              *)
StepOf(t) ==
  CASE stage[t] = "idle" -> "none"
    [] stage[t] = "lock" -> "asked"
    [] stage[t] \in {"locked", "seeking"} -> "taken"
    [] stage[t] = "flushing" -> IF call[t].pc = "ret" THEN "posted" ELSE "taken"
    [] stage[t] \in {"rewind", "rewinding"} -> "posted"
    [] stage[t] \in {"fread", "reading"} -> IF request[t].kind = "line" THEN "posted" ELSE "taken"
    [] stage[t] = "unlock" -> "answered"
    [] stage[t] = "fclose" -> "left"

AnswerOf(t) == IF stage[t] \in {"unlock", "fclose"} THEN answer[t] ELSE << >>

Service == INSTANCE LineService
             WITH Capacity <- MaxOps, Items <- {}, Sessions <- Threads,
                  log <- Lines, partial <- Pending, loaded <- module = "live",
                  step <- [t \in Threads |-> StepOf(t)], answer <- [t \in Threads |-> AnswerOf(t)]

(* The connectors and the driver together are the line service: each       *)
(* client is sent all lines the device keeps, its own as the last, or what *)
(* follows the byte it sought, although its write, its rewind and its      *)
(* reads are separate system calls, lines are evicted under other clients  *)
(* that wait, and the driver's size is wrong.  It is so for WholeLines and *)
(* FitsStdioBuffer: a longer answer takes reads that stop inside a line,   *)
(* after which aesd_read leaves the position wrong.                        *)
ImplementsLineService == Service!SSpec

(* The driver never refuses a rewind, whose result aesdsocket ignores.     *)
(* WholeLines keeps aesd_device.size from falling below zero; a line that  *)
(* is cut off before its newline would let it fall, a few bytes each time. *)
RewindAccepted ==
  \A t \in Threads : stage[t] = "rewinding" /\ call[t].pc = "ret" => call[t].ret = "ok"

(* No connector ever waits for aesd_device.lock, so no call of the server  *)
(* is cut short with ERESTARTSYS: file_mutex is held around all of them.   *)
DeviceUncontended == \A t \in Threads : call[t].pc = "lock" => lock = NULL

(* Every connection is served to its end. *)
SessionsEnd == \A t \in Threads : (stage[t] # "idle") ~> (stage[t] = "idle")
=============================================================================
