--------------------------- MODULE CommandDevice ----------------------------
(***************************************************************************)
(* What /dev/aesdchar promises its writers: the bytes written since the    *)
(* last newline are held back as "partial"; a write that ends in a newline *)
(* turns them into a command, and the last Capacity commands are kept,     *)
(* oldest first.  A write that fails may lose the partial command, never a *)
(* finished one: those are lost only when the device is unloaded.          *)
(***************************************************************************)
EXTENDS BoundedLog

CONSTANTS Payloads, Newline

VARIABLES partial, loaded

DInit == log = << >> /\ partial = << >> /\ loaded = FALSE

DPartial(d) ==
  /\ loaded /\ d[Len(d)] # Newline
  /\ partial' = partial \o d
  /\ UNCHANGED <<log, loaded>>

DCommand(d) ==
  /\ loaded /\ d[Len(d)] = Newline
  /\ log' = Push(log, partial \o d)
  /\ partial' = << >> /\ UNCHANGED loaded

DDrop == loaded /\ partial' = << >> /\ UNCHANGED <<log, loaded>>

DLoad == ~loaded /\ loaded' = TRUE /\ UNCHANGED <<log, partial>>

DUnload == loaded /\ loaded' = FALSE /\ partial' = << >> /\ log' = << >>

DNext ==
  \/ \E d \in Payloads : DPartial(d) \/ DCommand(d)
  \/ DDrop \/ DLoad \/ DUnload

DSpec == DInit /\ [][DNext]_<<log, partial, loaded>>
=============================================================================
