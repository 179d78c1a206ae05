---------------------------- MODULE LineService -----------------------------
(***************************************************************************)
(* What aesdsocket promises its clients when its data is in /dev/aesdchar: *)
(* requests are served one at a time; a line is added to the last Capacity *)
(* lines, and answered with all of them as they are then; a seek request   *)
(* is answered with what is there from the addressed byte on, or with      *)
(* everything if there is no such byte.                                    *)
(***************************************************************************)
EXTENDS CommandDevice, SequencesExt

CONSTANTS Sessions, NoRequest, Requests

VARIABLES request, step, answer

sVars == <<log, partial, loaded, request, step, answer>>

Everything == FlattenSeq(log)

Addressed(a) ==
  a.write_cmd < Len(log) /\ a.write_cmd_offset < Len(log[a.write_cmd + 1])

Skipped(r) ==
  IF r.kind = "seek" /\ Addressed(r.arg)
  THEN Len(FlattenSeq(SubSeq(log, 1, r.arg.write_cmd))) + r.arg.write_cmd_offset
  ELSE 0

SInit ==
  /\ DInit
  /\ request = [s \in Sessions |-> NoRequest]
  /\ step = [s \in Sessions |-> "none"]
  /\ answer = [s \in Sessions |-> << >>]

Moves(s, from, to) == step[s] = from /\ step' = [step EXCEPT ![s] = to]

SAsk(s) ==
  /\ loaded /\ Moves(s, "none", "asked")
  /\ \E r \in Requests : request' = [request EXCEPT ![s] = r]
  /\ UNCHANGED <<log, partial, loaded, answer>>

STake(s) ==
  /\ \A u \in Sessions : step[u] \notin {"taken", "posted", "answered"}
  /\ Moves(s, "asked", "taken")
  /\ UNCHANGED <<log, partial, loaded, request, answer>>

SPost(s) ==
  /\ request[s].kind = "line" /\ Moves(s, "taken", "posted")
  /\ DCommand(request[s].arg)
  /\ UNCHANGED <<request, answer>>

SAnswer(s) ==
  /\ Moves(s, IF request[s].kind = "line" THEN "posted" ELSE "taken", "answered")
  /\ answer' = [answer EXCEPT ![s] = SubSeq(Everything, Skipped(request[s]) + 1, Len(Everything))]
  /\ UNCHANGED <<log, partial, loaded, request>>

SLeave(s) ==
  /\ Moves(s, "answered", "left")
  /\ UNCHANGED <<log, partial, loaded, request, answer>>

SForget(s) ==
  /\ Moves(s, "left", "none")
  /\ request' = [request EXCEPT ![s] = NoRequest]
  /\ answer' = [answer EXCEPT ![s] = << >>]
  /\ UNCHANGED <<log, partial, loaded>>

SNext ==
  \/ DLoad /\ UNCHANGED <<request, step, answer>>
  \/ \E s \in Sessions :
       SAsk(s) \/ STake(s) \/ SPost(s) \/ SAnswer(s) \/ SLeave(s) \/ SForget(s)

SSpec == SInit /\ [][SNext]_sVars
=============================================================================
