---------------------------- MODULE MCExercises -----------------------------
(***************************************************************************)
(* A TLC instance of the small programs and of the list macros, which do   *)
(* not interact: "program" says which one runs, and the state space is the *)
(* sum of theirs.                                                          *)
(***************************************************************************)
EXTENDS Slist, SystemCalls, Threading, Writer

VARIABLE program

Programs == {"list", "systemcalls", "threading", "writer"}

(* The arguments of the programs that do not run are of no interest. *)
MCInit ==
  /\ program \in Programs /\ SlInit /\ ExInit /\ ThInit /\ WrInit
  /\ program = "systemcalls" \/ (exFn = "do_system" /\ ~exBuffered)
  /\ program = "writer" \/ \A w \in Writers : ~wrPath[w].slash

MCNext ==
  \/ program = "list" /\ SlNext /\ UNCHANGED <<program, exVars, thVars, wrVars>>
  \/ program = "systemcalls" /\ ExNext /\ UNCHANGED <<program, slVars, thVars, wrVars>>
  \/ program = "threading" /\ ThNext /\ UNCHANGED <<program, slVars, exVars, wrVars>>
  \/ program = "writer" /\ WrNext /\ UNCHANGED <<program, slVars, exVars, thVars>>

mcVars == <<program, slVars, exVars, thVars, wrVars>>
Threaded(A) == program = "threading" /\ A /\ UNCHANGED <<program, slVars, exVars, wrVars>>

MCSpec ==
  /\ MCInit /\ [][MCNext]_mcVars
  /\ WF_mcVars(Threaded(ThTick)) /\ \A t \in ThThreads : WF_mcVars(Threaded(ThRun(t)))

(* Two files in one new directory, a file named like that directory, one   *)
(* below a regular file, one below a directory that may not be written,    *)
(* one in the root directory and one without a slash.                      *)
InDir(names) == [slash |-> TRUE, names |-> names]
MCPaths ==
  {InDir(<<"d", "e", "f">>), InDir(<<"d", "e", "g">>), InDir(<<"d", "e">>), InDir(<<"o", "y">>),
   InDir(<<"p", "q", "z">>), InDir(<<"x">>), [slash |-> FALSE, names |-> <<"x">>]}
MCOldFiles == {<<"o">>}
MCDenied == {<<"p">>}
=============================================================================
