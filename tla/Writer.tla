------------------------------- MODULE Writer -------------------------------
(***************************************************************************)
(* finder-app/writer.c: processes that each create one file and the        *)
(* directories above it.  stat and mkdir are separate steps, between which *)
(* another writer may create the same directory.  A path is the sequence   *)
(* of its names below the root, or below the working directory; "slash"    *)
(* says whether it is written with a slash.                                *)
(***************************************************************************)
EXTENDS Naturals, Sequences

CONSTANTS
  Writers,
  Paths,        (* what argv[1] may be: [slash, names] *)
  OldFiles,     (* regular files of the root directory, there before *)
  Denied        (* directories in which nothing may be created *)

ASSUME WriterAssumption ==
  /\ Writers \cap {"absent", "empty", "old"} = {}
  /\ Paths \subseteq [slash : BOOLEAN, names : Seq(STRING)]
  /\ \A p \in Paths : Len(p.names) > 0 /\ (Len(p.names) > 1 => p.slash)
  /\ OldFiles \subseteq Seq(STRING) /\ \A p \in OldFiles : Len(p) = 1

Parent(p) == SubSeq(p, 1, Len(p) - 1)
Prefixes(p) == {SubSeq(p, 1, k) : k \in 1..Len(p)}
AllPaths == OldFiles \cup UNION {Prefixes(p.names) : p \in Paths}

VARIABLES
  wrPath,            (* argv[1] of each writer *)
  wrDirs, wrFiles,   (* directories; whose data a file holds, "absent", or *)
                     (* "empty" for less than the data of one writer       *)
  wrPc, wrLevel      (* per writer: where it is, the directory it is at *)

wrVars == <<wrPath, wrDirs, wrFiles, wrPc, wrLevel>>

FilePath(w) == wrPath[w].names

(* create_file: a path without a slash has no directory to create. *)
WrInit ==
  /\ wrPath \in [Writers -> Paths]
  /\ wrDirs = {<< >>} /\ wrFiles = [p \in AllPaths |-> IF p \in OldFiles THEN "old" ELSE "absent"]
  /\ wrPc = [w \in Writers |-> IF wrPath[w].slash THEN "stat" ELSE "fopen"]
  /\ wrLevel = [w \in Writers |-> 1]

(* The directory that the loop of create_directories is at.  For "/x" it   *)
(* is "", which stat and mkdir refuse; the loop then starts behind the end *)
(* of that string, and whatever it finds there it stats and makes "" too.  *)
Dir(w) == SubSeq(FilePath(w), 1, wrLevel[w])
EmptyName(w) == wrPath[w].slash /\ Len(FilePath(w)) = 1
Exists(p) == p \in wrDirs \/ wrFiles[p] # "absent"

(* stat and mkdir have dealt with the directory: the next one, or the file.*)
NextLevel(w) ==
  /\ wrPc' = [wrPc EXCEPT ![w] = IF wrLevel[w] < Len(FilePath(w)) - 1 THEN "stat" ELSE "fopen"]
  /\ wrLevel' = [wrLevel EXCEPT ![w] = @ + 1]
  /\ UNCHANGED wrPath

Result(w, r) == wrPc' = [wrPc EXCEPT ![w] = r] /\ UNCHANGED <<wrPath, wrLevel>>

WrStat(w) ==
  /\ wrPc[w] = "stat"
  /\ IF ~EmptyName(w) /\ Exists(Dir(w)) THEN NextLevel(w) ELSE Result(w, "mkdir")
  /\ UNCHANGED <<wrDirs, wrFiles>>

Creatable(p) == Parent(p) \in wrDirs /\ Parent(p) \notin Denied

WrMkdir(w) ==
  /\ wrPc[w] = "mkdir" /\ ~EmptyName(w) /\ ~Exists(Dir(w)) /\ Creatable(Dir(w))
  /\ wrDirs' = wrDirs \cup {Dir(w)}
  /\ NextLevel(w) /\ UNCHANGED wrFiles

(* Mutant: EEXIST is an error like any other. *)
WrMkdirExistsFails(w) ==
  /\ wrPc[w] = "mkdir" /\ ~EmptyName(w) /\ Exists(Dir(w))
  /\ Result(w, "failed") /\ UNCHANGED <<wrDirs, wrFiles>>

(* EEXIST: somebody else has created it. *)
WrMkdirExists(w) ==
  /\ wrPc[w] = "mkdir" /\ ~EmptyName(w) /\ Exists(Dir(w))
  /\ NextLevel(w) /\ UNCHANGED <<wrDirs, wrFiles>>

WrMkdirFails(w) ==
  /\ wrPc[w] = "mkdir" /\ (EmptyName(w) \/ (~Exists(Dir(w)) /\ ~Creatable(Dir(w))))
  /\ Result(w, "failed") /\ UNCHANGED <<wrDirs, wrFiles>>

Openable(p) ==
  Parent(p) \in wrDirs /\ p \notin wrDirs /\ (wrFiles[p] = "absent" => Parent(p) \notin Denied)

(* fopen with "wb" creates or empties the file. *)
WrFopen(w) ==
  /\ wrPc[w] = "fopen" /\ Openable(FilePath(w))
  /\ wrFiles' = [wrFiles EXCEPT ![FilePath(w)] = "empty"]
  /\ Result(w, "write") /\ UNCHANGED wrDirs

(* Mutant: the failure is not reported. *)
WrFopenFailureIgnored(w) ==
  /\ wrPc[w] = "fopen" /\ ~Openable(FilePath(w))
  /\ Result(w, "created") /\ UNCHANGED <<wrDirs, wrFiles>>

WrFopenFails(w) ==
  /\ wrPc[w] = "fopen" /\ ~Openable(FilePath(w))
  /\ Result(w, "failed") /\ UNCHANGED <<wrDirs, wrFiles>>

(* fprintf, written by fclose. *)
WrWrite(w) ==
  /\ wrPc[w] = "write"
  /\ wrFiles' = [wrFiles EXCEPT ![FilePath(w)] = w]
  /\ Result(w, "created") /\ UNCHANGED wrDirs

(* They do not write it all, which is not looked at: success is reported. *)
WrWriteFails(w) ==
  /\ wrPc[w] = "write"
  /\ Result(w, "created_short") /\ UNCHANGED <<wrDirs, wrFiles>>

WrNext ==
  \E w \in Writers :
    \/ WrStat(w) \/ WrMkdir(w) \/ WrMkdirExists(w) \/ WrMkdirFails(w)
    \/ WrFopen(w) \/ WrFopenFails(w) \/ WrWrite(w) \/ WrWriteFails(w)

WrSpec == WrInit /\ [][WrNext]_wrVars
-----------------------------------------------------------------------------
(* A writer that reports success has created its file, below directories   *)
(* that exist, with its own data unless fprintf or fclose has failed; the  *)
(* contents are its own if no other writer has the same file.              *)
WrCreatedIsThere ==
  \A w \in Writers :
    wrPc[w] \in {"created", "created_short"} =>
      /\ \A p \in Prefixes(Parent(FilePath(w))) : p \in wrDirs
      /\ wrFiles[FilePath(w)] # "absent"
      /\ (\A u \in Writers : FilePath(u) = FilePath(w) => u = w) =>
           wrFiles[FilePath(w)] = IF wrPc[w] = "created" THEN w ELSE "empty"

(* A writer fails for a reason of its own path: it is in the root          *)
(* directory, a file is where a directory should be or the reverse, or a   *)
(* directory may not be written.  Another writer that creates the same     *)
(* directories at the same time is no reason.                              *)
WrFailsForAReason ==
  \A w \in Writers : wrPc[w] = "failed" =>
    \/ EmptyName(w) \/ FilePath(w) \in wrDirs
    \/ \E p \in Prefixes(Parent(FilePath(w))) \cup {<< >>} : p \in Denied
    \/ \E p \in Prefixes(Parent(FilePath(w))) : wrFiles[p] # "absent"
=============================================================================
