---------------------------- MODULE ArtifactPaths ----------------------------
(***************************************************************************)
(* The files one invocation names (main.rs, validate_artifact_paths and    *)
(* normalized_path) in a file system where a directory can have a second   *)
(* name and a file can be a symbolic link.                                 *)
(*                                                                         *)
(* A path is [dir, name]; a name is a sequence, so that the state file the *)
(* coordinator chooses is the output's name with "mp.state" appended.      *)
(* Hard links and ".." behind a link are left out.                         *)
(*                                                                         *)
(* Nothing uses an operator marked as a faulty variant: it is the one      *)
(* below it with a plausible mistake, for the mutation checks.             *)
(***************************************************************************)
EXTENDS Naturals, Sequences, TLC

CONSTANTS
  Dirs,               \* the directories there are, each under its canonical name
  DirLinks,           \* other names of directories, "." included: name -> directory
  Files,              \* the canonical paths of the files there are
  Links               \* symbolic links to files: canonical path -> canonical path

ASSUME ArtifactPathsAssumption ==
  /\ \A name \in DOMAIN DirLinks : DirLinks[name] \in Dirs
  /\ \A link \in DOMAIN Links : Links[link] \notin DOMAIN Links /\ link \notin Files

Directory(path) == IF path.dir \in DOMAIN DirLinks THEN DirLinks[path.dir] ELSE path.dir
HasParent(path) == Directory(path) \in Dirs
Entry(path) == [dir |-> Directory(path), name |-> path.name]

\* The file that opening the path reads, or creates.
Opened(path) == IF Entry(path) \in DOMAIN Links THEN Links[Entry(path)] ELSE Entry(path)
Exists(path) == Opened(path) \in Files

\* A path is compared as it is when neither the file nor its directory is there.
NormalizedByFileOnly(path) == IF Exists(path) THEN Opened(path) ELSE path  \* faulty variant
NormalizedPath(path) ==
  CASE Exists(path) -> Opened(path)
    [] ~Exists(path) /\ HasParent(path) -> Entry(path)
    [] ~Exists(path) /\ ~HasParent(path) -> [dir |-> path.dir, name |-> path.name]

-----------------------------------------------------------------------------
\* The options that name a file.  The coordinator, given neither a checkpoint nor a file to
\* resume from, keeps its state beside the output.
Roles == {"output", "flat_output", "csv", "export_nmap", "export_urls", "metrics_json",
          "checkpoint", "resume", "config", "input"}
AutomaticState(output) == [output EXCEPT !.name = Append(@, "mp.state")]

NamedFiles(settings) ==
  LET given == [role \in Roles \cap DOMAIN settings |-> settings[role]]
  IN  IF settings.processes > 1 /\ {"checkpoint", "resume"} \cap DOMAIN settings = {}
      THEN given @@ ("state" :> AutomaticState(settings.output))
      ELSE given

\* Two roles may share a file only when they are the checkpoint and its resumption.
MayShare(r, s) == {r, s} = {"checkpoint", "resume"}

PathsRefused(named) ==
  \E r, s \in DOMAIN named :
    /\ r # s
    /\ ~MayShare(r, s)
    /\ NormalizedPath(named[r]) = NormalizedPath(named[s])
=============================================================================
