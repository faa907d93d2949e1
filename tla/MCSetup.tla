-------------------------------- MODULE MCSetup --------------------------------
(***************************************************************************)
(* The process and what must go on while it runs, on one bench for TLC:    *)
(* the collections and the poll loop (Collector), the life of the process  *)
(* (Process), the files of the frontend (Static) and the directory of the  *)
(* GPU (GpuPath).  They share no state; `part' says which of them moves in *)
(* a behaviour.                                                            *)
(***************************************************************************)
EXTENDS Collector, Process

VARIABLES
    part,
    fs, path, slash, asked, answer,                                \* Static
    configured, present, intel, changes, sysfsPath, pc, reported   \* GpuPath

FilesPart == INSTANCE Static WITH Names <- {"app", "assets", "route"}

PathPart == INSTANCE GpuPath
    WITH Cards <- 0..2, Elsewhere <- 100, None <- 101, Torn <- 102, MaxChanges <- 2,
         Requests <- {"api"}

ASSUME PartAssumptions == FilesPart!StaticAssumption /\ PathPart!GpuPathAssumption

-----------------------------------------------------------------------------
filesVars == <<fs, path, slash, asked, answer>>
pathVars == <<configured, present, intel, changes, sysfsPath, pc, reported>>

\* the parts that stand still do so in one of their initial states
SetupInit ==
    /\ part \in {"collections", "process", "files", "path"}
    /\ part # "files" => fs = FilesPart!Nil /\ path = "root" /\ slash = TRUE
    /\ part # "path" => configured = 0 /\ present = {} /\ intel = {}
    /\ Init /\ ProcessInit /\ FilesPart!Init /\ PathPart!Init

SetupNext ==
    /\ UNCHANGED part
    /\ \/ part = "collections" /\ Next /\ UNCHANGED <<processVars, filesVars, pathVars>>
       \/ part = "process" /\ ProcessNext /\ UNCHANGED <<vars, filesVars, pathVars>>
       \/ part = "files" /\ FilesPart!Next /\ UNCHANGED <<vars, processVars, pathVars>>
       \/ part = "path" /\ PathPart!Next /\ UNCHANGED <<vars, processVars, filesVars>>

\* The fairness of the parts, each only where the part moves; a process that stands
\* still in its initial state has nothing to be fair to, and a poll loop that stands
\* still in its own is idle.
SetupFairness ==
    /\ part = "collections" => Fairness
    /\ ProcessFairness
    /\ WF_filesVars(part = "files" /\ FilesPart!Next)
    /\ WF_pathVars(part = "path" /\ PathPart!Stat(Poller))
    /\ \A s \in PathPart!Scrapes :
          WF_pathVars(/\ part = "path"
                      /\ PathPart!Resolve(s) \/ PathPart!Verify(s) \/ PathPart!Report(s))

SetupSpec ==
    SetupInit /\ [][SetupNext]_<<part, vars, processVars, filesVars, pathVars>> /\ SetupFairness

-----------------------------------------------------------------------------
(* The properties of the parts that move.                                  *)

\* Process: a signal ends the process.
SignalEndsIt == part = "process" => SignalEnds

\* Static: a request is answered, and a file of the frontend arrives.
FilesArrive == part = "files" => FilesPart!FilesArrive

\* GpuPath: an Intel card that appears after the start is found and stays reported, unless
\* another vendor's directory is held on to.
CardFound == part = "path" => PathPart!CardFound
=============================================================================
