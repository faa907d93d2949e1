-------------------------------- MODULE Sources --------------------------------
(***************************************************************************)
(* What the numbers of a snapshot come from, side by side: the I/O rates   *)
(* (Rates), the usage of the GPU (Gpu) and of the CPU (Cpu), the rows of   *)
(* disks (Selection), and the configuration they are collected under       *)
(* (Config).                                                               *)
(* In the program they share no state; `part' says which of them moves in  *)
(* a behaviour, so that each behaviour is one of a single part.            *)
(***************************************************************************)
EXTENDS Rates

CONSTANTS
    Freqs, MinInterval, MaxSwitches, MaxGpuClock,           \* Gpu
    Cores, MaxCpuClock,                                     \* Cpu
    Mounts, DiskNames, Root, RootDevice,                    \* Selection
    DiskTargets, MaxPartitions, Base(_), BeginsWith(_, _),
    Intervals, Ports, Paths, Bad                            \* Config

VARIABLES
    part,
    gpuClock, card, residency, hasPrevRC6, prevRC6Ms, prevSampleAt,     \* Gpu
    prevReadAt, prevCard, gpuPC, files, readAt, readCard, stats, awake,
    cpuClock, worked, lastTimes, cpuPC, timesAt, sample, counted,       \* Cpu
    targetDisks, disks, partitions, usable,                             \* Selection
    configPC, file, yaml, env, portFlag, cfg                            \* Config

GpuPart == INSTANCE Gpu
    WITH MaxClock <- MaxGpuClock, clock <- gpuClock, pc <- gpuPC

CpuPart == INSTANCE Cpu
    WITH MaxClock <- MaxCpuClock, clock <- cpuClock, pc <- cpuPC, readAt <- timesAt

RowsPart == INSTANCE Selection
    WITH Devices <- DiskNames

ConfigPart == INSTANCE Config
    WITH pc <- configPC

ASSUME PartAssumptions == /\ GpuPart!GpuAssumption
                          /\ CpuPart!CpuAssumption
                          /\ RowsPart!SelectionAssumption
                          /\ ConfigPart!ConfigAssumption

-----------------------------------------------------------------------------
gpuVars == <<gpuClock, card, residency, hasPrevRC6, prevRC6Ms, prevSampleAt, prevReadAt,
             prevCard, gpuPC, files, readAt, readCard, stats, awake>>
cpuVars == <<cpuClock, worked, lastTimes, cpuPC, timesAt, sample, counted>>
rowsVars == <<targetDisks, disks, partitions, usable>>
configVars == <<configPC, file, yaml, env, portFlag, cfg>>

\* the parts that stand still do so in one of their initial states
SourcesInit ==
    /\ part \in {"rates", "gpu", "cpu", "rows", "config"}
    /\ part # "rows" => targetDisks = {}
    /\ part # "config" =>
          /\ file = "absent" /\ portFlag = 0
          /\ env = ConfigPart!Silent /\ yaml = ConfigPart!Silent
    /\ Init /\ GpuPart!Init /\ CpuPart!Init /\ RowsPart!Init /\ ConfigPart!Init

SourcesNext ==
    /\ UNCHANGED part
    /\ \/ part = "rates" /\ Next /\ UNCHANGED <<gpuVars, cpuVars, rowsVars, configVars>>
       \/ part = "gpu" /\ GpuPart!Next /\ UNCHANGED <<vars, cpuVars, rowsVars, configVars>>
       \/ part = "cpu" /\ CpuPart!Next /\ UNCHANGED <<vars, gpuVars, rowsVars, configVars>>
       \/ part = "rows" /\ RowsPart!Next /\ UNCHANGED <<vars, gpuVars, cpuVars, configVars>>
       \/ part = "config" /\ ConfigPart!Next /\ UNCHANGED <<vars, gpuVars, cpuVars, rowsVars>>

SourcesSpec == SourcesInit /\ [][SourcesNext]_<<part, vars, gpuVars, cpuVars, rowsVars, configVars>>

-----------------------------------------------------------------------------
(* The properties of the parts that are instantiated.                      *)

\* Gpu: the busy time behind a usage is time the card was awake, and a higher frequency
\* never shows a lower usage.  Cpu: no work is missed, and a core is shown with its share.
UsageIsReal == GpuPart!UsageIsReal /\ CpuPart!CpuUsageIsReal

\* Selection: a mount point has one row, a configured one or device has a row while it
\* answers, and there is a first row, the dashboard's main disk, while the root answers.
RowsFit == RowsPart!RowsFit

\* Config: each setting is the flag's, else a usable variable's, else the file's as it
\* stands, else the default; the flag's or the default where the file cannot be taken.
HigherSourceWins == ConfigPart!HigherSourceWins

\* Config: the ticker's period and the deadline of a collection are positive, and the
\* deadline comes before the next tick, unless the file alone says else.
PollTimesFit == ConfigPart!PollTimesFit
=============================================================================
