-------------------------------- MODULE Sections --------------------------------
(***************************************************************************)
(* The sections of the page (App.tsx and components/), as functions of the *)
(* last snapshot: what each of them reads, what stands in for what is not  *)
(* there, and what it draws.  Each collector may have failed, panicked or  *)
(* found nothing, and before the first snapshot there is none at all.      *)
(* An expression that throws is Crash: it takes the whole page down.  What *)
(* is not drawn is Missing, a text that stands in for another is Text.     *)
(* Percentages are in tenths, loads in hundredths.                         *)
(***************************************************************************)
EXTENDS Snapshots, FiniteSets

CONSTANTS
    Crash,          \* an expression that throws
    CPUs, Hosts, Memories, Disks, Networks, GPUs, Dockers
                    \* what each collector may bring: structs, lists, or Null

Marks == {Missing, Null, NoText, Text, Crash}

\* what the page writes of its own, or says by a colour or an icon
Words == {"red", "amber", "calm", "green", "grey", "Running", "Paused", "Exited",
          "none", "link", "gpu", "uptime", "table", "error"}

\* the fields are there and filled in; an object is none of the marks
IsStruct(type, s) ==
    /\ DOMAIN s = Tags[type].always \cup Tags[type].omitempty
    /\ \A f \in DOMAIN s : s[f] \notin {Missing, Null, Crash}
    /\ Marshal(type, s) \notin Marks

IsList(type, s) ==
    /\ s \in Seq(Range(s)) /\ MarshalList(type, s) \notin Marks
    /\ \A i \in DOMAIN s : IsStruct(type, s[i])

\* what the daemon writes when the collectors have brought these
Written(h, c, m, d, n, g, k) ==
    MarshalSnapshot([host |-> h, cpu |-> c, memory |-> m, disks |-> d,
                     networks |-> n, gpu |-> g, docker |-> k])

\* stated as an assumption where the constants get their values
SectionsAssumption ==
    /\ Crash \notin {Missing, Null, NoText, Text} /\ Missing \notin {Null, NoText, Text}
    /\ Null \notin {NoText, Text} /\ NoText # Text
    /\ \A m \in Marks : m \notin Int \cup BOOLEAN \cup Words \cup {<<>>}
    /\ \A h \in Hosts \ {Null} : IsStruct("HostInfo", h) /\ h.load_avg_1 \in Nat
    /\ \A c \in CPUs \ {Null} :
          /\ IsStruct("CPUStats", c)
          /\ c.core_count \in Nat /\ c.per_core_percent \in Seq(Int)
    /\ \A m \in Memories \ {Null} : IsStruct("MemoryStats", m)
    /\ \A d \in Disks \ {Null} :
          /\ IsList("DiskMetric", d)
          /\ \A i \in DOMAIN d :
                {d[i].used_percent, d[i].read_ops_per_sec, d[i].write_ops_per_sec} \subseteq Int
    /\ \A n \in Networks \ {Null} : IsList("NetworkMetric", n)
    /\ \A g \in GPUs \ {Null} : IsStruct("GPUStats", g)
    /\ \A k \in Dockers :
          /\ k.error \in {NoText, Text}
          /\ k.containers # Null => IsList("ContainerMetric", k.containers)
    /\ \A h \in Hosts, c \in CPUs, m \in Memories, d \in Disks, n \in Networks, g \in GPUs,
          k \in Dockers : Written(h, c, m, d, n, g, k) \notin Marks

VARIABLE snapshot   \* as it was read from the JSON, or Null

Init == snapshot = Null

\* the manager keeps what came without an error; what the page draws depends on the last
\* snapshot only
SnapshotArrives ==
    /\ snapshot = Null
    /\ \E h \in Hosts, c \in CPUs, m \in Memories, d \in Disks, n \in Networks,
          g \in GPUs, k \in Dockers :
          snapshot' = Written(h, c, m, d, n, g, k)

Next == SnapshotArrives

Spec == Init /\ [][Next]_snapshot

-----------------------------------------------------------------------------
(* The language: o.f, o?.f, x ?? d, x || d, a parameter's default,         *)
(* x.toFixed(...), x > n, xs.map(...), xs.filter(...).length.              *)

Nothing == {Missing, Null}

Get(o, f) ==
    IF o \in Nothing \cup {Crash} THEN Crash ELSE IF f \in DOMAIN o THEN o[f] ELSE Missing
Opt(o, f) == IF o \in Nothing THEN Missing ELSE Get(o, f)
Or(x, d) == IF x \in Nothing THEN d ELSE x
OrElse(x, d) == IF x \in Nothing \cup {NoText} \/ x = 0 THEN d ELSE x
Default(x, d) == IF x = Missing THEN d ELSE x
Fixed(x) == IF x \in Nothing THEN Crash ELSE x
Above(x, n) == x \notin Nothing \cup {Crash, Text} /\ x > n
\* what is no list throws, as if it had one row that does
Map(xs, Row(_)) ==
    IF xs \in Nothing \cup {Crash} THEN <<[row |-> Crash]>>
    ELSE [i \in DOMAIN xs |-> Row(xs[i])]
Count(xs, P(_)) ==
    IF xs \in Nothing \cup {Crash} THEN Crash ELSE Cardinality({i \in DOMAIN xs : P(xs[i])})
First(xs) == IF xs \in Nothing THEN Missing ELSE IF xs = <<>> THEN Missing ELSE xs[1]

Meter == INSTANCE Meters
    WITH Lowest <- 0, Highest <- 1000, Segments <- 28, Cores <- {}, percent <- 0

Percent(x) == IF x \in Nothing \cup {Crash} THEN Crash ELSE Meter!Clamp(0, 1000, x)

\* x > high ? ... : x > middle ? ... : ...
Colour(x, high, middle) ==
    IF Above(x, high) THEN "red" ELSE IF Above(x, middle) THEN "amber" ELSE "calm"

IsRunning(c) == Get(c, "state") = "running"

-----------------------------------------------------------------------------
(* App.                                                                    *)

Header ==
    LET host == Opt(snapshot, "host")
        \* snapshot?.containers || []
        running == Count(Or(Opt(snapshot, "containers"), <<>>), IsRunning)
    IN  IF host \in Nothing THEN [running |-> running, shown |-> FALSE]
        ELSE [running |-> running, shown |-> TRUE,
              hostname |-> Get(host, "hostname"), platform |-> Get(host, "platform"),
              kernel |-> Get(host, "kernel_version"), uptime |-> Get(host, "uptime_seconds")]

\* <CpuSection cpu={snapshot?.cpu} .../> and the others
Passed(f) == Opt(snapshot, f)

-----------------------------------------------------------------------------
(* CpuSection.                                                             *)

CpuSection ==
    LET cpu == Passed("cpu")
        host == Passed("host")
        Core(usage) == [percent |-> Fixed(usage), text |-> Colour(usage, 850, 600),
                        bar |-> Colour(usage, 850, 600)]
        uptime == Opt(host, "uptime_seconds")
    IN  [model |-> OrElse(Opt(cpu, "model_name"), Text),
         uptime |-> OrElse(uptime, Missing),
         load1 |-> Fixed(Or(Opt(host, "load_avg_1"), 0)),
         load5 |-> Fixed(Or(Opt(host, "load_avg_5"), 0)),
         load15 |-> Fixed(Or(Opt(host, "load_avg_15"), 0)),
         rows |-> Map(Or(Opt(cpu, "per_core_percent"), <<>>), Core)]

-----------------------------------------------------------------------------
(* DiskAndNetworkSection.                                                  *)

StorageVolumes ==
    LET Row(d) ==
            [mount |-> Get(d, "mount_point"), device |-> Get(d, "device"),
             used |-> Get(d, "used_bytes"), total |-> Get(d, "total_bytes"),
             type |-> OrElse(Get(d, "fs_type"), Missing),
             text |-> Colour(Get(d, "used_percent"), 900, 750),
             percent |-> Fixed(Get(d, "used_percent")),
             zone |-> Meter!ActiveIndex(Meter!DiskZones, Percent(Get(d, "used_percent"))),
             read |-> Get(d, "read_bytes_per_sec"), write |-> Get(d, "write_bytes_per_sec"),
             \* hidden while nothing is read or written
             iops |-> IF Above(Get(d, "read_ops_per_sec"), 0)
                         \/ Above(Get(d, "write_ops_per_sec"), 0)
                      THEN Fixed(Get(d, "read_ops_per_sec") + Get(d, "write_ops_per_sec"))
                      ELSE Missing]
    IN  [rows |-> Map(Default(Passed("disks"), <<>>), Row)]

NetworkAdapters ==
    LET Row(n) ==
            [interface |-> Get(n, "interface"),
             packets_in |-> Get(n, "rx_packets_per_sec"),
             packets_out |-> Get(n, "tx_packets_per_sec"),
             download |-> Get(n, "rx_bytes_per_sec"), received |-> Get(n, "total_rx_bytes"),
             upload |-> Get(n, "tx_bytes_per_sec"), sent |-> Get(n, "total_tx_bytes")]
    IN  [rows |-> Map(Default(Passed("networks"), <<>>), Row)]

-----------------------------------------------------------------------------
(* VisualGaugesSection.                                                    *)

CpuGauge ==
    LET cpu == Opt(snapshot, "cpu")
        percent == Percent(Or(Opt(cpu, "total_percent"), 0))
    IN  [percent |-> Fixed(percent), colour |-> Colour(percent, 850, 650),
         cores |-> Or(Opt(cpu, "core_count"), 1),
         model |-> OrElse(Opt(cpu, "model_name"), Text)]

MemoryGauge ==
    LET memory == Opt(snapshot, "memory")
        percent == Percent(Or(Opt(memory, "used_percent"), 0))
    IN  [percent |-> Fixed(percent), colour |-> Colour(percent, 900, 750),
         used |-> Or(Opt(memory, "used_bytes"), 0), total |-> Or(Opt(memory, "total_bytes"), 0),
         available |-> Or(Opt(memory, "free_bytes"), 0)]

StorageMeter ==
    LET disk == First(Opt(snapshot, "disks"))
        percent == Percent(Or(Opt(disk, "used_percent"), 0))
    IN  [percent |-> Fixed(percent), mount |-> Or(Opt(disk, "mount_point"), Text),
         zone |-> Meter!ActiveIndex(Meter!StorageZones, percent),
         used |-> Or(Opt(disk, "used_bytes"), 0), total |-> Or(Opt(disk, "total_bytes"), 0),
         read |-> Or(Opt(disk, "read_bytes_per_sec"), 0),
         write |-> Or(Opt(disk, "write_bytes_per_sec"), 0)]

LoadMeter ==
    LET host == Opt(snapshot, "host")
        cores == OrElse(Opt(Opt(snapshot, "cpu"), "core_count"), 1)
        load1 == Or(Opt(host, "load_avg_1"), 0)
        ratio == Meter!LoadRatio(load1, cores)
    IN  [ratio |-> ratio, cores |-> cores, load1 |-> Fixed(load1),
         zone |-> Meter!ActiveIndex(Meter!LoadZones, ratio),
         \* host?.load_avg_5?.toFixed(2) ?? '0.00'
         load5 |-> Or(Opt(host, "load_avg_5"), 0), load15 |-> Or(Opt(host, "load_avg_15"), 0)]

-----------------------------------------------------------------------------
(* OverviewCards.                                                          *)

CpuCard ==
    LET cpu == Opt(snapshot, "cpu")
    IN  [percent |-> Fixed(Or(Opt(cpu, "total_percent"), 0)),
         cores |-> OrElse(Opt(cpu, "core_count"), Text)]

MemoryCard ==
    LET memory == Opt(snapshot, "memory")
    IN  [percent |-> Fixed(Or(Opt(memory, "used_percent"), 0)),
         used |-> Or(Opt(memory, "used_bytes"), 0), total |-> Or(Opt(memory, "total_bytes"), 0)]

StorageCard ==
    LET disk == First(Opt(snapshot, "disks"))
    IN  [percent |-> Fixed(Or(Opt(disk, "used_percent"), 0)),
         mount |-> IF disk \in Nothing THEN Text ELSE Get(disk, "mount_point"),
         used |-> Or(Opt(disk, "used_bytes"), 0), total |-> Or(Opt(disk, "total_bytes"), 0)]

\* the rates that are added up
NetworkCard ==
    LET Addends(n) == [rx |-> OrElse(Get(n, "rx_bytes_per_sec"), 0),
                       tx |-> OrElse(Get(n, "tx_bytes_per_sec"), 0)]
    IN  [rows |-> Map(Or(Opt(snapshot, "networks"), <<>>), Addends)]

\* mutant: the usage is taken to be there with the GPU, also that of an idle one
GpuCard_NoDefault ==
    LET gpu == Opt(snapshot, "gpu")
    IN  IF Or(Opt(gpu, "available"), FALSE)
        THEN [kind |-> "gpu", value |-> Fixed(Opt(gpu, "usage_percent")), uptime |-> Missing]
        ELSE [kind |-> "uptime", value |-> 0, uptime |-> Missing]

\* the fifth card shows the GPU, or else the uptime
GpuCard ==
    LET gpu == Opt(snapshot, "gpu")
        host == Opt(snapshot, "host")
    IN  IF Or(Opt(gpu, "available"), FALSE)
        THEN [kind |-> "gpu", value |-> Fixed(Or(Opt(gpu, "usage_percent"), 0)),
              uptime |-> IF host \in Nothing THEN Missing ELSE Get(host, "uptime_seconds"),
              below |-> OrElse(Opt(gpu, "cur_freq_mhz"), Text)]
        ELSE [kind |-> "uptime", value |-> Or(Opt(host, "uptime_seconds"), 0),
              uptime |-> Or(Opt(host, "uptime_seconds"), 0),
              below |-> Or(Opt(host, "hostname"), Text)]

-----------------------------------------------------------------------------
(* DockerSection.                                                          *)

\* the cells of a container's row
ContainerRow(c) ==
    LET state == Get(c, "state")
        cpu == Get(c, "cpu_percent")
    IN  [name |-> Get(c, "name"), id |-> Fixed(Get(c, "id")),
         icon |-> IF state = "running" THEN "green" ELSE "grey",
         link |-> IF OrElse(Get(c, "url"), Null) = Null THEN "none" ELSE "link",
         label |-> CASE state = "running" -> "Running" [] state = "paused" -> "Paused"
                     [] OTHER -> "Exited",
         status |-> Get(c, "status"), image |-> Get(c, "image"),
         percent |-> Fixed(cpu), text |-> Colour(cpu, 800, 400), bar |-> Colour(cpu, 800, 400),
         used |-> Get(c, "memory_used_bytes"), limit |-> Get(c, "memory_limit_bytes"),
         memory |-> Fixed(Get(c, "memory_percent")),
         rx |-> Get(c, "net_rx_bytes"), tx |-> Get(c, "net_tx_bytes")]

\* the badge, and below it the error or the table
DockerSection ==
    LET containers == Default(Passed("containers"), <<>>)
        failed == OrElse(Passed("docker_error"), NoText) # NoText
    IN  [running |-> Count(containers, IsRunning),
         total |-> Count(containers, LAMBDA c : TRUE),
         shows |-> IF failed THEN "error" ELSE "table",
         rows |-> IF failed THEN <<>> ELSE Map(containers, ContainerRow)]

-----------------------------------------------------------------------------
(* Properties.                                                             *)

Page == <<Header, CpuSection, StorageVolumes, NetworkAdapters, CpuGauge, MemoryGauge,
          StorageMeter, LoadMeter, CpuCard, MemoryCard, StorageCard, NetworkCard, GpuCard,
          DockerSection>>

Throws(drawn) ==
    \E f \in DOMAIN drawn :
       IF f # "rows" THEN drawn[f] = Crash
       ELSE \E i \in DOMAIN drawn.rows :
                \E g \in DOMAIN drawn.rows[i] : drawn.rows[i][g] = Crash

\* Whichever collectors have failed, and before the first snapshot, no section reads
\* what is not there (manager.go:73 leaves it out, the page has no error boundary).
NeverThrows == \A i \in DOMAIN Page : ~Throws(Page[i])

\* What the daemon writes is what the front end's types say that it reads.
TypesTellTheWire == snapshot # Null => SnapshotHasTypes(snapshot)

\* The same thing is told alike wherever it is told: the running containers, the first
\* disk, the cores, the uptime.
SectionsAgree ==
    /\ Header.running = DockerSection.running
    /\ DockerSection.shows = "table" =>
          /\ Len(DockerSection.rows) = DockerSection.total
          /\ Cardinality({i \in DOMAIN DockerSection.rows :
                            DockerSection.rows[i].label = "Running"}) = DockerSection.running
    /\ StorageVolumes.rows # <<>> =>
          LET row == StorageVolumes.rows[1]
          IN  /\ StorageCard.percent = row.percent /\ StorageMeter.percent = Percent(row.percent)
              /\ StorageCard.mount = row.mount /\ StorageMeter.mount = row.mount
    /\ CpuCard.cores # Text => CpuCard.cores = CpuGauge.cores /\ CpuCard.cores = LoadMeter.cores
    /\ CpuSection.uptime # Missing => Header.uptime = CpuSection.uptime
    /\ GpuCard.uptime # Missing /\ Header.shown => GpuCard.uptime = Header.uptime

\* A colour tells what the meter beside it tells, but at the very boundary, which the
\* colour counts to the lower zone and the meter to the upper one; and no disk is
\* critical in one place and normal in another.
ColoursAgree ==
    LET zones == [calm |-> 1, amber |-> 2, red |-> 3]
    IN  /\ \A i \in DOMAIN StorageVolumes.rows :
              LET row == StorageVolumes.rows[i]
              IN  row.zone # zones[row.text] =>
                      row.percent \in {750, 900} /\ row.zone = zones[row.text] + 1
        /\ StorageVolumes.rows # <<>> =>
              StorageMeter.zone - StorageVolumes.rows[1].zone \in {0, 1}

\* The page fits every snapshot that the collectors can bring.
SectionsFit == NeverThrows /\ TypesTellTheWire /\ SectionsAgree /\ ColoursAgree
=============================================================================
