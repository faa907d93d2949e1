------------------------------- MODULE Snapshots -------------------------------
(***************************************************************************)
(* A snapshot on its way from the collectors to the page: what the daemon  *)
(* writes as JSON of its structs (model/metrics.go), and what the types of *)
(* the front end (types/metrics.ts) say it may read.  The two lists are    *)
(* kept by hand in two languages.  Texts and amounts that nothing depends  *)
(* on are Text.                                                            *)
(***************************************************************************)
EXTENDS Integers, Sequences, SequencesExt

CONSTANTS
    Missing,        \* undefined
    Null,           \* null, or nil in the daemon
    NoText, Text    \* "" and any other text

-----------------------------------------------------------------------------
(* The structs: the fields that are always written, and those with         *)
(* omitempty.                                                              *)

Tags == [
    HostInfo |-> [
        always |-> {"hostname", "os", "platform", "platform_family", "kernel_version",
                    "uptime_seconds", "boot_time", "load_avg_1", "load_avg_5", "load_avg_15"},
        omitempty |-> {}],
    CPUStats |-> [
        always |-> {"total_percent", "per_core_percent", "core_count"},
        omitempty |-> {"model_name"}],
    MemoryStats |-> [
        always |-> {"total_bytes", "used_bytes", "free_bytes", "available_bytes", "used_percent",
                    "swap_total_bytes", "swap_used_bytes", "swap_free_bytes", "swap_used_percent"},
        omitempty |-> {}],
    DiskMetric |-> [
        always |-> {"mount_point", "device", "total_bytes", "used_bytes", "free_bytes",
                    "used_percent", "read_bytes_per_sec", "write_bytes_per_sec",
                    "read_ops_per_sec", "write_ops_per_sec"},
        omitempty |-> {"fs_type"}],
    NetworkMetric |-> [
        always |-> {"interface", "rx_bytes_per_sec", "tx_bytes_per_sec", "rx_packets_per_sec",
                    "tx_packets_per_sec", "total_rx_bytes", "total_tx_bytes"},
        omitempty |-> {}],
    GPUStats |-> [
        always |-> {"available"},
        omitempty |-> {"vendor", "device_name", "driver_version", "cur_freq_mhz", "max_freq_mhz",
                       "usage_percent", "memory_used_bytes", "memory_total_bytes"}],
    ContainerMetric |-> [
        always |-> {"id", "name", "image", "state", "status", "cpu_percent", "memory_used_bytes",
                    "memory_limit_bytes", "memory_percent", "net_rx_bytes", "net_tx_bytes",
                    "block_read_bytes", "block_write_bytes"},
        omitempty |-> {"url"}],
    SystemSnapshot |-> [
        always |-> {"timestamp"},
        omitempty |-> {"host", "cpu", "memory", "disks", "networks", "gpu", "containers",
                       "docker_error"}]]

\* a struct with the given fields, the others being some text or amount
Struct(type, fields) ==
    fields @@ [f \in Tags[type].always \cup Tags[type].omitempty |-> Text]

Lists == {"disks", "networks", "containers"}
Numbers == {"cur_freq_mhz", "max_freq_mhz", "usage_percent", "memory_used_bytes",
            "memory_total_bytes"}

\* what omitempty omits: nil, an empty list, "" and 0
IsEmpty(field, x) ==
    CASE field \in Lists -> x = Null \/ x = <<>>
      [] field \in Numbers -> x = 0
      [] OTHER -> x \in {NoText, Null}

\* json.Marshal of a struct whose values are written already
Marshal(type, s) ==
    [f \in {g \in DOMAIN s : g \in Tags[type].omitempty => ~IsEmpty(g, s[g])} |-> s[f]]

\* and of what it points to or lists
MarshalPointer(type, s) == IF s = Null THEN Null ELSE Marshal(type, s)
MarshalList(type, s) == IF s = Null THEN Null ELSE [i \in DOMAIN s |-> Marshal(type, s[i])]

MarshalSnapshot(s) ==
    Marshal("SystemSnapshot",
        [timestamp |-> Text,
         host |-> MarshalPointer("HostInfo", s.host),
         cpu |-> MarshalPointer("CPUStats", s.cpu),
         memory |-> MarshalPointer("MemoryStats", s.memory),
         disks |-> MarshalList("DiskMetric", s.disks),
         networks |-> MarshalList("NetworkMetric", s.networks),
         gpu |-> MarshalPointer("GPUStats", s.gpu),
         containers |-> MarshalList("ContainerMetric", s.docker.containers),
         docker_error |-> s.docker.error])

-----------------------------------------------------------------------------
(* The types of the front end: the fields that must be there, and those    *)
(* with a question mark.                                                   *)

Types == [
    HostInfo |-> [
        required |-> {"hostname", "os", "platform", "platform_family", "kernel_version",
                      "uptime_seconds", "boot_time", "load_avg_1", "load_avg_5", "load_avg_15"},
        optional |-> {}],
    CPUStats |-> [
        required |-> {"total_percent", "per_core_percent", "core_count"},
        optional |-> {"model_name"}],
    MemoryStats |-> [
        required |-> {"total_bytes", "used_bytes", "free_bytes", "available_bytes", "used_percent",
                      "swap_total_bytes", "swap_used_bytes", "swap_free_bytes",
                      "swap_used_percent"},
        optional |-> {}],
    DiskMetric |-> [
        required |-> {"mount_point", "device", "total_bytes", "used_bytes", "free_bytes",
                      "used_percent", "read_bytes_per_sec", "write_bytes_per_sec",
                      "read_ops_per_sec", "write_ops_per_sec"},
        optional |-> {"fs_type"}],
    NetworkMetric |-> [
        required |-> {"interface", "rx_bytes_per_sec", "tx_bytes_per_sec", "rx_packets_per_sec",
                      "tx_packets_per_sec", "total_rx_bytes", "total_tx_bytes"},
        optional |-> {}],
    GPUStats |-> [
        required |-> {"available"},
        optional |-> {"vendor", "device_name", "driver_version", "cur_freq_mhz", "max_freq_mhz",
                      "usage_percent", "memory_used_bytes", "memory_total_bytes"}],
    ContainerMetric |-> [
        required |-> {"id", "name", "image", "state", "status", "cpu_percent",
                      "memory_used_bytes", "memory_limit_bytes", "memory_percent",
                      "net_rx_bytes", "net_tx_bytes", "block_read_bytes", "block_write_bytes"},
        optional |-> {"url"}],
    SystemSnapshot |-> [
        required |-> {"timestamp"},
        optional |-> {"host", "cpu", "memory", "disks", "networks", "gpu", "containers",
                      "docker_error"}]]

\* an object has a type: what the type requires is there, and what is there it knows
HasType(type, o) ==
    /\ Types[type].required \subseteq DOMAIN o
    /\ DOMAIN o \subseteq Types[type].required \cup Types[type].optional

\* the objects of a snapshot, each with the type the sections take it for
SnapshotHasTypes(o) ==
    /\ HasType("SystemSnapshot", o)
    /\ "host" \in DOMAIN o => HasType("HostInfo", o.host)
    /\ "cpu" \in DOMAIN o => HasType("CPUStats", o.cpu)
    /\ "memory" \in DOMAIN o => HasType("MemoryStats", o.memory)
    /\ "gpu" \in DOMAIN o => HasType("GPUStats", o.gpu)
    /\ "disks" \in DOMAIN o => \A i \in DOMAIN o.disks : HasType("DiskMetric", o.disks[i])
    /\ "networks" \in DOMAIN o =>
          \A i \in DOMAIN o.networks : HasType("NetworkMetric", o.networks[i])
    /\ "containers" \in DOMAIN o =>
          \A i \in DOMAIN o.containers : HasType("ContainerMetric", o.containers[i])
=============================================================================
