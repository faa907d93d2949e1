-------------------------------- MODULE MCPage --------------------------------
(***************************************************************************)
(* Values for TLC: five columns, one of them pinned in the middle of the   *)
(* declared ones; three containers on pages of one or two; three units     *)
(* that differ by ten, so that each of them is reached and the last one    *)
(* overrun, and logarithms that slip by as much as the assumption allows;  *)
(* percentages from -2.0 to 130.0; of each collector nothing, zeros, and   *)
(* values on both sides of the colours' thresholds and on them.            *)
(***************************************************************************)
EXTENDS Page

MCColumns == <<"a", "b", "c", "d", "e">>

MCListing == <<"c", "a", "b">>
MCNames == [a |-> 1, b |-> 2, c |-> 3]
MCMatching == [some |-> {"a", "b"}, none |-> {}]

MCUnits == <<"B", "KB", "MB">>
MCSlip == <<0, 5, 50>>
MCLowest == -20

Wire == INSTANCE Snapshots

MCDisk(used, type, ops) ==
    Wire!Struct("DiskMetric", [used_percent |-> used, fs_type |-> type,
                               read_ops_per_sec |-> 0, write_ops_per_sec |-> ops])
MCContainer(state, cpu, url) ==
    Wire!Struct("ContainerMetric", [state |-> state, cpu_percent |-> cpu, url |-> url])

MCHosts == {Null} \cup {Wire!Struct("HostInfo", f) : f \in
    {[uptime_seconds |-> 0, load_avg_1 |-> 0], [uptime_seconds |-> 7, load_avg_1 |-> 190]}}
MCCPUs == {Null} \cup {Wire!Struct("CPUStats", f) : f \in
    {[total_percent |-> 0, per_core_percent |-> <<>>, core_count |-> 0, model_name |-> NoText],
     [total_percent |-> 860, per_core_percent |-> <<650, 900>>, core_count |-> 2,
      model_name |-> Text]}}
MCMemories == {Null, Wire!Struct("MemoryStats", [used_percent |-> 800])}
MCDisks == {Null, <<>>, <<MCDisk(720, Text, 0), MCDisk(950, NoText, 3)>>,
            <<MCDisk(750, Text, 0)>>, <<MCDisk(880, Text, 0)>>,
            <<MCDisk(900, Text, 0), MCDisk(1000, Text, 0)>>}
MCNetworks == {Null, <<Wire!Struct("NetworkMetric", [rx_bytes_per_sec |-> 5,
                                              tx_bytes_per_sec |-> 0])>>}
MCGPUs == {Null} \cup {Wire!Struct("GPUStats", f) : f \in
    {[available |-> FALSE, usage_percent |-> 0, cur_freq_mhz |-> 0],
     [available |-> TRUE, usage_percent |-> 0, cur_freq_mhz |-> 9]}}
MCDockers == {[containers |-> c, error |-> NoText] : c \in
                 {Null, <<MCContainer("running", 810, Text), MCContainer("paused", 500, NoText),
                          MCContainer("dead", 0, NoText)>>}}
             \cup {[containers |-> Null, error |-> Text]}
=============================================================================
