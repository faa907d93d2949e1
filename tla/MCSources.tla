------------------------------ MODULE MCSources ------------------------------
(***************************************************************************)
(* Values for TLC: one device mounted twice, its counter wrapping at 3;    *)
(* the mount points /, /data and /mnt and the devices sda, sda1 and        *)
(* mapper/data-old for a mount table of two entries; intervals below and   *)
(* at zero, below the margin and at the limit of 500.                      *)
(***************************************************************************)
EXTENDS Sources

MCRows == <<"root", "home">>
MCDeviceOf == "root" :> "sda" @@ "home" :> "sda"

MCMounts == {"/", "/data", "/mnt"}
MCDiskNames == {"/", "/dev/sda", "/dev/sda1", "/dev/mapper/data-old"}
MCDiskTargets == {{}, {"/"}, {"/dev/sda"}, {"/data"}, {"/", "/dev/sda1"}}

MCBase(n) ==
    CASE n = "/dev/sda" -> "sda" [] n = "/dev/sda1" -> "sda1"
      [] n = "/dev/mapper/data-old" -> "data-old" [] n = "/data" -> "data"
      [] n = "/mnt" -> "mnt" [] OTHER -> n

MCBeginsWith(a, b) == a = b \/ <<a, b>> \in {<<"sda", "sda1">>, <<"data", "data-old">>}

MCIntervals == {-1, 0, 150, 499, 500}
==============================================================================
