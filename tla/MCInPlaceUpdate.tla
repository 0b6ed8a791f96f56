--------------------------- MODULE MCInPlaceUpdate ---------------------------
(***************************************************************************)
(* Instances of InPlaceUpdate for TLC.  The values are small on purpose:   *)
(* two values per field, a field whose change takes a reboot, and one      *)
(* identity field, which Day 0 set to the value no template names.         *)
(***************************************************************************)
EXTENDS InPlaceUpdate

CONSTANTS m1, m2, r1, r2, c1, c2

MCTemplateFields == {"kubelet", "disk"}
MCIdentityFields == {"hostname"}
MCRebootFields   == {"disk"}
MCValues         == {"a", "b"}

MCDayZero ==
  [m \in Machines |-> [f \in Fields |-> IF f = "hostname" THEN "b" ELSE "a"]]

\* BootstrapConfigs of CABPT, which has strategic patches and no full config.
Strategic(p)   == [json |-> TRUE, data |-> None, strategic |-> p]
NoPatches      == Strategic(<<>>)
KubeletA       == Strategic([f \in {"kubelet"} |-> "a"])
KubeletB       == Strategic([f \in {"kubelet"} |-> "b"])
DiskB          == Strategic([f \in {"kubelet", "disk"} |-> "b"])
BadPatch       == Strategic(Broken)
NotJSON        == [json |-> FALSE, data |-> None, strategic |-> Broken]

\* BootstrapConfigs with a full machine config.
Full(kubelet, disk) ==
  [json |-> TRUE, strategic |-> <<>>,
   data |-> [f \in TemplateFields |-> IF f = "disk" THEN disk ELSE kubelet]]
BadConfig      == [json |-> TRUE, data |-> Broken, strategic |-> <<>>]

StrategicFormat == {NoPatches, KubeletA, KubeletB, DiskB, BadPatch, NotJSON}
FullFormat      == {Full("a", "a"), Full("b", "a"), Full("b", "b")}
BothFormats     == {Full("a", "a"), [Full("b", "b") EXCEPT !.strategic = DiskB.strategic]}
TwoConfigs      == {Full("a", "a"), Full("b", "a")}
TwoPatches      == {KubeletA, KubeletB}
WithBadConfig   == {Full("a", "a"), BadConfig}
=============================================================================
