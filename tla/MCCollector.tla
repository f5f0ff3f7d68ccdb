---------------------------- MODULE MCCollector ----------------------------
(* Collector on two PIDs and one container.  Configuration A names p1 and  *)
(* the container, B names p2 alone, at another level, and C names nothing, *)
(* so a PID can be wanted, dropped and wanted again, from either source.   *)
(* The two PIDs are in one bucket, or one is in front of the other.        *)
EXTENDS Collector, TLC

CONSTANTS p1, p2, c1

MCPids == {p1, p2}
MCContainers == {c1}
MCLevels == {1, 2}
MCHashes == [MCPids -> 1 .. 2]

ConfA == [pids |-> {p1}, k8s |-> {c1}, level |-> 1]
ConfB == [pids |-> {p2}, k8s |-> {}, level |-> 2]
ConfC == [pids |-> {}, k8s |-> {}, level |-> 2]

MCConfigs == {ConfA, ConfB}
MCConfigsOnOff == {ConfA, ConfB, ConfC}
MCConfigsK8s == {[pids |-> {}, k8s |-> {c1}, level |-> 1]}
=============================================================================
