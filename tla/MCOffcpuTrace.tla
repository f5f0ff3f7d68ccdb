--------------------------- MODULE MCOffcpuTrace ----------------------------
(* Tables that the kernel counts in and a collector empties.  OffcpuTrace  *)
(* with a configuration that records sleeps of one kind and one that       *)
(* records preemption, of different levels of detail.  Fcount with two     *)
(* processes, whose entries may be in one bucket or in two, two calls, and *)
(* two configurations, of different functions.  They share no state, so    *)
(* that one run checks them side by side.                                  *)
EXTENDS OffcpuTrace, Fcount, TLC

VARIABLE part

CONSTANTS t1, c1, c2, p1, p2, f1, f2

MCTasks == {t1}
MCCPUs == {c1, c2}
MCControls == {[verbose |-> 1, state |-> {1}],
               [verbose |-> 4, state |-> {}]}

MCPids == {p1, p2}
MCHashes == {[p \in MCPids |-> 1], [p \in MCPids |-> IF p = p1 THEN 1 ELSE 2]}
MCFirst == [function |-> f1, ret |-> TRUE]
MCConfs == {MCFirst, [function |-> f2, ret |-> FALSE]}

MCInit == Init /\ FInit /\ part \in {"offcpu", "fcount"}

MCNext ==
  \/ part = "offcpu" /\ Next /\ UNCHANGED <<fvars, part>>
  \/ part = "fcount" /\ FNext /\ UNCHANGED <<vars, part>>

\* the fairness of the two modules
MCFairness ==
  /\ \A c \in CPUs : WF_vars(part = "offcpu" /\ Handler(c))
  /\ WF_vars(part = "offcpu" /\ ExportBegin) /\ WF_vars(part = "offcpu" /\ Export)
  /\ WF_fvars(part = "fcount" /\ FExportBegin) /\ WF_fvars(part = "fcount" /\ FExport)

MCSpec == MCInit /\ [][MCNext]_<<vars, fvars, part>> /\ MCFairness
=============================================================================
