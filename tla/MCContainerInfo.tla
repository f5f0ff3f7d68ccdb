-------------------------- MODULE MCContainerInfo --------------------------
(* What package info keeps for the others, and who fills it.  The registry *)
(* on two containers and two PIDs, three changes: enough for a PID to      *)
(* leave a container, to move to the other one and to come back while the  *)
(* callbacks of the earlier changes are still pending.  The container      *)
(* provider with two pods and two starts of a container, of one of them or *)
(* of both.  The events of the program's end with two collectors, two      *)
(* loops of which race to register, and a dataCh of one place, so that the *)
(* collectors wait for each other's messages.  They share no state, so     *)
(* that one run checks them side by side.                                  *)
EXTENDS ContainerInfo, ContainerProvider, Shutdown, TLC

VARIABLE part

CONSTANTS c1, c2, p1, p2, n1, n2, d1, d2

MCContainers == {c1, c2}
MCPids == {p1, p2}
MCCollectors == {n1, n2}
MCEarly == {n2}
MCFcounts == {n1}
MCPods == {d1, d2}

MCInit == Init /\ PInit /\ SInit /\ part \in {"registry", "provider", "end"}

MCNext ==
  \/ part = "registry" /\ Next /\ UNCHANGED <<pvars, svars, part>>
  \/ part = "provider" /\ PNext /\ UNCHANGED <<vars, svars, part>>
  \/ part = "end" /\ SNext /\ UNCHANGED <<vars, pvars, part>>

MCSpec ==
  /\ MCInit /\ [][MCNext]_<<vars, pvars, svars, part>>
  /\ \/ part = "registry" /\ Fairness
     \/ part = "end" /\ SFairness
     \/ part = "provider"
=============================================================================
