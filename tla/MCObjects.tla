----------------------------- MODULE MCObjects ------------------------------
(* What libbpf holds of the kernel: objects and their pins, with two       *)
(* processes that load an object of two maps, one with a pin path of its   *)
(* own and one of global data, and one program; the AF_XDP sockets of two  *)
(* processes; the links of one process.  They share no state, so that one  *)
(* run checks them side by side.                                           *)
EXTENDS BpfObject, XskSocket, BpfLink, TLC

VARIABLE part

CONSTANTS p1, p2

MCProcs == {p1, p2}
MCAutoPin == {1}
MCInternal == {2}
MCSymmetry == Permutations(MCProcs)

MCInit == Init /\ XInit /\ LInit /\ part \in {"object", "socket", "link"}

MCNext ==
  \/ part = "object" /\ Next /\ UNCHANGED <<xvars, lvars, part>>
  \/ part = "socket" /\ XNext /\ UNCHANGED <<vars, lvars, part>>
  \/ part = "link" /\ LNext /\ UNCHANGED <<vars, xvars, part>>

MCSpec == MCInit /\ [][MCNext]_<<vars, xvars, lvars, part>>
=============================================================================
