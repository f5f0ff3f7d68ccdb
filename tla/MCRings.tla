------------------------------ MODULE MCRings -------------------------------
(* What programs in the kernel and the interfaces put into rings that      *)
(* user space empties.  The tcpreq program and its event machine, with two *)
(* threads that accept on two sockets, one address pair that comes back,   *)
(* and the buffers of two CPUs; the perf buffer of file_reader with two    *)
(* threads, two files and the rings of two CPUs of four words, of which a  *)
(* block takes three, so that records go round the end and are lost; the   *)
(* rings of an AF_XDP socket with three frames and two places.  They share *)
(* no state, so that one run checks them side by side.                     *)
EXTENDS TcpTrace, FileReader, XskRing, TLC

VARIABLE part

CONSTANTS t1, t2, s1, s2, a, c1, c2, f1, f2, x1, x2, x3

MCThreads == {t1, t2}
MCSocks == {s1, s2}
MCConns == {a}
MCLevels == {2}
MCBuffers == {c1, c2}
MCFiles == {f1, f2}
MCWriteSizes == {2, 4}
MCFrames == {x1, x2, x3}
MCSymmetry == Permutations(MCThreads) \cup Permutations(MCSocks) \cup Permutations(MCBuffers)

MCInit == TInit /\ Init /\ RInit /\ part \in {"tcp", "perf", "xsk"}

MCNext ==
  \/ part = "tcp" /\ TNext /\ UNCHANGED <<vars, rvars, part>>
  \/ part = "perf" /\ Next /\ UNCHANGED <<tvars, rvars, part>>
  \/ part = "xsk" /\ RNext /\ UNCHANGED <<tvars, vars, part>>

MCSpec == MCInit /\ [][MCNext]_<<tvars, vars, rvars, part>>
=============================================================================
