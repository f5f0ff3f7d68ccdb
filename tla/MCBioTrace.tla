---------------------------- MODULE MCBioTrace -----------------------------
(* BioTrace with two requests, so that two handlers overlap, and three     *)
(* I/Os, so that a request is used again after its entries were left.      *)
EXTENDS BioTrace, TLC

CONSTANTS r1, r2, p1, p2

MCReqs == {r1, r2}
MCPids == {p1, p2}
=============================================================================
