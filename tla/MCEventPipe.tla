---------------------------- MODULE MCEventPipe ----------------------------
(* EventPipe with up to two exporters; four events fill and refill a slice *)
(* that has grown to two slots.                                            *)
EXTENDS EventPipe, TLC

CONSTANTS x1, x2

MCExporters == {x1, x2}
MCOneExporter == {x1}

(* Exporters are not told apart by the module.                             *)
Symmetry == Permutations(MCExporters)
=============================================================================
