---------------------------- MODULE MCConfigBus ----------------------------
(* ConfigBus with two collectors.  Two writes give four read attempts, so  *)
(* prefixes, torn reads and overtaking all occur.                          *)
EXTENDS ConfigBus, TLC

CONSTANTS n1, n2

MCNames == {n1, n2}

(* Collectors are not told apart by the module.                            *)
Symmetry == Permutations(MCNames)
=============================================================================
