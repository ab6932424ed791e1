---------------------------- MODULE MCPrAutomation ----------------------------
(* Instances of PrAutomation for TLC. *)
EXTENDS PrAutomation, TLC

Symmetry == Permutations(Images) \cup Permutations(Periodic)
===============================================================================
