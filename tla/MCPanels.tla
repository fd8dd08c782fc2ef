------------------------------ MODULE MCPanels ------------------------------
(* A small instance of Panels.  No property of it is a liveness property, so  *)
(* transports may be permuted.                                               *)
EXTENDS Panels, TLC
Symmetry == Permutations(Transports)
=============================================================================
