--------------------------- MODULE MCVirtualTimer ---------------------------
(* Symmetry for the safety runs of VirtualTimer: nothing depends on which    *)
(* address malloc() returns.                                                 *)
EXTENDS VirtualTimer

AddrSymmetry == Permutations(Addr)
=============================================================================
