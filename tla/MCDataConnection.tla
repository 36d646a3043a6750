--------------------------- MODULE MCDataConnection ---------------------------
(* DataConnection for TLC: addresses are interchangeable, and so are ports.  *)
EXTENDS DataConnection, TLC

Symmetry == Permutations(Addrs) \cup Permutations(Ports)
=============================================================================
