-------------------------- MODULE MCConnectionLimit --------------------------
(* ConnectionLimit for TLC: pids are interchangeable, and so are addresses. *)
EXTENDS ConnectionLimit, TLC

Symmetry == Permutations(Pids) \cup Permutations(Ips)
=============================================================================
