------------------------ MODULE MCConnectionAuthority ------------------------
(* TLC instances of ConnectionAuthority. *)
EXTENDS ConnectionAuthority, TLC

CONSTANTS n1, n2

Symmetry == Permutations(Conns)
FullSymmetry == Permutations(Conns) \cup Permutations(Nodes)
=============================================================================
