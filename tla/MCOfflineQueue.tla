---------------------------- MODULE MCOfflineQueue ----------------------------
(* TLC instances of OfflineQueue: two owners, ann and bob, of a shared agent. *)
EXTENDS OfflineQueue, TLC

CONSTANTS ann, bob, a1, a2, b1

\* Two events of ann and one of bob, or one each.
ThreeEvents == {a1, a2, b1}
TwoEvents == {a1, b1}
OwnerOfThree == a1 :> ann @@ a2 :> ann @@ b1 :> bob
OwnerOfTwo == a1 :> ann @@ b1 :> bob

Symmetry == Permutations(Tasks)
=============================================================================
