---------------------------- MODULE MCSiblingList ----------------------------
(***************************************************************************)
(* Model values for the runs of SiblingList.                               *)
(***************************************************************************)
EXTENDS SiblingList, TLC

CONSTANTS b1, b2, b3

ThreeBlocks == {b1, b2, b3}

Symmetry == Permutations(Blocks)

=============================================================================
