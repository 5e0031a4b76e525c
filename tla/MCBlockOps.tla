----------------------------- MODULE MCBlockOps ------------------------------
(***************************************************************************)
(* Model values and choices of operations for the runs of BlockOps.        *)
(***************************************************************************)
EXTENDS BlockOps, TLC

CONSTANTS b1, b2, b3, r1, r2

TwoBlocks == {b1, b2}
ThreeBlocks == {b1, b2, b3}
TwoRequests == {r1, r2}

\* Far enough apart for every insert of an instance to find room.
Apart == [b \in Blocks |-> CASE b = b1 -> 16 [] b = b2 -> 32 [] OTHER -> 48]

EveryKind == AllKinds
InsertAndAttrs == {"insert", "attrs"}

\* Requests are interchangeable; blocks are not, they start at positions of
\* their own. OpsTwo, which checks liveness, does not use it.
Symmetry == Permutations(Requests)

NoFailures == {}
Everything == AllFailures

=============================================================================
