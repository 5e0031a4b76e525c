---------------------------- MODULE MCBlockStore ----------------------------
(***************************************************************************)
(* Model values for the runs of BlockStore.                                *)
(***************************************************************************)
EXTENDS BlockStore

CONSTANTS u1, u2, b1, b2, b3

OnePage  == {u1}
TwoPages == {u1, u2}
TwoBlocks   == {b1, b2}
ThreeBlocks == {b1, b2, b3}
First == {b1}

=============================================================================
