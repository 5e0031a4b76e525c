----------------------------- MODULE MCTextSync ------------------------------
(***************************************************************************)
(* Model values for the runs of TextSync.                                  *)
(***************************************************************************)
EXTENDS TextSync, TLC

CONSTANTS u1, u2

TwoPages == {u1, u2}
Empty == {"empty"}
Seeded == {"text"}

\* Pages are interchangeable; no run of this module checks liveness.
Symmetry == Permutations(Pages)

=============================================================================
