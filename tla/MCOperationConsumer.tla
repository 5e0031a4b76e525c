------------------------ MODULE MCOperationConsumer ------------------------
(***************************************************************************)
(* Model values and symmetry for the runs of OperationConsumer.            *)
(***************************************************************************)
EXTENDS OperationConsumer, TLC

CONSTANTS b1, b2, w1, w2

OneBlock  == {b1}
TwoBlocks == {b1, b2}
OneWorker == {w1}
TwoWorkers == {w1, w2}

NoDeletes == AllRoutes \ {"delete"}
RowsComeAndGo == {"insert", "delete", "reset"}

RawBytes == {"bytes"}

\* Blocks and workers are interchangeable in every action; the liveness runs
\* do not use it.
Symmetry == Permutations(Blocks) \cup Permutations(Workers)

=============================================================================
