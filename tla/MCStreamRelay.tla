--------------------------- MODULE MCStreamRelay ----------------------------
(***************************************************************************)
(* Model values, homes and failures for the runs of StreamRelay.           *)
(***************************************************************************)
EXTENDS StreamRelay, TLC

CONSTANTS i1, i2, u1, u2

OneInstance == {i1}
TwoInstances == {i1, i2}
OnePage == {u1}
TwoPages == {u1, u2}

\* docker-compose gives each web process a ws instance of its own.
Apart == u1 :> i1 @@ u2 :> i2
Alone == u1 :> i1

NoFailures == {}
Xadds == {"xadd"}
Everything == AllFailures

=============================================================================
