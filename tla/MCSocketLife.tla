---------------------------- MODULE MCSocketLife ----------------------------
(***************************************************************************)
(* Model values for the run of SocketLife: one page, which is told to      *)
(* reconnect() once, so that the room may hold three sockets of its.       *)
(***************************************************************************)
EXTENDS SocketLife, TLC

CONSTANTS i1, u1

OneInstance == {i1}
ThreeSockets == 1 .. 3
OnePage == {u1}
There == u1 :> i1
Twice == u1 :> 2
UnsubFails == {"unsub"}

=============================================================================
