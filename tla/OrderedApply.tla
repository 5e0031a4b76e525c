---------------------------- MODULE OrderedApply ----------------------------
(***************************************************************************)
(* What the pipeline from the stream to the rows promises: the entries of  *)
(* a growing log are applied at most once each and in log order, and an    *)
(* entry is acknowledged, in log order too, only when there is nothing     *)
(* left to apply in it.  An entry may be passed over; it is then lost.     *)
(***************************************************************************)
EXTENDS Naturals, Sequences

CONSTANT Entries     \* what may be appended: records with a field `kind`

VARIABLES
  log,       \* the entries appended so far
  applied,   \* the entries whose effect is durable
  acked      \* the entries the log no longer has to remember

Init == log = <<>> /\ applied = {} /\ acked = {}

Submit ==
  /\ \E entry \in Entries : log' = Append(log, entry)
  /\ UNCHANGED <<applied, acked>>

Apply ==
  /\ \E i \in 1 .. Len(log) :
       /\ log[i].kind = "crdt"
       /\ \A j \in applied : j < i
       /\ applied' = applied \cup {i}
  /\ UNCHANGED <<log, acked>>

Acknowledge ==
  /\ \E i \in 1 .. Len(log) :
       /\ log[i].kind = "crdt" => i \in applied
       /\ \A j \in acked : j < i
       /\ acked' = acked \cup {i}
  /\ UNCHANGED <<log, applied>>

Next == Submit \/ Apply \/ Acknowledge

Spec == Init /\ [][Next]_<<log, applied, acked>>

=============================================================================
