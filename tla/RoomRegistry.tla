---------------------------- MODULE RoomRegistry ----------------------------
(***************************************************************************)
(* apps/ws/src/room.ts for one document: the sockets of each ws instance   *)
(* and the instance's subscription to the bus channel. SUBSCRIBE and       *)
(* UNSUBSCRIBE travel down one Redis connection per instance, in order.    *)
(***************************************************************************)
EXTENDS Naturals, Sequences

CONSTANTS
  Instances,   \* ws processes
  Sockets,     \* sockets that may ever join
  Failures,    \* commands Redis may refuse, a subset of {"sub", "unsub"}
  MaxCommands  \* bound: commands under way on one connection

ASSUME RegistryAssumption ==
  /\ Failures \subseteq {"sub", "unsub"}
  /\ MaxCommands \in Nat

VARIABLES
  room,       \* the Set of the document on each instance; {} if there is none
  commands,   \* what each instance has sent to Redis and not heard back of
  subscribed  \* the instances whose connection Redis has subscribed

vars == <<room, commands, subscribed>>

Command == [op : {"sub", "unsub"}, by : Sockets]

\* Rooms hold sockets, connections hold commands.
TypeOK ==
  /\ room \in [Instances -> SUBSET Sockets]
  /\ commands \in [Instances -> Seq(Command)]
  /\ subscribed \subseteq Instances

Init ==
  /\ room = [i \in Instances |-> {}]
  /\ commands = [i \in Instances |-> <<>>]
  /\ subscribed = {}

Send(i, op, s) ==
  commands' = [commands EXCEPT ![i] = Append(@, [op |-> op, by |-> s])]

\* Mutant: the room is keyed by the socket, the member is the document.
JoinSwapped(i, s) ==
  /\ room' = [room EXCEPT ![i] = @ \cup {i}]
  /\ IF room[i] = {} THEN Send(i, "sub", s) ELSE UNCHANGED commands

\* Mutant: the size is read after the socket has been added.
JoinLate(i, s) ==
  /\ room' = [room EXCEPT ![i] = @ \cup {s}]
  /\ UNCHANGED commands

\* join, up to its await: only the first socket of the room subscribes.
Join(i, s) ==
  /\ room' = [room EXCEPT ![i] = @ \cup {s}]
  /\ IF room[i] = {} THEN Send(i, "sub", s) ELSE UNCHANGED commands

\* Mutant: any socket that leaves unsubscribes.
LeaveAlways(i, s) ==
  /\ room' = [room EXCEPT ![i] = @ \ {s}]
  /\ IF s \in room[i] THEN Send(i, "unsub", s) ELSE UNCHANGED commands

\* leave: the last socket of the room unsubscribes.
Leave(i, s) ==
  /\ room' = [room EXCEPT ![i] = @ \ {s}]
  /\ IF room[i] # {} /\ room[i] \subseteq {s}
     THEN Send(i, "unsub", s) ELSE UNCHANGED commands

\* Redis carries out the oldest command of a connection.
Reply(i) ==
  /\ commands[i] # <<>>
  /\ commands' = [commands EXCEPT ![i] = Tail(@)]
  /\ subscribed' = IF Head(commands[i]).op = "sub" THEN subscribed \cup {i}
                                                   ELSE subscribed \ {i}

\* Or refuses it. Of a refused SUBSCRIBE the caller of join hears; the socket
\* stays in its room.
Refuse(i) ==
  /\ commands[i] # <<>> /\ Head(commands[i]).op \in Failures
  /\ commands' = [commands EXCEPT ![i] = Tail(@)]
  /\ UNCHANGED subscribed

\* The process dies and Redis drops its connection.
Lose(i) ==
  /\ room' = [room EXCEPT ![i] = {}]
  /\ commands' = [commands EXCEPT ![i] = <<>>]
  /\ subscribed' = subscribed \ {i}

JoinStep(i, s) ==
  /\ s \notin room[i] /\ Len(commands[i]) < MaxCommands
  /\ Join(i, s)
  /\ UNCHANGED subscribed

LeaveStep(i, s) ==
  /\ s \in room[i] /\ Len(commands[i]) < MaxCommands
  /\ Leave(i, s)
  /\ UNCHANGED subscribed

RedisStep(i) == (Reply(i) \/ Refuse(i)) /\ UNCHANGED room

Next ==
  \E i \in Instances :
    \/ \E s \in Sockets : JoinStep(i, s) \/ LeaveStep(i, s)
    \/ RedisStep(i)
    \/ Lose(i)

Spec == Init /\ [][Next]_vars

\* Redis answers. Sockets come and go as they please.
FairSpec == Spec /\ \A i \in Instances : WF_vars(RedisStep(i))

-----------------------------------------------------------------------------
\* The subscription once every command under way has been carried out.
Intended(i) ==
  IF commands[i] = <<>> THEN i \in subscribed
                        ELSE commands[i][Len(commands[i])].op = "sub"

\* "Each ws instance subscribes on demand (first user joins)" (protocol.md:130):
\* however joins and leaves overtake the answers of Redis, the last command sent
\* for an occupied room is a SUBSCRIBE.
OccupiedIsHeard == \A i \in Instances : room[i] # {} => Intended(i)

\* "and unsubscribes when the last user leaves" (protocol.md:131).
EmptyIsQuiet == \A i \in Instances : room[i] = {} => ~Intended(i)

\* A room that stays occupied does get its subscription.
OccupiedGetsSubscribed ==
  \A i \in Instances : (room[i] # {}) ~> (i \in subscribed \/ room[i] = {})

=============================================================================
