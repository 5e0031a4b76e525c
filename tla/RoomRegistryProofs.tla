------------------------- MODULE RoomRegistryProofs -------------------------
(***************************************************************************)
(* The subscription of an instance follows its room, for any number of     *)
(* instances and sockets and however far Redis lags behind.                *)
(***************************************************************************)
EXTENDS RoomRegistry, SequenceTheorems, TLAPS

\* Appending to or dropping the head of a queue of commands: the newest
\* command is the one appended, or is still the newest.
LEMMA NewestCommand ==
  ASSUME NEW q \in Seq(Command)
  PROVE  /\ \A c \in Command : /\ Append(q, c) \in Seq(Command) /\ Append(q, c) # <<>>
                               /\ Append(q, c)[Len(Append(q, c))] = c
         /\ q # <<>> => /\ Tail(q) \in Seq(Command)
                        /\ Tail(q) # <<>> => Tail(q)[Len(Tail(q))] = q[Len(q)]
                        /\ Tail(q) = <<>> => Head(q) = q[Len(q)]
  <1>1. \A c \in Command : /\ Append(q, c) \in Seq(Command) /\ Append(q, c) # <<>>
                           /\ Append(q, c)[Len(Append(q, c))] = c
    OBVIOUS
  <1>2. CASE q # <<>>
    <2>1. PICK t \in Seq(Command), n \in Nat : t = Tail(q) /\ n = Len(q)
      <3>1. Tail(q) \in Seq(Command)
        BY <1>2
      <3>2. Len(q) \in Nat
        OBVIOUS
      <3> QED
        BY <3>1, <3>2
    <2>2. /\ Len(t) = n - 1 /\ n > 0 /\ Head(q) = q[1]
          /\ \A m \in 1 .. n - 1 : t[m] = q[m + 1]
      BY <1>2, <2>1
    <2>3. t # <<>> => t[Len(t)] = q[n]
      <3>1. t # <<>> => Len(t) # 0
        BY EmptySeq
      <3>2. Len(t) # 0 => Len(t) \in 1 .. n - 1
        BY <2>2
      <3> QED
        BY <2>2, <3>1, <3>2
    <2>4. t = <<>> => Head(q) = q[n]
      <3>1. t = <<>> => Len(t) = 0
        BY EmptySeq
      <3> QED
        BY <2>2, <3>1
    <2> QED
      BY <2>1, <2>3, <2>4
  <1> QED
    BY <1>1, <1>2

\* Type correctness of the registry.
THEOREM RegistryTyped == Spec => []TypeOK
<1>1. Init => TypeOK
  BY DEF Init, TypeOK
<1>2. TypeOK /\ [Next]_vars => TypeOK'
  <2> SUFFICES ASSUME TypeOK, [Next]_vars PROVE TypeOK'
    OBVIOUS
  <2>1. ASSUME NEW i \in Instances, NEW s \in Sockets, JoinStep(i, s) \/ LeaveStep(i, s)
        PROVE  TypeOK'
    <3>1. /\ [op |-> "sub", by |-> s] \in Command /\ [op |-> "unsub", by |-> s] \in Command
          /\ commands[i] \in Seq(Command)
      BY DEF Command, TypeOK
    <3>2. /\ room' \in [Instances -> SUBSET Sockets] /\ subscribed' \subseteq Instances
      BY <2>1 DEF JoinStep, LeaveStep, Join, Leave, TypeOK
    <3>3. \/ commands' = commands
          \/ \E c \in Command : commands' = [commands EXCEPT ![i] = Append(@, c)]
      BY <2>1, <3>1 DEF JoinStep, LeaveStep, Join, Leave, Send
    <3>4. \A c \in Command : Append(commands[i], c) \in Seq(Command)
      BY <3>1
    <3> QED
      BY <3>2, <3>3, <3>4 DEF TypeOK
  <2>2. ASSUME NEW i \in Instances, RedisStep(i) PROVE TypeOK'
    <3>1. commands[i] \in Seq(Command) /\ commands[i] # <<>>
      BY <2>2 DEF RedisStep, Reply, Refuse, TypeOK
    <3>2. Tail(commands[i]) \in Seq(Command)
      BY <3>1
    <3>3. commands' = [commands EXCEPT ![i] = Tail(@)] /\ room' = room
      BY <2>2 DEF RedisStep, Reply, Refuse
    <3>4. subscribed' \subseteq Instances
      BY <2>2 DEF RedisStep, Reply, Refuse, TypeOK
    <3> QED
      BY <3>2, <3>3, <3>4 DEF TypeOK
  <2>3. ASSUME NEW i \in Instances, Lose(i) PROVE TypeOK'
    BY <2>3 DEF Lose, TypeOK
  <2>4. CASE UNCHANGED vars
    BY <2>4 DEF vars, TypeOK
  <2> QED
    BY <2>1, <2>2, <2>3, <2>4 DEF Next
<1> QED
  BY <1>1, <1>2, PTL DEF Spec

\* What a step does to one instance: the other instances are left alone, and
\* the intention changes only when the room turns occupied or empty, or when
\* Redis refuses the last command under way.
LEMMA IntentionSteps ==
  ASSUME TypeOK, [Next]_vars, NEW i \in Instances
  PROVE  \/ room'[i] = room[i] /\ Intended(i)' = Intended(i)
         \/ room'[i] # {} /\ (IF room[i] = {} THEN Intended(i)' ELSE Intended(i)' = Intended(i))
         \/ room'[i] = {} /\ ~Intended(i)'
         \/ /\ room'[i] = room[i] /\ commands[i] # <<>>
            /\ commands[i][Len(commands[i])].op \in Failures
  <1>1. ASSUME NEW j \in Instances, j # i,
               \/ \E s \in Sockets : JoinStep(j, s) \/ LeaveStep(j, s)
               \/ RedisStep(j) \/ Lose(j)
        PROVE  room'[i] = room[i] /\ Intended(i)' = Intended(i)
    <2>1. room'[i] = room[i] /\ commands'[i] = commands[i]
      BY <1>1 DEF JoinStep, LeaveStep, Join, Leave, Send, RedisStep, Reply, Refuse, Lose, TypeOK
    <2>2. i \in subscribed' <=> i \in subscribed
      BY <1>1 DEF JoinStep, LeaveStep, RedisStep, Reply, Refuse, Lose
    <2> QED
      BY <2>1, <2>2 DEF Intended
  <1>2. ASSUME NEW s \in Sockets, JoinStep(i, s)
        PROVE  /\ room'[i] # {}
               /\ IF room[i] = {} THEN Intended(i)' ELSE Intended(i)' = Intended(i)
    <2>1. room'[i] = room[i] \cup {s} /\ subscribed' = subscribed
      BY <1>2 DEF JoinStep, Join, TypeOK
    <2>2. CASE room[i] = {}
      <3>1. /\ [op |-> "sub", by |-> s] \in Command
            /\ commands'[i] = Append(commands[i], [op |-> "sub", by |-> s])
        BY <1>2, <2>2 DEF JoinStep, Join, Send, Command, TypeOK
      <3> QED
        BY <2>1, <2>2, <3>1, NewestCommand DEF Intended, TypeOK
    <2>3. CASE room[i] # {}
      BY <1>2, <2>1, <2>3 DEF JoinStep, Join, Intended
    <2> QED
      BY <2>2, <2>3
  <1>3. ASSUME NEW s \in Sockets, LeaveStep(i, s)
        PROVE  \/ room'[i] = {} /\ ~Intended(i)'
               \/ room'[i] # {} /\ room[i] # {} /\ Intended(i)' = Intended(i)
    <2>1. room'[i] = room[i] \ {s} /\ s \in room[i] /\ subscribed' = subscribed
      BY <1>3 DEF LeaveStep, Leave, TypeOK
    <2>2. CASE room[i] \subseteq {s}
      <3>1. /\ [op |-> "unsub", by |-> s] \in Command
            /\ commands'[i] = Append(commands[i], [op |-> "unsub", by |-> s])
        BY <1>3, <2>1, <2>2 DEF LeaveStep, Leave, Send, Command, TypeOK
      <3> QED
        BY <2>1, <2>2, <3>1, NewestCommand DEF Intended, TypeOK
    <2>3. CASE ~(room[i] \subseteq {s})
      BY <1>3, <2>1, <2>3 DEF LeaveStep, Leave, Intended
    <2> QED
      BY <2>2, <2>3
  <1>4. ASSUME Reply(i), room' = room
        PROVE  room'[i] = room[i] /\ Intended(i)' = Intended(i)
    <2>1. /\ commands[i] \in Seq(Command) /\ commands[i] # <<>>
          /\ commands'[i] = Tail(commands[i])
          /\ i \in subscribed' <=> Head(commands[i]).op = "sub"
      BY <1>4 DEF Reply, TypeOK
    <2> QED
      BY <1>4, <2>1, NewestCommand DEF Intended
  <1>5. ASSUME Refuse(i), room' = room
        PROVE  \/ room'[i] = room[i] /\ Intended(i)' = Intended(i)
               \/ /\ room'[i] = room[i] /\ commands[i] # <<>>
                  /\ commands[i][Len(commands[i])].op \in Failures
    <2>1. /\ commands[i] \in Seq(Command) /\ commands[i] # <<>>
          /\ commands'[i] = Tail(commands[i]) /\ subscribed' = subscribed
          /\ Head(commands[i]).op \in Failures
      BY <1>5 DEF Refuse, TypeOK
    <2> QED
      BY <1>5, <2>1, NewestCommand DEF Intended
  <1>6. ASSUME Lose(i) PROVE room'[i] = {} /\ ~Intended(i)'
    BY <1>6 DEF Lose, Intended, TypeOK
  <1>7. CASE UNCHANGED vars
    BY <1>7 DEF vars, Intended
  <1> QED
    BY <1>1, <1>2, <1>3, <1>4, <1>5, <1>6, <1>7 DEF Next, RedisStep

\* If Redis never refuses a SUBSCRIBE, an occupied room is subscribed, or will
\* be by the last command under way: whatever joins, leaves, refused UNSUBSCRIBEs
\* and deaths of the process come in between.
THEOREM OccupiedStaysHeard ==
  ASSUME "sub" \notin Failures
  PROVE  Spec => []OccupiedIsHeard
<1>1. Init => OccupiedIsHeard
  BY DEF Init, OccupiedIsHeard
<1>2. TypeOK /\ OccupiedIsHeard /\ [Next]_vars => OccupiedIsHeard'
  <2> SUFFICES ASSUME TypeOK, OccupiedIsHeard, [Next]_vars,
                      NEW i \in Instances, room'[i] # {}
               PROVE  Intended(i)'
    BY DEF OccupiedIsHeard
  <2>1. room[i] # {} => Intended(i)
    BY DEF OccupiedIsHeard
  <2>2. ASSUME room'[i] = room[i], commands[i] # <<>>,
               commands[i][Len(commands[i])].op \in Failures
        PROVE  FALSE
    <3>1. commands[i][Len(commands[i])] \in Command
      BY <2>2 DEF TypeOK
    <3>2. commands[i][Len(commands[i])].op = "unsub"
      BY <2>2, <3>1 DEF Command
    <3> QED
      BY <2>1, <2>2, <3>2 DEF Intended
  <2> QED
    BY <2>1, <2>2, IntentionSteps
<1> QED
  BY <1>1, <1>2, RegistryTyped, PTL DEF Spec

\* If Redis refuses nothing, an empty room is unsubscribed, or will be.
THEOREM EmptyStaysQuiet ==
  ASSUME Failures = {}
  PROVE  Spec => []EmptyIsQuiet
<1>1. Init => EmptyIsQuiet
  BY DEF Init, EmptyIsQuiet, Intended
<1>2. TypeOK /\ EmptyIsQuiet /\ [Next]_vars => EmptyIsQuiet'
  <2> SUFFICES ASSUME TypeOK, EmptyIsQuiet, [Next]_vars,
                      NEW i \in Instances, room'[i] = {}
               PROVE  ~Intended(i)'
    BY DEF EmptyIsQuiet
  <2>1. room[i] = {} => ~Intended(i)
    BY DEF EmptyIsQuiet
  <2> QED
    BY <2>1, IntentionSteps
<1> QED
  BY <1>1, <1>2, RegistryTyped, PTL DEF Spec

=============================================================================
