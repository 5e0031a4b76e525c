-------------------------- MODULE StreamRelayProofs --------------------------
(***************************************************************************)
(* Of any number of instances, pages, sockets and failures: what becomes   *)
(* of an entry between its XADD, the sockets it is sent to and the pages.  *)
(***************************************************************************)
EXTENDS StreamRelay, SequenceTheorems, TLAPS

-----------------------------------------------------------------------------
(* The invariant.                                                          *)

\* Counters stay below what their types need, and a page that is linked has a
\* socket.
Bounded ==
  /\ \A s \in Sockets : up[s] <= pages[Page(s)].typed
  /\ \A u \in Clients :
       /\ pages[u].queue <= pages[u].typed
       /\ pages[u].linked => pages[u].n >= 1

\* A socket that replays has a cursor, and replays entries.
Placed ==
  \A s \in Sockets :
    /\ sockets[s].pc \in {"xinfo", "xrange", "send"} => sockets[s].since # NoCursor
    /\ sockets[s].hi <= Len(log) /\ sockets[s].lo >= 1

\* The frame of an entry has the id of one.
Numbered ==
  \A s \in Sockets : \A k \in 1 .. Len(down[s]) : down[s][k].t = "entry" => down[s][k].id >= 1

\* The process that broadcasts the entries of a socket, or of the api.
Origin(by) == IF by = Api THEN "api" ELSE At(by)

\* Not broadcast yet; published, and not yet delivered at the instance.
Pending(id) == \E p \in Processes : \E k \in 1 .. Len(sending[p]) : sending[p][k] = id
Posted(id, i) == \E k \in 1 .. Len(inbox[i]) : inbox[i][k].id = id

\* Every process broadcasts its own entries, once and, if it is a ws instance,
\* in order.
InOrder ==
  /\ \A p \in Processes : \A k \in 1 .. Len(sending[p]) :
       /\ Origin(log[sending[p][k]]) = p
       /\ \A m \in 1 .. Len(sending[p]) : k < m => sending[p][k] < sending[p][m]
  /\ \A i \in Instances : \A k \in 1 .. Len(inbox[i]) :
       /\ inbox[i][k].origin = Origin(log[inbox[i][k].id])
       /\ \A m \in 1 .. Len(inbox[i]) : k < m =>
            /\ inbox[i][k].id # inbox[i][m].id
            /\ (inbox[i][k].origin \in Instances /\ inbox[i][m].origin = inbox[i][k].origin)
                 => inbox[i][k].id < inbox[i][m].id
       /\ \A p \in Processes : \A m \in 1 .. Len(sending[p]) :
            /\ inbox[i][k].id # sending[p][m]
            /\ (inbox[i][k].origin = p /\ p \in Instances) => inbox[i][k].id < sending[p][m]

\* Of the frames of one instance, the ones on their way to a socket come before
\* those that are still to be delivered or broadcast.
FramesInOrder ==
  \A s \in Sockets : \A k \in 1 .. Len(down[s]) : down[s][k].live \in Instances =>
    /\ down[s][k].id <= Len(log)
    /\ \A m \in 1 .. Len(down[s]) :
         k < m /\ down[s][m].live = down[s][k].live => down[s][k].id < down[s][m].id
    /\ \A m \in 1 .. Len(inbox[At(s)]) :
         (At(s) # inbox[At(s)][m].origin /\ inbox[At(s)][m].origin = down[s][k].live)
           => down[s][k].id < inbox[At(s)][m].id
    /\ \A m \in 1 .. Len(sending[down[s][k].live]) : down[s][k].id < sending[down[s][k].live][m]

\* A socket that was sent an entry by a broadcast will not be sent it by another.
Once ==
  \A s \in Sockets : \A id \in 1 .. MaxEntries :
    /\ heard[s][id] \in {0, 1}
    /\ heard[s][id] = 1 =>
         /\ id \in Ids /\ log[id] # s /\ ~Pending(id)
         /\ Origin(log[id]) # At(s) => ~Posted(id, At(s))

\* An open socket is in its room.
InRoom ==
  /\ \A i \in Instances : \A s \in room[i] : At(s) = i
  /\ \A s \in Sockets : sockets[s].open => s \in room[At(s)] /\ sockets[s].pc # "none"

\* What the socket has neither replayed nor heard is yet to come, or lost.
Coming(s) ==
  \A id \in Ids : id >= sockets[s].lo /\ id > sockets[s].hi /\ log[id] # s =>
    \/ heard[s][id] > 0 \/ Pending(id)
    \/ (Posted(id, At(s)) /\ Origin(log[id]) # At(s)) \/ id \in lost

Heeding ==
  \A s \in Sockets : sockets[s].open /\ sockets[s].heeds =>
    At(s) \in subscribed /\ commands[At(s)] = <<>> /\ Coming(s)

RInv ==
  /\ TypeOK /\ Bounded /\ Placed /\ Numbered
  /\ InOrder /\ FramesInOrder /\ Once /\ InRoom /\ Heeding

-----------------------------------------------------------------------------
(* Sequences.                                                              *)

LEMMA Elements ==
  ASSUME NEW S, NEW q \in Seq(S)
  PROVE  Len(q) \in Nat /\ \A k \in 1 .. Len(q) : q[k] \in S
  OBVIOUS

LEMMA Widened ==
  ASSUME NEW S, NEW T, S \subseteq T, NEW q \in Seq(S)
  PROVE  q \in Seq(T)
  OBVIOUS

LEMMA Appended ==
  ASSUME NEW S, NEW q \in Seq(S), NEW e \in S
  PROVE  /\ Append(q, e) \in Seq(S) /\ Len(Append(q, e)) = Len(q) + 1
         /\ \A k \in 1 .. Len(q) : Append(q, e)[k] = q[k]
         /\ Append(q, e)[Len(q) + 1] = e
  OBVIOUS

LEMMA Headed ==
  ASSUME NEW S, NEW q \in Seq(S), q # <<>>
  PROVE  /\ Tail(q) \in Seq(S) /\ Len(q) >= 1 /\ Len(Tail(q)) = Len(q) - 1
         /\ \A k \in 1 .. Len(q) - 1 : Tail(q)[k] = q[k + 1]
         /\ Head(q) = q[1] /\ Head(q) \in S
  OBVIOUS

LEMMA Joint ==
  ASSUME NEW S, NEW q \in Seq(S), NEW r \in Seq(S)
  PROVE  /\ q \o r \in Seq(S) /\ Len(q \o r) = Len(q) + Len(r)
         /\ \A k \in 1 .. Len(q) : (q \o r)[k] = q[k]
         /\ \A k \in 1 .. Len(r) : (q \o r)[Len(q) + k] = r[k]
  OBVIOUS

LEMMA Removed ==
  ASSUME NEW S, NEW q \in Seq(S), NEW k \in 1 .. Len(q)
  PROVE  /\ RemoveAt(q, k) \in Seq(S) /\ Len(RemoveAt(q, k)) = Len(q) - 1
         /\ \A j \in 1 .. Len(q) - 1 : RemoveAt(q, k)[j] = IF j < k THEN q[j] ELSE q[j + 1]
         /\ k = 1 => RemoveAt(q, k) = Tail(q)
<1> DEFINE front == SubSeq(q, 1, k - 1)
           back == SubSeq(q, k + 1, Len(q))
<1>1. /\ front \in Seq(S) /\ Len(front) = k - 1
      /\ \A j \in 1 .. k - 1 : front[j] = q[j]
  OBVIOUS
<1>2. /\ back \in Seq(S) /\ Len(back) = Len(q) - k
      /\ \A j \in 1 .. Len(q) - k : back[j] = q[j + k]
  OBVIOUS
<1>3. RemoveAt(q, k) = front \o back
  BY DEF RemoveAt
<1> HIDE DEF front, back
<1>4. /\ RemoveAt(q, k) \in Seq(S) /\ Len(RemoveAt(q, k)) = Len(q) - 1
      /\ \A j \in 1 .. k - 1 : RemoveAt(q, k)[j] = front[j]
      /\ \A j \in 1 .. Len(q) - k : RemoveAt(q, k)[k - 1 + j] = back[j]
  <2>1. /\ front \o back \in Seq(S) /\ Len(front \o back) = Len(front) + Len(back)
        /\ \A j \in 1 .. Len(front) : (front \o back)[j] = front[j]
        /\ \A j \in 1 .. Len(back) : (front \o back)[Len(front) + j] = back[j]
    <3>1. front \in Seq(S) /\ back \in Seq(S)
      BY <1>1, <1>2
    <3> QED
      BY <3>1
  <2>2. k \in Nat /\ Len(q) \in Nat
    OBVIOUS
  <2>3. Len(front) + Len(back) = Len(q) - 1
    BY <1>1, <1>2, <2>2
  <2> QED
    BY <1>1, <1>2, <1>3, <2>1, <2>3
<1>5. ASSUME NEW j \in 1 .. Len(q) - 1
      PROVE  RemoveAt(q, k)[j] = IF j < k THEN q[j] ELSE q[j + 1]
  <2>1. CASE j < k
    BY <1>1, <1>4, <2>1
  <2>2. CASE j >= k
    <3> DEFINE m == j - k + 1
    <3>1. m \in 1 .. Len(q) - k /\ k - 1 + m = j /\ m + k = j + 1 /\ ~(j < k)
      BY <2>2
    <3> HIDE DEF m
    <3>2. RemoveAt(q, k)[k - 1 + m] = back[m] /\ back[m] = q[m + k]
      BY <1>2, <1>4, <3>1
    <3> QED
      BY <3>1, <3>2
  <2> QED
    BY <2>1, <2>2
<1>6. ASSUME k = 1 PROVE RemoveAt(q, k) = Tail(q)
  <2>1. q # <<>>
    OBVIOUS
  <2>2. /\ Tail(q) \in Seq(S) /\ Len(Tail(q)) = Len(q) - 1
        /\ \A j \in 1 .. Len(q) - 1 : Tail(q)[j] = q[j + 1]
    BY <2>1, Headed
  <2>3. \A j \in 1 .. Len(q) - 1 : RemoveAt(q, k)[j] = q[j + 1]
    BY <1>5, <1>6
  <2> QED
    BY <1>4, <2>2, <2>3, SeqEqual
<1> QED
  BY <1>4, <1>5, <1>6

-----------------------------------------------------------------------------
(* The bus: entries in `sending` and in the inboxes.                       *)

BusTyped ==
  /\ log \in Seq(Sockets \cup {Api}) /\ Len(log) <= MaxEntries
  /\ sending \in [Processes -> Seq(Ids)]
  /\ inbox \in [Instances -> Seq([id : Ids, origin : Processes])]
  /\ lost \subseteq Ids

LEMMA Named ==
  /\ Api \notin Sockets /\ "api" \notin Instances /\ "replay" \notin Instances
  /\ "api" \in Processes /\ Instances \subseteq Processes
  /\ \A s \in Sockets : Page(s) \in Clients /\ At(s) \in Instances
  BY RelayAssumption DEF Sockets, Api, Processes, Page, At

LEMMA BusElements ==
  ASSUME BusTyped
  PROVE  /\ Len(log) \in Nat
         /\ \A id \in Ids : Origin(log[id]) \in Processes /\ log[id] \in Sockets \cup {Api}
         /\ \A p \in Processes : /\ sending[p] \in Seq(Ids) /\ Len(sending[p]) \in Nat
                                 /\ \A k \in 1 .. Len(sending[p]) : sending[p][k] \in Ids
         /\ \A i \in Instances :
              /\ inbox[i] \in Seq([id : Ids, origin : Processes]) /\ Len(inbox[i]) \in Nat
              /\ \A k \in 1 .. Len(inbox[i]) :
                   inbox[i][k].id \in Ids /\ inbox[i][k].origin \in Processes
<1>1. Len(log) \in Nat /\ \A id \in Ids : log[id] \in Sockets \cup {Api}
  BY DEF BusTyped, Ids
<1>2. \A id \in Ids : Origin(log[id]) \in Processes
  BY <1>1, Named DEF Origin
<1>3. ASSUME NEW p \in Processes
      PROVE  /\ sending[p] \in Seq(Ids) /\ Len(sending[p]) \in Nat
             /\ \A k \in 1 .. Len(sending[p]) : sending[p][k] \in Ids
  <2>1. sending[p] \in Seq(Ids)
    BY DEF BusTyped
  <2> QED
    BY <2>1
<1>4. ASSUME NEW i \in Instances
      PROVE  /\ inbox[i] \in Seq([id : Ids, origin : Processes]) /\ Len(inbox[i]) \in Nat
             /\ \A k \in 1 .. Len(inbox[i]) :
                  inbox[i][k].id \in Ids /\ inbox[i][k].origin \in Processes
  <2>1. inbox[i] \in Seq([id : Ids, origin : Processes])
    BY DEF BusTyped
  <2>2. /\ Len(inbox[i]) \in Nat
        /\ \A k \in 1 .. Len(inbox[i]) : inbox[i][k] \in [id : Ids, origin : Processes]
    BY <2>1, Elements
  <2> QED
    BY <2>1, <2>2
<1> QED
  BY <1>1, <1>2, <1>3, <1>4

\* Every step leaves the entries of the log as they are.
LEMMA EntriesStay ==
  ASSUME BusTyped, log' = log \/ \E by \in Sockets \cup {Api} : log' = Append(log, by)
  PROVE  /\ Len(log') \in Nat /\ Len(log) <= Len(log')
         /\ Ids \subseteq Ids' /\ \A id \in Ids : log'[id] = log[id]
<1>1. CASE log' = log
  BY <1>1, BusElements DEF Ids
<1>2. ASSUME NEW by \in Sockets \cup {Api}, log' = Append(log, by)
      PROVE  /\ Len(log') \in Nat /\ Len(log) <= Len(log')
             /\ Ids \subseteq Ids' /\ \A id \in Ids : log'[id] = log[id]
  <2>1. Len(log') = Len(log) + 1 /\ \A id \in Ids : log'[id] = log[id]
    BY <1>2 DEF BusTyped, Ids
  <2> QED
    BY <2>1, BusElements DEF Ids
<1> QED
  BY <1>1, <1>2

\* An entry is added: it is pending, at the end of the queue of its process.
LEMMA Adds ==
  ASSUME BusTyped, InOrder, NEW by \in Sockets \cup {Api}, NEW p \in Processes,
         p = Origin(by), XAdd(by, p), inbox' = inbox
  PROVE  /\ InOrder'
         /\ Len(log') = Len(log) + 1 /\ log'[Len(log) + 1] = by
         /\ \A id : Pending(id)' <=> Pending(id) \/ id = Len(log) + 1
         /\ \A q \in Processes : \A k \in 1 .. Len(sending'[q]) :
              (k \in 1 .. Len(sending[q]) /\ sending'[q][k] = sending[q][k])
                \/ sending'[q][k] = Len(log) + 1
<1> DEFINE new == Len(log) + 1
<1>1. /\ log' = Append(log, by)
      /\ sending' = [sending EXCEPT ![p] = Append(@, new)]
  BY DEF XAdd
<1>2. /\ Len(log') = new /\ log'[new] = by /\ new \in Ids' /\ new \notin Ids
      /\ \A id \in Ids : id < new /\ id \in Ids' /\ log'[id] = log[id]
  <2>1. Len(log') = new /\ log'[new] = by
    BY <1>1 DEF BusTyped
  <2>2. new \in Ids' /\ new \notin Ids /\ \A id \in Ids : id < new
    BY <2>1, BusElements DEF Ids
  <2> QED
    BY <2>1, <2>2, <1>1, EntriesStay
<1> HIDE DEF new
<1>3. /\ sending'[p] = Append(sending[p], new)
      /\ \A q \in Processes : q # p => sending'[q] = sending[q]
  BY <1>1 DEF BusTyped
<1>4. /\ sending'[p] \in Seq(Ids') /\ Len(sending'[p]) = Len(sending[p]) + 1
      /\ \A k \in 1 .. Len(sending[p]) : sending'[p][k] = sending[p][k]
      /\ sending'[p][Len(sending[p]) + 1] = new
  <2>1. sending[p] \in Seq(Ids')
    BY <1>2, BusElements
  <2> QED
    BY <1>2, <1>3, <2>1, Appended
<1>5. \A q \in Processes : \A k \in 1 .. Len(sending'[q]) :
        \/ k \in 1 .. Len(sending[q]) /\ sending'[q][k] = sending[q][k]
        \/ q = p /\ k = Len(sending[p]) + 1 /\ sending'[q][k] = new
  <2> SUFFICES ASSUME NEW q \in Processes, NEW k \in 1 .. Len(sending'[q])
               PROVE  \/ k \in 1 .. Len(sending[q]) /\ sending'[q][k] = sending[q][k]
                      \/ q = p /\ k = Len(sending[p]) + 1 /\ sending'[q][k] = new
    OBVIOUS
  <2>1. CASE q # p
    BY <1>3, <2>1
  <2>2. CASE q = p
    <3>1. k \in 1 .. Len(sending[p]) \/ k = Len(sending[p]) + 1
      BY <1>4, <2>2, BusElements
    <3> QED
      BY <1>4, <2>2, <3>1
  <2> QED
    BY <2>1, <2>2
<1>6. \A id : Pending(id)' <=> Pending(id) \/ id = new
  <2>1. ASSUME NEW id, Pending(id)' PROVE Pending(id) \/ id = new
    BY <1>5, <2>1 DEF Pending
  <2>2. ASSUME NEW id, Pending(id) PROVE Pending(id)'
    <3>1. PICK q \in Processes : \E k \in 1 .. Len(sending[q]) : sending[q][k] = id
      BY <2>2 DEF Pending
    <3>2. PICK k \in 1 .. Len(sending[q]) : sending[q][k] = id
      BY <3>1
    <3>3. k \in 1 .. Len(sending'[q]) /\ sending'[q][k] = id
      <4>1. CASE q # p
        BY <3>2, <1>3, <4>1
      <4>2. CASE q = p
        BY <3>2, <1>4, <4>2, BusElements
      <4> QED
        BY <4>1, <4>2
    <3> QED
      BY <3>3 DEF Pending
  <2>3. ASSUME NEW id, id = new PROVE Pending(id)'
    <3>1. Len(sending[p]) + 1 \in 1 .. Len(sending'[p])
      BY <1>4, BusElements
    <3> QED
      BY <3>1, <1>4, <2>3 DEF Pending
  <2> QED
    BY <2>1, <2>2, <2>3
<1>7. InOrder'
  <2>1. ASSUME NEW q \in Processes, NEW k \in 1 .. Len(sending'[q])
        PROVE  /\ Origin(log'[sending'[q][k]]) = q
               /\ \A m \in 1 .. Len(sending'[q]) : k < m => sending'[q][k] < sending'[q][m]
    <3>1. Origin(log'[sending'[q][k]]) = q
      <4>1. CASE k \in 1 .. Len(sending[q]) /\ sending'[q][k] = sending[q][k]
        <5>1. sending[q][k] \in Ids /\ Origin(log[sending[q][k]]) = q
          BY <4>1, BusElements DEF InOrder
        <5> QED
          BY <4>1, <5>1, <1>2
      <4>2. CASE q = p /\ sending'[q][k] = new
        BY <4>2, <1>2
      <4> QED
        BY <4>1, <4>2, <1>5
    <3>2. ASSUME NEW m \in 1 .. Len(sending'[q]), k < m
          PROVE  sending'[q][k] < sending'[q][m]
      <4>1. k \in 1 .. Len(sending[q]) /\ sending'[q][k] = sending[q][k]
        BY <1>3, <1>4, <3>2, BusElements
      <4>2. CASE m \in 1 .. Len(sending[q])
        <5>1. sending'[q][m] = sending[q][m]
          BY <1>3, <1>4, <4>2
        <5> QED
          BY <4>1, <4>2, <5>1, <3>2 DEF InOrder
      <4>3. CASE sending'[q][m] = new
        BY <4>1, <4>3, <1>2, BusElements
      <4> QED
        BY <4>2, <4>3, <1>5
    <3> QED
      BY <3>1, <3>2
  <2>2. ASSUME NEW i \in Instances, NEW k \in 1 .. Len(inbox[i])
        PROVE  /\ inbox[i][k].origin = Origin(log'[inbox[i][k].id])
               /\ \A q \in Processes : \A m \in 1 .. Len(sending'[q]) :
                    /\ inbox[i][k].id # sending'[q][m]
                    /\ (inbox[i][k].origin = q /\ q \in Instances)
                         => inbox[i][k].id < sending'[q][m]
    <3>1. inbox[i][k].id \in Ids /\ inbox[i][k].origin = Origin(log[inbox[i][k].id])
      BY BusElements DEF InOrder
    <3>2. ASSUME NEW q \in Processes, NEW m \in 1 .. Len(sending'[q])
          PROVE  /\ inbox[i][k].id # sending'[q][m]
                 /\ (inbox[i][k].origin = q /\ q \in Instances)
                      => inbox[i][k].id < sending'[q][m]
      <4>1. CASE sending'[q][m] = new
        BY <1>2, <3>1, <4>1
      <4>2. CASE m \in 1 .. Len(sending[q]) /\ sending'[q][m] = sending[q][m]
        BY <4>2 DEF InOrder
      <4> QED
        BY <4>1, <4>2, <1>5
    <3> QED
      BY <3>1, <3>2, <1>2
  <2> QED
    BY <2>1, <2>2 DEF InOrder
<1> QED
  BY <1>2, <1>5, <1>6, <1>7 DEF new

\* An entry is taken out of the queue of its process.
TakenOut(p, k) == sending' = [sending EXCEPT ![p] = RemoveAt(@, k)]

Without(p, id) ==
  \A q \in Processes : \A m \in 1 .. Len(sending'[q]) :
    /\ \E l \in 1 .. Len(sending[q]) : sending'[q][m] = sending[q][l]
    /\ sending'[q][m] # id
    /\ (q = p /\ p \in Instances) => id < sending'[q][m]
    /\ \A n \in 1 .. Len(sending'[q]) : m < n => sending'[q][m] < sending'[q][n]

LEMMA Takes ==
  ASSUME BusTyped, InOrder, NEW p \in Processes, NEW k \in 1 .. Len(sending[p]),
         p \in Instances => k = 1, NEW id, id = sending[p][k], TakenOut(p, k)
  PROVE  /\ \A x : Pending(x)' <=> Pending(x) /\ x # id
         /\ Without(p, id)
<1> DEFINE Old(m) == IF m < k THEN m ELSE m + 1
<1>1. /\ sending'[p] = RemoveAt(sending[p], k)
      /\ \A q \in Processes : q # p => sending'[q] = sending[q]
  BY DEF BusTyped, TakenOut
<1>2. /\ sending'[p] \in Seq(Ids) /\ Len(sending'[p]) = Len(sending[p]) - 1
      /\ \A m \in 1 .. Len(sending[p]) - 1 : sending'[p][m] = sending[p][Old(m)]
  <2>1. sending[p] \in Seq(Ids)
    BY BusElements
  <2>2. /\ RemoveAt(sending[p], k) \in Seq(Ids)
        /\ Len(RemoveAt(sending[p], k)) = Len(sending[p]) - 1
        /\ \A j \in 1 .. Len(sending[p]) - 1 :
             RemoveAt(sending[p], k)[j] = IF j < k THEN sending[p][j] ELSE sending[p][j + 1]
    BY <2>1, Removed
  <2> QED
    BY <1>1, <2>2
<1>3. /\ Len(sending'[p]) \in Nat
      /\ \A m \in 1 .. Len(sending'[p]) : /\ Old(m) \in 1 .. Len(sending[p]) /\ Old(m) # k
                                          /\ sending'[p][m] = sending[p][Old(m)]
      /\ \A m, n \in 1 .. Len(sending'[p]) : m < n => Old(m) < Old(n)
      /\ k = 1 => \A m \in 1 .. Len(sending'[p]) : k < Old(m)
  <2> DEFINE old == sending[p]
             new == sending'[p]
  <2>1. /\ Len(old) \in Nat /\ k \in 1 .. Len(old) /\ Len(new) = Len(old) - 1
        /\ \A m \in 1 .. Len(old) - 1 : new[m] = old[Old(m)]
    BY <1>2, BusElements
  <2> HIDE DEF old, new
  <2>2. Len(new) \in Nat /\ k \in Nat /\ 1 .. Len(new) = 1 .. Len(old) - 1
    BY <2>1
  <2>3. \A m \in 1 .. Len(new) : Old(m) \in 1 .. Len(old) /\ Old(m) # k
    BY <2>1, <2>2
  <2>4. \A m, n \in 1 .. Len(new) : m < n => Old(m) < Old(n)
    BY <2>1, <2>2
  <2>5. k = 1 => \A m \in 1 .. Len(new) : k < Old(m)
    BY <2>1, <2>2
  <2> QED
    BY <2>1, <2>2, <2>3, <2>4, <2>5 DEF old, new
<1>4. \A j \in 1 .. Len(sending[p]) :
        j # k => \E m \in 1 .. Len(sending'[p]) : Old(m) = j
  <2> SUFFICES ASSUME NEW j \in 1 .. Len(sending[p]), j # k
               PROVE  \E m \in 1 .. Len(sending'[p]) : Old(m) = j
    OBVIOUS
  <2>1. CASE j < k
    <3>1. j \in 1 .. Len(sending'[p]) /\ Old(j) = j
      BY <2>1, <1>2, BusElements
    <3> QED
      BY <3>1
  <2>2. CASE k < j
    <3>1. j - 1 \in 1 .. Len(sending'[p]) /\ Old(j - 1) = j
      BY <2>2, <1>2, BusElements
    <3> QED
      BY <3>1
  <2> QED
    BY <2>1, <2>2
<1> HIDE DEF Old
<1>5. /\ \A j, l \in 1 .. Len(sending[p]) : j < l => sending[p][j] < sending[p][l]
      /\ \A j \in 1 .. Len(sending[p]) : sending[p][j] \in Nat
  BY BusElements DEF InOrder, Ids
<1>6. ASSUME NEW m \in 1 .. Len(sending'[p])
      PROVE  /\ \E l \in 1 .. Len(sending[p]) : sending'[p][m] = sending[p][l]
             /\ sending'[p][m] # id
             /\ p \in Instances => id < sending'[p][m]
             /\ \A n \in 1 .. Len(sending'[p]) : m < n => sending'[p][m] < sending'[p][n]
  <2>1. /\ Old(m) \in 1 .. Len(sending[p]) /\ Old(m) # k
        /\ sending'[p][m] = sending[p][Old(m)]
    BY <1>3
  <2>2. sending'[p][m] # id
    BY <2>1, <1>5
  <2>3. p \in Instances => id < sending'[p][m]
    BY <2>1, <1>3, <1>5
  <2>4. \A n \in 1 .. Len(sending'[p]) : m < n => sending'[p][m] < sending'[p][n]
    BY <1>3, <1>5
  <2> QED
    BY <2>1, <2>2, <2>3, <2>4
<1>7. ASSUME NEW q \in Processes, q # p, NEW m \in 1 .. Len(sending'[q])
      PROVE  /\ \E l \in 1 .. Len(sending[q]) : sending'[q][m] = sending[q][l]
             /\ sending'[q][m] # id
             /\ \A n \in 1 .. Len(sending'[q]) : m < n => sending'[q][m] < sending'[q][n]
  <2>1. sending'[q] = sending[q]
    BY <1>1, <1>7
  <2>2. sending[q][m] # id
    <3>1. Origin(log[sending[q][m]]) = q /\ Origin(log[sending[p][k]]) = p
      BY <2>1 DEF InOrder
    <3> QED
      BY <3>1, <1>7
  <2>3. \A n \in 1 .. Len(sending[q]) : m < n => sending[q][m] < sending[q][n]
    BY <2>1 DEF InOrder
  <2> QED
    BY <2>1, <2>2, <2>3
<1>8. Without(p, id)
  <2> SUFFICES ASSUME NEW q \in Processes, NEW m \in 1 .. Len(sending'[q])
               PROVE  /\ \E l \in 1 .. Len(sending[q]) : sending'[q][m] = sending[q][l]
                      /\ sending'[q][m] # id
                      /\ (q = p /\ p \in Instances) => id < sending'[q][m]
                      /\ \A n \in 1 .. Len(sending'[q]) :
                           m < n => sending'[q][m] < sending'[q][n]
    BY DEF Without
  <2>1. CASE q = p
    BY <2>1, <1>6
  <2>2. CASE q # p
    BY <2>2, <1>7
  <2> QED
    BY <2>1, <2>2
<1>9. ASSUME NEW x PROVE Pending(x)' <=> Pending(x) /\ x # id
  <2>1. ASSUME Pending(x)' PROVE Pending(x) /\ x # id
    <3>1. PICK q \in Processes : \E m \in 1 .. Len(sending'[q]) : sending'[q][m] = x
      BY <2>1 DEF Pending
    <3>2. PICK m \in 1 .. Len(sending'[q]) : sending'[q][m] = x
      BY <3>1
    <3>3. x # id /\ \E l \in 1 .. Len(sending[q]) : sending[q][l] = x
      BY <3>2, <1>8 DEF Without
    <3> QED
      BY <3>3 DEF Pending
  <2>2. ASSUME Pending(x), x # id PROVE Pending(x)'
    <3>1. PICK q \in Processes : \E m \in 1 .. Len(sending[q]) : sending[q][m] = x
      BY <2>2 DEF Pending
    <3>2. PICK m \in 1 .. Len(sending[q]) : sending[q][m] = x
      BY <3>1
    <3>3. CASE q # p
      BY <3>2, <3>3, <1>1 DEF Pending
    <3>4. CASE q = p
      <4>1. m \in 1 .. Len(sending[p]) /\ m # k
        BY <3>2, <3>4, <2>2
      <4>2. PICK l \in 1 .. Len(sending'[p]) : Old(l) = m
        BY <4>1, <1>4
      <4>3. sending'[p][l] = x
        BY <4>2, <3>2, <3>4, <1>3
      <4> QED
        BY <4>3 DEF Pending
    <3> QED
      BY <3>3, <3>4
  <2> QED
    BY <2>1, <2>2
<1> QED
  BY <1>8, <1>9

\* ... and published: it is at the end of the inbox of every instance that is
\* subscribed, or lost.
LEMMA Publishes ==
  ASSUME BusTyped, InOrder, NEW p \in Processes, NEW k \in 1 .. Len(sending[p]),
         p \in Instances => k = 1, NEW id, id = sending[p][k], TakenOut(p, k), log' = log, Publish(id, p)
  PROVE  /\ InOrder'
         /\ \A i \in Instances :
              /\ \A m \in 1 .. Len(inbox'[i]) :
                   \/ m \in 1 .. Len(inbox[i]) /\ inbox'[i][m] = inbox[i][m]
                   \/ m = Len(inbox[i]) + 1 /\ inbox'[i][m].id = id /\ inbox'[i][m].origin = p
              /\ \A x : Posted(x, i) => Posted(x, i)'
              /\ \A x : Posted(x, i)' => Posted(x, i) \/ x = id
         /\ id \in lost' \/ \A i \in Instances : i \in subscribed => Posted(id, i)'
         /\ lost \subseteq lost'
<1> DEFINE e == [id |-> id, origin |-> p]
<1>1. e.id = id /\ e.origin = p /\ id \in Ids /\ e \in [id : Ids, origin : Processes]
  BY BusElements
<1>2. /\ lost \subseteq lost'
      /\ \A i \in Instances : inbox'[i] = inbox[i] \/ inbox'[i] = Append(inbox[i], e)
      /\ id \in lost' \/ \A i \in Instances : i \in subscribed => inbox'[i] = Append(inbox[i], e)
  BY DEF Publish, BusTyped
<1> HIDE DEF e
<1>3. \A i \in Instances :
        /\ Append(inbox[i], e) \in Seq([id : Ids, origin : Processes])
        /\ Len(Append(inbox[i], e)) = Len(inbox[i]) + 1
        /\ \A m \in 1 .. Len(inbox[i]) : Append(inbox[i], e)[m] = inbox[i][m]
        /\ Append(inbox[i], e)[Len(inbox[i]) + 1] = e
  <2> SUFFICES ASSUME NEW i \in Instances
               PROVE  /\ Append(inbox[i], e) \in Seq([id : Ids, origin : Processes])
                      /\ Len(Append(inbox[i], e)) = Len(inbox[i]) + 1
                      /\ \A m \in 1 .. Len(inbox[i]) : Append(inbox[i], e)[m] = inbox[i][m]
                      /\ Append(inbox[i], e)[Len(inbox[i]) + 1] = e
    OBVIOUS
  <2>1. inbox[i] \in Seq([id : Ids, origin : Processes])
    BY BusElements
  <2> QED
    BY <1>1, <2>1, Appended
<1>4. ASSUME NEW i \in Instances
      PROVE  /\ \A m \in 1 .. Len(inbox[i]) : m \in 1 .. Len(inbox'[i]) /\ inbox'[i][m] = inbox[i][m]
             /\ \A m \in 1 .. Len(inbox'[i]) :
                  \/ m \in 1 .. Len(inbox[i]) /\ inbox'[i][m] = inbox[i][m]
                  \/ m = Len(inbox[i]) + 1 /\ inbox'[i][m] = e
  <2>1. CASE inbox'[i] = inbox[i]
    BY <2>1
  <2>2. CASE inbox'[i] = Append(inbox[i], e)
    <3>1. Len(inbox'[i]) = Len(inbox[i]) + 1 /\ Len(inbox[i]) \in Nat
      BY <2>2, <1>3, BusElements
    <3>2. \A m \in 1 .. Len(inbox'[i]) : m \in 1 .. Len(inbox[i]) \/ m = Len(inbox[i]) + 1
      BY <3>1
    <3> QED
      BY <3>1, <3>2, <2>2, <1>3
  <2> QED
    BY <2>1, <2>2, <1>2
<1>5. ASSUME NEW i \in Instances
      PROVE  /\ \A x : Posted(x, i) => Posted(x, i)'
             /\ \A x : Posted(x, i)' => Posted(x, i) \/ x = id
             /\ \A x : inbox'[i] = Append(inbox[i], e) /\ x = id => Posted(x, i)'
  <2>1. ASSUME NEW x, Posted(x, i) PROVE Posted(x, i)'
    BY <1>4, <2>1 DEF Posted
  <2>2. ASSUME NEW x, Posted(x, i)' PROVE Posted(x, i) \/ x = id
    BY <1>1, <1>4, <2>2 DEF Posted
  <2>3. ASSUME NEW x, x = id, inbox'[i] = Append(inbox[i], e) PROVE Posted(x, i)'
    <3>1. Len(inbox[i]) + 1 \in 1 .. Len(inbox'[i]) /\ inbox'[i][Len(inbox[i]) + 1] = e
      BY <2>3, <1>3, BusElements
    <3> QED
      BY <3>1, <2>3, <1>1 DEF Posted
  <2> QED
    BY <2>1, <2>2, <2>3
<1>6. InOrder'
  <2>1. \A q \in Processes : \A m \in 1 .. Len(sending'[q]) :
          /\ \E l \in 1 .. Len(sending[q]) : sending'[q][m] = sending[q][l]
          /\ sending'[q][m] # id
          /\ (q = p /\ p \in Instances) => id < sending'[q][m]
          /\ \A n \in 1 .. Len(sending'[q]) : m < n => sending'[q][m] < sending'[q][n]
    <3>1. Without(p, id)
      BY Takes, Zenon
    <3> QED
      BY <3>1 DEF Without
  <2>2. ASSUME NEW q \in Processes, NEW m \in 1 .. Len(sending'[q])
        PROVE  Origin(log'[sending'[q][m]]) = q
    <3>1. PICK l \in 1 .. Len(sending[q]) : sending'[q][m] = sending[q][l]
      BY <2>1
    <3>2. Origin(log[sending[q][l]]) = q
      BY DEF InOrder
    <3> QED
      BY <3>1, <3>2
  <2>3. ASSUME NEW i \in Instances, NEW m \in 1 .. Len(inbox'[i])
        PROVE  /\ inbox'[i][m].origin = Origin(log'[inbox'[i][m].id])
               /\ \A n \in 1 .. Len(inbox'[i]) : m < n =>
                    /\ inbox'[i][m].id # inbox'[i][n].id
                    /\ (inbox'[i][m].origin \in Instances /\ inbox'[i][n].origin = inbox'[i][m].origin)
                         => inbox'[i][m].id < inbox'[i][n].id
               /\ \A q \in Processes : \A n \in 1 .. Len(sending'[q]) :
                    /\ inbox'[i][m].id # sending'[q][n]
                    /\ (inbox'[i][m].origin = q /\ q \in Instances)
                         => inbox'[i][m].id < sending'[q][n]
    <3>1. Origin(log[id]) = p
      BY DEF InOrder
    <3>2. CASE m \in 1 .. Len(inbox[i]) /\ inbox'[i][m] = inbox[i][m]
      <4>1. inbox'[i][m].origin = Origin(log'[inbox'[i][m].id])
        BY <3>2 DEF InOrder
      <4>2. ASSUME NEW n \in 1 .. Len(inbox'[i]), m < n
            PROVE  /\ inbox'[i][m].id # inbox'[i][n].id
                   /\ (inbox'[i][m].origin \in Instances /\ inbox'[i][n].origin = inbox'[i][m].origin)
                        => inbox'[i][m].id < inbox'[i][n].id
        <5>1. CASE n \in 1 .. Len(inbox[i]) /\ inbox'[i][n] = inbox[i][n]
          BY <3>2, <4>2, <5>1 DEF InOrder
        <5>2. CASE inbox'[i][n] = e
          BY <3>2, <5>2, <1>1 DEF InOrder
        <5> QED
          BY <5>1, <5>2, <1>4
      <4>3. ASSUME NEW q \in Processes, NEW n \in 1 .. Len(sending'[q])
            PROVE  /\ inbox'[i][m].id # sending'[q][n]
                   /\ (inbox'[i][m].origin = q /\ q \in Instances)
                        => inbox'[i][m].id < sending'[q][n]
        <5>1. PICK l \in 1 .. Len(sending[q]) : sending'[q][n] = sending[q][l]
          BY <2>1
        <5> QED
          BY <5>1, <3>2 DEF InOrder
      <4> QED
        BY <4>1, <4>2, <4>3
    <3>3. CASE m = Len(inbox[i]) + 1 /\ inbox'[i][m] = e
      <4>1. ASSUME NEW n \in 1 .. Len(inbox'[i]) PROVE ~(m < n)
        BY <3>3, <1>4, BusElements
      <4> QED
        BY <4>1, <3>1, <3>3, <1>1, <2>1
    <3> QED
      BY <3>2, <3>3, <1>4
  <2> QED
    BY <2>1, <2>2, <2>3 DEF InOrder
<1>7. \A i \in Instances : \A m \in 1 .. Len(inbox'[i]) :
        \/ m \in 1 .. Len(inbox[i]) /\ inbox'[i][m] = inbox[i][m]
        \/ m = Len(inbox[i]) + 1 /\ inbox'[i][m].id = id /\ inbox'[i][m].origin = p
  BY <1>1, <1>4
<1>8. id \in lost' \/ \A i \in Instances : i \in subscribed => Posted(id, i)'
  BY <1>2, <1>5
<1> QED
  BY <1>2, <1>5, <1>6, <1>7, <1>8

\* The oldest message of an inbox is delivered: the entry comes by no other way.
Delivered(i) == inbox' = [inbox EXCEPT ![i] = Tail(@)]

LEMMA Delivers ==
  ASSUME BusTyped, InOrder, NEW i \in Instances, inbox[i] # <<>>, Delivered(i),
         sending' = sending, log' = log, NEW id, id = Head(inbox[i]).id
  PROVE  /\ InOrder'
         /\ id \in Ids /\ Head(inbox[i]).origin = Origin(log[id]) /\ ~Pending(id) /\ Posted(id, i)
         /\ 1 \in 1 .. Len(inbox[i]) /\ Head(inbox[i]) = inbox[i][1]
         /\ \A j \in Instances :
              /\ \A k \in 1 .. Len(inbox'[j]) :
                   /\ \E l \in 1 .. Len(inbox[j]) : inbox'[j][k] = inbox[j][l]
                   /\ (j = i /\ Origin(log[id]) \in Instances /\ inbox'[j][k].origin = Origin(log[id]))
                        => id < inbox'[j][k].id
              /\ \A x : Posted(x, j)' => Posted(x, j) /\ (j # i \/ x # id)
              /\ \A x : Posted(x, j) => Posted(x, j)' \/ (j = i /\ x = id)
<1>1. /\ 1 \in 1 .. Len(inbox[i]) /\ Head(inbox[i]) = inbox[i][1]
      /\ Len(inbox'[i]) = Len(inbox[i]) - 1
      /\ \A k \in 1 .. Len(inbox'[i]) : /\ k + 1 \in 1 .. Len(inbox[i]) /\ 1 < k + 1
                                        /\ inbox'[i][k] = inbox[i][k + 1]
  <2>1. inbox[i] \in Seq([id : Ids, origin : Processes]) /\ inbox'[i] = Tail(inbox[i])
    BY BusElements DEF Delivered, BusTyped
  <2> QED
    BY <2>1, Headed
<1>2. \A j \in Instances : j # i => inbox'[j] = inbox[j]
  BY DEF Delivered, BusTyped
<1>3. /\ id \in Ids /\ Head(inbox[i]).origin = Origin(log[id]) /\ Posted(id, i)
      /\ ~Pending(id)
  BY <1>1, BusElements DEF InOrder, Posted, Pending
<1>4. ASSUME NEW j \in Instances, NEW k \in 1 .. Len(inbox'[j])
      PROVE  /\ \E l \in 1 .. Len(inbox[j]) : inbox'[j][k] = inbox[j][l]
             /\ j = i => inbox'[j][k].id # id
             /\ (j = i /\ Origin(log[id]) \in Instances /\ inbox'[j][k].origin = Origin(log[id]))
                  => id < inbox'[j][k].id
             /\ \A m \in 1 .. Len(inbox'[j]) : k < m =>
                  /\ inbox'[j][k].id # inbox'[j][m].id
                  /\ (inbox'[j][k].origin \in Instances /\ inbox'[j][m].origin = inbox'[j][k].origin)
                       => inbox'[j][k].id < inbox'[j][m].id
  <2>1. CASE j # i
    <3>1. inbox'[j] = inbox[j]
      BY <1>2, <2>1
    <3> QED
      BY <2>1, <3>1 DEF InOrder
  <2>2. CASE j = i
    <3>1. /\ k + 1 \in 1 .. Len(inbox[i]) /\ 1 < k + 1 /\ inbox'[i][k] = inbox[i][k + 1]
      BY <1>1, <2>2
    <3>2. /\ inbox[i][1].id # inbox[i][k + 1].id
          /\ (inbox[i][1].origin \in Instances /\ inbox[i][k + 1].origin = inbox[i][1].origin)
               => inbox[i][1].id < inbox[i][k + 1].id
      BY <1>1, <3>1 DEF InOrder
    <3>3. ASSUME NEW m \in 1 .. Len(inbox'[i]), k < m
          PROVE  /\ inbox'[i][k].id # inbox'[i][m].id
                 /\ (inbox'[i][k].origin \in Instances /\ inbox'[i][m].origin = inbox'[i][k].origin)
                      => inbox'[i][k].id < inbox'[i][m].id
      <4>1. m + 1 \in 1 .. Len(inbox[i]) /\ k + 1 < m + 1 /\ inbox'[i][m] = inbox[i][m + 1]
        BY <1>1, <3>1, <3>3
      <4> QED
        BY <3>1, <4>1 DEF InOrder
    <3> QED
      BY <2>2, <1>1, <1>3, <3>1, <3>2, <3>3
  <2> QED
    BY <2>1, <2>2
<1>5. ASSUME NEW j \in Instances, NEW x
      PROVE  /\ Posted(x, j)' => Posted(x, j) /\ (j # i \/ x # id)
             /\ Posted(x, j) => Posted(x, j)' \/ (j = i /\ x = id)
  <2>1. ASSUME Posted(x, j)' PROVE Posted(x, j) /\ (j # i \/ x # id)
    BY <2>1, <1>4 DEF Posted
  <2>2. ASSUME Posted(x, j) PROVE Posted(x, j)' \/ (j = i /\ x = id)
    <3>1. PICK k \in 1 .. Len(inbox[j]) : inbox[j][k].id = x
      BY <2>2 DEF Posted
    <3>2. CASE j # i
      BY <3>1, <3>2, <1>2 DEF Posted
    <3>3. CASE j = i /\ k = 1
      BY <3>1, <3>3, <1>1
    <3>4. CASE j = i /\ k # 1
      <4>1. k - 1 \in 1 .. Len(inbox'[i]) /\ k - 1 + 1 = k
        BY <3>4, <1>1, BusElements
      <4>2. inbox'[i][k - 1] = inbox[i][k]
        BY <4>1, <1>1
      <4> QED
        BY <4>1, <4>2, <3>1, <3>4 DEF Posted
    <3> QED
      BY <3>2, <3>3, <3>4
  <2> QED
    BY <2>1, <2>2
<1>6. InOrder'
  <2>1. ASSUME NEW j \in Instances, NEW k \in 1 .. Len(inbox'[j])
        PROVE  /\ inbox'[j][k].origin = Origin(log[inbox'[j][k].id])
               /\ \A p \in Processes : \A m \in 1 .. Len(sending[p]) :
                    /\ inbox'[j][k].id # sending[p][m]
                    /\ (inbox'[j][k].origin = p /\ p \in Instances)
                         => inbox'[j][k].id < sending[p][m]
    <3>1. PICK l \in 1 .. Len(inbox[j]) : inbox'[j][k] = inbox[j][l]
      BY <1>4
    <3> QED
      BY <3>1 DEF InOrder
  <2> QED
    BY <1>4, <2>1 DEF InOrder
<1> QED
  BY <1>1, <1>3, <1>4, <1>5, <1>6

\* A ws process dies with its queue and its inbox.
LEMMA Dies ==
  ASSUME BusTyped, InOrder, NEW i \in Instances, log' = log,
         sending' = [sending EXCEPT ![i] = <<>>], inbox' = [inbox EXCEPT ![i] = <<>>],
         lost' = lost \cup {sending[i][k] : k \in 1 .. Len(sending[i])}
  PROVE  /\ InOrder'
         /\ \A x : Pending(x)' => Pending(x)
         /\ \A x : Pending(x) => Pending(x)' \/ x \in lost'
         /\ \A j \in Instances : \A x : Posted(x, j)' <=> Posted(x, j) /\ j # i
         /\ \A p \in Processes : sending'[p] = IF p = i THEN <<>> ELSE sending[p]
         /\ \A j \in Instances : inbox'[j] = IF j = i THEN <<>> ELSE inbox[j]
<1>1. /\ \A p \in Processes : sending'[p] = IF p = i THEN <<>> ELSE sending[p]
      /\ \A j \in Instances : inbox'[j] = IF j = i THEN <<>> ELSE inbox[j]
  BY DEF BusTyped
<1>2. \A p \in Processes : \A m \in 1 .. Len(sending'[p]) : p # i /\ sending'[p] = sending[p]
  BY <1>1
<1>3. \A j \in Instances : \A m \in 1 .. Len(inbox'[j]) : j # i /\ inbox'[j] = inbox[j]
  BY <1>1
<1>4. InOrder'
  BY <1>2, <1>3 DEF InOrder
<1>5. \A x : Pending(x)' => Pending(x)
  BY <1>2 DEF Pending
<1>6. ASSUME NEW x, Pending(x) PROVE Pending(x)' \/ x \in lost'
  <2>1. PICK p \in Processes : \E m \in 1 .. Len(sending[p]) : sending[p][m] = x
    BY <1>6 DEF Pending
  <2>2. CASE p = i
    BY <2>1, <2>2
  <2>3. CASE p # i
    BY <2>1, <2>3, <1>1 DEF Pending
  <2> QED
    BY <2>2, <2>3
<1>7. ASSUME NEW j \in Instances, NEW x PROVE Posted(x, j)' <=> Posted(x, j) /\ j # i
  BY <1>1, <1>3 DEF Posted
<1> QED
  BY <1>1, <1>4, <1>5, <1>6, <1>7

-----------------------------------------------------------------------------
(* What the sockets are sent.                                              *)

FramesTyped ==
  /\ down \in [Sockets -> Seq(Frame)]
  /\ heard \in [Sockets -> [1 .. MaxEntries -> Nat]]

Wired == BusTyped /\ FramesTyped /\ InOrder /\ FramesInOrder /\ Once /\ InRoom

LEMMA FrameElements ==
  ASSUME FramesTyped, NEW s \in Sockets
  PROVE  /\ down[s] \in Seq(Frame) /\ Len(down[s]) \in Nat
         /\ \A k \in 1 .. Len(down[s]) :
              /\ down[s][k] \in Frame /\ down[s][k].id \in 0 .. MaxEntries
              /\ down[s][k].live \in Processes \cup {"replay"}
         /\ heard[s] \in [1 .. MaxEntries -> Nat]
         /\ \A id \in 1 .. MaxEntries : heard[s][id] \in Nat
<1>1. down[s] \in Seq(Frame) /\ heard[s] \in [1 .. MaxEntries -> Nat]
  BY DEF FramesTyped
<1>2. Len(down[s]) \in Nat /\ \A k \in 1 .. Len(down[s]) : down[s][k] \in Frame
  BY <1>1, Elements
<1> QED
  BY <1>1, <1>2 DEF Frame

LEMMA InRange ==
  ASSUME BusTyped
  PROVE  MaxEntries \in Nat /\ Ids \subseteq 1 .. MaxEntries /\ Ids \subseteq Nat
  BY RelayAssumption, BusElements DEF BusTyped, Ids

\* A broadcast reaches the open ones of the sockets it is for.
Reached(to, id, origin, s) ==
  /\ \A x \in 1 .. MaxEntries :
       heard'[s][x] = IF s \in to /\ sockets[s].open /\ x = id THEN heard[s][x] + 1 ELSE heard[s][x]
  /\ \A k \in 1 .. Len(down'[s]) :
       \/ k \in 1 .. Len(down[s]) /\ down'[s][k] = down[s][k]
       \/ /\ s \in to /\ sockets[s].open /\ k = Len(down[s]) + 1
          /\ down'[s][k] = [t |-> "entry", id |-> id, live |-> origin]
          /\ down'[s][k].id = id /\ down'[s][k].live = origin
  /\ heard'[s] \in [1 .. MaxEntries -> Nat]
  /\ down'[s] \in Seq(Frame)

LEMMA Broadcasts ==
  ASSUME BusTyped, FramesTyped, NEW to, NEW id \in Ids, NEW origin \in Processes,
         Broadcast(to, id, origin), NEW s \in Sockets
  PROVE  Reached(to, id, origin, s)
<1> DEFINE f == [t |-> "entry", id |-> id, live |-> origin]
<1>1. f \in Frame /\ f.id = id /\ f.live = origin
  BY InRange DEF Frame
<1>2. /\ down'[s] = IF s \in to /\ sockets[s].open THEN Append(down[s], f) ELSE down[s]
      /\ heard'[s] = IF s \in to /\ sockets[s].open THEN [heard[s] EXCEPT ![id] = @ + 1] ELSE heard[s]
  BY DEF Broadcast
<1> HIDE DEF f
<1>3. /\ Append(down[s], f) \in Seq(Frame) /\ Len(Append(down[s], f)) = Len(down[s]) + 1
      /\ \A k \in 1 .. Len(down[s]) : Append(down[s], f)[k] = down[s][k]
      /\ Append(down[s], f)[Len(down[s]) + 1] = f
  <2>1. down[s] \in Seq(Frame)
    BY FrameElements
  <2> QED
    BY <1>1, <2>1, Appended
<1>4. CASE s \in to /\ sockets[s].open
  <2>1. down'[s] = Append(down[s], f) /\ heard'[s] = [heard[s] EXCEPT ![id] = @ + 1]
    BY <1>2, <1>4
  <2>2. /\ \A x \in 1 .. MaxEntries :
             heard'[s][x] = IF x = id THEN heard[s][x] + 1 ELSE heard[s][x]
        /\ heard'[s] \in [1 .. MaxEntries -> Nat]
    BY <2>1, FrameElements, InRange
  <2>3. \A k \in 1 .. Len(down'[s]) : k \in 1 .. Len(down[s]) \/ k = Len(down[s]) + 1
    BY <2>1, <1>3, FrameElements
  <2>4. \A k \in 1 .. Len(down'[s]) : \/ k \in 1 .. Len(down[s]) /\ down'[s][k] = down[s][k]
                                      \/ k = Len(down[s]) + 1 /\ down'[s][k] = f
    BY <2>1, <2>3, <1>3
  <2>5. \A k \in 1 .. Len(down'[s]) :
          \/ k \in 1 .. Len(down[s]) /\ down'[s][k] = down[s][k]
          \/ /\ k = Len(down[s]) + 1 /\ down'[s][k] = [t |-> "entry", id |-> id, live |-> origin]
             /\ down'[s][k].id = id /\ down'[s][k].live = origin
    BY <2>4, <1>1 DEF f
  <2> QED
    BY <2>1, <2>2, <2>5, <1>3, <1>4 DEF Reached
<1>5. CASE ~(s \in to /\ sockets[s].open)
  <2>1. down'[s] = down[s] /\ heard'[s] = heard[s]
    BY <1>2, <1>5
  <2> QED
    BY <2>1, <1>5, FrameElements DEF Reached
<1> QED
  BY <1>4, <1>5

\* The broadcast of an entry by its process: the step of Fanout and ApiPublish.
Fanned(p, k, id, to) ==
  /\ p \in Processes /\ k \in 1 .. Len(sending[p]) /\ (p \in Instances => k = 1)
  /\ id = sending[p][k] /\ TakenOut(p, k) /\ Publish(id, p)
  /\ Broadcast(to, id, p) /\ \A s \in to : At(s) = p /\ log[id] # s

LEMMA FansOut ==
  ASSUME Wired, log' = log, NEW p, NEW k, NEW id, NEW to, Fanned(p, k, id, to)
  PROVE  InOrder' /\ FramesInOrder' /\ Once'
<1> SUFFICES ASSUME p \in Processes, k \in 1 .. Len(sending[p]), p \in Instances => k = 1,
                    id = sending[p][k], TakenOut(p, k), Publish(id, p),
                    \A s \in to : At(s) = p /\ log[id] # s, Broadcast(to, id, p)
             PROVE  InOrder' /\ FramesInOrder' /\ Once'
  BY DEF Fanned
<1>1. /\ BusTyped /\ FramesTyped /\ InOrder /\ FramesInOrder /\ Once
      /\ id \in Ids /\ Origin(log[id]) = p /\ Pending(id)
  BY BusElements DEF Wired, InOrder, Pending
<1>2. /\ InOrder'
      /\ \A i \in Instances :
           /\ \A m \in 1 .. Len(inbox'[i]) :
                \/ m \in 1 .. Len(inbox[i]) /\ inbox'[i][m] = inbox[i][m]
                \/ m = Len(inbox[i]) + 1 /\ inbox'[i][m].id = id /\ inbox'[i][m].origin = p
           /\ \A x : Posted(x, i)' => Posted(x, i) \/ x = id
  BY <1>1, Publishes
<1>3. (\A x : Pending(x)' <=> Pending(x) /\ x # id) /\ Without(p, id)
  BY <1>1, Takes
<1>4. ASSUME NEW s \in Sockets
      PROVE  /\ \A x \in 1 .. MaxEntries :
                  heard'[s][x] = IF s \in to /\ sockets[s].open /\ x = id
                                 THEN heard[s][x] + 1 ELSE heard[s][x]
             /\ \A m \in 1 .. Len(down'[s]) :
                  \/ m \in 1 .. Len(down[s]) /\ down'[s][m] = down[s][m]
                  \/ /\ s \in to /\ m = Len(down[s]) + 1
                     /\ down'[s][m].id = id /\ down'[s][m].live = p
  <2>1. Reached(to, id, p, s)
    BY <1>1, Broadcasts
  <2> QED
    BY <2>1 DEF Reached
<1>5. FramesInOrder'
  <2> SUFFICES ASSUME NEW s \in Sockets, NEW m \in 1 .. Len(down'[s]), down'[s][m].live \in Instances
               PROVE  /\ down'[s][m].id <= Len(log)
                      /\ \A n \in 1 .. Len(down'[s]) :
                           m < n /\ down'[s][n].live = down'[s][m].live
                             => down'[s][m].id < down'[s][n].id
                      /\ \A n \in 1 .. Len(inbox'[At(s)]) :
                           (At(s) # inbox'[At(s)][n].origin
                              /\ inbox'[At(s)][n].origin = down'[s][m].live)
                             => down'[s][m].id < inbox'[At(s)][n].id
                      /\ \A n \in 1 .. Len(sending'[down'[s][m].live]) :
                           down'[s][m].id < sending'[down'[s][m].live][n]
    BY DEF FramesInOrder
  <2>1. At(s) \in Instances
    BY Named
  <2>2. CASE m \in 1 .. Len(down[s]) /\ down'[s][m] = down[s][m]
    <3>1. /\ down[s][m].id <= Len(log)
          /\ \A n \in 1 .. Len(down[s]) : m < n /\ down[s][n].live = down[s][m].live
                                            => down[s][m].id < down[s][n].id
          /\ \A n \in 1 .. Len(inbox[At(s)]) :
               (At(s) # inbox[At(s)][n].origin /\ inbox[At(s)][n].origin = down[s][m].live)
                 => down[s][m].id < inbox[At(s)][n].id
          /\ \A n \in 1 .. Len(sending[down[s][m].live]) :
               down[s][m].id < sending[down[s][m].live][n]
      BY <1>1, <2>2 DEF FramesInOrder
    <3>2. down[s][m].live = p => down[s][m].id < id
      BY <3>1, <2>2
    <3>3. ASSUME NEW n \in 1 .. Len(down'[s]), m < n, down'[s][n].live = down'[s][m].live
          PROVE  down'[s][m].id < down'[s][n].id
      <4>1. CASE n \in 1 .. Len(down[s]) /\ down'[s][n] = down[s][n]
        BY <2>2, <3>1, <3>3, <4>1
      <4>2. CASE down'[s][n].id = id /\ down'[s][n].live = p
        BY <2>2, <3>2, <3>3, <4>2
      <4> QED
        BY <4>1, <4>2, <1>4
    <3>4. ASSUME NEW n \in 1 .. Len(inbox'[At(s)]), At(s) # inbox'[At(s)][n].origin,
                 inbox'[At(s)][n].origin = down'[s][m].live
          PROVE  down'[s][m].id < inbox'[At(s)][n].id
      <4>1. CASE n \in 1 .. Len(inbox[At(s)]) /\ inbox'[At(s)][n] = inbox[At(s)][n]
        BY <2>2, <3>1, <3>4, <4>1
      <4>2. CASE inbox'[At(s)][n].id = id /\ inbox'[At(s)][n].origin = p
        BY <2>2, <3>2, <3>4, <4>2
      <4> QED
        BY <4>1, <4>2, <1>2, <2>1
    <3>5. ASSUME NEW n \in 1 .. Len(sending'[down[s][m].live])
          PROVE  down[s][m].id < sending'[down[s][m].live][n]
      <4>1. down[s][m].live \in Processes
        BY <2>2, Named
      <4>2. PICK l \in 1 .. Len(sending[down[s][m].live]) :
              sending'[down[s][m].live][n] = sending[down[s][m].live][l]
        BY <4>1, <1>3 DEF Without
      <4> QED
        BY <4>2, <3>1
    <3> QED
      BY <2>2, <3>1, <3>3, <3>4, <3>5
  <2>3. CASE s \in to /\ m = Len(down[s]) + 1 /\ down'[s][m].id = id /\ down'[s][m].live = p
    <3>1. id <= Len(log) /\ At(s) = p
      BY <1>1, <2>3 DEF Ids
    <3>2. ASSUME NEW n \in 1 .. Len(down'[s]) PROVE ~(m < n)
      <4>1. n \in 1 .. Len(down[s]) \/ n = Len(down[s]) + 1
        BY <1>4
      <4> QED
        BY <4>1, <2>3, <1>1, FrameElements
    <3>3. \A n \in 1 .. Len(sending'[p]) : id < sending'[p][n]
      BY <1>3, <2>3 DEF Without
    <3> QED
      BY <2>3, <3>1, <3>2, <3>3
  <2> QED
    BY <2>2, <2>3, <1>4
<1>6. Once'
  <2> SUFFICES ASSUME NEW s \in Sockets, NEW x \in 1 .. MaxEntries
               PROVE  /\ heard'[s][x] \in {0, 1}
                      /\ heard'[s][x] = 1 =>
                           /\ x \in Ids' /\ log'[x] # s /\ ~Pending(x)'
                           /\ Origin(log'[x]) # At(s) => ~Posted(x, At(s))'
    BY DEF Once
  <2>1. /\ heard[s][x] \in {0, 1}
        /\ heard[s][x] = 1 => /\ x \in Ids /\ log[x] # s /\ ~Pending(x)
                              /\ Origin(log[x]) # At(s) => ~Posted(x, At(s))
    BY <1>1 DEF Once
  <2>2. Ids' = Ids
    BY DEF Ids
  <2>3. /\ Pending(x)' <=> Pending(x) /\ x # id
        /\ Posted(x, At(s))' => Posted(x, At(s)) \/ x = id
    BY <1>2, <1>3, Named
  <2>4. CASE s \in to /\ x = id
    <3>1. heard[s][x] = 0 /\ log[x] # s /\ Origin(log[x]) = At(s) /\ heard'[s][x] \in {0, 1}
      BY <1>1, <1>4, <2>1, <2>4
    <3> QED
      BY <1>1, <2>2, <2>3, <2>4, <3>1
  <2>5. CASE ~(s \in to /\ x = id)
    <3>1. heard'[s][x] = heard[s][x]
      BY <1>4, <2>5
    <3> QED
      BY <1>1, <2>1, <2>2, <2>3, <3>1
  <2> QED
    BY <2>4, <2>5
<1> QED
  BY <1>2, <1>5, <1>6

\* The step of Deliver. The frames of the instance itself are skipped: `to` is
\* then empty.
LEMMA Arrives ==
  ASSUME Wired, NEW i \in Instances, inbox[i] # <<>>, Delivered(i), sending' = sending, log' = log,
         NEW id, id = Head(inbox[i]).id, NEW origin, origin = Head(inbox[i]).origin,
         NEW to, \A s \in to : At(s) = i /\ origin # i, Broadcast(to, id, origin)
  PROVE  InOrder' /\ FramesInOrder' /\ Once'
<1>1. /\ BusTyped /\ FramesTyped /\ InOrder /\ FramesInOrder /\ Once
      /\ id \in Ids /\ Origin(log[id]) = origin /\ origin \in Processes
      /\ ~Pending(id) /\ Posted(id, i)
      /\ 1 \in 1 .. Len(inbox[i]) /\ Head(inbox[i]) = inbox[i][1]
  BY Delivers, BusElements DEF Wired
<1>2. /\ InOrder'
      /\ \A j \in Instances :
           /\ \A k \in 1 .. Len(inbox'[j]) :
                /\ \E l \in 1 .. Len(inbox[j]) : inbox'[j][k] = inbox[j][l]
                /\ (j = i /\ Origin(log[id]) \in Instances /\ inbox'[j][k].origin = Origin(log[id]))
                     => id < inbox'[j][k].id
           /\ \A x : Posted(x, j)' => Posted(x, j) /\ (j # i \/ x # id)
  BY <1>1, Delivers
<1>3. ASSUME NEW s \in Sockets
      PROVE  /\ \A x \in 1 .. MaxEntries :
                  heard'[s][x] = IF s \in to /\ sockets[s].open /\ x = id
                                 THEN heard[s][x] + 1 ELSE heard[s][x]
             /\ \A m \in 1 .. Len(down'[s]) :
                  \/ m \in 1 .. Len(down[s]) /\ down'[s][m] = down[s][m]
                  \/ /\ s \in to /\ m = Len(down[s]) + 1
                     /\ down'[s][m].id = id /\ down'[s][m].live = origin
  <2>1. Reached(to, id, origin, s)
    BY <1>1, Broadcasts
  <2> QED
    BY <2>1 DEF Reached
<1>4. FramesInOrder'
  <2> SUFFICES ASSUME NEW s \in Sockets, NEW m \in 1 .. Len(down'[s]), down'[s][m].live \in Instances
               PROVE  /\ down'[s][m].id <= Len(log)
                      /\ \A n \in 1 .. Len(down'[s]) :
                           m < n /\ down'[s][n].live = down'[s][m].live
                             => down'[s][m].id < down'[s][n].id
                      /\ \A n \in 1 .. Len(inbox'[At(s)]) :
                           (At(s) # inbox'[At(s)][n].origin
                              /\ inbox'[At(s)][n].origin = down'[s][m].live)
                             => down'[s][m].id < inbox'[At(s)][n].id
                      /\ \A n \in 1 .. Len(sending[down'[s][m].live]) :
                           down'[s][m].id < sending[down'[s][m].live][n]
    BY DEF FramesInOrder
  <2>1. At(s) \in Instances
    BY Named
  <2>2. CASE m \in 1 .. Len(down[s]) /\ down'[s][m] = down[s][m]
    <3>1. /\ down[s][m].id <= Len(log)
          /\ \A n \in 1 .. Len(down[s]) : m < n /\ down[s][n].live = down[s][m].live
                                            => down[s][m].id < down[s][n].id
          /\ \A n \in 1 .. Len(inbox[At(s)]) :
               (At(s) # inbox[At(s)][n].origin /\ inbox[At(s)][n].origin = down[s][m].live)
                 => down[s][m].id < inbox[At(s)][n].id
          /\ \A n \in 1 .. Len(sending[down[s][m].live]) :
               down[s][m].id < sending[down[s][m].live][n]
      BY <1>1, <2>2 DEF FramesInOrder
    <3>2. ASSUME NEW n \in 1 .. Len(down'[s]), m < n, down'[s][n].live = down'[s][m].live
          PROVE  down'[s][m].id < down'[s][n].id
      <4>1. CASE n \in 1 .. Len(down[s]) /\ down'[s][n] = down[s][n]
        BY <2>2, <3>1, <3>2, <4>1
      <4>2. CASE s \in to /\ down'[s][n].id = id /\ down'[s][n].live = origin
        BY <1>1, <2>2, <3>1, <3>2, <4>2
      <4> QED
        BY <4>1, <4>2, <1>3
    <3>3. ASSUME NEW n \in 1 .. Len(inbox'[At(s)]), At(s) # inbox'[At(s)][n].origin,
                 inbox'[At(s)][n].origin = down'[s][m].live
          PROVE  down'[s][m].id < inbox'[At(s)][n].id
      <4>1. PICK l \in 1 .. Len(inbox[At(s)]) : inbox'[At(s)][n] = inbox[At(s)][l]
        BY <1>2, <2>1
      <4> QED
        BY <2>2, <3>1, <3>3, <4>1
    <3> QED
      BY <2>2, <3>1, <3>2, <3>3
  <2>3. CASE s \in to /\ m = Len(down[s]) + 1 /\ down'[s][m].id = id /\ down'[s][m].live = origin
    <3>1. id <= Len(log) /\ At(s) = i
      BY <1>1, <2>3 DEF Ids
    <3>2. ASSUME NEW n \in 1 .. Len(down'[s]) PROVE ~(m < n)
      <4>1. n \in 1 .. Len(down[s]) \/ n = Len(down[s]) + 1
        BY <1>3
      <4> QED
        BY <4>1, <2>3, <1>1, FrameElements
    <3>3. \A n \in 1 .. Len(sending[origin]) : id < sending[origin][n]
      BY <1>1, <2>3 DEF InOrder
    <3> QED
      BY <1>1, <1>2, <2>3, <3>1, <3>2, <3>3
  <2> QED
    BY <2>2, <2>3, <1>3
<1>5. Once'
  <2> SUFFICES ASSUME NEW s \in Sockets, NEW x \in 1 .. MaxEntries
               PROVE  /\ heard'[s][x] \in {0, 1}
                      /\ heard'[s][x] = 1 =>
                           /\ x \in Ids' /\ log'[x] # s /\ ~Pending(x)'
                           /\ Origin(log'[x]) # At(s) => ~Posted(x, At(s))'
    BY DEF Once
  <2>1. /\ heard[s][x] \in {0, 1}
        /\ heard[s][x] = 1 => /\ x \in Ids /\ log[x] # s /\ ~Pending(x)
                              /\ Origin(log[x]) # At(s) => ~Posted(x, At(s))
    BY <1>1 DEF Once
  <2>2. Ids' = Ids /\ (Pending(x)' <=> Pending(x))
    BY DEF Ids, Pending
  <2>3. Posted(x, At(s))' => Posted(x, At(s)) /\ (At(s) # i \/ x # id)
    BY <1>2, Named
  <2>4. CASE s \in to /\ x = id
    <3>1. At(s) = i /\ Origin(log[x]) # At(s)
      BY <1>1, <2>4
    <3>2. heard[s][x] = 0 /\ log[x] # s /\ heard'[s][x] \in {0, 1}
      <4>1. heard[s][x] = 0
        BY <1>1, <2>1, <2>4, <3>1
      <4>2. log[x] # s
        BY <3>1, Named DEF Origin
      <4> QED
        BY <4>1, <4>2, <1>3
    <3> QED
      BY <1>1, <2>2, <2>3, <2>4, <3>1, <3>2
  <2>5. CASE ~(s \in to /\ x = id)
    <3>1. heard'[s][x] = heard[s][x]
      BY <1>3, <2>5
    <3> QED
      BY <1>1, <2>1, <2>2, <2>3, <3>1
  <2> QED
    BY <2>4, <2>5
<1> QED
  BY <1>2, <1>4, <1>5

\* The step of XADD.
LEMMA Enters ==
  ASSUME Wired, NEW by \in Sockets \cup {Api}, NEW p \in Processes, p = Origin(by), XAdd(by, p),
         inbox' = inbox, down' = down, heard' = heard
  PROVE  InOrder' /\ FramesInOrder' /\ Once'
<1>1. BusTyped /\ FramesTyped /\ InOrder /\ FramesInOrder /\ Once
  BY DEF Wired
<1>2. /\ InOrder' /\ Len(log') = Len(log) + 1
      /\ \A id : Pending(id)' <=> Pending(id) \/ id = Len(log) + 1
      /\ \A q \in Processes : \A k \in 1 .. Len(sending'[q]) :
           (k \in 1 .. Len(sending[q]) /\ sending'[q][k] = sending[q][k])
             \/ sending'[q][k] = Len(log) + 1
  BY <1>1, Adds
<1>3. Ids \subseteq Ids' /\ \A id \in Ids : log'[id] = log[id] /\ id # Len(log) + 1
  <2>1. log' = Append(log, by)
    BY DEF XAdd
  <2>2. \A id \in Ids : id # Len(log) + 1
    BY <1>1, BusElements DEF Ids
  <2> QED
    BY <1>1, <2>1, <2>2, EntriesStay
<1>4. FramesInOrder'
  <2> SUFFICES ASSUME NEW s \in Sockets, NEW m \in 1 .. Len(down[s]), down[s][m].live \in Instances
               PROVE  /\ down[s][m].id <= Len(log')
                      /\ \A n \in 1 .. Len(down[s]) : m < n /\ down[s][n].live = down[s][m].live
                             => down[s][m].id < down[s][n].id
                      /\ \A n \in 1 .. Len(inbox[At(s)]) :
                           (At(s) # inbox[At(s)][n].origin
                              /\ inbox[At(s)][n].origin = down[s][m].live)
                             => down[s][m].id < inbox[At(s)][n].id
                      /\ \A n \in 1 .. Len(sending'[down[s][m].live]) :
                           down[s][m].id < sending'[down[s][m].live][n]
    BY DEF FramesInOrder
  <2>1. /\ down[s][m].id <= Len(log)
        /\ \A n \in 1 .. Len(down[s]) : m < n /\ down[s][n].live = down[s][m].live
                                          => down[s][m].id < down[s][n].id
        /\ \A n \in 1 .. Len(inbox[At(s)]) :
             (At(s) # inbox[At(s)][n].origin /\ inbox[At(s)][n].origin = down[s][m].live)
               => down[s][m].id < inbox[At(s)][n].id
        /\ \A n \in 1 .. Len(sending[down[s][m].live]) :
             down[s][m].id < sending[down[s][m].live][n]
    BY <1>1 DEF FramesInOrder
  <2>2. down[s][m].id \in Nat /\ down[s][m].live \in Processes /\ Len(log) \in Nat
    BY <1>1, FrameElements, BusElements, InRange, Named
  <2>3. down[s][m].id <= Len(log) + 1 /\ down[s][m].id < Len(log) + 1
    BY <2>1, <2>2
  <2>4. \A n \in 1 .. Len(sending'[down[s][m].live]) :
          down[s][m].id < sending'[down[s][m].live][n]
    BY <1>2, <2>1, <2>2, <2>3
  <2> QED
    BY <1>2, <2>1, <2>3, <2>4
<1>5. Once'
  <2> SUFFICES ASSUME NEW s \in Sockets, NEW x \in 1 .. MaxEntries
               PROVE  /\ heard[s][x] \in {0, 1}
                      /\ heard[s][x] = 1 =>
                           /\ x \in Ids' /\ log'[x] # s /\ ~Pending(x)'
                           /\ Origin(log'[x]) # At(s) => ~Posted(x, At(s))'
    BY DEF Once
  <2>1. /\ heard[s][x] \in {0, 1}
        /\ heard[s][x] = 1 => /\ x \in Ids /\ log[x] # s /\ ~Pending(x)
                              /\ Origin(log[x]) # At(s) => ~Posted(x, At(s))
    BY <1>1 DEF Once
  <2>2. Posted(x, At(s))' <=> Posted(x, At(s))
    BY DEF Posted
  <2> QED
    BY <1>2, <1>3, <2>1, <2>2
<1> QED
  BY <1>2, <1>4, <1>5

\* The frames from a broadcast on their way to a socket are some that were, in
\* their order: the others were read, are gone, or come from the stream.
Flows(s) ==
  \E d \in Nat : \A k \in 1 .. Len(down'[s]) : down'[s][k].live \in Instances =>
    k + d \in 1 .. Len(down[s]) /\ down'[s][k] = down[s][k + d]

\* The steps that broadcast nothing.
LEMMA Flowing ==
  ASSUME Wired, UNCHANGED <<log, sending, inbox, heard>>, \A s \in Sockets : Flows(s)
  PROVE  InOrder' /\ FramesInOrder' /\ Once'
<1>1. BusTyped /\ FramesTyped /\ InOrder /\ FramesInOrder /\ Once
  BY DEF Wired
<1>2. InOrder' /\ Once'
  BY <1>1 DEF InOrder, Once, Pending, Posted, Ids
<1>3. FramesInOrder'
  <2> SUFFICES ASSUME NEW s \in Sockets, NEW m \in 1 .. Len(down'[s]), down'[s][m].live \in Instances
               PROVE  /\ down'[s][m].id <= Len(log)
                      /\ \A n \in 1 .. Len(down'[s]) :
                           m < n /\ down'[s][n].live = down'[s][m].live
                             => down'[s][m].id < down'[s][n].id
                      /\ \A n \in 1 .. Len(inbox[At(s)]) :
                           (At(s) # inbox[At(s)][n].origin
                              /\ inbox[At(s)][n].origin = down'[s][m].live)
                             => down'[s][m].id < inbox[At(s)][n].id
                      /\ \A n \in 1 .. Len(sending[down'[s][m].live]) :
                           down'[s][m].id < sending[down'[s][m].live][n]
    BY DEF FramesInOrder
  <2>1. PICK d \in Nat : \A k \in 1 .. Len(down'[s]) : down'[s][k].live \in Instances =>
          k + d \in 1 .. Len(down[s]) /\ down'[s][k] = down[s][k + d]
    BY DEF Flows
  <2>2. m + d \in 1 .. Len(down[s]) /\ down'[s][m] = down[s][m + d]
    BY <2>1
  <2>3. ASSUME NEW n \in 1 .. Len(down'[s]), m < n, down'[s][n].live = down'[s][m].live
        PROVE  down'[s][m].id < down'[s][n].id
    <3>1. n + d \in 1 .. Len(down[s]) /\ down'[s][n] = down[s][n + d]
      BY <2>1, <2>3
    <3>2. m + d < n + d
      BY <2>3
    <3> QED
      BY <2>2, <2>3, <3>1, <3>2, <1>1 DEF FramesInOrder
  <2>4. /\ down[s][m + d].id <= Len(log)
        /\ \A n \in 1 .. Len(inbox[At(s)]) :
             (At(s) # inbox[At(s)][n].origin /\ inbox[At(s)][n].origin = down[s][m + d].live)
               => down[s][m + d].id < inbox[At(s)][n].id
        /\ \A n \in 1 .. Len(sending[down[s][m + d].live]) :
             down[s][m + d].id < sending[down[s][m + d].live][n]
    BY <2>2, <1>1 DEF FramesInOrder
  <2> QED
    BY <2>2, <2>3, <2>4
<1> QED
  BY <1>2, <1>3

\* The step of Crash.
LEMMA Ends ==
  ASSUME Wired, NEW i \in Instances, UNCHANGED <<log, heard>>,
         down' = [s \in Sockets |-> IF At(s) = i THEN <<>> ELSE down[s]],
         sending' = [sending EXCEPT ![i] = <<>>], inbox' = [inbox EXCEPT ![i] = <<>>],
         lost' = lost \cup {sending[i][k] : k \in 1 .. Len(sending[i])}
  PROVE  InOrder' /\ FramesInOrder' /\ Once'
<1>1. BusTyped /\ FramesTyped /\ InOrder /\ FramesInOrder /\ Once
  BY DEF Wired
<1>2. /\ InOrder'
      /\ \A x : Pending(x)' => Pending(x)
      /\ \A j \in Instances : \A x : Posted(x, j)' <=> Posted(x, j) /\ j # i
      /\ \A p \in Processes : sending'[p] = IF p = i THEN <<>> ELSE sending[p]
      /\ \A j \in Instances : inbox'[j] = IF j = i THEN <<>> ELSE inbox[j]
  BY <1>1, Dies
<1>3. FramesInOrder'
  <2> SUFFICES ASSUME NEW s \in Sockets, NEW m \in 1 .. Len(down'[s]), down'[s][m].live \in Instances
               PROVE  /\ down'[s][m].id <= Len(log)
                      /\ \A n \in 1 .. Len(down'[s]) :
                           m < n /\ down'[s][n].live = down'[s][m].live
                             => down'[s][m].id < down'[s][n].id
                      /\ \A n \in 1 .. Len(inbox'[At(s)]) :
                           (At(s) # inbox'[At(s)][n].origin
                              /\ inbox'[At(s)][n].origin = down'[s][m].live)
                             => down'[s][m].id < inbox'[At(s)][n].id
                      /\ \A n \in 1 .. Len(sending'[down'[s][m].live]) :
                           down'[s][m].id < sending'[down'[s][m].live][n]
    BY DEF FramesInOrder
  <2>1. At(s) # i /\ down'[s] = down[s]
    OBVIOUS
  <2>2. inbox'[At(s)] = inbox[At(s)]
    BY <1>2, <2>1, Named
  <2>3. /\ down[s][m].id <= Len(log)
        /\ \A n \in 1 .. Len(down[s]) : m < n /\ down[s][n].live = down[s][m].live
                                          => down[s][m].id < down[s][n].id
        /\ \A n \in 1 .. Len(inbox[At(s)]) :
             (At(s) # inbox[At(s)][n].origin /\ inbox[At(s)][n].origin = down[s][m].live)
               => down[s][m].id < inbox[At(s)][n].id
        /\ \A n \in 1 .. Len(sending[down[s][m].live]) :
             down[s][m].id < sending[down[s][m].live][n]
    BY <1>1, <2>1 DEF FramesInOrder
  <2>4. \A n \in 1 .. Len(sending'[down[s][m].live]) :
          down[s][m].id < sending'[down[s][m].live][n]
    BY <1>2, <2>1, <2>3, Named
  <2> QED
    BY <2>1, <2>2, <2>3, <2>4
<1>4. Once'
  <2> SUFFICES ASSUME NEW s \in Sockets, NEW x \in 1 .. MaxEntries
               PROVE  /\ heard[s][x] \in {0, 1}
                      /\ heard[s][x] = 1 =>
                           /\ x \in Ids /\ log[x] # s /\ ~Pending(x)'
                           /\ Origin(log[x]) # At(s) => ~Posted(x, At(s))'
    BY DEF Once, Ids
  <2>1. At(s) \in Instances
    BY Named
  <2> QED
    BY <1>1, <1>2, <2>1 DEF Once
<1> QED
  BY <1>2, <1>3, <1>4

-----------------------------------------------------------------------------
(* What a socket has yet to hear.                                          *)

\* The sockets, the rooms and the registry are as they were.
LEMMA StillHeeding ==
  ASSUME Heeding, UNCHANGED <<sockets, subscribed, commands>>,
         \A s \in Sockets : sockets[s].open /\ At(s) \in subscribed /\ Coming(s) => Coming(s)'
  PROVE  Heeding'
  BY DEF Heeding

LEMMA ComingFanned ==
  ASSUME Wired, NEW p \in Processes, NEW k \in 1 .. Len(sending[p]), p \in Instances => k = 1,
         NEW id, id = sending[p][k], TakenOut(p, k), log' = log, Publish(id, p),
         NEW to, Broadcast(to, id, p), sockets' = sockets,
         NEW s \in Sockets, sockets[s].open, At(s) \in subscribed, Coming(s),
         At(s) = p /\ log[id] # s => s \in to
  PROVE  Coming(s)'
<1>1. /\ BusTyped /\ FramesTyped /\ InOrder
      /\ id \in Ids /\ Origin(log[id]) = p /\ At(s) \in Instances
  BY BusElements, Named DEF Wired, InOrder
<1>2. /\ \A x : Posted(x, At(s)) => Posted(x, At(s))'
      /\ id \in lost' \/ Posted(id, At(s))'
      /\ lost \subseteq lost'
  BY <1>1, Publishes
<1>3. \A x : Pending(x)' <=> Pending(x) /\ x # id
  BY <1>1, Takes
<1>4. /\ \A x \in 1 .. MaxEntries :
           heard'[s][x] = IF s \in to /\ sockets[s].open /\ x = id
                          THEN heard[s][x] + 1 ELSE heard[s][x]
      /\ \A x \in 1 .. MaxEntries : heard[s][x] \in Nat
  <2>1. Reached(to, id, p, s)
    BY <1>1, Broadcasts
  <2> QED
    BY <1>1, <2>1, FrameElements DEF Reached
<1> SUFFICES ASSUME NEW x \in Ids, x >= sockets[s].lo, x > sockets[s].hi, log[x] # s
             PROVE  \/ heard'[s][x] > 0 \/ Pending(x)'
                    \/ (Posted(x, At(s))' /\ Origin(log[x]) # At(s)) \/ x \in lost'
  BY DEF Coming, Ids
<1>5. /\ x \in 1 .. MaxEntries /\ heard[s][x] \in Nat
      /\ \/ heard[s][x] > 0 \/ Pending(x)
         \/ (Posted(x, At(s)) /\ Origin(log[x]) # At(s)) \/ x \in lost
  BY <1>1, <1>4, InRange DEF Coming
<1>6. heard[s][x] > 0 => heard'[s][x] > 0
  BY <1>4, <1>5
<1>7. CASE x = id
  <2>1. CASE At(s) = p
    BY <1>4, <1>5, <1>7, <2>1
  <2>2. CASE At(s) # p
    BY <1>1, <1>2, <1>7, <2>2
  <2> QED
    BY <2>1, <2>2
<1>8. CASE x # id
  BY <1>2, <1>3, <1>5, <1>6, <1>8
<1> QED
  BY <1>7, <1>8

LEMMA ComingDelivered ==
  ASSUME Wired, NEW i \in Instances, inbox[i] # <<>>, Delivered(i), sending' = sending, log' = log,
         NEW id, id = Head(inbox[i]).id, NEW origin, origin = Head(inbox[i]).origin,
         NEW to, Broadcast(to, id, origin), sockets' = sockets, lost' = lost,
         NEW s \in Sockets, sockets[s].open, Coming(s), At(s) = i /\ origin # i => s \in to
  PROVE  Coming(s)'
<1>1. /\ BusTyped /\ FramesTyped /\ InOrder /\ id \in Ids /\ At(s) \in Instances
      /\ Origin(log[id]) = origin /\ origin \in Processes
  BY Delivers, BusElements, Named DEF Wired
<1>2. \A x : Posted(x, At(s)) => Posted(x, At(s))' \/ (At(s) = i /\ x = id)
  BY <1>1, Delivers
<1>3. /\ \A x \in 1 .. MaxEntries :
           heard'[s][x] = IF s \in to /\ sockets[s].open /\ x = id
                          THEN heard[s][x] + 1 ELSE heard[s][x]
      /\ \A x \in 1 .. MaxEntries : heard[s][x] \in Nat
  <2>1. Reached(to, id, origin, s)
    BY <1>1, Broadcasts
  <2> QED
    BY <1>1, <2>1, FrameElements DEF Reached
<1> SUFFICES ASSUME NEW x \in Ids, x >= sockets[s].lo, x > sockets[s].hi, log[x] # s
             PROVE  \/ heard'[s][x] > 0 \/ Pending(x)'
                    \/ (Posted(x, At(s))' /\ Origin(log[x]) # At(s)) \/ x \in lost'
  BY DEF Coming, Ids
<1>4. /\ x \in 1 .. MaxEntries /\ heard[s][x] \in Nat
      /\ \/ heard[s][x] > 0 \/ Pending(x)
         \/ (Posted(x, At(s)) /\ Origin(log[x]) # At(s)) \/ x \in lost
  BY <1>1, <1>3, InRange DEF Coming
<1>5. heard[s][x] > 0 => heard'[s][x] > 0
  BY <1>3, <1>4
<1>6. Pending(x) => Pending(x)'
  BY DEF Pending
<1>7. CASE Posted(x, At(s)) /\ Origin(log[x]) # At(s)
  <2>1. CASE At(s) = i /\ x = id
    BY <1>1, <1>3, <1>4, <1>7, <2>1
  <2>2. CASE Posted(x, At(s))'
    BY <1>7, <2>2
  <2> QED
    BY <1>2, <1>7, <2>1, <2>2
<1> QED
  BY <1>4, <1>5, <1>6, <1>7

LEMMA ComingEntered ==
  ASSUME Wired, NEW by \in Sockets \cup {Api}, NEW p \in Processes, p = Origin(by), XAdd(by, p),
         UNCHANGED <<inbox, heard, lost, sockets>>, NEW s \in Sockets, Coming(s)
  PROVE  Coming(s)'
<1>1. BusTyped /\ InOrder
  BY DEF Wired
<1>2. /\ Len(log') = Len(log) + 1
      /\ \A id : Pending(id)' <=> Pending(id) \/ id = Len(log) + 1
  BY <1>1, Adds
<1>3. \A id \in Ids : log'[id] = log[id]
  <2>1. log' = Append(log, by)
    BY DEF XAdd
  <2> QED
    BY <1>1, <2>1, EntriesStay
<1>4. \A id \in Ids' : id \in Ids \/ id = Len(log) + 1
  BY <1>1, <1>2, BusElements DEF Ids
<1>5. \A id : Posted(id, At(s))' <=> Posted(id, At(s))
  BY DEF Posted
<1> QED
  BY <1>2, <1>3, <1>4, <1>5 DEF Coming

\* Another instance dies.
LEMMA ComingBeside ==
  ASSUME Wired, NEW i \in Instances, UNCHANGED <<log, heard>>,
         sending' = [sending EXCEPT ![i] = <<>>], inbox' = [inbox EXCEPT ![i] = <<>>],
         lost' = lost \cup {sending[i][k] : k \in 1 .. Len(sending[i])},
         NEW s \in Sockets, At(s) # i, sockets'[s] = sockets[s], Coming(s)
  PROVE  Coming(s)'
<1>1. BusTyped /\ InOrder /\ At(s) \in Instances
  BY Named DEF Wired
<1>2. /\ \A x : Pending(x) => Pending(x)' \/ x \in lost'
      /\ \A x : Posted(x, At(s)) => Posted(x, At(s))'
  BY <1>1, Dies
<1> QED
  BY <1>2 DEF Coming, Ids

\* A socket keeps what it has yet to hear when nothing is broadcast.
LEMMA ComingStays ==
  ASSUME UNCHANGED <<log, sending, inbox, heard, lost>>, NEW s \in Sockets,
         sockets'[s].lo = sockets[s].lo, sockets'[s].hi = sockets[s].hi
  PROVE  Coming(s)' <=> Coming(s)
  BY DEF Coming, Pending, Posted, Ids

-----------------------------------------------------------------------------
(* The sockets.                                                            *)

LEMMA TypedParts ==
  /\ TypeOK => BusTyped /\ FramesTyped
  /\ RInv => Wired
  BY DEF RInv, Wired, TypeOK, BusTyped, FramesTyped

LEMMA SocketElements ==
  ASSUME sockets \in [Sockets -> Socket], NEW s \in Sockets
  PROVE  /\ sockets[s] \in Socket
         /\ sockets[s].pc \in {"none", "join", "xinfo", "xrange", "send", "ready", "over"}
         /\ sockets[s].open \in BOOLEAN /\ sockets[s].since \in Cursors
         /\ sockets[s].lo \in Nat /\ sockets[s].hi \in Nat /\ sockets[s].heeds \in BOOLEAN
  BY DEF Socket

LEMMA Sets ==
  ASSUME sockets \in [Sockets -> Socket], NEW s \in Sockets, NEW q \in Socket, Set(s, q)
  PROVE  /\ sockets' \in [Sockets -> Socket] /\ sockets'[s] = q
         /\ \A r \in Sockets : r # s => sockets'[r] = sockets[r]
  BY DEF Set

LEMMA Flags == \A i : Heeds(i) \in BOOLEAN
  BY DEF Heeds

\* What rooms.join makes of a socket.
AfterJoin(socket, b) ==
  [socket EXCEPT
     !.pc = CASE socket.since = NoCursor -> "ready"
              [] socket.since = 0 -> "xrange"
              [] OTHER -> "xinfo",
     !.lo = Len(log) + 1, !.hi = Len(log), !.heeds = b]

LEMMA JoinedSocket ==
  ASSUME BusTyped, NEW socket \in Socket, NEW b \in BOOLEAN, NEW q, q = AfterJoin(socket, b)
  PROVE  /\ q \in Socket /\ q.pc \in {"ready", "xrange", "xinfo"}
         /\ q.pc \in {"xrange", "xinfo"} => q.since # NoCursor
         /\ q.lo = Len(log) + 1 /\ q.hi = Len(log)
         /\ q.open = socket.open /\ q.since = socket.since /\ q.heeds = b
<1> DEFINE pc == CASE socket.since = NoCursor -> "ready"
                   [] socket.since = 0 -> "xrange"
                   [] OTHER -> "xinfo"
<1>1. /\ pc \in {"ready", "xrange", "xinfo"}
      /\ pc \in {"xrange", "xinfo"} => socket.since # NoCursor
  BY DEF NoCursor
<1>2. q = [socket EXCEPT !.pc = pc, !.lo = Len(log) + 1, !.hi = Len(log), !.heeds = b]
  BY DEF AfterJoin
<1> HIDE DEF pc
<1>3. Len(log) \in Nat /\ Len(log) + 1 \in Nat
  BY BusElements
<1> QED
  BY <1>1, <1>2, <1>3 DEF Socket

\* Frames from the stream are put behind the others.
LEMMA Pushes ==
  ASSUME FramesTyped, Numbered, NEW s \in Sockets, NEW frames \in Seq(Frame), Push(s, frames),
         \A k \in 1 .. Len(frames) :
           frames[k].live = "replay" /\ (frames[k].t = "entry" => frames[k].id >= 1)
  PROVE  /\ down' \in [Sockets -> Seq(Frame)] /\ Numbered' /\ \A r \in Sockets : Flows(r)
<1>1. /\ down[s] \o frames \in Seq(Frame) /\ Len(down[s] \o frames) = Len(down[s]) + Len(frames)
      /\ \A k \in 1 .. Len(down[s]) : (down[s] \o frames)[k] = down[s][k]
      /\ \A k \in 1 .. Len(frames) : (down[s] \o frames)[Len(down[s]) + k] = frames[k]
  BY FrameElements, Joint
<1>2. /\ down'[s] = down[s] \o frames /\ down' \in [Sockets -> Seq(Frame)]
      /\ \A r \in Sockets : r # s => down'[r] = down[r]
  BY <1>1 DEF Push, FramesTyped
<1>3. Len(down[s]) \in Nat /\ Len(frames) \in Nat
  BY FrameElements
<1>4. ASSUME NEW k \in 1 .. Len(down'[s])
      PROVE  \/ k \in 1 .. Len(down[s]) /\ down'[s][k] = down[s][k]
             \/ down'[s][k].live = "replay" /\ (down'[s][k].t = "entry" => down'[s][k].id >= 1)
  <2>1. CASE k <= Len(down[s])
    BY <1>1, <1>2, <1>3, <2>1
  <2>2. CASE k > Len(down[s])
    <3> DEFINE j == k - Len(down[s])
    <3>1. j \in 1 .. Len(frames) /\ Len(down[s]) + j = k
      BY <1>1, <1>2, <1>3, <2>2
    <3> HIDE DEF j
    <3>2. down'[s][k] = frames[j]
      BY <1>1, <1>2, <3>1
    <3> QED
      BY <3>1, <3>2
  <2> QED
    BY <1>3, <2>1, <2>2
<1>5. Numbered'
  BY <1>2, <1>4 DEF Numbered
<1>6. ASSUME NEW r \in Sockets PROVE Flows(r)
  <2>1. \A k \in 1 .. Len(down'[r]) : down'[r][k].live \in Instances =>
          k + 0 \in 1 .. Len(down[r]) /\ down'[r][k] = down[r][k + 0]
    <3>1. \A k \in 1 .. Len(down'[r]) : down'[r][k].live \in Instances =>
            k \in 1 .. Len(down[r]) /\ down'[r][k] = down[r][k]
      <4>1. CASE r = s
        BY <1>4, <4>1, Named
      <4>2. CASE r # s
        BY <1>2, <4>2
      <4> QED
        BY <4>1, <4>2
    <3>2. Len(down[r]) \in Nat
      BY FrameElements
    <3> QED
      BY <3>1, <3>2
  <2> QED
    BY <2>1 DEF Flows
<1> QED
  BY <1>2, <1>5, <1>6

\* No frame moves, one is read, or all of a socket are gone.
LEMMA Flowed ==
  ASSUME FramesTyped, Numbered, NEW s \in Sockets,
         \/ down' = down
         \/ down[s] # <<>> /\ down' = [down EXCEPT ![s] = Tail(@)]
         \/ down' = [down EXCEPT ![s] = <<>>]
  PROVE  /\ down' \in [Sockets -> Seq(Frame)] /\ Numbered' /\ \A r \in Sockets : Flows(r)
<1>1. \A r \in Sockets : down'[r] = down[r] => Flows(r)
  <2> SUFFICES ASSUME NEW r \in Sockets, down'[r] = down[r] PROVE Flows(r)
    OBVIOUS
  <2>1. \A k \in 1 .. Len(down'[r]) : k + 0 \in 1 .. Len(down[r]) /\ down'[r][k] = down[r][k + 0]
    BY FrameElements
  <2> QED
    BY <2>1 DEF Flows
<1>2. CASE down' = down
  BY <1>1, <1>2 DEF FramesTyped, Numbered
<1>3. CASE down[s] # <<>> /\ down' = [down EXCEPT ![s] = Tail(@)]
  <2>1. /\ Tail(down[s]) \in Seq(Frame)
        /\ Len(Tail(down[s])) = Len(down[s]) - 1 /\ Len(down[s]) \in Nat
        /\ \A k \in 1 .. Len(down[s]) - 1 : Tail(down[s])[k] = down[s][k + 1]
    BY <1>3, FrameElements, Headed
  <2>2. /\ down'[s] = Tail(down[s]) /\ \A r \in Sockets : r # s => down'[r] = down[r]
        /\ down' \in [Sockets -> Seq(Frame)]
    BY <1>3, <2>1 DEF FramesTyped
  <2>3. \A k \in 1 .. Len(down'[s]) : k + 1 \in 1 .. Len(down[s]) /\ down'[s][k] = down[s][k + 1]
    BY <2>1, <2>2
  <2>4. Flows(s)
    BY <2>3 DEF Flows
  <2>5. Numbered'
    BY <2>2, <2>3 DEF Numbered
  <2> QED
    BY <1>1, <2>2, <2>4, <2>5
<1>4. CASE down' = [down EXCEPT ![s] = <<>>]
  <2>1. /\ down'[s] = <<>> /\ \A r \in Sockets : r # s => down'[r] = down[r]
        /\ down' \in [Sockets -> Seq(Frame)]
    BY <1>4 DEF FramesTyped
  <2>2. \A k \in 1 .. Len(down'[s]) : FALSE
    BY <2>1
  <2>3. Flows(s) /\ Numbered'
    <3>1. \A k \in 1 .. Len(down'[s]) : down'[s][k].live \in Instances =>
            k + 0 \in 1 .. Len(down[s]) /\ down'[s][k] = down[s][k + 0]
      BY <2>2
    <3>2. Flows(s)
      BY <3>1 DEF Flows
    <3> QED
      BY <2>1, <2>2, <3>2 DEF Numbered
  <2> QED
    BY <1>1, <2>1, <2>3
<1> QED
  BY <1>2, <1>3, <1>4

-----------------------------------------------------------------------------
(* The registry and the pages.                                             *)

LEMMA RegistryElements ==
  ASSUME Registry!TypeOK, NEW i \in Instances
  PROVE  /\ room[i] \subseteq Sockets /\ commands[i] \in Seq(Registry!Command)
         /\ commands[i] # <<>> => /\ Head(commands[i]).by \in Sockets
                                  /\ Tail(commands[i]) \in Seq(Registry!Command)
<1>1. room[i] \subseteq Sockets /\ commands[i] \in Seq(Registry!Command)
  BY DEF Registry!TypeOK
<1>2. ASSUME commands[i] # <<>>
      PROVE  /\ Head(commands[i]).by \in Sockets
             /\ Tail(commands[i]) \in Seq(Registry!Command)
  <2>1. Head(commands[i]) \in Registry!Command /\ Tail(commands[i]) \in Seq(Registry!Command)
    BY <1>1, <1>2, Headed
  <2> QED
    BY <2>1 DEF Registry!Command
<1> QED
  BY <1>1, <1>2

LEMMA Joins ==
  ASSUME Registry!TypeOK, NEW i \in Instances, NEW s \in Sockets, Registry!Join(i, s),
         subscribed' = subscribed
  PROVE  /\ Registry!TypeOK' /\ room'[i] = room[i] \cup {s}
         /\ \A j \in Instances : j # i => room'[j] = room[j] /\ commands'[j] = commands[j]
         /\ room[i] # {} => commands' = commands
<1>1. [op |-> "sub", by |-> s] \in Registry!Command
  BY DEF Registry!Command
<1>2. Append(commands[i], [op |-> "sub", by |-> s]) \in Seq(Registry!Command)
  BY <1>1, RegistryElements, Appended
<1> QED
  BY <1>2, RegistryElements DEF Registry!TypeOK, Registry!Join, Registry!Send

LEMMA Leaves ==
  ASSUME Registry!TypeOK, NEW i \in Instances, NEW s \in Sockets, Registry!Leave(i, s),
         subscribed' = subscribed
  PROVE  /\ Registry!TypeOK' /\ room'[i] = room[i] \ {s}
         /\ \A j \in Instances : j # i => room'[j] = room[j] /\ commands'[j] = commands[j]
         /\ ~(room[i] \subseteq {s}) => commands' = commands
<1>1. [op |-> "unsub", by |-> s] \in Registry!Command
  BY DEF Registry!Command
<1>2. Append(commands[i], [op |-> "unsub", by |-> s]) \in Seq(Registry!Command)
  BY <1>1, RegistryElements, Appended
<1> QED
  BY <1>2, RegistryElements DEF Registry!TypeOK, Registry!Leave, Registry!Send

LEMMA Answers ==
  ASSUME Registry!TypeOK, NEW i \in Instances, Registry!Reply(i) \/ Registry!Refuse(i), room' = room
  PROVE  /\ Registry!TypeOK' /\ commands[i] # <<>> /\ Head(commands[i]).by \in Sockets
         /\ \A j \in Instances : j # i => /\ commands'[j] = commands[j]
                                          /\ j \in subscribed' <=> j \in subscribed
  BY RegistryElements DEF Registry!TypeOK, Registry!Reply, Registry!Refuse

LEMMA PageElements ==
  ASSUME pages \in [Clients -> PageState], NEW u \in Clients
  PROVE  /\ pages[u] \in PageState
         /\ pages[u].n \in 0 .. MaxConnects /\ pages[u].cursor \in Cursors
         /\ pages[u].have \subseteq 1 .. MaxEntries
         /\ pages[u].queue \in 0 .. MaxTyped /\ pages[u].typed \in 0 .. MaxTyped
         /\ pages[u].linked \in BOOLEAN
         /\ MaxConnects \in Nat /\ MaxTyped \in Nat
  BY RelayAssumption DEF PageState

LEMMA SocketsOf ==
  /\ \A s \in Sockets : Page(s) \in Clients
  /\ \A u \in Clients : \A n \in 1 .. MaxConnects :
       <<u, n>> \in Sockets /\ Page(<<u, n>>) = u
  /\ TypeOK /\ Bounded => \A u \in Clients : pages[u].linked =>
                               Current(u) \in Sockets /\ Page(Current(u)) = u
<1>1. \A s \in Sockets : Page(s) \in Clients
  BY DEF Sockets, Page
<1>2. \A u \in Clients : \A n \in 1 .. MaxConnects : <<u, n>> \in Sockets /\ Page(<<u, n>>) = u
  BY DEF Sockets, Page
<1>3. ASSUME TypeOK, Bounded, NEW u \in Clients, pages[u].linked
      PROVE  Current(u) \in Sockets /\ Page(Current(u)) = u
  <2>1. pages \in [Clients -> PageState]
    BY <1>3 DEF TypeOK
  <2>2. pages[u].n >= 1
    BY <1>3 DEF Bounded
  <2>3. pages[u].n \in 0 .. MaxConnects /\ MaxConnects \in Nat
    BY <2>1, PageElements
  <2>4. pages[u].n \in 1 .. MaxConnects
    BY <2>2, <2>3
  <2> QED
    BY <1>2, <2>4 DEF Current
<1> QED
  BY <1>1, <1>2, <1>3

-----------------------------------------------------------------------------
(* The steps.                                                              *)

\* Of a step that broadcasts nothing: what the entries on their way do not tell.
Settled == TypeOK /\ Bounded /\ Placed /\ Numbered /\ InRoom /\ Heeding
Silent == UNCHANGED <<log, sending, inbox, heard>> /\ \A s \in Sockets : Flows(s)

LEMMA SilentSteps == RInv /\ Silent /\ Settled' => RInv'
<1> SUFFICES ASSUME RInv, Silent, Settled' PROVE RInv'
  OBVIOUS
<1>1. InOrder' /\ FramesInOrder' /\ Once'
  BY TypedParts, Flowing DEF Silent
<1> QED
  BY <1>1 DEF Settled, RInv

LEMMA SilentTypes ==
  ASSUME TypeOK, UNCHANGED <<stream, sending, inbox, heard, lost>>, Registry!TypeOK',
         sockets' \in [Sockets -> Socket], up' \in [Sockets -> 0 .. MaxTyped],
         down' \in [Sockets -> Seq(Frame)], pages' \in [Clients -> PageState],
         faults' \in 0 .. MaxFaults
  PROVE  TypeOK'
  BY DEF TypeOK, stream, Ids

LEMMA Faults ==
  ASSUME faults \in 0 .. MaxFaults, NEW what, faults' = faults \/ Fault(what)
  PROVE  faults' \in 0 .. MaxFaults
  BY RelayAssumption DEF Fault

\* The steps of a page on the socket it has, and the messages that get no XADD.
LEMMA PageSteps ==
  ASSUME RInv, UNCHANGED <<stream, registry, sockets, sending, inbox, heard, lost>>,
         up' \in [Sockets -> 0 .. MaxTyped], pages' \in [Clients -> PageState],
         faults' \in 0 .. MaxFaults, Bounded',
         \/ down' = down
         \/ \E s \in Sockets : /\ down[s] # <<>> /\ down' = [down EXCEPT ![s] = Tail(@)]
         \/ \E s \in Sockets : down' = [down EXCEPT ![s] = <<>>]
  PROVE  RInv'
<1>1. /\ TypeOK /\ Bounded /\ Placed /\ Numbered /\ InRoom /\ Heeding
      /\ BusTyped /\ FramesTyped
  BY TypedParts DEF RInv
<1>2. down' \in [Sockets -> Seq(Frame)] /\ Numbered' /\ \A s \in Sockets : Flows(s)
  <2>1. CASE down' = down
    <3>1. CASE Sockets = {}
      BY <1>1, <2>1, <3>1 DEF FramesTyped, Numbered
    <3>2. CASE Sockets # {}
      BY <1>1, <2>1, <3>2, Flowed
    <3> QED
      BY <3>1, <3>2
  <2>2. CASE \E s \in Sockets : /\ down[s] # <<>> /\ down' = [down EXCEPT ![s] = Tail(@)]
    BY <1>1, <2>2, Flowed
  <2>3. CASE \E s \in Sockets : down' = [down EXCEPT ![s] = <<>>]
    BY <1>1, <2>3, Flowed
  <2> QED
    BY <2>1, <2>2, <2>3
<1>3. Silent
  BY <1>2 DEF Silent, stream
<1>4. TypeOK'
  <2>1. Registry!TypeOK'
    BY <1>1 DEF TypeOK, registry, Registry!TypeOK
  <2>2. sockets' \in [Sockets -> Socket]
    BY <1>1 DEF TypeOK
  <2> QED
    BY <1>1, <1>2, <2>1, <2>2, SilentTypes
<1>5. Placed' /\ InRoom'
  BY <1>1 DEF Placed, InRoom, registry, stream
<1>6. Heeding'
  <2>1. \A s \in Sockets : Coming(s) => Coming(s)'
    BY ComingStays DEF stream
  <2> QED
    BY <1>1, <2>1, StillHeeding DEF registry
<1>7. Settled'
  BY <1>2, <1>4, <1>5, <1>6 DEF Settled
<1> QED
  BY <1>3, <1>7, SilentSteps

LEMMA Loads == ASSUME RInv, NEW u \in Clients, Load(u) PROVE RInv'
<1>1. TypeOK /\ Bounded /\ BusTyped
  BY TypedParts DEF RInv
<1>2. pages \in [Clients -> PageState] /\ pages[u] \in PageState
  BY <1>1 DEF TypeOK
<1>3. [pages[u] EXCEPT !.loaded = TRUE, !.have = Ids] \in PageState
  BY <1>1, <1>2, InRange DEF PageState
<1>4. /\ pages' = [pages EXCEPT ![u] = [pages[u] EXCEPT !.loaded = TRUE, !.have = Ids]]
      /\ pages' \in [Clients -> PageState]
  BY <1>2, <1>3 DEF Load, PageState
<1>5. \A v \in Clients : /\ pages'[v].typed = pages[v].typed /\ pages'[v].queue = pages[v].queue
                         /\ pages'[v].linked = pages[v].linked /\ pages'[v].n = pages[v].n
  BY <1>2, <1>4 DEF PageState
<1>6. Bounded'
  BY <1>1, <1>5, SocketsOf DEF Bounded, Load
<1> QED
  BY <1>1, <1>4, <1>6, PageSteps DEF Load, TypeOK

LEMMA Types == ASSUME RInv, NEW u \in Clients, Type(u) PROVE RInv'
<1>1. TypeOK /\ Bounded /\ BusTyped
  BY TypedParts DEF RInv
<1>2. pages \in [Clients -> PageState] /\ up \in [Sockets -> 0 .. MaxTyped]
  BY <1>1 DEF TypeOK
<1>3. /\ pages[u] \in PageState /\ pages[u].typed \in 0 .. MaxTyped /\ pages[u].typed < MaxTyped
      /\ pages[u].queue \in 0 .. MaxTyped /\ pages[u].queue <= pages[u].typed /\ MaxTyped \in Nat
  BY <1>1, <1>2, PageElements DEF Bounded, Type
<1>4. CASE pages[u].linked
  <2> DEFINE s == Current(u)
             q == [pages[u] EXCEPT !.typed = @ + 1]
  <2>1. s \in Sockets /\ Page(s) = u
    BY <1>1, <1>4, SocketsOf
  <2>2. up' = [up EXCEPT ![s] = @ + 1] /\ pages' = [pages EXCEPT ![u] = q]
    BY <1>4 DEF Type
  <2>3. /\ q \in PageState /\ q.typed = pages[u].typed + 1
        /\ q.queue = pages[u].queue /\ q.linked = pages[u].linked /\ q.n = pages[u].n
    BY <1>3 DEF PageState
  <2> HIDE DEF s, q
  <2>4. /\ pages' \in [Clients -> PageState] /\ pages'[u] = q
        /\ \A v \in Clients : v # u => pages'[v] = pages[v]
    BY <1>2, <2>2, <2>3
  <2>5. up[s] \in 0 .. MaxTyped /\ up[s] <= pages[u].typed
    BY <1>1, <1>2, <2>1 DEF Bounded
  <2>6. /\ up' \in [Sockets -> 0 .. MaxTyped] /\ up'[s] = up[s] + 1
        /\ \A r \in Sockets : r # s => up'[r] = up[r]
    BY <1>2, <1>3, <2>1, <2>2, <2>5
  <2>7. \A v \in Clients : /\ pages'[v].queue <= pages'[v].typed
                           /\ pages'[v].linked => pages'[v].n >= 1
    <3> SUFFICES ASSUME NEW v \in Clients
                 PROVE  /\ pages'[v].queue <= pages'[v].typed
                        /\ pages'[v].linked => pages'[v].n >= 1
      OBVIOUS
    <3>1. CASE v = u
      BY <1>1, <1>3, <2>3, <2>4, <3>1 DEF Bounded
    <3>2. CASE v # u
      BY <1>1, <2>4, <3>2 DEF Bounded
    <3> QED
      BY <3>1, <3>2
  <2>8. \A r \in Sockets : up'[r] <= pages'[Page(r)].typed
    <3> SUFFICES ASSUME NEW r \in Sockets PROVE up'[r] <= pages'[Page(r)].typed
      OBVIOUS
    <3>1. up[r] \in 0 .. MaxTyped /\ up[r] <= pages[Page(r)].typed /\ Page(r) \in Clients
      BY <1>1, <1>2, SocketsOf DEF Bounded
    <3>2. CASE r = s
      BY <1>3, <2>1, <2>3, <2>4, <2>5, <2>6, <3>2
    <3>3. CASE r # s /\ Page(r) = u
      BY <1>3, <2>3, <2>4, <2>6, <3>1, <3>3
    <3>4. CASE Page(r) # u
      BY <2>1, <2>4, <2>6, <3>1, <3>4
    <3> QED
      BY <3>2, <3>3, <3>4
  <2>9. Bounded'
    BY <2>7, <2>8 DEF Bounded
  <2> QED
    BY <1>1, <2>4, <2>6, <2>9, PageSteps DEF Type, TypeOK
<1>5. CASE ~pages[u].linked
  <2> DEFINE q == [pages[u] EXCEPT !.typed = @ + 1, !.queue = @ + 1]
  <2>1. up' = up /\ pages' = [pages EXCEPT ![u] = q]
    BY <1>2, <1>3, <1>5 DEF Type, PageState
  <2>2. /\ q \in PageState /\ q.typed = pages[u].typed + 1
        /\ q.queue = pages[u].queue + 1 /\ q.linked = pages[u].linked /\ q.n = pages[u].n
    <3>1. pages[u].typed + 1 \in 0 .. MaxTyped /\ pages[u].queue + 1 \in 0 .. MaxTyped
      BY <1>3
    <3>2. pages[u] \in PageState
      BY <1>3
    <3> QED
      BY <3>1, <3>2 DEF PageState
  <2> HIDE DEF q
  <2>3. /\ pages' \in [Clients -> PageState] /\ pages'[u] = q
        /\ \A v \in Clients : v # u => pages'[v] = pages[v]
    BY <1>2, <2>1, <2>2
  <2>4. \A v \in Clients : /\ pages'[v].queue <= pages'[v].typed
                           /\ pages'[v].linked => pages'[v].n >= 1
    <3> SUFFICES ASSUME NEW v \in Clients
                 PROVE  /\ pages'[v].queue <= pages'[v].typed
                        /\ pages'[v].linked => pages'[v].n >= 1
      OBVIOUS
    <3>1. CASE v = u
      BY <1>1, <1>3, <2>2, <2>3, <3>1 DEF Bounded
    <3>2. CASE v # u
      BY <1>1, <2>3, <3>2 DEF Bounded
    <3> QED
      BY <3>1, <3>2
  <2>5. \A r \in Sockets : up'[r] <= pages'[Page(r)].typed
    <3> SUFFICES ASSUME NEW r \in Sockets PROVE up'[r] <= pages'[Page(r)].typed
      OBVIOUS
    <3>1. up[r] \in 0 .. MaxTyped /\ up[r] <= pages[Page(r)].typed /\ Page(r) \in Clients
      BY <1>1, <1>2, SocketsOf DEF Bounded
    <3>2. CASE Page(r) = u
      BY <1>3, <2>1, <2>2, <2>3, <3>1, <3>2
    <3>3. CASE Page(r) # u
      BY <2>1, <2>3, <3>1, <3>3
    <3> QED
      BY <3>2, <3>3
  <2>6. Bounded'
    BY <2>4, <2>5 DEF Bounded
  <2> QED
    BY <1>1, <1>2, <2>1, <2>3, <2>6, PageSteps DEF Type, TypeOK
<1> QED
  BY <1>4, <1>5

LEMMA Receives == ASSUME RInv, NEW u \in Clients, Receive(u) PROVE RInv'
<1> DEFINE s == Current(u)
           f == Head(down[s])
           q == Read(pages[u], f)
<1>1. TypeOK /\ Bounded /\ Numbered /\ BusTyped /\ FramesTyped
  BY TypedParts DEF RInv
<1>2. pages \in [Clients -> PageState] /\ up \in [Sockets -> 0 .. MaxTyped]
  BY <1>1 DEF TypeOK
<1>3. /\ s \in Sockets /\ down[s] # <<>>
      /\ pages' = [pages EXCEPT ![u] = q] /\ down' = [down EXCEPT ![s] = Tail(@)]
  BY <1>1, SocketsOf DEF Receive
<1>4. f \in Frame /\ (f.t = "entry" => f.id >= 1)
  <2>1. down[s] \in Seq(Frame)
    BY <1>1, <1>3, FrameElements
  <2>2. f = down[s][1] /\ f \in Frame /\ 1 \in 1 .. Len(down[s])
    BY <1>3, <2>1, Headed
  <2> QED
    BY <1>1, <1>3, <2>2 DEF Numbered
<1> HIDE DEF s, f
<1>5. /\ f.id \in Cursors /\ NoCursor \in Cursors /\ (f.t = "entry" => f.id \in 1 .. MaxEntries)
      /\ f.t \in {"hello", "entry", "done", "reload"} /\ pages[u] \in PageState
  BY <1>1, <1>2, <1>4, InRange DEF Frame, Cursors
<1>6. /\ q \in PageState /\ q.typed = pages[u].typed
      /\ q.queue = pages[u].queue /\ q.linked = pages[u].linked /\ q.n = pages[u].n
  <2>1. CASE f.t = "hello"
    <3>1. q = [pages[u] EXCEPT !.cursor = IF @ = NoCursor THEN f.id ELSE @]
      BY <2>1 DEF Read
    <3> HIDE DEF q
    <3> QED
      BY <1>5, <3>1 DEF PageState
  <2>2. CASE f.t = "entry"
    <3>1. q = [pages[u] EXCEPT !.cursor = f.id, !.have = @ \cup {f.id}]
      BY <2>2 DEF Read
    <3> HIDE DEF q
    <3> QED
      BY <1>5, <2>2, <3>1 DEF PageState
  <2>3. CASE f.t = "done"
    <3>1. q = [pages[u] EXCEPT !.cursor = f.id]
      BY <2>3 DEF Read
    <3> HIDE DEF q
    <3> QED
      BY <1>5, <3>1 DEF PageState
  <2>4. CASE f.t = "reload"
    <3>1. q = [pages[u] EXCEPT !.cursor = NoCursor, !.have = Ids]
      BY <2>4 DEF Read
    <3>2. Ids \subseteq 1 .. MaxEntries
      BY <1>1, InRange
    <3> HIDE DEF q
    <3> QED
      BY <1>5, <3>1, <3>2 DEF PageState
  <2> QED
    BY <1>5, <2>1, <2>2, <2>3, <2>4
<1> HIDE DEF q
<1>7. /\ pages' \in [Clients -> PageState] /\ pages'[u] = q
      /\ \A v \in Clients : v # u => pages'[v] = pages[v]
  BY <1>2, <1>3, <1>6
<1>8. \A v \in Clients : /\ pages'[v].typed = pages[v].typed /\ pages'[v].queue = pages[v].queue
                         /\ pages'[v].linked = pages[v].linked /\ pages'[v].n = pages[v].n
  BY <1>6, <1>7
<1>9. Bounded'
  BY <1>1, <1>8, SocketsOf DEF Bounded, Receive
<1> QED
  BY <1>1, <1>3, <1>7, <1>9, PageSteps DEF Receive, TypeOK

LEMMA Closes == ASSUME RInv, NEW u \in Clients, SeeClose(u) PROVE RInv'
<1>1. TypeOK /\ Bounded
  BY DEF RInv
<1>2. pages \in [Clients -> PageState] /\ pages[u] \in PageState
  BY <1>1 DEF TypeOK
<1>3. [pages[u] EXCEPT !.linked = FALSE] \in PageState
  BY <1>2 DEF PageState
<1>4. /\ pages' = [pages EXCEPT ![u] = [pages[u] EXCEPT !.linked = FALSE]]
      /\ pages' \in [Clients -> PageState]
  BY <1>2, <1>3 DEF SeeClose, PageState
<1>5. \A v \in Clients : /\ pages'[v].typed = pages[v].typed /\ pages'[v].queue = pages[v].queue
                         /\ pages'[v].linked => pages[v].linked /\ pages'[v].n = pages[v].n
  BY <1>2, <1>4 DEF PageState
<1>6. Bounded'
  <2>1. \A v \in Clients : pages'[v].linked => pages'[v].n >= 1
    BY <1>1, <1>5 DEF Bounded
  <2> QED
    BY <1>1, <1>5, <2>1, SocketsOf DEF Bounded, SeeClose
<1>7. Current(u) \in Sockets /\ down' = [down EXCEPT ![Current(u)] = <<>>]
  BY <1>1, SocketsOf DEF SeeClose
<1>8. faults' \in 0 .. MaxFaults
  BY <1>1, Faults DEF SeeClose, TypeOK
<1> QED
  BY <1>1, <1>4, <1>6, <1>7, <1>8, PageSteps DEF SeeClose, TypeOK

\* A message without an XADD: its socket has no listener, or the XADD fails.
LEMMA Drops ==
  ASSUME RInv, NEW s \in Sockets, up[s] > 0, up' = [up EXCEPT ![s] = @ - 1],
         UNCHANGED <<stream, registry, sockets, down, sending, inbox, pages, heard, lost>>,
         faults' \in 0 .. MaxFaults
  PROVE  RInv'
<1>1. TypeOK /\ Bounded
  BY DEF RInv
<1>2. /\ up \in [Sockets -> 0 .. MaxTyped] /\ MaxTyped \in Nat
      /\ pages \in [Clients -> PageState]
  BY <1>1, RelayAssumption DEF TypeOK
<1>3. up' \in [Sockets -> 0 .. MaxTyped] /\ \A r \in Sockets : up'[r] <= up[r]
  BY <1>2
<1>4. \A r \in Sockets : up'[r] <= pages[Page(r)].typed
  <2> SUFFICES ASSUME NEW r \in Sockets PROVE up'[r] <= pages[Page(r)].typed
    OBVIOUS
  <2>1. /\ up'[r] <= up[r] /\ up[r] <= pages[Page(r)].typed
        /\ up'[r] \in Int /\ up[r] \in Int /\ pages[Page(r)].typed \in Int
    BY <1>1, <1>2, <1>3, SocketsOf, PageElements DEF Bounded
  <2> QED
    BY <2>1
<1>5. Bounded'
  BY <1>1, <1>4 DEF Bounded
<1> QED
  BY <1>2, <1>3, <1>5, PageSteps

\* The steps of one connection handler. A socket that heeds its instance has just
\* read the stream to its end, or waits for what it waited for.
Fresh(q) ==
  /\ q.pc \in {"xinfo", "xrange", "send"} => q.since # NoCursor
  /\ q.hi <= Len(log) /\ q.lo >= 1

Attends(s, q) ==
  q.open /\ q.heeds =>
    /\ Heeds(At(s))
    /\ q.hi = Len(log) \/ (sockets[s].open /\ sockets[s].heeds
                             /\ q.lo = sockets[s].lo /\ q.hi = sockets[s].hi)

LEMMA HandlerSteps ==
  ASSUME RInv, NEW s \in Sockets, NEW q \in Socket, Set(s, q), Fresh(q), Attends(s, q),
         \A r \in Sockets : r # s /\ sockets[r].open /\ sockets[r].heeds => Heeds(At(r)),
         UNCHANGED <<stream, sending, inbox, heard, lost>>, Registry!TypeOK', InRoom',
         up' \in [Sockets -> 0 .. MaxTyped], pages' \in [Clients -> PageState],
         faults' \in 0 .. MaxFaults, Bounded',
         down' \in [Sockets -> Seq(Frame)], Numbered', \A r \in Sockets : Flows(r)
  PROVE  RInv'
<1>1. /\ TypeOK /\ Placed /\ Heeding /\ BusTyped
      /\ sockets \in [Sockets -> Socket]
  BY TypedParts DEF RInv, TypeOK
<1>2. /\ sockets' \in [Sockets -> Socket] /\ sockets'[s] = q
      /\ \A r \in Sockets : r # s => sockets'[r] = sockets[r]
  BY <1>1, Sets
<1>3. Silent
  BY DEF Silent, stream
<1>4. TypeOK'
  BY <1>1, <1>2, SilentTypes
<1>5. Placed'
  BY <1>1, <1>2 DEF Placed, Fresh, stream
<1>6. Heeding'
  <2> SUFFICES ASSUME NEW r \in Sockets, sockets'[r].open, sockets'[r].heeds
               PROVE  At(r) \in subscribed' /\ commands'[At(r)] = <<>> /\ Coming(r)'
    BY DEF Heeding
  <2>1. Heeds(At(r))
    BY <1>2 DEF Attends
  <2>2. CASE /\ sockets[r].open /\ sockets[r].heeds
             /\ sockets'[r].lo = sockets[r].lo /\ sockets'[r].hi = sockets[r].hi
    <3>1. Coming(r)
      BY <1>1, <2>2 DEF Heeding
    <3>2. Coming(r)' <=> Coming(r)
      BY <2>2, ComingStays DEF stream
    <3> QED
      BY <2>1, <3>1, <3>2 DEF Heeds
  <2>3. CASE r = s /\ q.hi = Len(log)
    <3>1. \A id \in Ids' : ~(id > sockets'[r].hi)
      BY <1>1, <1>2, <2>3, BusElements DEF Ids, stream
    <3>2. Coming(r)'
      BY <3>1 DEF Coming
    <3> QED
      BY <2>1, <3>2 DEF Heeds
  <2> QED
    BY <1>2, <2>2, <2>3 DEF Attends
<1>7. Settled'
  BY <1>4, <1>5, <1>6 DEF Settled
<1> QED
  BY <1>3, <1>7, SilentSteps

\* The handler of a socket that is not being closed by the page, on the registry
\* as it is.
LEMMA Proceeds ==
  ASSUME RInv, NEW s \in Sockets, NEW q \in Socket, Set(s, q), Fresh(q), Attends(s, q),
         q.open => sockets[s].open /\ q.pc # "none",
         UNCHANGED <<stream, registry, sending, inbox, heard, lost, up, pages>>,
         faults' \in 0 .. MaxFaults,
         down' \in [Sockets -> Seq(Frame)], Numbered', \A r \in Sockets : Flows(r)
  PROVE  RInv'
<1>1. /\ TypeOK /\ Bounded /\ InRoom /\ Heeding
      /\ sockets \in [Sockets -> Socket] /\ up \in [Sockets -> 0 .. MaxTyped]
      /\ pages \in [Clients -> PageState]
  BY DEF RInv, TypeOK
<1>2. Registry!TypeOK'
  BY <1>1 DEF TypeOK, Registry!TypeOK, registry
<1>3. /\ sockets'[s] = q /\ \A r \in Sockets : r # s => sockets'[r] = sockets[r]
  BY <1>1, Sets
<1>4. InRoom'
  BY <1>1, <1>3 DEF InRoom, registry
<1>5. \A r \in Sockets : r # s /\ sockets[r].open /\ sockets[r].heeds => Heeds(At(r))
  BY <1>1 DEF Heeding, Heeds, registry
<1>6. Bounded'
  BY <1>1 DEF Bounded
<1> QED
  BY <1>1, <1>2, <1>4, <1>5, <1>6, HandlerSteps

LEMMA HandlerFacts ==
  ASSUME RInv, NEW s \in Sockets
  PROVE  /\ BusTyped /\ FramesTyped /\ Numbered /\ faults \in 0 .. MaxFaults
         /\ sockets \in [Sockets -> Socket] /\ sockets[s] \in Socket /\ Fresh(sockets[s])
         /\ sockets[s].open /\ sockets[s].heeds => At(s) \in subscribed /\ commands[At(s)] = <<>>
         /\ sockets[s].open => sockets[s].pc # "none" /\ s \in room[At(s)]
         /\ Len(log) \in Nat
<1>1. TypeOK /\ Placed /\ InRoom /\ Heeding /\ BusTyped /\ FramesTyped /\ Numbered
  BY TypedParts DEF RInv
<1> QED
  BY <1>1, BusElements DEF TypeOK, Placed, Fresh, InRoom, Heeding

\* A handler that gives up: its socket is closed.
LEMMA GivesUp ==
  ASSUME RInv, NEW s \in Sockets,
         Set(s, [sockets[s] EXCEPT !.pc = "over", !.open = FALSE]),
         UNCHANGED <<stream, registry, sending, inbox, heard, lost, up, pages>>,
         faults' \in 0 .. MaxFaults,
         down' \in [Sockets -> Seq(Frame)], Numbered', \A r \in Sockets : Flows(r)
  PROVE  RInv'
<1> DEFINE q == [sockets[s] EXCEPT !.pc = "over", !.open = FALSE]
<1>1. sockets[s] \in Socket /\ Fresh(sockets[s])
  BY HandlerFacts
<1>2. /\ q \in Socket /\ q.pc = "over" /\ q.open = FALSE
      /\ q.lo = sockets[s].lo /\ q.hi = sockets[s].hi
  BY <1>1 DEF Socket
<1>3. Set(s, q)
  OBVIOUS
<1> HIDE DEF q
<1>4. Fresh(q) /\ Attends(s, q)
  BY <1>1, <1>2 DEF Fresh, Attends
<1> QED
  BY <1>2, <1>3, <1>4, Proceeds

LEMMA Xinfos == ASSUME RInv, NEW s \in Sockets, Xinfo(s) PROVE RInv'
<1>1. /\ BusTyped /\ FramesTyped /\ Numbered /\ faults \in 0 .. MaxFaults
      /\ sockets[s] \in Socket /\ Fresh(sockets[s]) /\ sockets[s].pc = "xinfo"
      /\ sockets[s].open /\ sockets[s].heeds => At(s) \in subscribed /\ commands[At(s)] = <<>>
  BY HandlerFacts DEF Xinfo
<1>2. UNCHANGED <<stream, registry, sending, inbox, heard, lost, up, pages, faults>>
  BY DEF Xinfo
<1>3. CASE /\ Push(s, IF sockets[s].open THEN <<Note("reload", 0)>> ELSE <<>>)
           /\ Set(s, [sockets[s] EXCEPT !.pc = "over", !.open = FALSE])
  <2> DEFINE frames == IF sockets[s].open THEN <<Note("reload", 0)>> ELSE <<>>
  <2>1. Note("reload", 0) \in Frame /\ Note("reload", 0).live = "replay"
        /\ Note("reload", 0).t # "entry"
    BY <1>1, InRange DEF Note, Frame
  <2>2. /\ frames \in Seq(Frame)
        /\ \A k \in 1 .. Len(frames) :
             frames[k].live = "replay" /\ (frames[k].t = "entry" => frames[k].id >= 1)
    BY <2>1
  <2>3. Push(s, frames)
    BY <1>3
  <2> HIDE DEF frames
  <2>4. down' \in [Sockets -> Seq(Frame)] /\ Numbered' /\ \A r \in Sockets : Flows(r)
    BY <1>1, <2>2, <2>3, Pushes
  <2> QED
    BY <1>1, <1>2, <1>3, <2>4, GivesUp
<1>4. CASE Set(s, [sockets[s] EXCEPT !.pc = "xrange"]) /\ down' = down
  <2> DEFINE q == [sockets[s] EXCEPT !.pc = "xrange"]
  <2>1. /\ q \in Socket /\ q.pc = "xrange" /\ q.open = sockets[s].open /\ q.since = sockets[s].since
        /\ q.lo = sockets[s].lo /\ q.hi = sockets[s].hi /\ q.heeds = sockets[s].heeds
    BY <1>1 DEF Socket
  <2>2. Set(s, q)
    BY <1>4
  <2> HIDE DEF q
  <2>3. Fresh(q) /\ Attends(s, q)
    BY <1>1, <1>2, <2>1 DEF Fresh, Attends, Heeds, registry
  <2>4. down' \in [Sockets -> Seq(Frame)] /\ Numbered' /\ \A r \in Sockets : Flows(r)
    BY <1>1, <1>4, Flowed
  <2>5. q.open => sockets[s].open /\ q.pc # "none"
    BY <2>1
  <2> QED
    BY <1>1, <1>2, <2>1, <2>2, <2>3, <2>4, <2>5, Proceeds
<1> QED
  BY <1>3, <1>4 DEF Xinfo

LEMMA Xranges == ASSUME RInv, NEW s \in Sockets, Xrange(s) PROVE RInv'
<1> DEFINE since == sockets[s].since
           from == (IF trimmed > since THEN trimmed ELSE since) + 1
           q == [sockets[s] EXCEPT !.pc = "send", !.heeds = Heeds(At(s)),
                                   !.lo = from, !.hi = Len(log)]
<1>1. /\ BusTyped /\ FramesTyped /\ Numbered /\ faults \in 0 .. MaxFaults
      /\ sockets[s] \in Socket /\ Fresh(sockets[s]) /\ sockets[s].pc = "xrange"
      /\ Len(log) \in Nat
  BY HandlerFacts DEF Xrange
<1>2. UNCHANGED <<stream, registry, sending, inbox, heard, lost, up, down, pages, faults>>
  BY DEF Xrange
<1>3. trimmed \in Nat /\ since \in Nat
  <2>1. trimmed \in 0 .. Len(log)
    BY DEF RInv, TypeOK
  <2>2. since # NoCursor /\ since \in Cursors
    BY <1>1 DEF Fresh, Socket
  <2>3. MaxEntries \in Nat
    BY <1>1, InRange
  <2> QED
    BY <1>1, <2>1, <2>2, <2>3 DEF Cursors
<1>4. from \in Nat /\ from >= 1
  BY <1>3
<1>5. Set(s, q)
  BY DEF Xrange
<1> HIDE DEF from
<1>6. /\ q \in Socket /\ q.pc = "send" /\ q.open = sockets[s].open /\ q.since = since
      /\ q.lo = from /\ q.hi = Len(log) /\ q.heeds = Heeds(At(s))
  BY <1>1, <1>4, Flags DEF Socket
<1> HIDE DEF q
<1>7. Fresh(q) /\ Attends(s, q)
  BY <1>1, <1>4, <1>6 DEF Fresh, Attends
<1>8. down' \in [Sockets -> Seq(Frame)] /\ Numbered' /\ \A r \in Sockets : Flows(r)
  BY <1>1, <1>2, Flowed
<1>9. q.open => sockets[s].open /\ q.pc # "none"
  BY <1>6
<1> QED
  BY <1>1, <1>2, <1>5, <1>6, <1>7, <1>8, <1>9, Proceeds

LEMMA Replays == ASSUME RInv, NEW s \in Sockets, SendReplay(s) PROVE RInv'
<1> DEFINE old == sockets[s]
           n == old.hi - old.lo + 1
           Entry(k) == [t |-> "entry", id |-> old.lo + k - 1, live |-> "replay"]
           entries == [k \in 1 .. n |-> Entry(k)]
           last == IF old.lo <= old.hi THEN old.hi ELSE old.since
           frames == IF old.open THEN Append(entries, Note("done", last)) ELSE <<>>
           q == [old EXCEPT !.pc = "ready"]
<1>1. /\ BusTyped /\ FramesTyped /\ Numbered /\ faults \in 0 .. MaxFaults
      /\ old \in Socket /\ Fresh(old) /\ old.pc = "send" /\ Len(log) \in Nat
      /\ sockets[s].open /\ sockets[s].heeds => At(s) \in subscribed /\ commands[At(s)] = <<>>
  BY HandlerFacts DEF SendReplay
<1>2. UNCHANGED <<stream, registry, sending, inbox, heard, lost, up, pages, faults>>
  BY DEF SendReplay
<1>3. Push(s, frames) /\ Set(s, q)
  BY DEF SendReplay
<1>4. /\ old.lo \in Nat /\ old.hi \in Nat /\ old.lo >= 1 /\ old.hi <= MaxEntries
      /\ old.since \in 0 .. MaxEntries /\ MaxEntries \in Nat
  <2>1. Len(log) <= MaxEntries /\ MaxEntries \in Nat
    BY <1>1, InRange DEF BusTyped
  <2>2. old.lo \in Nat /\ old.hi \in Nat /\ old.since \in Cursors
    BY <1>1 DEF Socket
  <2>3. old.hi <= Len(log) /\ old.lo >= 1 /\ old.since # NoCursor
    BY <1>1 DEF Fresh
  <2> HIDE DEF old
  <2> QED
    BY <1>1, <2>1, <2>2, <2>3 DEF Cursors
<1>5. /\ q \in Socket /\ q.pc = "ready" /\ q.open = old.open /\ q.since = old.since
      /\ q.lo = old.lo /\ q.hi = old.hi /\ q.heeds = old.heeds
  BY <1>1 DEF Socket
<1> HIDE DEF q
<1>6. Fresh(q) /\ Attends(s, q) /\ (q.open => sockets[s].open /\ q.pc # "none")
  BY <1>1, <1>2, <1>5 DEF Fresh, Attends, Heeds, registry
<1>7. /\ frames \in Seq(Frame)
      /\ \A k \in 1 .. Len(frames) :
           frames[k].live = "replay" /\ (frames[k].t = "entry" => frames[k].id >= 1)
  <2> DEFINE done == Note("done", last)
             m == IF n >= 0 THEN n ELSE 0
  <2>1. last \in 0 .. MaxEntries
    BY <1>4
  <2>2. done \in Frame /\ done.live = "replay" /\ done.t # "entry"
    BY <2>1 DEF Note, Frame
  <2>3. m \in Nat /\ 1 .. n = 1 .. m
    BY <1>4
  <2>4. \A k \in 1 .. n : /\ Entry(k) \in Frame /\ Entry(k).live = "replay" /\ Entry(k).id >= 1
    <3> SUFFICES ASSUME NEW k \in 1 .. n
                 PROVE  /\ Entry(k) \in Frame /\ Entry(k).live = "replay" /\ Entry(k).id >= 1
      OBVIOUS
    <3>1. old.lo + k - 1 \in 1 .. MaxEntries
      BY <1>4
    <3> QED
      BY <3>1, <1>4 DEF Frame
  <2>5. /\ entries \in Seq(Frame) /\ Len(entries) = m
        /\ \A k \in 1 .. m : entries[k].live = "replay" /\ entries[k].id >= 1
    <3>1. entries \in [1 .. m -> Frame]
      BY <2>3, <2>4
    <3>2. \A k \in 1 .. m : entries[k] = Entry(k)
      BY <2>3
    <3> HIDE DEF entries, m, n
    <3>3. entries \in Seq(Frame)
      BY <2>3, <3>1
    <3>4. Len(entries) = m
      BY <2>3, <3>1, <3>3
    <3> QED
      BY <2>3, <2>4, <3>2, <3>3, <3>4
  <2> HIDE DEF done, entries, m, n, last
  <2>6. /\ Append(entries, done) \in Seq(Frame) /\ Len(Append(entries, done)) = m + 1
        /\ \A k \in 1 .. m : Append(entries, done)[k] = entries[k]
        /\ Append(entries, done)[m + 1] = done
    BY <2>2, <2>5, Appended
  <2>7. \A k \in 1 .. m + 1 : k \in 1 .. m \/ k = m + 1
    BY <2>3
  <2>8. frames = Append(entries, done) \/ frames = <<>>
    BY DEF done
  <2> HIDE DEF frames
  <2>9. CASE frames = Append(entries, done)
    BY <2>2, <2>5, <2>6, <2>7, <2>9
  <2>10. CASE frames = <<>>
    BY <2>10
  <2> QED
    BY <2>8, <2>9, <2>10
<1> HIDE DEF frames
<1>8. down' \in [Sockets -> Seq(Frame)] /\ Numbered' /\ \A r \in Sockets : Flows(r)
  BY <1>1, <1>3, <1>7, Pushes
<1> QED
  BY <1>1, <1>2, <1>3, <1>5, <1>6, <1>8, Proceeds

LEMMA ReplaysFail == ASSUME RInv, NEW s \in Sockets, ReplayFails(s) PROVE RInv'
<1>1. FramesTyped /\ Numbered /\ faults \in 0 .. MaxFaults
  BY HandlerFacts
<1>2. down' \in [Sockets -> Seq(Frame)] /\ Numbered' /\ \A r \in Sockets : Flows(r)
  BY <1>1, Flowed DEF ReplayFails
<1>3. faults' \in 0 .. MaxFaults
  BY <1>1, Faults DEF ReplayFails
<1> QED
  BY <1>2, <1>3, GivesUp DEF ReplayFails

LEMMA HangsUp == ASSUME RInv, NEW s \in Sockets, Close(s) PROVE RInv'
<1> DEFINE q == [sockets[s] EXCEPT !.open = FALSE, !.gone = TRUE]
           i == At(s)
<1>1. /\ TypeOK /\ Bounded /\ InRoom /\ Heeding /\ Registry!TypeOK
      /\ up \in [Sockets -> 0 .. MaxTyped] /\ pages \in [Clients -> PageState]
      /\ BusTyped /\ FramesTyped /\ Numbered /\ faults \in 0 .. MaxFaults
      /\ sockets \in [Sockets -> Socket] /\ sockets[s] \in Socket /\ Fresh(sockets[s])
      /\ i \in Instances
  BY HandlerFacts, Named DEF RInv, TypeOK
<1>2. /\ UNCHANGED <<stream, subscribed, down, sending, inbox, pages, heard, lost, faults>>
      /\ up' = [up EXCEPT ![s] = 0] /\ Set(s, q)
      /\ Registry!Leave(i, s) \/ UNCHANGED <<room, commands>>
  BY DEF Close
<1>3. /\ q \in Socket /\ q.open = FALSE /\ q.pc = sockets[s].pc /\ q.since = sockets[s].since
      /\ q.lo = sockets[s].lo /\ q.hi = sockets[s].hi
  BY <1>1 DEF Socket
<1> HIDE DEF q, i
<1>4. /\ Registry!TypeOK'
      /\ \A j \in Instances : /\ room'[j] \subseteq room[j]
                              /\ \A r \in room[j] : r # s => r \in room'[j] /\ commands'[j] = commands[j]
  <2>1. CASE UNCHANGED <<room, commands>>
    BY <1>1, <1>2, <2>1 DEF Registry!TypeOK
  <2>2. CASE Registry!Leave(i, s)
    <3>1. /\ Registry!TypeOK' /\ room'[i] = room[i] \ {s}
          /\ \A j \in Instances : j # i => room'[j] = room[j] /\ commands'[j] = commands[j]
          /\ ~(room[i] \subseteq {s}) => commands' = commands
      BY <1>1, <1>2, <2>2, Leaves
    <3>2. ASSUME NEW j \in Instances
          PROVE  /\ room'[j] \subseteq room[j]
                 /\ \A r \in room[j] : r # s => r \in room'[j] /\ commands'[j] = commands[j]
      BY <3>1
    <3> QED
      BY <3>1, <3>2
  <2> QED
    BY <1>2, <2>1, <2>2
<1>5. /\ sockets'[s] = q /\ \A r \in Sockets : r # s => sockets'[r] = sockets[r]
  BY <1>1, <1>2, <1>3, Sets
<1>6. InRoom'
  <2>1. \A j \in Instances : \A r \in room'[j] : At(r) = j
    BY <1>1, <1>4 DEF InRoom
  <2>2. ASSUME NEW r \in Sockets, sockets'[r].open
        PROVE  r \in room'[At(r)] /\ sockets'[r].pc # "none"
    <3>1. r # s /\ sockets'[r] = sockets[r] /\ r \in room[At(r)] /\ sockets[r].pc # "none"
          /\ At(r) \in Instances
      BY <1>1, <1>3, <1>5, <2>2, Named DEF InRoom
    <3> QED
      BY <1>4, <3>1
  <2> QED
    BY <2>1, <2>2 DEF InRoom
<1>7. ASSUME NEW r \in Sockets, r # s, sockets[r].open, sockets[r].heeds PROVE Heeds(At(r))
  <2>1. /\ r \in room[At(r)] /\ At(r) \in Instances
        /\ At(r) \in subscribed /\ commands[At(r)] = <<>>
    BY <1>1, <1>7, Named DEF InRoom, Heeding
  <2> QED
    BY <1>2, <1>4, <1>7, <2>1 DEF Heeds
<1>8. up' \in [Sockets -> 0 .. MaxTyped] /\ Bounded'
  <2>1. /\ up' \in [Sockets -> 0 .. MaxTyped] /\ up'[s] = 0
        /\ \A r \in Sockets : r # s => up'[r] = up[r]
    BY <1>1, <1>2, RelayAssumption
  <2>2. ASSUME NEW r \in Sockets PROVE up'[r] <= pages'[Page(r)].typed
    <3>1. pages[Page(r)].typed \in 0 .. MaxTyped
      BY <1>1, SocketsOf, PageElements
    <3>2. CASE r = s
      BY <1>2, <2>1, <3>1, <3>2
    <3>3. CASE r # s
      BY <1>1, <1>2, <2>1, <3>3 DEF Bounded
    <3> QED
      BY <3>2, <3>3
  <2> QED
    BY <1>1, <1>2, <2>1, <2>2 DEF Bounded
<1>9. down' \in [Sockets -> Seq(Frame)] /\ Numbered' /\ \A r \in Sockets : Flows(r)
  BY <1>1, <1>2, Flowed
<1>10. Fresh(q) /\ Attends(s, q)
  BY <1>1, <1>3 DEF Fresh, Attends
<1> QED
  BY <1>1, <1>2, <1>3, <1>4, <1>6, <1>7, <1>8, <1>9, <1>10, HandlerSteps

\* The frames of a socket that has joined.
LEMMA Hello ==
  ASSUME BusTyped, FramesTyped, Numbered, NEW s \in Sockets, NEW socket \in Socket,
         Push(s, IF socket.open THEN <<Note("hello", HelloId(socket.since))>> ELSE <<>>)
  PROVE  down' \in [Sockets -> Seq(Frame)] /\ Numbered' /\ \A r \in Sockets : Flows(r)
<1> DEFINE id == HelloId(socket.since)
           f == Note("hello", id)
           frames == IF socket.open THEN <<f>> ELSE <<>>
<1>1. id \in 0 .. MaxEntries
  <2>1. socket.since \in Cursors /\ MaxEntries \in Nat
    BY InRange DEF Socket
  <2> QED
    BY <2>1 DEF HelloId, Cursors, NoCursor
<1> HIDE DEF id
<1>2. f \in Frame /\ f.live = "replay" /\ f.t # "entry"
  BY <1>1 DEF Note, Frame
<1> HIDE DEF f
<1>3. /\ frames \in Seq(Frame)
      /\ \A k \in 1 .. Len(frames) :
           frames[k].live = "replay" /\ (frames[k].t = "entry" => frames[k].id >= 1)
  BY <1>2
<1>4. Push(s, frames)
  BY DEF f, id
<1> HIDE DEF frames
<1> QED
  BY <1>3, <1>4, Pushes

LEMMA Subscribes == ASSUME RInv, NEW i \in Instances, Subscribed(i) PROVE RInv'
<1> DEFINE s == Head(commands[i]).by
<1>1. /\ TypeOK /\ Bounded /\ InRoom /\ Heeding /\ Registry!TypeOK
      /\ BusTyped /\ FramesTyped /\ Numbered /\ sockets \in [Sockets -> Socket]
      /\ up \in [Sockets -> 0 .. MaxTyped] /\ pages \in [Clients -> PageState]
      /\ faults \in 0 .. MaxFaults
  BY TypedParts DEF RInv, TypeOK
<1>2. /\ UNCHANGED <<stream, room, up, sending, inbox, pages, heard, lost, faults>>
      /\ Registry!Reply(i)
      /\ Joined(s, sockets[s]) \/ UNCHANGED <<sockets, down>>
  BY DEF Subscribed
<1>3. /\ Registry!TypeOK' /\ commands[i] # <<>> /\ s \in Sockets
      /\ \A j \in Instances : j # i => /\ commands'[j] = commands[j]
                                       /\ j \in subscribed' <=> j \in subscribed
  BY <1>1, <1>2, Answers
<1> HIDE DEF s
<1>4. sockets[s] \in Socket /\ Fresh(sockets[s]) /\ (sockets[s].open => sockets[s].pc # "none")
  BY <1>3, HandlerFacts
<1>5. ASSUME NEW r \in Sockets, sockets[r].open, sockets[r].heeds PROVE Heeds(At(r))
  <2>1. /\ At(r) \in Instances
        /\ At(r) \in subscribed /\ commands[At(r)] = <<>>
    BY <1>1, <1>5, Named DEF Heeding
  <2> QED
    BY <1>3, <2>1 DEF Heeds
<1>6. PICK q \in Socket :
        /\ Set(s, q) /\ Fresh(q) /\ Attends(s, q)
        /\ q.open = sockets[s].open /\ (q.open => q.pc # "none")
        /\ down' \in [Sockets -> Seq(Frame)] /\ Numbered' /\ \A r \in Sockets : Flows(r)
  <2>1. CASE Joined(s, sockets[s])
    <3> DEFINE q == AfterJoin(sockets[s], Heeds(At(s)))
    <3>1. /\ Set(s, q)
          /\ Push(s, IF sockets[s].open THEN <<Note("hello", HelloId(sockets[s].since))>> ELSE <<>>)
      BY <2>1 DEF Joined, AfterJoin
    <3>2. /\ q \in Socket /\ q.pc \in {"ready", "xrange", "xinfo"}
          /\ q.pc \in {"xrange", "xinfo"} => q.since # NoCursor
          /\ q.lo = Len(log) + 1 /\ q.hi = Len(log)
          /\ q.open = sockets[s].open /\ q.since = sockets[s].since /\ q.heeds = Heeds(At(s))
      BY <1>1, <1>4, Flags, JoinedSocket
    <3> HIDE DEF q
    <3>3. Fresh(q) /\ Attends(s, q) /\ q.pc # "none"
      BY <1>1, <3>2, BusElements DEF Fresh, Attends
    <3>4. down' \in [Sockets -> Seq(Frame)] /\ Numbered' /\ \A r \in Sockets : Flows(r)
      BY <1>1, <1>3, <1>4, <3>1, Hello
    <3> QED
      BY <3>1, <3>2, <3>3, <3>4
  <2>2. CASE UNCHANGED <<sockets, down>>
    <3>1. Set(s, sockets[s])
      BY <1>1, <1>3, <2>2 DEF Set
    <3>2. Attends(s, sockets[s])
      BY <1>3, <1>5 DEF Attends
    <3>3. down' \in [Sockets -> Seq(Frame)] /\ Numbered' /\ \A r \in Sockets : Flows(r)
      BY <1>1, <1>3, <2>2, Flowed
    <3> QED
      BY <1>4, <3>1, <3>2, <3>3
  <2> QED
    BY <1>2, <2>1, <2>2
<1>7. /\ sockets'[s] = q /\ \A r \in Sockets : r # s => sockets'[r] = sockets[r]
  BY <1>1, <1>3, <1>6, Sets
<1>8. InRoom'
  BY <1>1, <1>2, <1>3, <1>6, <1>7 DEF InRoom
<1>9. Bounded'
  BY <1>1, <1>2 DEF Bounded
<1> QED
  BY <1>1, <1>2, <1>3, <1>5, <1>6, <1>8, <1>9, HandlerSteps

LEMMA SubscribesFail == ASSUME RInv, NEW i \in Instances, SubscribeFails(i) PROVE RInv'
<1> DEFINE s == Head(commands[i]).by
           q == [sockets[s] EXCEPT !.pc = "over", !.open = FALSE]
<1>1. /\ TypeOK /\ Bounded /\ InRoom /\ Heeding /\ Registry!TypeOK
      /\ BusTyped /\ FramesTyped /\ Numbered /\ sockets \in [Sockets -> Socket]
      /\ up \in [Sockets -> 0 .. MaxTyped] /\ pages \in [Clients -> PageState]
      /\ faults \in 0 .. MaxFaults
  BY TypedParts DEF RInv, TypeOK
<1>2. /\ UNCHANGED <<stream, room, up, down, sending, inbox, pages, heard, lost>>
      /\ Registry!Refuse(i) /\ Set(s, q) /\ Fault("sub")
  BY DEF SubscribeFails
<1>3. /\ Registry!TypeOK' /\ commands[i] # <<>> /\ s \in Sockets
      /\ \A j \in Instances : j # i => /\ commands'[j] = commands[j]
                                       /\ j \in subscribed' <=> j \in subscribed
  BY <1>1, <1>2, Answers
<1> HIDE DEF s
<1>4. sockets[s] \in Socket /\ Fresh(sockets[s])
  BY <1>3, HandlerFacts
<1>5. /\ q \in Socket /\ q.pc = "over" /\ q.open = FALSE
      /\ q.lo = sockets[s].lo /\ q.hi = sockets[s].hi
  BY <1>4 DEF Socket
<1> HIDE DEF q
<1>6. Fresh(q) /\ Attends(s, q)
  BY <1>4, <1>5 DEF Fresh, Attends
<1>7. ASSUME NEW r \in Sockets, sockets[r].open, sockets[r].heeds PROVE Heeds(At(r))
  <2>1. /\ At(r) \in Instances
        /\ At(r) \in subscribed /\ commands[At(r)] = <<>>
    BY <1>1, <1>7, Named DEF Heeding
  <2> QED
    BY <1>3, <2>1 DEF Heeds
<1>8. /\ sockets'[s] = q /\ \A r \in Sockets : r # s => sockets'[r] = sockets[r]
  BY <1>1, <1>2, <1>3, <1>5, Sets
<1>9. InRoom'
  BY <1>1, <1>2, <1>3, <1>5, <1>8 DEF InRoom
<1>10. Bounded'
  BY <1>1, <1>2 DEF Bounded
<1>11. faults' \in 0 .. MaxFaults
  BY <1>1, <1>2, Faults
<1>12. down' \in [Sockets -> Seq(Frame)] /\ Numbered' /\ \A r \in Sockets : Flows(r)
  BY <1>1, <1>2, <1>3, Flowed
<1> QED
  BY <1>1, <1>2, <1>3, <1>5, <1>6, <1>7, <1>9, <1>10, <1>11, <1>12, HandlerSteps

LEMMA Connects == ASSUME RInv, NEW u \in Clients, Connect(u) PROVE RInv'
<1> DEFINE s == <<u, pages[u].n + 1>>
           i == At(s)
           socket == [NoSocket EXCEPT !.pc = "join", !.open = TRUE, !.since = pages[u].cursor]
           page == [pages[u] EXCEPT !.n = @ + 1, !.linked = TRUE, !.queue = 0]
<1>1. /\ TypeOK /\ Bounded /\ InRoom /\ Heeding /\ Registry!TypeOK
      /\ BusTyped /\ FramesTyped /\ Numbered /\ sockets \in [Sockets -> Socket]
      /\ up \in [Sockets -> 0 .. MaxTyped] /\ pages \in [Clients -> PageState]
      /\ faults \in 0 .. MaxFaults
  BY TypedParts DEF RInv, TypeOK
<1>2. /\ UNCHANGED <<stream, subscribed, sending, inbox, heard, lost, faults>>
      /\ pages[u].n < MaxConnects /\ Registry!Join(i, s)
      /\ IF room[i] = {} THEN Set(s, socket) /\ UNCHANGED down ELSE Joined(s, socket)
      /\ up' = [up EXCEPT ![s] = pages[u].queue]
      /\ pages' = [pages EXCEPT ![u] = page]
  <2>1. pages' = [pages EXCEPT ![u].n = @ + 1, ![u].linked = TRUE, ![u].queue = 0]
    BY DEF Connect
  <2>2. pages' = [pages EXCEPT ![u] = page]
    BY <1>1, <2>1 DEF PageState
  <2> QED
    BY <2>2 DEF Connect
<1>3. /\ pages[u] \in PageState /\ pages[u].n \in 0 .. MaxConnects /\ MaxConnects \in Nat
      /\ pages[u].queue \in 0 .. MaxTyped /\ pages[u].typed \in 0 .. MaxTyped
      /\ pages[u].cursor \in Cursors /\ pages[u].queue <= pages[u].typed /\ MaxTyped \in Nat
  BY <1>1, PageElements DEF Bounded
<1>4. s \in Sockets /\ Page(s) = u /\ i \in Instances
  <2>1. pages[u].n + 1 \in 1 .. MaxConnects
    BY <1>2, <1>3
  <2> QED
    BY <2>1, SocketsOf, Named
<1>5. /\ socket \in Socket /\ socket.pc = "join" /\ socket.open = TRUE /\ socket.heeds = FALSE
      /\ socket.lo = 1 /\ socket.hi = 0
  BY <1>3 DEF NoSocket, Socket
<1>6. /\ page \in PageState /\ page.n = pages[u].n + 1 /\ page.linked = TRUE /\ page.queue = 0
      /\ page.typed = pages[u].typed
  <2>1. pages[u].n + 1 \in 0 .. MaxConnects /\ 0 \in 0 .. MaxTyped
    BY <1>2, <1>3
  <2>2. pages[u] \in PageState
    BY <1>3
  <2> QED
    BY <2>1, <2>2 DEF PageState
<1> HIDE DEF s, i, socket, page
<1>7. /\ Registry!TypeOK' /\ room'[i] = room[i] \cup {s}
      /\ \A j \in Instances : j # i => room'[j] = room[j] /\ commands'[j] = commands[j]
      /\ room[i] # {} => commands' = commands
  BY <1>1, <1>2, <1>4, Joins
<1>8. PICK q \in Socket :
        /\ Set(s, q) /\ Fresh(q) /\ Attends(s, q) /\ q.pc # "none"
        /\ down' \in [Sockets -> Seq(Frame)] /\ Numbered' /\ \A r \in Sockets : Flows(r)
  <2>1. CASE Set(s, socket) /\ down' = down
    <3>1. Fresh(socket) /\ Attends(s, socket)
      BY <1>1, <1>5, BusElements DEF Fresh, Attends
    <3>2. down' \in [Sockets -> Seq(Frame)] /\ Numbered' /\ \A r \in Sockets : Flows(r)
      BY <1>1, <1>4, <2>1, Flowed
    <3> QED
      BY <1>5, <2>1, <3>1, <3>2
  <2>2. CASE Joined(s, socket)
    <3> DEFINE q == AfterJoin(socket, Heeds(At(s)))
    <3>1. /\ Set(s, q)
          /\ Push(s, IF socket.open THEN <<Note("hello", HelloId(socket.since))>> ELSE <<>>)
      BY <2>2 DEF Joined, AfterJoin
    <3>2. /\ q \in Socket /\ q.pc \in {"ready", "xrange", "xinfo"}
          /\ q.pc \in {"xrange", "xinfo"} => q.since # NoCursor
          /\ q.lo = Len(log) + 1 /\ q.hi = Len(log)
          /\ q.open = socket.open /\ q.since = socket.since /\ q.heeds = Heeds(At(s))
      BY <1>1, <1>5, Flags, JoinedSocket
    <3> HIDE DEF q
    <3>3. Fresh(q) /\ Attends(s, q) /\ q.pc # "none"
      BY <1>1, <3>2, BusElements DEF Fresh, Attends
    <3>4. down' \in [Sockets -> Seq(Frame)] /\ Numbered' /\ \A r \in Sockets : Flows(r)
      BY <1>1, <1>4, <1>5, <3>1, Hello
    <3> QED
      BY <3>1, <3>2, <3>3, <3>4
  <2> QED
    BY <1>2, <2>1, <2>2
<1>9. /\ sockets'[s] = q /\ \A r \in Sockets : r # s => sockets'[r] = sockets[r]
  BY <1>1, <1>4, <1>8, Sets
<1>10. At(s) = i
  BY DEF i
<1>11. InRoom'
  <2>1. \A j \in Instances : \A r \in room'[j] : At(r) = j
    BY <1>1, <1>7, <1>10 DEF InRoom
  <2>2. ASSUME NEW r \in Sockets, sockets'[r].open
        PROVE  r \in room'[At(r)] /\ sockets'[r].pc # "none"
    <3>1. CASE r = s
      BY <1>7, <1>8, <1>9, <1>10, <3>1
    <3>2. CASE r # s
      <4>1. /\ sockets'[r] = sockets[r] /\ r \in room[At(r)] /\ sockets[r].pc # "none"
            /\ At(r) \in Instances
        BY <1>1, <1>9, <2>2, <3>2, Named DEF InRoom
      <4> QED
        BY <1>7, <4>1
    <3> QED
      BY <3>1, <3>2
  <2> QED
    BY <2>1, <2>2 DEF InRoom
<1>12. ASSUME NEW r \in Sockets, r # s, sockets[r].open, sockets[r].heeds PROVE Heeds(At(r))
  <2>1. /\ r \in room[At(r)] /\ At(r) \in Instances
        /\ At(r) \in subscribed /\ commands[At(r)] = <<>>
    BY <1>1, <1>12, Named DEF InRoom, Heeding
  <2> QED
    BY <1>2, <1>7, <2>1 DEF Heeds
<1>13. /\ pages' \in [Clients -> PageState] /\ pages'[u] = page
       /\ \A v \in Clients : v # u => pages'[v] = pages[v]
  BY <1>1, <1>2, <1>6
<1>14. /\ up' \in [Sockets -> 0 .. MaxTyped] /\ up'[s] = pages[u].queue
       /\ \A r \in Sockets : r # s => up'[r] = up[r]
  BY <1>1, <1>2, <1>3, <1>4
<1>15. Bounded'
  <2>1. ASSUME NEW r \in Sockets PROVE up'[r] <= pages'[Page(r)].typed
    <3>1. pages'[Page(r)].typed = pages[Page(r)].typed
      BY <1>6, <1>13, SocketsOf
    <3>2. CASE r = s
      BY <1>3, <1>4, <1>14, <3>1, <3>2
    <3>3. CASE r # s
      BY <1>1, <1>14, <3>1, <3>3 DEF Bounded
    <3> QED
      BY <3>2, <3>3
  <2>2. ASSUME NEW v \in Clients
        PROVE  /\ pages'[v].queue <= pages'[v].typed
               /\ pages'[v].linked => pages'[v].n >= 1
    <3>1. CASE v = u
      BY <1>3, <1>6, <1>13, <3>1
    <3>2. CASE v # u
      BY <1>1, <1>13, <3>2 DEF Bounded
    <3> QED
      BY <3>1, <3>2
  <2> QED
    BY <2>1, <2>2 DEF Bounded
<1>16. faults' \in 0 .. MaxFaults
  BY <1>1, <1>2
<1> QED
  BY <1>2, <1>4, <1>7, <1>8, <1>11, <1>12, <1>13, <1>14, <1>15, <1>16, HandlerSteps

LEMMA Overridden ==
  ASSUME NEW D, NEW S, NEW f \in [D -> Seq(S)], NEW d
  PROVE  [f EXCEPT ![d] = <<>>] \in [D -> Seq(S)]
<1>1. <<>> \in Seq(S)
  OBVIOUS
<1> QED
  BY <1>1

\* A ws process dies: its sockets are closed, the others heed their instance still.
LEMMA Crashes == ASSUME RInv, NEW i \in Instances, Crash(i) PROVE RInv'
<1>1. /\ TypeOK /\ Bounded /\ Placed /\ Numbered /\ InRoom /\ Heeding /\ Registry!TypeOK /\ Wired
      /\ BusTyped /\ FramesTyped /\ sockets \in [Sockets -> Socket] /\ InOrder
      /\ up \in [Sockets -> 0 .. MaxTyped] /\ pages \in [Clients -> PageState]
      /\ faults \in 0 .. MaxFaults
  BY TypedParts DEF RInv, TypeOK
<1>2. /\ UNCHANGED <<stream, pages, heard>>
      /\ Registry!Lose(i) /\ Fault("crash")
      /\ sockets' = [s \in Sockets |->
           IF At(s) = i /\ sockets[s].pc # "none"
           THEN [sockets[s] EXCEPT !.pc = "over", !.open = FALSE, !.gone = TRUE] ELSE sockets[s]]
      /\ up' = [s \in Sockets |-> IF At(s) = i THEN 0 ELSE up[s]]
      /\ down' = [s \in Sockets |-> IF At(s) = i THEN <<>> ELSE down[s]]
      /\ lost' = lost \cup {sending[i][k] : k \in 1 .. Len(sending[i])}
      /\ sending' = [sending EXCEPT ![i] = <<>>]
      /\ inbox' = [inbox EXCEPT ![i] = <<>>]
  BY DEF Crash
<1>3. /\ Registry!TypeOK' /\ room'[i] = {}
      /\ \A j \in Instances : j # i => /\ room'[j] = room[j] /\ commands'[j] = commands[j]
                                       /\ j \in subscribed' <=> j \in subscribed
  <2>1. Registry!Lose(i) /\ Registry!TypeOK
    BY <1>1, <1>2
  <2> QED
    BY <2>1 DEF Registry!TypeOK, Registry!Lose
<1>4. ASSUME NEW s \in Sockets
      PROVE  /\ sockets'[s] \in Socket
             /\ sockets'[s].lo = sockets[s].lo /\ sockets'[s].hi = sockets[s].hi
             /\ sockets'[s].since = sockets[s].since
             /\ sockets'[s].pc \in {"xinfo", "xrange", "send"} => sockets'[s].pc = sockets[s].pc
             /\ sockets'[s].open => At(s) # i
             /\ At(s) # i => sockets'[s] = sockets[s]
  <2>1. sockets[s] \in Socket /\ (sockets[s].open => sockets[s].pc # "none")
    BY <1>1 DEF InRoom
  <2>2. CASE At(s) = i /\ sockets[s].pc # "none"
    <3> DEFINE q == [sockets[s] EXCEPT !.pc = "over", !.open = FALSE, !.gone = TRUE]
    <3>1. sockets'[s] = q
      BY <1>2, <2>2
    <3>2. /\ q \in Socket /\ q.lo = sockets[s].lo /\ q.hi = sockets[s].hi
          /\ q.since = sockets[s].since /\ q.pc = "over" /\ q.open = FALSE
      BY <2>1 DEF Socket
    <3> HIDE DEF q
    <3> QED
      BY <2>2, <3>1, <3>2
  <2>3. CASE ~(At(s) = i /\ sockets[s].pc # "none")
    <3>1. sockets'[s] = sockets[s]
      BY <1>2, <2>3
    <3> QED
      BY <2>1, <2>3, <3>1
  <2> QED
    BY <2>2, <2>3
<1>5. InOrder' /\ FramesInOrder' /\ Once'
  BY <1>1, <1>2, Ends DEF stream
<1>6. /\ down' \in [Sockets -> Seq(Frame)] /\ Numbered'
      /\ up' \in [Sockets -> 0 .. MaxTyped] /\ sockets' \in [Sockets -> Socket]
  <2>1. down' = [s \in Sockets |-> IF At(s) = i THEN <<>> ELSE down[s]]
    BY <1>2
  <2>2. up' = [s \in Sockets |-> IF At(s) = i THEN 0 ELSE up[s]]
    BY <1>2
  <2>3. \A s \in Sockets : down[s] \in Seq(Frame) /\ up[s] \in 0 .. MaxTyped
    BY <1>1, FrameElements
  <2>4. down' \in [Sockets -> Seq(Frame)]
    BY <2>1, <2>3
  <2>5. \A s \in Sockets : \A k \in 1 .. Len(down'[s]) : down'[s] = down[s]
    BY <2>1
  <2>6. Numbered'
    BY <1>1, <2>5 DEF Numbered
  <2>7. up' \in [Sockets -> 0 .. MaxTyped]
    BY <2>2, <2>3, RelayAssumption
  <2>8. sockets' = [s \in Sockets |-> sockets'[s]]
    BY <1>2
  <2>9. sockets' \in [Sockets -> Socket]
    BY <1>4, <2>8
  <2> QED
    BY <2>4, <2>6, <2>7, <2>9
<1>7. /\ sending' \in [Processes -> Seq(Ids)] /\ lost' \subseteq Ids
      /\ inbox' \in [Instances -> Seq([id : Ids, origin : Processes])]
  <2>1. \A k \in 1 .. Len(sending[i]) : sending[i][k] \in Ids
    BY <1>1, BusElements, Named
  <2>2. /\ sending \in [Processes -> Seq(Ids)] /\ lost \subseteq Ids
        /\ inbox \in [Instances -> Seq([id : Ids, origin : Processes])]
    BY <1>1 DEF BusTyped
  <2>3. /\ lost' = lost \cup {sending[i][k] : k \in 1 .. Len(sending[i])}
        /\ sending' = [sending EXCEPT ![i] = <<>>] /\ inbox' = [inbox EXCEPT ![i] = <<>>]
    BY <1>2
  <2>4. sending' \in [Processes -> Seq(Ids)]
    BY <2>2, <2>3, Overridden
  <2>5. inbox' \in [Instances -> Seq([id : Ids, origin : Processes])]
    BY <2>2, <2>3, Overridden
  <2> QED
    BY <2>1, <2>2, <2>3, <2>4, <2>5
<1>8. TypeOK'
  <2>1. faults' \in 0 .. MaxFaults
    BY <1>1, <1>2, Faults
  <2>2. /\ log \in Seq(Sockets \cup {Api}) /\ Len(log) <= MaxEntries
        /\ trimmed \in 0 .. Len(log) /\ heard \in [Sockets -> [1 .. MaxEntries -> Nat]]
    BY <1>1 DEF TypeOK
  <2> QED
    BY <1>1, <1>2, <1>3, <1>6, <1>7, <2>1, <2>2 DEF TypeOK, stream, Ids
<1>9. Bounded'
  <2>1. \A s \in Sockets : up'[s] <= up[s]
    <3>1. up' = [s \in Sockets |-> IF At(s) = i THEN 0 ELSE up[s]]
      BY <1>2
    <3>2. \A s \in Sockets : up[s] \in 0 .. MaxTyped
      BY <1>1
    <3>3. MaxTyped \in Nat
      BY RelayAssumption
    <3> QED
      BY <3>1, <3>2, <3>3
  <2>2. ASSUME NEW s \in Sockets PROVE up'[s] <= pages'[Page(s)].typed
    <3>1. /\ up'[s] <= up[s] /\ up[s] <= pages[Page(s)].typed
          /\ up'[s] \in Int /\ up[s] \in Int /\ pages[Page(s)].typed \in Int
      BY <1>1, <1>6, <2>1, SocketsOf, PageElements DEF Bounded
    <3>2. pages' = pages
      BY <1>2
    <3>3. up'[s] <= pages[Page(s)].typed
      BY <3>1
    <3> QED
      BY <3>2, <3>3
  <2> QED
    BY <1>1, <1>2, <2>2 DEF Bounded
<1>10. Placed'
  BY <1>1, <1>2, <1>4 DEF Placed, stream
<1>11. InRoom'
  <2>1. \A j \in Instances : \A r \in room'[j] : At(r) = j
    BY <1>1, <1>3 DEF InRoom
  <2>2. \A s \in Sockets : sockets'[s].open => s \in room'[At(s)] /\ sockets'[s].pc # "none"
    BY <1>1, <1>3, <1>4, Named DEF InRoom
  <2> QED
    BY <2>1, <2>2 DEF InRoom
<1>12. Heeding'
  <2> SUFFICES ASSUME NEW s \in Sockets, sockets'[s].open, sockets'[s].heeds
               PROVE  At(s) \in subscribed' /\ commands'[At(s)] = <<>> /\ Coming(s)'
    BY DEF Heeding
  <2>1. At(s) # i /\ sockets'[s] = sockets[s] /\ At(s) \in Instances
    BY <1>4, Named
  <2>2. At(s) \in subscribed /\ commands[At(s)] = <<>> /\ Coming(s)
    BY <1>1, <2>1 DEF Heeding
  <2>3. Coming(s)'
    BY <1>1, <1>2, <2>1, <2>2, ComingBeside DEF stream
  <2> QED
    BY <1>3, <2>1, <2>2, <2>3
<1> QED
  BY <1>5, <1>6, <1>8, <1>9, <1>10, <1>11, <1>12 DEF RInv

\* The steps of the bus leave sockets, rooms and pages alone.
LEMMA BusSteps ==
  ASSUME RInv, UNCHANGED <<registry, sockets, pages>>, Len(log) <= Len(log'), Len(log') \in Nat,
         InOrder', FramesInOrder', Once', BusTyped', FramesTyped', Numbered',
         trimmed' \in 0 .. Len(log'), up' \in [Sockets -> 0 .. MaxTyped],
         \A s \in Sockets : up'[s] <= up[s], faults' \in 0 .. MaxFaults,
         \A s \in Sockets : sockets[s].open /\ At(s) \in subscribed /\ Coming(s) => Coming(s)'
  PROVE  RInv'
<1>1. /\ TypeOK /\ Bounded /\ Placed /\ InRoom /\ Heeding /\ BusTyped
      /\ sockets \in [Sockets -> Socket]
      /\ up \in [Sockets -> 0 .. MaxTyped] /\ pages \in [Clients -> PageState]
  BY TypedParts DEF RInv, TypeOK
<1>2. TypeOK'
  <2>1. Registry!TypeOK'
    BY <1>1 DEF TypeOK, registry, Registry!TypeOK
  <2> QED
    BY <1>1, <2>1 DEF TypeOK, BusTyped, FramesTyped
<1>3. Bounded'
  <2>1. ASSUME NEW s \in Sockets PROVE up'[s] <= pages[Page(s)].typed
    <3>1. /\ up'[s] <= up[s] /\ up[s] <= pages[Page(s)].typed
          /\ up'[s] \in Int /\ up[s] \in Int /\ pages[Page(s)].typed \in Int
      BY <1>1, SocketsOf, PageElements DEF Bounded
    <3> QED
      BY <3>1
  <2> QED
    BY <1>1, <2>1 DEF Bounded
<1>4. Placed'
  <2>1. \A s \in Sockets : sockets[s].hi \in Nat
    BY <1>1, SocketElements
  <2>2. Len(log) \in Nat
    BY <1>1, BusElements
  <2>3. \A s \in Sockets : sockets[s].hi <= Len(log')
    BY <1>1, <2>1, <2>2 DEF Placed
  <2> QED
    BY <1>1, <2>3 DEF Placed
<1>5. InRoom'
  BY <1>1 DEF InRoom, registry
<1>6. Heeding'
  BY <1>1, StillHeeding DEF registry
<1> QED
  BY <1>2, <1>3, <1>4, <1>5, <1>6 DEF RInv

LEMMA XAdds ==
  ASSUME RInv, NEW by \in Sockets \cup {Api}, NEW p \in Processes, p = Origin(by), XAdd(by, p),
         up' \in [Sockets -> 0 .. MaxTyped], \A s \in Sockets : up'[s] <= up[s],
         UNCHANGED <<registry, sockets, down, inbox, pages, heard, lost, faults>>
  PROVE  RInv'
<1>1. /\ Wired /\ BusTyped /\ FramesTyped /\ InOrder /\ Numbered
      /\ faults \in 0 .. MaxFaults /\ trimmed \in 0 .. Len(log)
  BY TypedParts DEF RInv, TypeOK
<1>2. /\ Len(log) < MaxEntries /\ log' = Append(log, by)
      /\ trimmed' \in {trimmed} \cup trimmed .. Len(log)
      /\ sending' = [sending EXCEPT ![p] = Append(@, Len(log) + 1)]
  BY DEF XAdd
<1>3. /\ log' \in Seq(Sockets \cup {Api}) /\ Len(log') = Len(log) + 1
      /\ Len(log) \in Nat /\ MaxEntries \in Nat
  <2>1. log \in Seq(Sockets \cup {Api})
    BY <1>1 DEF BusTyped
  <2> QED
    BY <1>1, <1>2, <2>1, InRange
<1>4. Ids \subseteq Ids' /\ Len(log) + 1 \in Ids'
  BY <1>3 DEF Ids
<1>5. sending' \in [Processes -> Seq(Ids')]
  <2>1. ASSUME NEW q \in Processes PROVE sending[q] \in Seq(Ids')
    BY <1>1, <1>4, BusElements
  <2>2. Append(sending[p], Len(log) + 1) \in Seq(Ids')
    BY <1>4, <2>1, Appended
  <2>3. sending = [q \in Processes |-> sending[q]]
    BY <1>1 DEF BusTyped
  <2>4. sending \in [Processes -> Seq(Ids')]
    BY <2>1, <2>3
  <2> QED
    BY <1>2, <2>2, <2>4
<1>6. inbox' \in [Instances -> Seq([id : Ids', origin : Processes])]
  <2> DEFINE M == [id : Ids, origin : Processes]
             N == [id : Ids', origin : Processes]
  <2>1. M \subseteq N
    BY <1>4
  <2>2. inbox \in [Instances -> Seq(M)] /\ inbox' = inbox
    BY <1>1 DEF BusTyped
  <2> HIDE DEF M, N
  <2>3. ASSUME NEW i \in Instances PROVE inbox[i] \in Seq(N)
    BY <2>1, <2>2, Widened
  <2>4. inbox' \in [Instances -> Seq(N)]
    BY <2>2, <2>3
  <2> QED
    BY <2>4 DEF N
<1>7. BusTyped'
  <2>1. lost' \subseteq Ids'
    BY <1>1, <1>4 DEF BusTyped
  <2>2. Len(log') <= MaxEntries
    BY <1>2, <1>3, RelayAssumption
  <2> QED
    BY <1>3, <1>5, <1>6, <2>1, <2>2 DEF BusTyped
<1>8. FramesTyped' /\ Numbered'
  BY <1>1 DEF FramesTyped, Numbered
<1>9. InOrder' /\ FramesInOrder' /\ Once'
  BY <1>1, Enters
<1>10. \A s \in Sockets : Coming(s) => Coming(s)'
  BY <1>1, ComingEntered
<1>11. trimmed' \in 0 .. Len(log') /\ Len(log) <= Len(log') /\ Len(log') \in Nat
  BY <1>1, <1>2, <1>3
<1> QED
  BY <1>1, <1>7, <1>8, <1>9, <1>10, <1>11, BusSteps

LEMMA Messages == ASSUME RInv, NEW s \in Sockets, Message(s) PROVE RInv'
<1>1. /\ up \in [Sockets -> 0 .. MaxTyped] /\ MaxTyped \in Nat /\ faults \in 0 .. MaxFaults
      /\ up[s] > 0 /\ up' = [up EXCEPT ![s] = @ - 1]
      /\ UNCHANGED <<registry, sockets, down, inbox, pages, heard, lost, faults>>
      /\ XAdd(s, At(s)) \/ UNCHANGED <<stream, sending>>
  BY RelayAssumption DEF RInv, TypeOK, Message
<1>2. up' \in [Sockets -> 0 .. MaxTyped] /\ \A r \in Sockets : up'[r] <= up[r]
  BY <1>1
<1>3. CASE XAdd(s, At(s))
  <2>1. At(s) = Origin(s) /\ At(s) \in Processes
    BY Named DEF Origin
  <2> QED
    BY <1>1, <1>2, <1>3, <2>1, XAdds
<1>4. CASE UNCHANGED <<stream, sending>>
  BY <1>1, <1>4, Drops
<1> QED
  BY <1>1, <1>3, <1>4

LEMMA Posts == ASSUME RInv, Post PROVE RInv'
<1>1. /\ up \in [Sockets -> 0 .. MaxTyped] /\ XAdd(Api, "api")
      /\ UNCHANGED <<registry, sockets, up, down, inbox, pages, heard, lost, faults>>
  BY DEF RInv, TypeOK, Post
<1>2. "api" = Origin(Api) /\ "api" \in Processes
  BY Named DEF Origin
<1>3. \A s \in Sockets : up'[s] <= up[s]
  BY <1>1, RelayAssumption
<1> QED
  BY <1>1, <1>2, <1>3, XAdds

\* The frames of a broadcast are frames.
LEMMA BroadcastTypes ==
  ASSUME BusTyped, FramesTyped, Numbered, NEW to, NEW id \in Ids, NEW origin \in Processes,
         Broadcast(to, id, origin)
  PROVE  FramesTyped' /\ Numbered'
<1>1. \A s \in Sockets : Reached(to, id, origin, s)
  BY Broadcasts
<1>2. id >= 1
  BY BusElements DEF Ids
<1>3. /\ down' = [s \in Sockets |-> down'[s]] /\ heard' = [s \in Sockets |-> heard'[s]]
  BY DEF Broadcast
<1>4. FramesTyped'
  <2>1. \A s \in Sockets : down'[s] \in Seq(Frame) /\ heard'[s] \in [1 .. MaxEntries -> Nat]
    BY <1>1 DEF Reached
  <2> QED
    BY <1>3, <2>1 DEF FramesTyped
<1>5. Numbered'
  <2> SUFFICES ASSUME NEW s \in Sockets, NEW k \in 1 .. Len(down'[s]), down'[s][k].t = "entry"
               PROVE  down'[s][k].id >= 1
    BY DEF Numbered
  <2>1. \/ k \in 1 .. Len(down[s]) /\ down'[s][k] = down[s][k]
        \/ down'[s][k].id = id
    BY <1>1 DEF Reached
  <2> QED
    BY <1>2, <2>1 DEF Numbered
<1> QED
  BY <1>4, <1>5

LEMMA Fans ==
  ASSUME RInv, NEW p \in Processes, NEW k \in 1 .. Len(sending[p]), p \in Instances => k = 1,
         NEW id, id = sending[p][k], TakenOut(p, k), Publish(id, p),
         NEW to, \A s \in to : At(s) = p /\ log[id] # s, Broadcast(to, id, p),
         \A s \in Sockets : sockets[s].open /\ At(s) = p /\ log[id] # s => s \in to,
         UNCHANGED <<stream, registry, sockets, up, pages>>
  PROVE  RInv'
<1>1. /\ Wired /\ BusTyped /\ FramesTyped /\ InOrder /\ Numbered /\ id \in Ids
      /\ faults \in 0 .. MaxFaults /\ trimmed \in 0 .. Len(log) /\ Len(log) \in Nat
      /\ up \in [Sockets -> 0 .. MaxTyped] /\ subscribed \subseteq Instances
  <2>1. TypeOK /\ Numbered /\ Wired /\ BusTyped /\ FramesTyped /\ InOrder
    BY TypedParts DEF RInv
  <2>2. Registry!TypeOK
    BY <2>1 DEF TypeOK
  <2> QED
    BY <2>1, <2>2, BusElements DEF TypeOK, Registry!TypeOK
<1>2. log' = log /\ trimmed' = trimmed /\ Ids' = Ids
  BY DEF stream, Ids
<1>3. InOrder' /\ FramesInOrder' /\ Once'
  <2>1. log' = log
    BY <1>2
  <2>2. Wired
    BY <1>1
  <2>3. Fanned(p, k, id, to)
    BY DEF Fanned
  <2> QED
    BY <2>1, <2>2, <2>3, FansOut
<1>4. FramesTyped' /\ Numbered'
  BY <1>1, BroadcastTypes
<1>5. \A s \in Sockets : sockets[s].open /\ At(s) \in subscribed /\ Coming(s) => Coming(s)'
  BY <1>1, <1>2, ComingFanned
<1>6. faults' \in 0 .. MaxFaults
  <2>1. faults' = faults \/ Fault("publish")
    BY DEF Publish
  <2> QED
    BY <1>1, <2>1, Faults
<1>7. BusTyped'
  <2>1. sending' \in [Processes -> Seq(Ids)]
    <3>1. RemoveAt(sending[p], k) \in Seq(Ids) /\ sending \in [Processes -> Seq(Ids)]
      BY <1>1, BusElements, Removed DEF BusTyped
    <3> QED
      BY <3>1 DEF TakenOut
  <2>2. lost' \subseteq Ids
    BY <1>1 DEF Publish, BusTyped
  <2>3. inbox' \in [Instances -> Seq([id : Ids, origin : Processes])]
    <3> DEFINE e == [id |-> id, origin |-> p]
    <3>1. e \in [id : Ids, origin : Processes]
      BY <1>1
    <3>2. \/ inbox' = [i \in Instances |-> IF i \in subscribed THEN Append(inbox[i], e) ELSE inbox[i]]
          \/ inbox' = inbox
      BY DEF Publish
    <3> HIDE DEF e
    <3>3. ASSUME NEW i \in Instances
          PROVE  /\ inbox[i] \in Seq([id : Ids, origin : Processes])
                 /\ Append(inbox[i], e) \in Seq([id : Ids, origin : Processes])
      <4>1. inbox[i] \in Seq([id : Ids, origin : Processes])
        BY <1>1, BusElements
      <4> QED
        BY <3>1, <4>1, Appended
    <3>4. CASE inbox' = [i \in Instances |->
                           IF i \in subscribed THEN Append(inbox[i], e) ELSE inbox[i]]
      BY <3>3, <3>4
    <3>5. CASE inbox' = inbox
      BY <1>1, <3>5 DEF BusTyped
    <3> QED
      BY <3>2, <3>4, <3>5
  <2>4. log \in Seq(Sockets \cup {Api}) /\ Len(log) <= MaxEntries
    BY <1>1 DEF BusTyped
  <2> QED
    BY <1>2, <2>1, <2>2, <2>3, <2>4 DEF BusTyped
<1>8. up' \in [Sockets -> 0 .. MaxTyped] /\ \A s \in Sockets : up'[s] <= up[s]
  BY <1>1, RelayAssumption
<1>9. Len(log) <= Len(log') /\ Len(log') \in Nat /\ trimmed' \in 0 .. Len(log')
  BY <1>1, <1>2
<1> QED
  BY <1>3, <1>4, <1>5, <1>6, <1>7, <1>8, <1>9, BusSteps

LEMMA Fanouts == ASSUME RInv, NEW i \in Instances, Fanout(i) PROVE RInv'
<1> DEFINE id == Head(sending[i])
           to == room[i] \ {log[id]}
<1>1. BusTyped /\ InRoom /\ i \in Processes
  BY TypedParts, Named DEF RInv
<1>2. /\ sending[i] # <<>> /\ sending' = [sending EXCEPT ![i] = Tail(@)]
      /\ Broadcast(to, id, i) /\ Publish(id, i)
      /\ UNCHANGED <<stream, registry, sockets, up, pages>>
  BY DEF Fanout
<1>3. 1 \in 1 .. Len(sending[i]) /\ id = sending[i][1] /\ RemoveAt(sending[i], 1) = Tail(sending[i])
  <2>1. sending[i] \in Seq(Ids)
    BY <1>1, BusElements
  <2>2. Len(sending[i]) >= 1 /\ Head(sending[i]) = sending[i][1]
    BY <1>2, <2>1, Headed
  <2>3. 1 \in 1 .. Len(sending[i])
    BY <2>1, <2>2
  <2> QED
    BY <2>1, <2>2, <2>3, Removed
<1>4. TakenOut(i, 1)
  BY <1>2, <1>3 DEF TakenOut
<1>5. /\ \A s \in to : At(s) = i /\ log[id] # s
      /\ \A s \in Sockets : sockets[s].open /\ At(s) = i /\ log[id] # s => s \in to
  BY <1>1 DEF InRoom
<1> HIDE DEF id, to
<1> QED
  BY <1>1, <1>2, <1>3, <1>4, <1>5, Fans

LEMMA ApiPublishes == ASSUME RInv, ApiPublish PROVE RInv'
<1>1. /\ BusTyped /\ FramesTyped /\ "api" \in Processes /\ "api" \notin Instances
      /\ \A s \in Sockets : At(s) \in Instances
  BY TypedParts, Named DEF RInv
<1>2. PICK k \in 1 .. Len(sending["api"]) :
        /\ TakenOut("api", k) /\ Publish(sending["api"][k], "api")
        /\ UNCHANGED <<stream, registry, sockets, up, down, pages, heard>>
  BY DEF ApiPublish, TakenOut
<1>3. Broadcast({}, sending["api"][k], "api")
  <2>1. /\ down = [s \in Sockets |-> down[s]] /\ heard = [s \in Sockets |-> heard[s]]
    BY <1>1 DEF FramesTyped
  <2> QED
    BY <1>2, <2>1 DEF Broadcast
<1> QED
  BY <1>1, <1>2, <1>3, Fans

LEMMA Deliveries == ASSUME RInv, NEW i \in Instances, Deliver(i) PROVE RInv'
<1> DEFINE id == Head(inbox[i]).id
           origin == Head(inbox[i]).origin
           to == IF origin = i THEN {} ELSE room[i]
<1>1. /\ Wired /\ BusTyped /\ FramesTyped /\ InOrder /\ Numbered /\ InRoom
      /\ faults \in 0 .. MaxFaults /\ trimmed \in 0 .. Len(log) /\ Len(log) \in Nat
      /\ up \in [Sockets -> 0 .. MaxTyped]
  <2>1. TypeOK /\ Numbered /\ Wired /\ BusTyped /\ FramesTyped /\ InOrder /\ InRoom
    BY TypedParts DEF RInv
  <2> QED
    BY <2>1, BusElements DEF TypeOK
<1>2. /\ inbox[i] # <<>> /\ Delivered(i)
      /\ UNCHANGED <<stream, registry, sockets, up, sending, pages, lost, faults>>
      /\ IF origin = i THEN UNCHANGED <<down, heard>> ELSE Broadcast(room[i], id, origin)
  BY DEF Deliver, Delivered, Skips
<1>3. log' = log /\ trimmed' = trimmed /\ Ids' = Ids
  BY <1>2 DEF stream, Ids
<1>4. Broadcast(to, id, origin)
  <2>1. /\ down = [s \in Sockets |-> down[s]] /\ heard = [s \in Sockets |-> heard[s]]
    BY <1>1 DEF FramesTyped
  <2>2. CASE origin = i
    <3>1. to = {} /\ down' = down /\ heard' = heard
      BY <1>2, <2>2
    <3> QED
      BY <2>1, <3>1 DEF Broadcast
  <2>3. CASE origin # i
    BY <1>2, <2>3
  <2> QED
    BY <2>2, <2>3
<1>5. /\ \A s \in to : At(s) = i /\ origin # i
      /\ \A s \in Sockets : sockets[s].open /\ At(s) = i /\ origin # i => s \in to
  BY <1>1 DEF InRoom
<1>6. id = Head(inbox[i]).id /\ origin = Head(inbox[i]).origin
  OBVIOUS
<1> HIDE DEF id, origin, to
<1>7. id \in Ids /\ origin \in Processes
  <2>1. id \in Ids /\ origin = Origin(log[id])
    BY <1>1, <1>2, <1>3, <1>6, Delivers
  <2> QED
    BY <1>1, <2>1, BusElements
<1>8. InOrder' /\ FramesInOrder' /\ Once'
  <2>1. /\ Wired /\ inbox[i] # <<>> /\ Delivered(i) /\ sending' = sending /\ log' = log
        /\ sockets' = sockets
    BY <1>1, <1>2, <1>3
  <2> QED
    BY <1>4, <1>5, <1>6, <2>1, Arrives
<1>9. FramesTyped' /\ Numbered'
  BY <1>1, <1>4, <1>7, BroadcastTypes
<1>10. \A s \in Sockets : sockets[s].open /\ Coming(s) => Coming(s)'
  BY <1>1, <1>2, <1>3, <1>4, <1>5, <1>6, ComingDelivered
<1>11. BusTyped'
  <2>1. Tail(inbox[i]) \in Seq([id : Ids, origin : Processes])
    BY <1>1, <1>2, BusElements, Headed
  <2>2. inbox' \in [Instances -> Seq([id : Ids, origin : Processes])]
    BY <1>1, <1>2, <2>1 DEF Delivered, BusTyped
  <2> QED
    BY <1>1, <1>2, <1>3, <2>2 DEF BusTyped
<1>12. up' \in [Sockets -> 0 .. MaxTyped] /\ \A s \in Sockets : up'[s] <= up[s]
  BY <1>1, <1>2, RelayAssumption
<1>13. /\ Len(log) <= Len(log') /\ Len(log') \in Nat /\ trimmed' \in 0 .. Len(log')
       /\ faults' \in 0 .. MaxFaults
  BY <1>1, <1>2, <1>3
<1> QED
  BY <1>2, <1>8, <1>9, <1>10, <1>11, <1>12, <1>13, BusSteps

-----------------------------------------------------------------------------
(* The theorems.                                                           *)

LEMMA Starts == ASSUME Init PROVE RInv
<1>1. /\ log = <<>> /\ trimmed = 0 /\ lost = {} /\ faults = 0
      /\ room = [i \in Instances |-> {}] /\ commands = [i \in Instances |-> <<>>]
      /\ subscribed = {}
      /\ sockets = [s \in Sockets |-> NoSocket] /\ up = [s \in Sockets |-> 0]
      /\ down = [s \in Sockets |-> <<>>] /\ sending = [p \in Processes |-> <<>>]
      /\ inbox = [i \in Instances |-> <<>>]
      /\ heard = [s \in Sockets |-> [id \in 1 .. MaxEntries |-> 0]]
  BY DEF Init, Registry!Init
<1>2. /\ Len(log) = 0 /\ Ids = {} /\ MaxEntries \in Nat /\ MaxTyped \in Nat
      /\ MaxFaults \in Nat /\ MaxConnects \in Nat
  BY <1>1, RelayAssumption DEF Ids
<1>3. NoSocket \in Socket /\ ~NoSocket.open /\ NoSocket.pc = "none" /\ NoSocket.lo = 1 /\ NoSocket.hi = 0
  BY DEF NoSocket, Socket, Cursors
<1>4. /\ pages \in [Clients -> PageState]
      /\ \A u \in Clients : ~pages[u].linked /\ pages[u].queue = 0 /\ pages[u].typed = 0
  BY <1>2 DEF Init, PageState, Cursors
<1>5. TypeOK
  <2>1. Registry!TypeOK
    BY <1>1 DEF Registry!TypeOK
  <2>2. log \in Seq(Sockets \cup {Api}) /\ Len(log) <= MaxEntries /\ trimmed \in 0 .. Len(log)
    BY <1>1, <1>2
  <2>3. sockets \in [Sockets -> Socket] /\ up \in [Sockets -> 0 .. MaxTyped]
    BY <1>1, <1>2, <1>3
  <2>4. /\ down \in [Sockets -> Seq(Frame)] /\ sending \in [Processes -> Seq(Ids)]
        /\ inbox \in [Instances -> Seq([id : Ids, origin : Processes])]
    BY <1>1
  <2>5. heard \in [Sockets -> [1 .. MaxEntries -> Nat]] /\ lost \subseteq Ids /\ faults \in 0 .. MaxFaults
    BY <1>1, <1>2
  <2> QED
    BY <1>4, <2>1, <2>2, <2>3, <2>4, <2>5 DEF TypeOK
<1>6. Bounded
  <2>1. \A s \in Sockets : Page(s) \in Clients
    BY Named
  <2> QED
    BY <1>1, <1>4, <2>1 DEF Bounded
<1>7. Placed
  BY <1>1, <1>2, <1>3 DEF Placed
<1>8. Numbered /\ InOrder /\ FramesInOrder
  BY <1>1 DEF Numbered, InOrder, FramesInOrder
<1>9. Once
  BY <1>1 DEF Once
<1>10. InRoom /\ Heeding
  BY <1>1, <1>3 DEF InRoom, Heeding
<1> QED
  BY <1>5, <1>6, <1>7, <1>8, <1>9, <1>10 DEF RInv

LEMMA Fails == ASSUME RInv, NEW s \in Sockets, XaddFails(s) PROVE RInv'
<1>1. faults' \in 0 .. MaxFaults
  BY Faults DEF RInv, TypeOK, XaddFails
<1> QED
  BY <1>1, Drops DEF XaddFails

LEMMA Stutters == ASSUME RInv, UNCHANGED vars PROVE RInv'
<1>1. /\ UNCHANGED <<stream, registry, sockets, up, down, sending, inbox, pages, heard, lost, faults>>
      /\ UNCHANGED <<log, trimmed, room, commands, subscribed>>
  BY DEF vars, stream, registry
<1>2. Registry!TypeOK' <=> Registry!TypeOK
  BY <1>1 DEF Registry!TypeOK
<1>3. TypeOK' <=> TypeOK
  BY <1>1, <1>2 DEF TypeOK, Ids
<1>4. /\ Bounded' <=> Bounded
      /\ Placed' <=> Placed
      /\ Numbered' <=> Numbered
  BY <1>1 DEF Bounded, Placed, Numbered
<1>5. InOrder' <=> InOrder
  BY <1>1 DEF InOrder
<1>6. FramesInOrder' <=> FramesInOrder
  BY <1>1 DEF FramesInOrder
<1>7. Once' <=> Once
  BY <1>1 DEF Once, Ids, Pending, Posted
<1>8. InRoom' <=> InRoom
  BY <1>1 DEF InRoom
<1>9. Heeding' <=> Heeding
  BY <1>1 DEF Heeding, Coming, Ids, Pending, Posted
<1> QED
  BY <1>3, <1>4, <1>5, <1>6, <1>7, <1>8, <1>9 DEF RInv

LEMMA Steps == ASSUME RInv, [Next]_vars PROVE RInv'
<1>1. CASE Browser
  BY <1>1, Loads, Connects, Types, Receives, Closes DEF Browser
<1>2. ASSUME NEW s \in Sockets, Handler(s) PROVE RInv'
  BY <1>2, Xinfos, Xranges, Replays, ReplaysFail, HangsUp, Messages, Fails DEF Handler
<1>3. ASSUME NEW i \in Instances, Process(i) PROVE RInv'
  BY <1>3, Subscribes, SubscribesFail, Fanouts, Deliveries, Crashes DEF Process
<1>4. CASE Post
  BY <1>4, Posts
<1>5. CASE ApiPublish
  BY <1>5, ApiPublishes
<1>6. CASE UNCHANGED vars
  BY <1>6, Stutters
<1> QED
  BY <1>1, <1>2, <1>3, <1>4, <1>5, <1>6 DEF Next

\* However frames, bus messages, answers of Redis, closes, crashes and failures
\* interleave: an entry is broadcast by its own process, once and in order; a
\* socket that has been sent an entry is not going to be sent it again; and an
\* open socket whose instance was subscribed for good at its replay misses
\* nothing that is not lost.
THEOREM RelayHolds == Spec => []RInv
  BY Starts, Steps, PTL DEF Spec

\* Every id that a process, a bus message or a frame carries is that of an entry,
\* every cursor is an id, and the hello frame of a page without one carries 0-0.
THEOREM TypeCorrect == Spec => []TypeOK
<1>1. RInv => TypeOK
  BY DEF RInv
<1> QED
  BY <1>1, RelayHolds, PTL

\* The local fan-out, which leaves out the sender, and the subscriber, which
\* skips the frames of its own instance (server.ts, bus.ts), between them send a
\* socket every entry at most once, and its own entries never.
THEOREM SentOnce == Spec => []EachOnce
<1>1. RInv => EachOnce
  <2> SUFFICES ASSUME RInv, NEW s \in Sockets, NEW id \in Ids
               PROVE  heard[s][id] <= (IF log[id] = s THEN 0 ELSE 1)
    BY DEF EachOnce
  <2>1. id \in 1 .. MaxEntries
    BY TypedParts, BusElements, RelayAssumption DEF RInv, BusTyped, Ids
  <2>2. heard[s][id] \in {0, 1} /\ (heard[s][id] = 1 => log[id] # s)
    BY <2>1 DEF RInv, Once
  <2> QED
    BY <2>2
<1> QED
  BY <1>1, RelayHolds, PTL

\* The entries of one ws instance reach a socket in the order of the stream,
\* past the awaits of XADD and PUBLISH and through the bus.
THEOREM FramesOrdered == Spec => []OriginOrder
<1>1. RInv => OriginOrder
  BY DEF RInv, FramesInOrder, OriginOrder
<1> QED
  BY <1>1, RelayHolds, PTL

\* Between the XRANGE of a replay and the live frames no entry falls through,
\* if the instance was subscribed with no command under way at the XRANGE: what
\* the socket has neither replayed nor heard is on its way to it, or was lost
\* with a crash or a failed PUBLISH.
THEOREM ReplayMeets == Spec => []ReplayMeetsLive
<1>1. RInv => ReplayMeetsLive
  <2> SUFFICES ASSUME RInv, NEW s \in Sockets, Listening(s), sockets[s].heeds,
                      NEW id \in Ids, id >= sockets[s].lo, log[id] # s
               PROVE  \/ id <= sockets[s].hi \/ heard[s][id] > 0
                      \/ UnderWay(id, At(s)) \/ id \in lost
    BY DEF ReplayMeetsLive, NoGap
  <2>1. Coming(s)
    BY DEF RInv, Heeding, Listening
  <2>2. id \in Nat /\ sockets[s].hi \in Nat
    BY SocketElements DEF RInv, TypeOK, Ids
  <2>3. Pending(id) \/ Posted(id, At(s)) => UnderWay(id, At(s))
    BY DEF Pending, Posted, UnderWay
  <2> QED
    BY <2>1, <2>2, <2>3 DEF Coming
<1> QED
  BY <1>1, RelayHolds, PTL

-----------------------------------------------------------------------------
(* From the sockets to the pages.                                          *)

\* The page has opened the socket.
Used(p, s) == s[2] <= p[Page(s)].n

\* A socket that no page has opened has no handler and has heard nothing.
Unused ==
  \A s \in Sockets : ~Used(pages, s) =>
    sockets[s].pc = "none" /\ \A id \in 1 .. MaxEntries : heard[s][id] = 0

\* An instance sends commands on behalf of its own sockets.
Sends(p, i, c) == At(c.by) = i /\ Used(p, c.by)
Asked ==
  \A i \in Instances : \A k \in 1 .. Len(commands[i]) :
    Sends(pages, i, commands[i][k])

\* What was broadcast to a socket or read for it from the stream.
Owed(s, id) ==
  \/ heard[s][id] > 0
  \/ sockets[s].pc = "ready" /\ id >= sockets[s].lo /\ id <= sockets[s].hi

\* It is shown, or on its way.
Given(u, id) == id \in pages[u].have \/ InFrame(Current(u), id)
GivenAt(u) ==
  pages[u].linked /\ sockets[Current(u)].open =>
    \A id \in 1 .. MaxEntries : Owed(Current(u), id) => Given(u, id)
AllGiven == \A u \in Clients : GivenAt(u)

PInv == Unused /\ Asked /\ AllGiven

LEMMA Numbers ==
  /\ \A s \in Sockets : s[2] \in 1 .. MaxConnects /\ s = <<Page(s), s[2]>>
  /\ \A p \in [Clients -> PageState] : \A u \in Clients : p[u].n \in Nat /\ p[u].linked \in BOOLEAN
  /\ MaxConnects \in Nat
  BY RelayAssumption DEF Sockets, Page, PageState

\* Sockets are opened, never the same again.
Opens == \A u \in Clients : pages[u].n <= pages'[u].n

LEMMA UsedStays ==
  ASSUME TypeOK, TypeOK', Opens, NEW s \in Sockets, Used(pages, s)
  PROVE  Used(pages', s)
<1>1. /\ Page(s) \in Clients /\ s[2] \in Nat
      /\ pages[Page(s)].n \in Nat /\ pages'[Page(s)].n \in Nat
      /\ pages[Page(s)].n <= pages'[Page(s)].n
  <2>1. pages \in [Clients -> PageState] /\ pages' \in [Clients -> PageState]
    BY DEF TypeOK
  <2> QED
    BY <2>1, Numbers, SocketsOf DEF Opens
<1> QED
  BY <1>1 DEF Used

LEMMA UnusedStays ==
  ASSUME TypeOK, TypeOK', RInv, Unused, Opens,
         \A s \in Sockets : sockets'[s].pc = sockets[s].pc \/ Used(pages', s),
         \A s \in Sockets : sockets[s].open \/ heard'[s] = heard[s]
  PROVE  Unused'
<1> SUFFICES ASSUME NEW s \in Sockets, ~Used(pages', s)
             PROVE  sockets'[s].pc = "none" /\ \A id \in 1 .. MaxEntries : heard'[s][id] = 0
  BY DEF Unused
<1>1. ~Used(pages, s)
  BY UsedStays
<1>2. sockets[s].pc = "none" /\ \A id \in 1 .. MaxEntries : heard[s][id] = 0
  BY <1>1 DEF Unused
<1>3. ~sockets[s].open
  BY <1>2 DEF RInv, InRoom
<1> QED
  BY <1>2, <1>3

\* The commands under way are some that were, or are sent for s.
Asks(s) ==
  \A i \in Instances : \A k \in 1 .. Len(commands'[i]) :
    \/ \E l \in 1 .. Len(commands[i]) : commands'[i][k] = commands[i][l]
    \/ i = At(s) /\ commands'[i][k].by = s

LEMMA CommandElements ==
  ASSUME Registry!TypeOK, NEW i \in Instances
  PROVE  /\ commands[i] \in Seq(Registry!Command) /\ Len(commands[i]) \in Nat
         /\ \A k \in 1 .. Len(commands[i]) : commands[i][k] \in Registry!Command
                                             /\ commands[i][k].by \in Sockets
<1>1. commands[i] \in Seq(Registry!Command)
  BY RegistryElements
<1>2. Len(commands[i]) \in Nat /\ \A k \in 1 .. Len(commands[i]) : commands[i][k] \in Registry!Command
  BY <1>1, Elements
<1> QED
  BY <1>1, <1>2 DEF Registry!Command

LEMMA AskedStays ==
  ASSUME TypeOK, TypeOK', Asked, Opens, NEW s,
         commands' = commands \/ (Asks(s) /\ Used(pages', s))
  PROVE  Asked'
<1>1. Registry!TypeOK
  BY DEF TypeOK
<1> SUFFICES ASSUME NEW i \in Instances, NEW k \in 1 .. Len(commands'[i])
             PROVE  Sends(pages', i, commands'[i][k])
  BY DEF Asked
<1>2. PICK c : c = commands'[i][k]
  OBVIOUS
<1>3. ASSUME NEW l \in 1 .. Len(commands[i]), c = commands[i][l]
      PROVE  Sends(pages', i, c)
  <2>1. c.by \in Sockets /\ Sends(pages, i, c)
    BY <1>1, <1>3, CommandElements DEF Asked
  <2> QED
    BY <2>1, UsedStays DEF Sends
<1>4. CASE commands' = commands
  BY <1>2, <1>3, <1>4
<1>5. ASSUME Asks(s), Used(pages', s) PROVE Sends(pages', i, c)
  <2>1. CASE i = At(s) /\ c.by = s
    BY <1>5, <2>1 DEF Sends
  <2>2. CASE \E l \in 1 .. Len(commands[i]) : c = commands[i][l]
    BY <1>3, <2>2
  <2> QED
    BY <1>2, <1>5, <2>1, <2>2 DEF Asks
<1> QED
  BY <1>2, <1>4, <1>5

\* Frames are put behind those on their way.
Grown == \A r \in Sockets : \A k \in 1 .. Len(down[r]) :
           k \in 1 .. Len(down'[r]) /\ down'[r][k] = down[r][k]

LEMMA GrownFrames ==
  ASSUME Grown, NEW s \in Sockets, NEW id, InFrame(s, id)
  PROVE  InFrame(s, id)'
<1>1. PICK k \in 1 .. Len(down[s]) : down[s][k].t = "entry" /\ down[s][k].id = id
  BY DEF InFrame
<1>2. k \in 1 .. Len(down'[s]) /\ down'[s][k].t = "entry" /\ down'[s][k].id = id
  BY <1>1 DEF Grown
<1> QED
  BY <1>2 DEF InFrame

LEMMA PushGrows ==
  ASSUME FramesTyped, NEW s \in Sockets, NEW T, NEW frames \in Seq(T), Push(s, frames)
  PROVE  /\ Grown
         /\ \A k \in 1 .. Len(frames) :
              Len(down[s]) + k \in 1 .. Len(down'[s]) /\ down'[s][Len(down[s]) + k] = frames[k]
<1> DEFINE S == Frame \cup T
<1>1. down[s] \in Seq(S) /\ frames \in Seq(S)
  <2>1. down[s] \in Seq(Frame)
    BY FrameElements
  <2> QED
    BY <2>1, Widened
<1> HIDE DEF S
<1>2. /\ Len(down[s] \o frames) = Len(down[s]) + Len(frames)
      /\ \A k \in 1 .. Len(down[s]) : (down[s] \o frames)[k] = down[s][k]
      /\ \A k \in 1 .. Len(frames) : (down[s] \o frames)[Len(down[s]) + k] = frames[k]
      /\ Len(down[s]) \in Nat /\ Len(frames) \in Nat
  BY <1>1, Joint, Elements
<1>3. down'[s] = down[s] \o frames /\ \A r \in Sockets : r # s => down'[r] = down[r]
  BY DEF Push, FramesTyped
<1>4. \A k \in 1 .. Len(down[s]) : k \in 1 .. Len(down'[s]) /\ down'[s][k] = down[s][k]
  BY <1>2, <1>3
<1>5. \A k \in 1 .. Len(frames) :
        Len(down[s]) + k \in 1 .. Len(down'[s]) /\ down'[s][Len(down[s]) + k] = frames[k]
  BY <1>2, <1>3
<1>6. Grown
  BY <1>3, <1>4 DEF Grown
<1> QED
  BY <1>5, <1>6

\* What a page has been owed it was given; it is given what it is owed anew.
Still(u) ==
  /\ pages'[u].n = pages[u].n /\ (pages'[u].linked => pages[u].linked)
  /\ sockets'[Current(u)].open => sockets[Current(u)].open
  /\ \A id \in 1 .. MaxEntries :
       /\ Given(u, id) => Given(u, id)'
       /\ Owed(Current(u), id)' => Owed(Current(u), id) \/ Given(u, id)'

LEMMA StillArrives ==
  ASSUME NEW u \in Clients, GivenAt(u), Still(u) \/ ~pages'[u].linked
  PROVE  GivenAt(u)'
<1>1. CASE ~pages'[u].linked
  BY <1>1 DEF GivenAt
<1>2. CASE Still(u)
  <2>1. Current(u)' = Current(u)
    BY <1>2 DEF Still, Current
  <2> SUFFICES ASSUME pages'[u].linked, sockets'[Current(u)].open,
                      NEW id \in 1 .. MaxEntries, Owed(Current(u), id)'
               PROVE  Given(u, id)'
    BY <2>1 DEF GivenAt
  <2> QED
    BY <1>2 DEF Still, GivenAt
<1> QED
  BY <1>1, <1>2

LEMMA RelayTyped == RInv => /\ TypeOK /\ BusTyped /\ FramesTyped /\ Registry!TypeOK
                            /\ sockets \in [Sockets -> Socket] /\ pages \in [Clients -> PageState]
  BY TypedParts DEF RInv, TypeOK

\* The handlers, the sockets and what the pages show are as they were.
LEMMA AsideArrives ==
  ASSUME RInv, TypeOK', PInv, UNCHANGED <<commands, sockets, down, heard>>,
         \A u \in Clients : /\ pages'[u].n = pages[u].n /\ pages'[u].linked = pages[u].linked
                            /\ pages'[u].have = pages[u].have
  PROVE  PInv'
<1>1. TypeOK /\ Opens
  <2>1. \A u \in Clients : pages[u].n \in Nat
    BY RelayTyped, Numbers
  <2> QED
    BY <2>1, RelayTyped DEF Opens
<1>2. Unused'
  BY <1>1, UnusedStays DEF PInv
<1>3. Asked'
  BY <1>1, AskedStays DEF PInv
<1>4. ASSUME NEW u \in Clients PROVE Still(u)
  <2>1. Current(u)' = Current(u)
    BY DEF Current
  <2> QED
    BY <2>1 DEF Still, Given, Owed, InFrame
<1> QED
  BY <1>2, <1>3, <1>4, StillArrives DEF PInv, AllGiven

\* A step of the handler of a socket: it opens none, it sends no frame but behind
\* the others, and what it has read from the stream is among them.
LEMMA HandlerArrives ==
  ASSUME RInv, TypeOK', PInv, UNCHANGED <<pages, heard>>, NEW s \in Sockets, NEW q \in Socket,
         Set(s, q), q.open => sockets[s].open, Used(pages, s), commands' = commands \/ Asks(s), Grown,
         \A id \in 1 .. MaxEntries :
           q.open /\ q.pc = "ready" /\ id >= q.lo /\ id <= q.hi =>
             Owed(s, id) \/ InFrame(s, id)'
  PROVE  PInv'
<1>1. /\ TypeOK /\ Opens
      /\ sockets'[s] = q /\ \A r \in Sockets : r # s => sockets'[r] = sockets[r]
  <2>1. \A u \in Clients : pages[u].n \in Nat
    BY RelayTyped, Numbers
  <2> QED
    BY <2>1, RelayTyped, Sets DEF Opens
<1>2. Used(pages', s)
  OBVIOUS
<1>3. Unused'
  BY <1>1, <1>2, UnusedStays DEF PInv
<1>4. Asked'
  BY <1>1, <1>2, AskedStays DEF PInv
<1>5. ASSUME NEW u \in Clients, pages[u].linked PROVE GivenAt(u)'
  <2>1. Current(u) \in Sockets /\ Current(u)' = Current(u) /\ GivenAt(u)
    BY <1>5, SocketsOf DEF Current, RInv, PInv, AllGiven
  <2>2. PICK r \in Sockets : r = Current(u)
    BY <2>1
  <2>3. \A id \in 1 .. MaxEntries : InFrame(r, id) => InFrame(r, id)'
    BY GrownFrames
  <2>4. \A id \in 1 .. MaxEntries : sockets'[r].open /\ Owed(r, id)' => Owed(r, id) \/ InFrame(r, id)'
    BY <1>1 DEF Owed
  <2>5. sockets'[r].open => sockets[r].open
    BY <1>1
  <2> QED
    BY <1>5, <2>1, <2>2, <2>3, <2>4, <2>5 DEF GivenAt, Given
<1>6. ASSUME NEW u \in Clients, ~pages[u].linked PROVE GivenAt(u)'
  BY <1>6 DEF GivenAt
<1> QED
  BY <1>3, <1>4, <1>5, <1>6 DEF PInv, AllGiven

LEMMA RoomAsks ==
  ASSUME Registry!TypeOK, NEW s \in Sockets,
         Registry!Join(At(s), s) \/ Registry!Leave(At(s), s) \/ UNCHANGED commands
  PROVE  Asks(s)
<1>1. CASE commands' = commands
  BY <1>1 DEF Asks
<1>2. ASSUME NEW op, Registry!Send(At(s), op, s) PROVE Asks(s)
  <2> DEFINE c == [op |-> op, by |-> s]
  <2>1. /\ commands'[At(s)] = Append(commands[At(s)], c) /\ c.by = s
        /\ \A i \in Instances : i # At(s) => commands'[i] = commands[i]
        /\ At(s) \in Instances
    BY <1>2, Named DEF Registry!Send, Registry!TypeOK
  <2>2. PICK q : q = commands[At(s)]
    OBVIOUS
  <2>3. q \in Seq(Registry!Command) /\ Len(q) \in Nat
    BY <2>1, <2>2, CommandElements
  <2> HIDE DEF c
  <2>4. \A k \in 1 .. Len(Append(q, c)) :
          (k \in 1 .. Len(q) /\ Append(q, c)[k] = q[k]) \/ Append(q, c)[k] = c
    BY <2>3
  <2>5. ASSUME NEW i \in Instances, NEW k \in 1 .. Len(commands'[i])
        PROVE  \/ \E l \in 1 .. Len(commands[i]) : commands'[i][k] = commands[i][l]
               \/ i = At(s) /\ commands'[i][k].by = s
    <3>1. CASE i # At(s)
      BY <2>1, <2>5, <3>1
    <3>2. CASE i = At(s)
      BY <2>1, <2>2, <2>4, <2>5, <3>2
    <3> QED
      BY <3>1, <3>2
  <2> QED
    BY <2>5 DEF Asks
<1> QED
  BY <1>1, <1>2 DEF Registry!Join, Registry!Leave

LEMMA RedisAsks ==
  ASSUME Registry!TypeOK, NEW i \in Instances, NEW s,
         Registry!Reply(i) \/ Registry!Refuse(i) \/ Registry!Lose(i)
  PROVE  Asks(s)
<1> SUFFICES ASSUME NEW j \in Instances, NEW k \in 1 .. Len(commands'[j])
             PROVE  \E l \in 1 .. Len(commands[j]) : commands'[j][k] = commands[j][l]
  BY DEF Asks
<1>1. CASE commands[i] # <<>> /\ commands' = [commands EXCEPT ![i] = Tail(@)]
  <2>1. CASE j # i
    BY <1>1, <2>1 DEF Registry!TypeOK
  <2>2. CASE j = i
    <3>1. PICK q : q = commands[i]
      OBVIOUS
    <3>2. q \in Seq(Registry!Command) /\ q # <<>>
      BY <1>1, <3>1, CommandElements
    <3>3. commands'[j] = Tail(q)
      BY <1>1, <2>2, <3>1 DEF Registry!TypeOK
    <3>4. \A m \in 1 .. Len(Tail(q)) : m + 1 \in 1 .. Len(q) /\ Tail(q)[m] = q[m + 1]
      BY <3>2, Headed, Elements
    <3> QED
      BY <2>2, <3>1, <3>3, <3>4
  <2> QED
    BY <2>1, <2>2
<1>2. CASE commands' = [commands EXCEPT ![i] = <<>>]
  BY <1>2 DEF Registry!TypeOK
<1> QED
  BY <1>1, <1>2 DEF Registry!Reply, Registry!Refuse, Registry!Lose

LEMMA BusyIsUsed ==
  ASSUME PInv, NEW s \in Sockets, sockets[s].pc # "none" \/ sockets[s].open, RInv
  PROVE  Used(pages, s)
<1>1. sockets[s].pc # "none"
  BY DEF RInv, InRoom
<1> QED
  BY <1>1 DEF PInv, Unused

LEMMA SameGrown == UNCHANGED down => Grown
  BY DEF Grown

LEMMA OneFrame == ASSUME NEW f PROVE <<f>> \in Seq({f}) /\ <<>> \in Seq({f})
  OBVIOUS

LEMMA XinfoArrives == ASSUME RInv, RInv', PInv, NEW s \in Sockets, Xinfo(s) PROVE PInv'
<1> DEFINE over == [sockets[s] EXCEPT !.pc = "over", !.open = FALSE]
           next == [sockets[s] EXCEPT !.pc = "xrange"]
           frames == IF sockets[s].open THEN <<Note("reload", 0)>> ELSE <<>>
<1>1. /\ TypeOK' /\ FramesTyped /\ sockets[s] \in Socket /\ sockets[s].open \in BOOLEAN
      /\ Used(pages, s) /\ UNCHANGED <<pages, heard, commands>>
      /\ \/ Push(s, frames) /\ Set(s, over)
         \/ Set(s, next) /\ UNCHANGED down
  BY RelayTyped, SocketElements, BusyIsUsed DEF Xinfo, RInv, registry
<1>2. /\ over \in Socket /\ over.open = FALSE
      /\ next \in Socket /\ next.open = sockets[s].open /\ next.pc = "xrange"
  BY <1>1 DEF Socket
<1>3. frames \in Seq({Note("reload", 0)})
  BY OneFrame
<1> HIDE DEF over, next, frames
<1>4. CASE Push(s, frames) /\ Set(s, over)
  <2>1. Grown
    BY <1>1, <1>3, <1>4, PushGrows
  <2> QED
    BY <1>1, <1>2, <1>4, <2>1, HandlerArrives
<1>5. CASE Set(s, next) /\ UNCHANGED down
  BY <1>1, <1>2, <1>5, SameGrown, HandlerArrives
<1> QED
  BY <1>1, <1>4, <1>5

LEMMA XrangeArrives == ASSUME RInv, RInv', PInv, NEW s \in Sockets, Xrange(s) PROVE PInv'
<1> DEFINE low == (IF trimmed > sockets[s].since THEN trimmed ELSE sockets[s].since) + 1
           q == [sockets[s] EXCEPT !.pc = "send", !.heeds = Heeds(At(s)),
                                   !.lo = low, !.hi = Len(log)]
<1>1. low \in Nat /\ Len(log) \in Nat
  <2>1. sockets[s].since \in Cursors /\ trimmed \in Nat /\ Len(log) \in Nat
    BY RelayTyped, SocketElements, BusElements DEF RInv, TypeOK
  <2>2. sockets[s].since # NoCursor
    BY DEF RInv, Placed, Xrange
  <2> QED
    BY <2>1, <2>2, RelayAssumption DEF Cursors
<1>2. /\ TypeOK' /\ FramesTyped /\ sockets[s] \in Socket /\ Heeds(At(s)) \in BOOLEAN
      /\ Used(pages, s) /\ UNCHANGED <<pages, heard, commands, down>>
  BY RelayTyped, SocketElements, BusyIsUsed, Flags DEF Xrange, RInv, registry
<1>3. Set(s, q)
  BY DEF Xrange
<1> HIDE DEF low
<1>4. q \in Socket /\ q.open = sockets[s].open /\ q.pc = "send"
  BY <1>1, <1>2 DEF Socket
<1> HIDE DEF q
<1> QED
  BY <1>2, <1>3, <1>4, SameGrown, HandlerArrives

LEMMA ReplayFailArrives == ASSUME RInv, RInv', PInv, NEW s \in Sockets, ReplayFails(s) PROVE PInv'
<1> DEFINE q == [sockets[s] EXCEPT !.pc = "over", !.open = FALSE]
<1>1. /\ TypeOK' /\ sockets[s] \in Socket /\ Set(s, q)
      /\ Used(pages, s) /\ UNCHANGED <<pages, heard, commands, down>>
  BY RelayTyped, SocketElements, BusyIsUsed DEF ReplayFails, RInv, registry
<1>2. q \in Socket /\ q.open = FALSE
  BY <1>1 DEF Socket
<1> HIDE DEF q
<1> QED
  BY <1>1, <1>2, SameGrown, HandlerArrives

LEMMA CloseArrives == ASSUME RInv, RInv', PInv, NEW s \in Sockets, Close(s) PROVE PInv'
<1> DEFINE q == [sockets[s] EXCEPT !.open = FALSE, !.gone = TRUE]
<1>1. /\ TypeOK' /\ sockets[s] \in Socket /\ Set(s, q) /\ Registry!TypeOK
      /\ Used(pages, s) /\ UNCHANGED <<pages, heard, down>>
      /\ Registry!Leave(At(s), s) \/ UNCHANGED commands
  BY RelayTyped, SocketElements, BusyIsUsed DEF Close, RInv
<1>2. q \in Socket /\ q.open = FALSE
  BY <1>1 DEF Socket
<1> HIDE DEF q
<1>3. Asks(s)
  BY <1>1, RoomAsks
<1> QED
  BY <1>1, <1>2, <1>3, SameGrown, HandlerArrives

LEMMA SendReplayArrives == ASSUME RInv, RInv', PInv, NEW s \in Sockets, SendReplay(s) PROVE PInv'
<1> DEFINE old == sockets[s]
           n == old.hi - old.lo + 1
           Entry(k) == [t |-> "entry", id |-> old.lo + k - 1, live |-> "replay"]
           entries == [k \in 1 .. n |-> Entry(k)]
           last == IF old.lo <= old.hi THEN old.hi ELSE old.since
           all == Append(entries, Note("done", last))
           q == [old EXCEPT !.pc = "ready"]
<1>1. /\ TypeOK' /\ FramesTyped /\ old \in Socket /\ old.open \in BOOLEAN
      /\ old.lo \in Nat /\ old.hi \in Nat /\ old.lo >= 1
      /\ Used(pages, s) /\ UNCHANGED <<pages, heard, commands>>
      /\ Push(s, IF old.open THEN all ELSE <<>>) /\ Set(s, q)
  BY RelayTyped, SocketElements, BusyIsUsed DEF SendReplay, RInv, Placed, registry
<1>2. /\ q \in Socket /\ q.pc = "ready" /\ q.open = old.open /\ q.lo = old.lo /\ q.hi = old.hi
  BY <1>1 DEF Socket
<1>3. PICK T : /\ all \in Seq(T)
               /\ \A k \in 1 .. n : k \in 1 .. Len(all) /\ all[k] = Entry(k)
  <2> DEFINE done == Note("done", last)
             T == {Entry(k) : k \in 1 .. n} \cup {done}
             m == IF n >= 0 THEN n ELSE 0
  <2>1. m \in Nat /\ n \in Int /\ 1 .. n = 1 .. m
    BY <1>1
  <2>2. \A k \in 1 .. n : entries[k] = Entry(k) /\ Entry(k) \in T
    OBVIOUS
  <2>3. entries \in [1 .. m -> T] /\ done \in T
    BY <2>1, <2>2
  <2>4. all = Append(entries, done)
    OBVIOUS
  <2> HIDE DEF T, entries, m, n, done, all
  <2>5. entries \in Seq(T) /\ Len(entries) = m
    BY <2>1, <2>3
  <2>6. all \in Seq(T) /\ Len(all) = m + 1 /\ \A k \in 1 .. m : all[k] = entries[k]
    BY <2>3, <2>4, <2>5, Appended
  <2>7. \A k \in 1 .. n : k \in 1 .. Len(all) /\ all[k] = entries[k]
    BY <2>1, <2>6
  <2> HIDE DEF Entry
  <2>8. \A k \in 1 .. n : k \in 1 .. Len(all) /\ all[k] = Entry(k)
    BY <2>2, <2>7
  <2> QED
    BY <2>6, <2>8
<1> HIDE DEF q, all
<1>4. CASE old.open
  <2>1. Push(s, all)
    BY <1>1, <1>4
  <2>2. /\ Grown
        /\ \A k \in 1 .. Len(all) :
             Len(down[s]) + k \in 1 .. Len(down'[s]) /\ down'[s][Len(down[s]) + k] = all[k]
    BY <1>1, <1>3, <2>1, PushGrows
  <2>3. ASSUME NEW id \in 1 .. MaxEntries, id >= q.lo, id <= q.hi
        PROVE  InFrame(s, id)'
    <3> DEFINE k == id - old.lo + 1
    <3>1. k \in 1 .. n /\ old.lo + k - 1 = id
      <4>1. id \in Nat /\ id >= old.lo /\ id <= old.hi
        BY <1>2, <2>3
      <4>2. PICK low \in Nat, high \in Nat : low = old.lo /\ high = old.hi
        BY <1>1
      <4>3. id - low + 1 \in 1 .. high - low + 1 /\ low + (id - low + 1) - 1 = id
        BY <4>1, <4>2
      <4> QED
        BY <4>2, <4>3
    <3> HIDE DEF k, n
    <3>3. Entry(k).t = "entry" /\ Entry(k).id = id
      BY <3>1
    <3>2. /\ Len(down[s]) + k \in 1 .. Len(down'[s])
          /\ down'[s][Len(down[s]) + k] = Entry(k)
      BY <1>3, <2>2, <3>1
    <3> QED
      BY <3>2, <3>3 DEF InFrame
  <2> QED
    BY <1>1, <1>2, <2>2, <2>3, HandlerArrives
<1>5. CASE ~old.open
  <2>1. Push(s, <<>>) /\ <<>> \in Seq({})
    BY <1>1, <1>5
  <2>2. Grown
    BY <1>1, <2>1, PushGrows
  <2> QED
    BY <1>1, <1>2, <1>5, <2>2, HandlerArrives
<1> QED
  BY <1>1, <1>4, <1>5

\* rooms.join has returned: the socket has read nothing.
Welcomed(s, socket, q) ==
  /\ Set(s, q) /\ q.open = socket.open /\ q.lo > q.hi
  /\ q.since = socket.since /\ q.heeds = Heeds(At(s))
  /\ q.pc \in {"ready", "xrange", "xinfo"} /\ (socket.since = NoCursor => q.pc = "ready")

LEMMA JoinedFacts ==
  ASSUME BusTyped, FramesTyped, NEW s \in Sockets, NEW socket \in Socket, Joined(s, socket)
  PROVE  Grown /\ \E q \in Socket : Welcomed(s, socket, q)
<1> DEFINE q == AfterJoin(socket, Heeds(At(s)))
           note == Note("hello", HelloId(socket.since))
           frames == IF socket.open THEN <<note>> ELSE <<>>
<1>1. Set(s, q) /\ Push(s, frames)
  BY DEF Joined, AfterJoin
<1>2. /\ q \in Socket /\ q.open = socket.open /\ q.since = socket.since
      /\ q.lo = Len(log) + 1 /\ q.hi = Len(log) /\ q.heeds = Heeds(At(s))
      /\ q.pc \in {"ready", "xrange", "xinfo"} /\ Len(log) \in Nat
  BY Flags, JoinedSocket, BusElements
<1>3. socket.since = NoCursor => q.pc = "ready"
  <2> DEFINE pc == CASE socket.since = NoCursor -> "ready"
                     [] socket.since = 0 -> "xrange"
                     [] OTHER -> "xinfo"
  <2>1. socket.since = NoCursor => pc = "ready"
    BY DEF NoCursor
  <2>2. q = [socket EXCEPT !.pc = pc, !.lo = Len(log) + 1, !.hi = Len(log),
                           !.heeds = Heeds(At(s))]
    BY DEF AfterJoin
  <2> HIDE DEF pc, q
  <2>3. q.pc = pc
    BY <2>2 DEF Socket
  <2> QED
    BY <2>1, <2>3
<1> HIDE DEF q, note
<1>4. frames \in Seq({note})
  BY OneFrame
<1> HIDE DEF frames
<1>5. Grown
  BY <1>1, <1>4, PushGrows
<1>6. q.lo > q.hi
  BY <1>2
<1> QED
  BY <1>1, <1>2, <1>3, <1>5, <1>6 DEF Welcomed

LEMMA SubscribedArrives == ASSUME RInv, RInv', PInv, NEW i \in Instances, Subscribed(i) PROVE PInv'
<1> DEFINE s == Head(commands[i]).by
<1>1. /\ TypeOK' /\ BusTyped /\ FramesTyped /\ Registry!TypeOK
      /\ sockets \in [Sockets -> Socket]
      /\ Registry!Reply(i) /\ room' = room /\ UNCHANGED <<pages, heard>>
      /\ Joined(s, sockets[s]) \/ UNCHANGED <<sockets, down>>
  BY RelayTyped DEF Subscribed, RInv
<1>2. s \in Sockets /\ Used(pages, s) /\ Asks(s)
  <2>1. commands[i] # <<>>
    BY <1>1, Answers
  <2>2. commands[i] \in Seq(Registry!Command) /\ Len(commands[i]) \in Nat
    BY <1>1, CommandElements
  <2>3. 1 \in 1 .. Len(commands[i]) /\ Head(commands[i]) = commands[i][1]
    BY <2>1, <2>2, Headed
  <2>4. s \in Sockets /\ Used(pages, s)
    BY <1>1, <2>3, CommandElements DEF PInv, Asked, Sends
  <2> QED
    BY <1>1, <2>4, RedisAsks
<1> HIDE DEF s
<1>3. CASE Joined(s, sockets[s])
  <2>1. Grown
    BY <1>1, <1>2, <1>3, JoinedFacts
  <2>2. sockets[s] \in Socket
    BY <1>1, <1>2
  <2>3. PICK q \in Socket : Welcomed(s, sockets[s], q)
    BY <1>1, <1>2, <1>3, <2>2, JoinedFacts
  <2>4. Set(s, q) /\ q.open = sockets[s].open /\ q.lo > q.hi /\ q.lo \in Nat /\ q.hi \in Nat
    BY <2>3 DEF Socket, Welcomed
  <2>5. \A id \in 1 .. MaxEntries : ~(id >= q.lo /\ id <= q.hi)
    BY <2>4
  <2> QED
    BY <1>1, <1>2, <2>1, <2>4, <2>5, HandlerArrives
<1>4. CASE UNCHANGED <<sockets, down>>
  <2>1. Set(s, sockets[s]) /\ sockets[s] \in Socket
    BY <1>1, <1>2, <1>4 DEF Set
  <2> QED
    BY <1>1, <1>2, <1>4, <2>1, SameGrown, HandlerArrives DEF Owed
<1> QED
  BY <1>1, <1>3, <1>4

LEMMA SubscribeFailArrives ==
  ASSUME RInv, RInv', PInv, NEW i \in Instances, SubscribeFails(i) PROVE PInv'
<1> DEFINE s == Head(commands[i]).by
           q == [sockets[s] EXCEPT !.pc = "over", !.open = FALSE]
<1>1. /\ TypeOK' /\ Registry!TypeOK /\ sockets \in [Sockets -> Socket]
      /\ Registry!Refuse(i) /\ room' = room /\ UNCHANGED <<pages, heard, down>> /\ Set(s, q)
  BY RelayTyped DEF SubscribeFails, RInv
<1>2. s \in Sockets /\ Used(pages, s) /\ Asks(s)
  <2>1. commands[i] # <<>>
    BY <1>1, Answers
  <2>2. commands[i] \in Seq(Registry!Command) /\ Len(commands[i]) \in Nat
    BY <1>1, CommandElements
  <2>3. 1 \in 1 .. Len(commands[i]) /\ Head(commands[i]) = commands[i][1]
    BY <2>1, <2>2, Headed
  <2>4. s \in Sockets /\ Used(pages, s)
    BY <1>1, <2>3, CommandElements DEF PInv, Asked, Sends
  <2> QED
    BY <1>1, <2>4, RedisAsks
<1> HIDE DEF s
<1>3. q \in Socket /\ q.open = FALSE
  BY <1>1, <1>2 DEF Socket
<1> HIDE DEF q
<1> QED
  BY <1>1, <1>2, <1>3, SameGrown, HandlerArrives

\* What goes to the stream or the bus.
LEMMA StreamArrives ==
  ASSUME RInv, RInv', PInv,
         \/ \E u \in Clients : Type(u)
         \/ \E s \in Sockets : Message(s) \/ XaddFails(s)
         \/ Post \/ ApiPublish
  PROVE  PInv'
<1>1. TypeOK' /\ pages \in [Clients -> PageState]
  BY RelayTyped DEF RInv
<1>2. CASE \E u \in Clients : Type(u)
  <2>1. PICK u \in Clients : Type(u)
    BY <1>2
  <2>2. \A v \in Clients : /\ pages'[v].n = pages[v].n /\ pages'[v].linked = pages[v].linked
                           /\ pages'[v].have = pages[v].have
    <3>1. CASE pages' = [pages EXCEPT ![u].typed = @ + 1]
      BY <1>1, <3>1 DEF PageState
    <3>2. CASE pages' = [pages EXCEPT ![u].typed = @ + 1, ![u].queue = @ + 1]
      BY <1>1, <3>2 DEF PageState
    <3> QED
      BY <2>1, <3>1, <3>2 DEF Type
  <2> QED
    BY <1>1, <2>1, <2>2, AsideArrives DEF Type, registry
<1>3. CASE \E s \in Sockets : Message(s) \/ XaddFails(s)
  BY <1>1, <1>3, AsideArrives DEF Message, XaddFails, registry
<1>4. CASE Post \/ ApiPublish
  BY <1>1, <1>4, AsideArrives DEF Post, ApiPublish, registry
<1> QED
  BY <1>2, <1>3, <1>4

\* A socket that hears of an entry is sent its frame.
LEMMA BroadcastArrives ==
  ASSUME RInv, TypeOK', PInv, UNCHANGED <<commands, sockets, pages>>,
         NEW to, NEW id \in Ids, NEW origin \in Processes, Broadcast(to, id, origin)
  PROVE  PInv'
<1>1. /\ TypeOK /\ BusTyped /\ FramesTyped /\ Opens /\ id \in 1 .. MaxEntries
  <2>1. \A u \in Clients : pages[u].n \in Nat
    BY RelayTyped, Numbers
  <2> QED
    BY <2>1, RelayTyped, InRange DEF Opens
<1>2. ASSUME NEW r \in Sockets
      PROVE  /\ \A x \in 1 .. MaxEntries : InFrame(r, x) => InFrame(r, x)'
             /\ \A x \in 1 .. MaxEntries : Owed(r, x)' => Owed(r, x) \/ InFrame(r, x)'
             /\ ~sockets[r].open => heard'[r] = heard[r]
  <2> DEFINE f == [t |-> "entry", id |-> id, live |-> origin]
  <2>1. /\ down'[r] = IF r \in to /\ sockets[r].open THEN Append(down[r], f) ELSE down[r]
        /\ heard'[r] = IF r \in to /\ sockets[r].open THEN [heard[r] EXCEPT ![id] = @ + 1]
                                                      ELSE heard[r]
        /\ f.t = "entry" /\ f.id = id
    BY DEF Broadcast
  <2> HIDE DEF f
  <2>2. CASE ~(r \in to /\ sockets[r].open)
    BY <2>1, <2>2 DEF InFrame, Owed
  <2>3. CASE r \in to /\ sockets[r].open
    <3>1. PICK q : q = down[r]
      OBVIOUS
    <3>2. q \in Seq(Frame \cup {f}) /\ Len(q) \in Nat
      <4>1. q \in Seq(Frame)
        BY <1>1, <3>1, FrameElements
      <4> QED
        BY <4>1, Widened
    <3>3. /\ Len(q) + 1 \in 1 .. Len(Append(q, f)) /\ Append(q, f)[Len(q) + 1] = f
          /\ \A k \in 1 .. Len(q) : k \in 1 .. Len(Append(q, f)) /\ Append(q, f)[k] = q[k]
      BY <3>2
    <3>4. down'[r] = Append(q, f)
      BY <2>1, <2>3, <3>1
    <3>5. InFrame(r, id)'
      BY <2>1, <3>3, <3>4 DEF InFrame
    <3>6. \A x : InFrame(r, x) => InFrame(r, x)'
      BY <3>1, <3>3, <3>4 DEF InFrame
    <3>7. \A x \in 1 .. MaxEntries : x # id => heard'[r][x] = heard[r][x]
      BY <1>1, <2>1, <2>3, FrameElements
    <3> QED
      BY <2>3, <3>5, <3>6, <3>7 DEF Owed
  <2> QED
    BY <2>2, <2>3
<1>3. Unused'
  BY <1>1, <1>2, UnusedStays DEF PInv
<1>4. Asked'
  BY <1>1, AskedStays DEF PInv
<1>5. ASSUME NEW u \in Clients, pages[u].linked PROVE Still(u)
  <2>1. Current(u) \in Sockets /\ Current(u)' = Current(u)
    BY <1>5, SocketsOf DEF Current, RInv
  <2>2. PICK r \in Sockets : r = Current(u)
    BY <2>1
  <2> QED
    BY <1>2, <2>1, <2>2 DEF Still, Given
<1>6. ASSUME NEW u \in Clients PROVE GivenAt(u)'
  BY <1>5, StillArrives DEF PInv, AllGiven
<1> QED
  BY <1>3, <1>4, <1>6 DEF PInv, AllGiven

LEMMA FanoutArrives == ASSUME RInv, RInv', PInv, NEW i \in Instances, Fanout(i) PROVE PInv'
<1>1. TypeOK' /\ BusTyped /\ UNCHANGED <<commands, sockets, pages>> /\ i \in Processes
  BY RelayTyped DEF RInv, Fanout, registry, Processes
<1>2. Head(sending[i]) \in Ids
  BY <1>1, BusElements, Headed DEF Fanout
<1> QED
  BY <1>1, <1>2, BroadcastArrives DEF Fanout

LEMMA DeliverArrives == ASSUME RInv, RInv', PInv, NEW i \in Instances, Deliver(i) PROVE PInv'
<1>1. TypeOK' /\ BusTyped /\ UNCHANGED <<commands, sockets, pages>>
  BY RelayTyped DEF RInv, Deliver, registry
<1>2. Head(inbox[i]).id \in Ids /\ Head(inbox[i]).origin \in Processes
  <2>1. Head(inbox[i]) \in [id : Ids, origin : Processes]
    BY <1>1, BusElements, Headed DEF Deliver
  <2> QED
    BY <2>1
<1>3. CASE UNCHANGED <<down, heard>>
  BY <1>1, <1>3, AsideArrives
<1>4. CASE Broadcast(room[i], Head(inbox[i]).id, Head(inbox[i]).origin)
  BY <1>1, <1>2, <1>4, BroadcastArrives
<1> QED
  BY <1>3, <1>4 DEF Deliver

LEMMA OwedIds ==
  ASSUME RInv, NEW s \in Sockets, NEW id \in 1 .. MaxEntries, Owed(s, id)
  PROVE  id \in Ids
<1>1. heard[s][id] \in {0, 1} /\ (heard[s][id] = 1 => id \in Ids)
  BY DEF RInv, Once
<1>2. /\ sockets[s].lo \in Nat /\ sockets[s].hi \in Nat /\ sockets[s].lo >= 1
      /\ sockets[s].hi <= Len(log) /\ Len(log) \in Nat
  BY RelayTyped, SocketElements, BusElements DEF RInv, Placed
<1>3. CASE id >= sockets[s].lo /\ id <= sockets[s].hi
  BY <1>2, <1>3 DEF Ids
<1> QED
  BY <1>1, <1>3 DEF Owed

\* A step of one page on the socket it has, or on none.
LEMMA PageArrives ==
  ASSUME RInv, TypeOK', PInv, UNCHANGED <<commands, sockets, heard>>, NEW u \in Clients,
         pages'[u].n = pages[u].n, pages[u].linked => GivenAt(u)', pages'[u].linked => pages[u].linked,
         \A v \in Clients : v # u => pages'[v] = pages[v] /\ down'[Current(v)] = down[Current(v)]
  PROVE  PInv'
<1>1. /\ TypeOK /\ Opens
      /\ \A s \in Sockets : sockets'[s].pc = sockets[s].pc /\ heard'[s] = heard[s]
  <2>1. \A v \in Clients : pages[v].n \in Nat
    BY RelayTyped, Numbers
  <2> QED
    BY <2>1, RelayTyped DEF Opens
<1>2. Unused'
  BY <1>1, UnusedStays DEF PInv
<1>3. Asked'
  BY <1>1, AskedStays DEF PInv
<1>4. ASSUME NEW v \in Clients, v # u PROVE Still(v)
  <2>1. Current(v)' = Current(v)
    BY <1>4 DEF Current
  <2> QED
    BY <1>4, <2>1 DEF Still, Given, Owed, InFrame
<1>5. GivenAt(u)'
  BY DEF GivenAt
<1> QED
  BY <1>2, <1>3, <1>4, <1>5, StillArrives DEF PInv, AllGiven

LEMMA LoadArrives == ASSUME RInv, RInv', PInv, NEW u \in Clients, Load(u) PROVE PInv'
<1>1. /\ TypeOK' /\ pages \in [Clients -> PageState]
      /\ UNCHANGED <<commands, sockets, heard, down, log>>
  BY RelayTyped DEF RInv, Load, registry, stream
<1>2. pages' = [pages EXCEPT ![u].loaded = TRUE, ![u].have = Ids]
  BY DEF Load
<1>3. /\ pages'[u].n = pages[u].n /\ pages'[u].linked = pages[u].linked /\ pages'[u].have = Ids
      /\ \A v \in Clients : v # u => pages'[v] = pages[v]
  BY <1>1, <1>2 DEF PageState
<1>4. ASSUME pages[u].linked PROVE GivenAt(u)'
  <2>1. Current(u) \in Sockets /\ Current(u)' = Current(u)
    BY <1>3, <1>4, SocketsOf DEF Current, RInv
  <2>2. \A id \in 1 .. MaxEntries : Owed(Current(u), id)' => id \in pages'[u].have
    BY <1>1, <1>3, <2>1, OwedIds DEF Owed
  <2> QED
    BY <2>1, <2>2 DEF GivenAt, Given
<1> QED
  BY <1>1, <1>3, <1>4, PageArrives

LEMMA SeeCloseArrives == ASSUME RInv, RInv', PInv, NEW u \in Clients, SeeClose(u) PROVE PInv'
<1>1. /\ TypeOK' /\ pages \in [Clients -> PageState] /\ FramesTyped
      /\ UNCHANGED <<commands, sockets, heard>> /\ pages[u].linked
      /\ pages' = [pages EXCEPT ![u].linked = FALSE]
      /\ down' = [down EXCEPT ![Current(u)] = <<>>]
  BY RelayTyped DEF RInv, SeeClose, registry
<1>2. /\ pages'[u].n = pages[u].n /\ pages'[u].linked = FALSE
      /\ \A v \in Clients : v # u => pages'[v] = pages[v]
  BY <1>1 DEF PageState
<1>3. \A v \in Clients : v # u => down'[Current(v)] = down[Current(v)]
  BY <1>1 DEF Current, FramesTyped
<1>4. GivenAt(u)'
  BY <1>2 DEF GivenAt
<1> QED
  BY <1>1, <1>2, <1>3, <1>4, PageArrives

\* What a page shows that has read a frame.
HaveAfter(page, f) ==
  CASE f.t = "entry" -> page.have \cup {f.id}
    [] f.t = "reload" -> Ids
    [] OTHER -> page.have

LEMMA ReadShows ==
  ASSUME NEW page \in PageState, NEW f \in Frame, NEW q, q = Read(page, f)
  PROVE  /\ q.n = page.n /\ q.linked = page.linked
         /\ q.have = HaveAfter(page, f)
<1>1. f.t \in {"hello", "entry", "done", "reload"}
  BY DEF Frame
<1>2. CASE f.t = "hello"
  <2>1. q = [page EXCEPT !.cursor = IF @ = NoCursor THEN f.id ELSE @]
    BY <1>2 DEF Read
  <2> QED
    BY <1>2, <2>1 DEF PageState, HaveAfter
<1>3. CASE f.t = "entry"
  <2>1. q = [page EXCEPT !.cursor = f.id, !.have = @ \cup {f.id}]
    BY <1>3 DEF Read
  <2> QED
    BY <1>3, <2>1 DEF PageState, HaveAfter
<1>4. CASE f.t = "done"
  <2>1. q = [page EXCEPT !.cursor = f.id]
    BY <1>4 DEF Read
  <2> QED
    BY <1>4, <2>1 DEF PageState, HaveAfter
<1>5. CASE f.t = "reload"
  <2>1. q = [page EXCEPT !.cursor = NoCursor, !.have = Ids]
    BY <1>5 DEF Read
  <2> QED
    BY <1>5, <2>1 DEF PageState, HaveAfter
<1> QED
  BY <1>1, <1>2, <1>3, <1>4, <1>5

LEMMA ReceiveArrives == ASSUME RInv, RInv', PInv, NEW u \in Clients, Receive(u) PROVE PInv'
<1> DEFINE s == Current(u)
           f == Head(down[s])
           q == Read(pages[u], f)
<1>1. /\ TypeOK' /\ pages \in [Clients -> PageState] /\ FramesTyped
      /\ UNCHANGED <<commands, sockets, heard, log>> /\ pages[u].linked /\ down[s] # <<>>
      /\ pages' = [pages EXCEPT ![u] = q]
      /\ down' = [down EXCEPT ![s] = Tail(@)]
  BY RelayTyped DEF RInv, Receive, registry, stream
<1>2. s \in Sockets
  BY <1>1, SocketsOf DEF RInv
<1>3. PICK old : old = down[s]
  OBVIOUS
<1>4. /\ old \in Seq(Frame) /\ Len(old) \in Nat /\ f \in Frame /\ f = old[1]
      /\ Len(Tail(old)) = Len(old) - 1 /\ \A k \in 1 .. Len(old) - 1 : Tail(old)[k] = old[k + 1]
      /\ down'[s] = Tail(old)
  <2>1. old \in Seq(Frame) /\ old # <<>>
    BY <1>1, <1>2, <1>3, FrameElements
  <2>2. down'[s] = Tail(old)
    BY <1>1, <1>2, <1>3 DEF FramesTyped
  <2> QED
    BY <1>3, <2>1, <2>2, Headed
<1>5. pages'[u] = q /\ \A v \in Clients : v # u => pages'[v] = pages[v]
  BY <1>1
<1>6. \A v \in Clients : v # u => down'[Current(v)] = down[Current(v)]
  BY <1>1, <1>2 DEF Current, FramesTyped
<1> HIDE DEF f, q
<1>7. /\ pages'[u].n = pages[u].n /\ pages'[u].linked = pages[u].linked
      /\ pages'[u].have = HaveAfter(pages[u], f)
  <2>1. pages[u] \in PageState /\ q = Read(pages[u], f)
    BY <1>1 DEF q
  <2> HIDE DEF s
  <2> QED
    BY <1>4, <1>5, <2>1, ReadShows
<1>8. GivenAt(u)'
  <2>1. PICK r \in Sockets : r = Current(u)
    BY <1>2
  <2>2. Current(u)' = r
    BY <1>7, <2>1 DEF Current
  <2> SUFFICES ASSUME sockets[r].open, NEW id \in 1 .. MaxEntries, Owed(r, id)
               PROVE  id \in pages'[u].have \/ InFrame(r, id)'
    BY <1>1, <2>2 DEF GivenAt, Given, Owed
  <2>3. id \in Ids /\ (id \in pages[u].have \/ InFrame(r, id))
    BY <1>1, <2>1, OwedIds DEF PInv, AllGiven, GivenAt, Given
  <2>4. CASE id \in pages[u].have
    BY <1>7, <2>3, <2>4 DEF HaveAfter
  <2>5. CASE InFrame(r, id)
    <3>1. PICK k \in 1 .. Len(old) : old[k].t = "entry" /\ old[k].id = id
      BY <1>3, <2>1, <2>5 DEF InFrame
    <3>2. CASE k = 1
      BY <1>4, <1>7, <3>1, <3>2 DEF HaveAfter
    <3>3. CASE k # 1
      <4>1. k - 1 \in 1 .. Len(old) - 1 /\ (k - 1) + 1 = k
        <5>1. PICK n \in Nat : n = Len(old)
          BY <1>4
        <5>2. k \in 1 .. n /\ k # 1
          BY <3>1, <3>3, <5>1
        <5> QED
          BY <5>1, <5>2
      <4>2. k - 1 \in 1 .. Len(down'[r]) /\ down'[r][k - 1] = old[k]
        BY <1>4, <2>1, <4>1
      <4> QED
        BY <3>1, <4>2 DEF InFrame
    <3> QED
      BY <3>2, <3>3
  <2> QED
    BY <2>3, <2>4, <2>5
<1> QED
  BY <1>1, <1>5, <1>6, <1>7, <1>8, PageArrives

\* A page opens a socket, which has heard nothing.
LEMMA ConnectArrives == ASSUME RInv, RInv', PInv, NEW u \in Clients, Connect(u) PROVE PInv'
<1> DEFINE socket == [NoSocket EXCEPT !.pc = "join", !.open = TRUE, !.since = pages[u].cursor]
           page == [pages[u] EXCEPT !.n = @ + 1, !.linked = TRUE, !.queue = 0]
<1>1. /\ TypeOK /\ TypeOK' /\ BusTyped /\ FramesTyped /\ Registry!TypeOK
      /\ sockets \in [Sockets -> Socket] /\ pages \in [Clients -> PageState]
      /\ UNCHANGED <<heard, log>>
  BY RelayTyped DEF RInv, Connect, stream
<1>2. /\ pages[u] \in PageState /\ pages[u].n \in 0 .. MaxConnects /\ MaxConnects \in Nat
      /\ pages[u].cursor \in Cursors /\ pages[u].n < MaxConnects
  BY <1>1, PageElements DEF Connect
<1>3. PICK s \in Sockets : s = <<u, pages[u].n + 1>> /\ Page(s) = u
  <2>1. pages[u].n + 1 \in 1 .. MaxConnects
    BY <1>2
  <2> QED
    BY <2>1, SocketsOf
<1>4. /\ Registry!Join(At(s), s)
      /\ (Set(s, socket) /\ UNCHANGED down) \/ Joined(s, socket)
      /\ pages' = [pages EXCEPT ![u] = page]
  <2>1. pages' = [pages EXCEPT ![u].n = @ + 1, ![u].linked = TRUE, ![u].queue = 0]
    BY DEF Connect
  <2>2. pages' = [pages EXCEPT ![u] = page]
    BY <1>1, <2>1 DEF PageState
  <2> QED
    BY <1>3, <2>2 DEF Connect
<1>5. socket \in Socket /\ socket.pc = "join"
  BY <1>2 DEF NoSocket, Socket
<1>6. page.n = pages[u].n + 1
  BY <1>2 DEF PageState
<1> HIDE DEF socket, page
<1>7. pages'[u] = page /\ \A v \in Clients : v # u => pages'[v] = pages[v]
  BY <1>1, <1>4
<1>8. Opens
  <2>1. \A v \in Clients : pages[v].n \in Nat
    BY <1>1, Numbers
  <2>2. pages[u].n <= pages'[u].n
    BY <1>6, <1>7, <2>1
  <2> QED
    BY <1>7, <2>1, <2>2 DEF Opens
<1>9. /\ ~Used(pages, s) /\ Used(pages', s)
  BY <1>2, <1>3, <1>6, <1>7 DEF Used
<1>10. /\ Grown
       /\ \E q \in Socket : Set(s, q) /\ (q.pc = "ready" => q.lo > q.hi)
  <2>1. CASE Set(s, socket) /\ UNCHANGED down
    BY <1>5, <2>1, SameGrown
  <2>2. CASE Joined(s, socket)
    <3>1. Grown /\ \E q \in Socket : Welcomed(s, socket, q)
      BY <1>1, <1>5, <2>2, JoinedFacts
    <3> QED
      BY <3>1 DEF Welcomed
  <2> QED
    BY <1>4, <2>1, <2>2
<1>11. PICK q \in Socket : Set(s, q) /\ (q.pc = "ready" => q.lo > q.hi)
  BY <1>10
<1>12. sockets'[s] = q /\ \A r \in Sockets : r # s => sockets'[r] = sockets[r]
  BY <1>1, <1>11, Sets
<1>13. Unused'
  BY <1>1, <1>8, <1>9, <1>12, UnusedStays DEF PInv
<1>14. Asked'
  <2>1. Asks(s)
    BY <1>1, <1>4, RoomAsks
  <2> QED
    BY <1>1, <1>8, <1>9, <2>1, AskedStays DEF PInv
<1>15. GivenAt(u)'
  <2>1. Current(u)' = s
    BY <1>3, <1>6, <1>7 DEF Current
  <2>2. \A id \in 1 .. MaxEntries : heard[s][id] = 0
    BY <1>9 DEF PInv, Unused
  <2>3. \A id \in 1 .. MaxEntries : ~Owed(s, id)'
    <3>1. q.lo \in Nat /\ q.hi \in Nat
      BY DEF Socket
    <3>2. \A id \in 1 .. MaxEntries : ~(id >= q.lo /\ id <= q.hi) \/ q.pc # "ready"
      BY <1>11, <3>1
    <3> QED
      BY <1>1, <1>12, <2>2, <3>2 DEF Owed
  <2> QED
    BY <2>1, <2>3 DEF GivenAt
<1>16. ASSUME NEW v \in Clients, v # u, pages[v].linked PROVE Still(v)
  <2>1. PICK r \in Sockets : r = Current(v) /\ Page(r) = v
    BY <1>16, SocketsOf DEF RInv
  <2>2. Current(v)' = r /\ r # s
    BY <1>3, <1>7, <1>16, <2>1 DEF Current
  <2>3. \A id \in 1 .. MaxEntries : InFrame(r, id) => InFrame(r, id)'
    BY <1>10, GrownFrames
  <2> QED
    BY <1>1, <1>7, <1>12, <1>16, <2>1, <2>2, <2>3 DEF Still, Given, Owed
<1>17. ASSUME NEW v \in Clients PROVE GivenAt(v)'
  BY <1>7, <1>15, <1>16, StillArrives DEF PInv, AllGiven
<1> QED
  BY <1>13, <1>14, <1>17 DEF PInv, AllGiven

\* What a crash makes of a socket.
Dead(q) == [q EXCEPT !.pc = "over", !.open = FALSE, !.gone = TRUE]

LEMMA CrashSteps ==
  ASSUME NEW i \in Instances, Crash(i)
  PROVE  /\ UNCHANGED <<pages, heard>> /\ Registry!Lose(i)
         /\ sockets' = [s \in Sockets |-> IF At(s) = i /\ sockets[s].pc # "none"
                                         THEN Dead(sockets[s]) ELSE sockets[s]]
         /\ down' = [s \in Sockets |-> IF At(s) = i THEN <<>> ELSE down[s]]
<1>1. UNCHANGED <<pages, heard>> /\ Registry!Lose(i)
  BY Zenon DEF Crash
<1>2. sockets' = [s \in Sockets |-> IF At(s) = i /\ sockets[s].pc # "none"
                                   THEN Dead(sockets[s]) ELSE sockets[s]]
  BY Zenon DEF Crash, Dead
<1>3. down' = [s \in Sockets |-> IF At(s) = i THEN <<>> ELSE down[s]]
  BY Zenon DEF Crash
<1> QED
  BY <1>1, <1>2, <1>3

LEMMA CrashArrives == ASSUME RInv, RInv', PInv, NEW i \in Instances, Crash(i) PROVE PInv'
<1>1. /\ TypeOK /\ TypeOK' /\ Registry!TypeOK /\ sockets \in [Sockets -> Socket]
      /\ UNCHANGED <<pages, heard>> /\ Registry!Lose(i)
  BY RelayTyped, CrashSteps DEF RInv
<1>2. Opens
  <2>1. \A v \in Clients : pages[v].n \in Nat
    BY RelayTyped, Numbers
  <2> QED
    BY <1>1, <2>1 DEF Opens
<1>3. ASSUME NEW r \in Sockets
      PROVE  /\ sockets[r].pc = "none" => sockets'[r].pc = "none"
             /\ At(r) # i => sockets'[r] = sockets[r] /\ down'[r] = down[r]
             /\ At(r) = i => ~sockets'[r].open
  <2>1. sockets[r] \in Socket /\ (sockets[r].open => sockets[r].pc # "none")
    BY <1>1 DEF RInv, InRoom
  <2>2. sockets'[r] = IF At(r) = i /\ sockets[r].pc # "none" THEN Dead(sockets[r]) ELSE sockets[r]
    BY CrashSteps
  <2>3. At(r) # i => down'[r] = down[r]
    BY CrashSteps
  <2>4. Dead(sockets[r]).open = FALSE
    BY <2>1 DEF Dead, Socket
  <2> QED
    BY <2>1, <2>2, <2>3, <2>4
<1>4. \A r \in Sockets : sockets'[r].pc = sockets[r].pc \/ Used(pages', r)
  BY <1>1, <1>3 DEF PInv, Unused
<1>5. Unused'
  BY <1>1, <1>2, <1>4, UnusedStays DEF PInv
<1>6. Asked'
  <2>1. \A s : Asks(s)
    BY <1>1, RedisAsks
  <2>2. CASE commands' = commands
    BY <1>1, <1>2, <2>2, AskedStays DEF PInv
  <2>3. CASE commands' = [commands EXCEPT ![i] = <<>>]
    <3>1. \A j \in Instances : commands'[j] = <<>> \/ commands'[j] = commands[j]
      BY <1>1, <2>3 DEF Registry!TypeOK
    <3> QED
      BY <1>1, <3>1 DEF PInv, Asked, Sends
  <2> QED
    BY <1>1, <2>2, <2>3 DEF Registry!Lose
<1>7. ASSUME NEW u \in Clients, pages[u].linked PROVE GivenAt(u)'
  <2>1. PICK r \in Sockets : r = Current(u)
    BY <1>7, SocketsOf DEF RInv
  <2>2. Current(u)' = r
    BY <1>1, <2>1 DEF Current
  <2>3. CASE At(r) = i
    BY <1>3, <2>2, <2>3 DEF GivenAt
  <2>4. CASE At(r) # i
    <3>1. \A id : InFrame(r, id) => InFrame(r, id)'
      BY <1>3, <2>4 DEF InFrame
    <3> QED
      BY <1>1, <1>3, <1>7, <2>1, <2>2, <2>4, <3>1 DEF GivenAt, Given, Owed, PInv, AllGiven
  <2> QED
    BY <2>3, <2>4
<1>8. ASSUME NEW u \in Clients PROVE GivenAt(u)'
  BY <1>1, <1>7 DEF GivenAt
<1> QED
  BY <1>5, <1>6, <1>8 DEF PInv, AllGiven

LEMMA PagesStart == ASSUME Init, RInv PROVE PInv
<1>1. TypeOK /\ MaxConnects \in Nat /\ \A u \in Clients : pages[u].n \in Nat
  BY RelayTyped, Numbers
<1>2. Unused
  BY <1>1 DEF Init, Unused, NoSocket
<1>3. Asked
  BY DEF Init, Registry!Init, Asked
<1>4. AllGiven
  BY DEF Init, AllGiven, GivenAt
<1> QED
  BY <1>2, <1>3, <1>4 DEF PInv

LEMMA PagesStay == ASSUME RInv, RInv', PInv, UNCHANGED vars PROVE PInv'
<1>1. TypeOK' /\ UNCHANGED <<commands, sockets, down, heard, pages>>
  BY DEF vars, registry, RInv
<1> QED
  BY <1>1, AsideArrives

LEMMA PagesStep == ASSUME RInv, RInv', PInv, [Next]_vars PROVE PInv'
<1>1. CASE Browser
  BY <1>1, LoadArrives, ConnectArrives, StreamArrives, ReceiveArrives, SeeCloseArrives DEF Browser
<1>2. ASSUME NEW s \in Sockets, Handler(s) PROVE PInv'
  BY <1>2, XinfoArrives, XrangeArrives, SendReplayArrives, ReplayFailArrives, CloseArrives,
     StreamArrives DEF Handler
<1>3. ASSUME NEW i \in Instances, Process(i) PROVE PInv'
  BY <1>3, SubscribedArrives, SubscribeFailArrives, FanoutArrives, DeliverArrives,
     CrashArrives DEF Process
<1>4. CASE Post \/ ApiPublish
  BY <1>4, StreamArrives
<1>5. CASE UNCHANGED vars
  BY <1>5, PagesStay
<1> QED
  BY <1>1, <1>2, <1>3, <1>4, <1>5 DEF Next

\* Whatever is broadcast to the socket of a page, or read for it from the stream,
\* the page shows as long as the connection holds, or the frame is on its way;
\* a socket not yet opened has heard nothing, and no SUBSCRIBE is sent for it.
THEOREM PagesHold == Spec => []PInv
<1>1. Init => PInv
  BY Starts, PagesStart
<1>2. RInv /\ RInv' /\ PInv /\ [Next]_vars => PInv'
  BY PagesStep
<1> QED
  BY <1>1, <1>2, RelayHolds, PTL DEF Spec

LEMMA ShowsOrComes ==
  ASSUME RInv, PInv, NEW u \in Clients, pages[u].linked, Listening(Current(u)),
         sockets[Current(u)].heeds, NEW id \in Ids, id >= sockets[Current(u)].lo,
         log[id] # Current(u)
  PROVE  \/ id \in pages[u].have \/ InFrame(Current(u), id)
         \/ UnderWay(id, At(Current(u))) \/ id \in lost
<1>1. PICK s \in Sockets : s = Current(u)
  BY SocketsOf DEF RInv
<1>2. /\ id \in 1 .. MaxEntries /\ id \in Nat /\ sockets[s].hi \in Nat
      /\ sockets[s].open /\ sockets[s].pc = "ready"
  BY <1>1, RelayTyped, InRange, SocketElements DEF Listening
<1>3. Owed(s, id) => id \in pages[u].have \/ InFrame(s, id)
  BY <1>1, <1>2 DEF PInv, AllGiven, GivenAt, Given
<1>4. CASE id <= sockets[s].hi
  BY <1>1, <1>2, <1>3, <1>4 DEF Owed
<1>5. CASE id > sockets[s].hi
  <2>1. Coming(s)
    BY <1>1, <1>2 DEF RInv, Heeding
  <2>2. \/ heard[s][id] > 0 \/ Pending(id) \/ Posted(id, At(s)) \/ id \in lost
    BY <1>1, <1>5, <2>1 DEF Coming
  <2>3. Pending(id) \/ Posted(id, At(s)) => UnderWay(id, At(s))
    BY DEF Pending, Posted, UnderWay
  <2> QED
    BY <1>1, <1>3, <2>2, <2>3 DEF Owed
<1> QED
  BY <1>2, <1>4, <1>5

\* From the stream and the bus to the page: whatever fails, and however often the
\* page reconnects, no entry from the start of its replay on is passed over by a
\* socket whose instance was subscribed when the handler looked at the stream. The
\* page shows it, or it is on its way, or was lost with a crash or a failed PUBLISH.
THEOREM ListenersAreShown == Spec => []ListenersShow
<1>1. RInv /\ PInv => ListenersShow
  BY ShowsOrComes DEF ListenersShow
<1> QED
  BY <1>1, RelayHolds, PagesHold, PTL

-----------------------------------------------------------------------------
(* A page on its first socket.                                             *)

\* Each web process has a ws instance of its own (docker-compose.yml), and no
\* broadcast is lost.
Apiece == \A u, v \in Clients : Home[u] = Home[v] => u = v
NoneLost == Failures \cap {"crash", "publish"} = {}

\* A page has no cursor before its first socket. That socket is the first of its
\* room: it waits for its own SUBSCRIBE, the only command under way, or it has
\* looked at the stream when that was answered.
Waiting(s) == /\ sockets[s].pc = "join" /\ sockets[s].since = NoCursor
              /\ commands[At(s)] = <<[op |-> "sub", by |-> s]>>
Ready(s) == sockets[s].pc = "ready" /\ sockets[s].heeds
FirstAt(u) ==
  /\ pages[u].n = 0 => pages[u].cursor = NoCursor
  /\ pages[u].n = 1 /\ pages[u].linked /\ sockets[Current(u)].open =>
       Waiting(Current(u)) \/ Ready(Current(u))

Members == \A i \in Instances : \A s \in room[i] : Used(pages, s)

FInv == Members /\ (\A u \in Clients : FirstAt(u)) /\ lost = {}

\* Nothing is done to a first socket but to close it.
LeftAlone(u) ==
  /\ pages'[u].n = pages[u].n /\ (pages'[u].linked => pages[u].linked)
  /\ pages[u].n = 0 => pages'[u].cursor = pages[u].cursor
  /\ pages[u].n = 1 /\ pages[u].linked /\ sockets'[Current(u)].open =>
       /\ sockets'[Current(u)] = sockets[Current(u)]
       /\ commands'[At(Current(u))] = commands[At(Current(u))]

LEMMA FirstLeft == ASSUME NEW u \in Clients, FirstAt(u), LeftAlone(u) PROVE FirstAt(u)'
<1>1. Current(u)' = Current(u)
  BY DEF LeftAlone, Current
<1>2. ASSUME pages[u].n = 1, pages'[u].linked, sockets'[Current(u)].open
      PROVE  Waiting(Current(u))' \/ Ready(Current(u))'
  <2>1. PICK s : s = Current(u)
    OBVIOUS
  <2>2. /\ sockets'[s] = sockets[s] /\ commands'[At(s)] = commands[At(s)]
        /\ Waiting(s) \/ Ready(s)
    BY <1>2, <2>1 DEF LeftAlone, FirstAt
  <2>3. Waiting(s)' \/ Ready(s)'
    BY <2>2 DEF Waiting, Ready, At, Page
  <2> QED
    BY <1>1, <2>1, <2>3
<1> QED
  BY <1>1, <1>2 DEF FirstAt, LeftAlone

LEMMA AllLeft ==
  ASSUME TypeOK, TypeOK', FInv, Opens, \A i \in Instances : room'[i] \subseteq room[i],
         lost' = lost, \A u \in Clients : LeftAlone(u)
  PROVE  FInv'
<1>1. Registry!TypeOK
  BY DEF TypeOK
<1>2. Members'
  <2> SUFFICES ASSUME NEW i \in Instances, NEW s \in room'[i] PROVE Used(pages', s)
    BY DEF Members
  <2>1. s \in Sockets /\ Used(pages, s)
    BY <1>1, RegistryElements DEF FInv, Members
  <2> QED
    BY <2>1, UsedStays
<1>3. \A u \in Clients : FirstAt(u)'
  BY FirstLeft DEF FInv
<1> QED
  BY <1>2, <1>3 DEF FInv

LEMMA SameOpens ==
  ASSUME RInv, \A u \in Clients : pages'[u].n = pages[u].n PROVE Opens
<1>1. \A u \in Clients : pages[u].n \in Nat
  BY RelayTyped, Numbers
<1> QED
  BY <1>1 DEF Opens

\* No other socket of the instance of a page that has opened one.
LEMMA HomeAlone ==
  ASSUME RInv, Apiece, NEW u \in Clients, pages[u].n = 1, pages[u].linked,
         NEW r \in Sockets, At(r) = At(Current(u)), Used(pages, r)
  PROVE  r = Current(u)
<1>1. Current(u) \in Sockets /\ Page(Current(u)) = u
  BY SocketsOf DEF RInv
<1>2. Page(r) \in Clients /\ r = <<Page(r), r[2]>> /\ r[2] \in 1 .. MaxConnects /\ MaxConnects \in Nat
  BY SocketsOf, Numbers
<1>3. Page(r) = u
  BY <1>1, <1>2 DEF At, Apiece
<1>4. r[2] = 1
  BY <1>2, <1>3 DEF Used
<1> QED
  BY <1>2, <1>3, <1>4 DEF Current

\* What does not touch the sockets and the registry.
LEMMA AsideLeaves ==
  ASSUME RInv, RInv', FInv, UNCHANGED <<room, commands, sockets>>, lost' = lost,
         \A u \in Clients : /\ pages'[u].n = pages[u].n
                            /\ pages'[u].linked => pages[u].linked
                            /\ pages[u].n = 0 => pages'[u].cursor = pages[u].cursor
  PROVE  FInv'
<1>1. TypeOK /\ TypeOK' /\ Opens
  BY RelayTyped, SameOpens DEF RInv
<1>2. \A u \in Clients : LeftAlone(u)
  BY DEF LeftAlone
<1> QED
  BY <1>1, <1>2, AllLeft

\* A step of the handler of a socket that is neither waiting nor ready, or that
\* closes it.
LEMMA HandlerLeaves ==
  ASSUME RInv, RInv', FInv, UNCHANGED <<room, commands, pages>>, lost' = lost,
         NEW s \in Sockets, NEW q \in Socket, Set(s, q),
         sockets[s].pc \in {"xinfo", "xrange", "send"} \/ ~q.open,
         q.open => sockets[s].open
  PROVE  FInv'
<1>1. TypeOK /\ TypeOK' /\ Opens
  BY RelayTyped, SameOpens DEF RInv
<1>2. sockets'[s] = q /\ \A r \in Sockets : r # s => sockets'[r] = sockets[r]
  BY RelayTyped, Sets
<1>3. ASSUME NEW u \in Clients PROVE LeftAlone(u)
  <2>1. ASSUME pages[u].n = 1, pages[u].linked, sockets'[Current(u)].open
        PROVE  sockets'[Current(u)] = sockets[Current(u)]
    <3>1. PICK r \in Sockets : r = Current(u)
      BY <2>1, SocketsOf DEF RInv
    <3>2. CASE r = s
      <4>1. q.open /\ sockets[s].open /\ sockets[s].pc \in {"xinfo", "xrange", "send"}
        BY <1>2, <2>1, <3>1, <3>2
      <4>2. Waiting(s) \/ Ready(s)
        BY <2>1, <3>1, <3>2, <4>1 DEF FInv, FirstAt
      <4> QED
        BY <4>1, <4>2 DEF Waiting, Ready
    <3> QED
      BY <1>2, <3>1, <3>2
  <2> QED
    BY <2>1 DEF LeftAlone
<1> QED
  BY <1>1, <1>3, AllLeft

LEMMA PageLeaves ==
  ASSUME RInv, RInv', FInv, NEW u \in Clients, Load(u) \/ Type(u) \/ Receive(u) \/ SeeClose(u)
  PROVE  FInv'
<1>1. /\ pages \in [Clients -> PageState] /\ pages[u] \in PageState
      /\ pages[u].linked => pages[u].n >= 1
      /\ UNCHANGED <<room, commands, sockets, lost>>
  BY RelayTyped DEF RInv, Bounded, Load, Type, Receive, SeeClose, registry
<1>2. \E q : /\ pages' = [pages EXCEPT ![u] = q]
             /\ q.n = pages[u].n /\ (q.linked => pages[u].linked)
             /\ pages[u].n = 0 => q.cursor = pages[u].cursor
  <2>1. CASE Load(u)
    <3> DEFINE q == [pages[u] EXCEPT !.loaded = TRUE, !.have = Ids]
    <3>1. pages' = [pages EXCEPT ![u].loaded = TRUE, ![u].have = Ids]
      BY <2>1 DEF Load
    <3>2. pages' = [pages EXCEPT ![u] = q]
      BY <1>1, <3>1 DEF PageState
    <3>3. q.n = pages[u].n /\ q.linked = pages[u].linked /\ q.cursor = pages[u].cursor
      BY <1>1 DEF PageState
    <3> QED
      BY <3>2, <3>3
  <2>2. CASE Type(u)
    <3> DEFINE q == [pages[u] EXCEPT !.typed = @ + 1]
               r == [pages[u] EXCEPT !.typed = @ + 1, !.queue = @ + 1]
    <3>1. \/ pages' = [pages EXCEPT ![u].typed = @ + 1]
          \/ pages' = [pages EXCEPT ![u].typed = @ + 1, ![u].queue = @ + 1]
      BY <2>2 DEF Type
    <3>2. pages' = [pages EXCEPT ![u] = q] \/ pages' = [pages EXCEPT ![u] = r]
      BY <1>1, <3>1 DEF PageState
    <3>3. /\ q.n = pages[u].n /\ q.linked = pages[u].linked /\ q.cursor = pages[u].cursor
          /\ r.n = pages[u].n /\ r.linked = pages[u].linked /\ r.cursor = pages[u].cursor
      BY <1>1 DEF PageState
    <3> QED
      BY <3>2, <3>3
  <2>3. CASE Receive(u)
    <3>1. PICK f : f = Head(down[Current(u)])
      OBVIOUS
    <3>2. pages' = [pages EXCEPT ![u] = Read(pages[u], f)] /\ pages[u].linked
          /\ down[Current(u)] # <<>>
      BY <1>1, <2>3, <3>1 DEF Receive
    <3>3. f \in Frame
      <4>1. Current(u) \in Sockets
        BY <3>2, SocketsOf DEF RInv
      <4>2. down[Current(u)] \in Seq(Frame)
        BY <4>1, RelayTyped, FrameElements
      <4> QED
        BY <3>1, <3>2, <4>2, Headed
    <3>4. /\ Read(pages[u], f).n = pages[u].n /\ Read(pages[u], f).linked = pages[u].linked
      BY <1>1, <3>3, ReadShows
    <3>5. pages[u].n # 0
      BY <1>1, <3>2
    <3> QED
      BY <3>2, <3>4, <3>5
  <2>4. CASE SeeClose(u)
    <3> DEFINE q == [pages[u] EXCEPT !.linked = FALSE]
    <3>1. pages' = [pages EXCEPT ![u].linked = FALSE]
      BY <2>4 DEF SeeClose
    <3>2. pages' = [pages EXCEPT ![u] = q]
      BY <1>1, <3>1 DEF PageState
    <3>3. q.n = pages[u].n /\ q.linked = FALSE /\ q.cursor = pages[u].cursor
      BY <1>1 DEF PageState
    <3> QED
      BY <3>2, <3>3
  <2> QED
    BY <2>1, <2>2, <2>3, <2>4
<1>3. \A v \in Clients : /\ pages'[v].n = pages[v].n
                         /\ pages'[v].linked => pages[v].linked
                         /\ pages[v].n = 0 => pages'[v].cursor = pages[v].cursor
  BY <1>1, <1>2
<1> QED
  BY <1>1, <1>3, AsideLeaves

\* Nothing is lost but with a crash or a failed PUBLISH.
LEMMA PublishKeeps ==
  ASSUME NoneLost, NEW id, NEW origin, Publish(id, origin) PROVE lost' = lost
  BY DEF NoneLost, Publish, Fault

LEMMA BusLeaves ==
  ASSUME RInv, RInv', NoneLost, FInv,
         \/ \E s \in Sockets : Message(s) \/ XaddFails(s)
         \/ \E i \in Instances : Fanout(i) \/ Deliver(i)
         \/ Post \/ ApiPublish \/ UNCHANGED vars
  PROVE  FInv'
<1>1. UNCHANGED <<room, commands, sockets, pages>>
  BY DEF Message, XaddFails, Fanout, Deliver, Post, ApiPublish, vars, registry
<1>2. lost' = lost
  <2>1. CASE \E s \in Sockets : Message(s) \/ XaddFails(s)
    BY <2>1 DEF Message, XaddFails
  <2>2. CASE \E i \in Instances : Fanout(i)
    BY <2>2, PublishKeeps DEF Fanout
  <2>3. CASE \E i \in Instances : Deliver(i)
    BY <2>3 DEF Deliver
  <2>4. CASE ApiPublish
    BY <2>4, PublishKeeps DEF ApiPublish
  <2>5. CASE Post \/ UNCHANGED vars
    BY <2>5 DEF Post, vars
  <2> QED
    BY <2>1, <2>2, <2>3, <2>4, <2>5
<1> QED
  BY <1>1, <1>2, AsideLeaves

LEMMA ReplayLeaves ==
  ASSUME RInv, RInv', FInv, NEW s \in Sockets,
         Xinfo(s) \/ Xrange(s) \/ SendReplay(s) \/ ReplayFails(s)
  PROVE  FInv'
<1>1. /\ sockets \in [Sockets -> Socket] /\ sockets[s] \in Socket /\ TypeOK'
      /\ UNCHANGED <<room, commands, pages, lost>>
      /\ sockets[s].pc \in {"xinfo", "xrange", "send"}
  BY RelayTyped DEF RInv, Xinfo, Xrange, SendReplay, ReplayFails, registry
<1>2. \E q : sockets' = [sockets EXCEPT ![s] = q] /\ (q.open => sockets[s].open)
  <2> DEFINE over == [sockets[s] EXCEPT !.pc = "over", !.open = FALSE]
             next == [sockets[s] EXCEPT !.pc = "xrange"]
             low == (IF trimmed > sockets[s].since THEN trimmed ELSE sockets[s].since) + 1
             read == [sockets[s] EXCEPT !.pc = "send", !.heeds = Heeds(At(s)),
                                        !.lo = low, !.hi = Len(log)]
             done == [sockets[s] EXCEPT !.pc = "ready"]
  <2>1. \/ sockets' = [sockets EXCEPT ![s] = over]
        \/ sockets' = [sockets EXCEPT ![s] = next]
        \/ sockets' = [sockets EXCEPT ![s] = read]
        \/ sockets' = [sockets EXCEPT ![s] = done]
    BY Zenon DEF Xinfo, Xrange, SendReplay, ReplayFails, Set
  <2>2. over.open = FALSE
    BY <1>1 DEF Socket
  <2>3. next.open = sockets[s].open /\ done.open = sockets[s].open
    BY <1>1 DEF Socket
  <2> HIDE DEF low
  <2>4. read.open = sockets[s].open
    BY <1>1 DEF Socket
  <2> HIDE DEF over, next, read, done
  <2> QED
    BY <2>1, <2>2, <2>3, <2>4
<1>3. PICK q \in Socket : Set(s, q) /\ (q.open => sockets[s].open)
  <2>1. PICK q : sockets' = [sockets EXCEPT ![s] = q] /\ (q.open => sockets[s].open)
    BY <1>2
  <2>2. sockets'[s] = q /\ sockets'[s] \in Socket
    BY <1>1, <2>1 DEF TypeOK
  <2> QED
    BY <2>1, <2>2 DEF Set
<1> QED
  BY <1>1, <1>3, HandlerLeaves

\* The close event of another socket of the page, or of another page.
LEMMA CloseLeaves == ASSUME RInv, RInv', PInv, Apiece, FInv, NEW s \in Sockets, Close(s) PROVE FInv'
<1> DEFINE q == [sockets[s] EXCEPT !.open = FALSE, !.gone = TRUE]
<1>1. /\ TypeOK /\ TypeOK' /\ sockets[s] \in Socket /\ Set(s, q) /\ Registry!TypeOK
      /\ Used(pages, s) /\ UNCHANGED <<pages, lost, subscribed>> /\ At(s) \in Instances
      /\ Registry!Leave(At(s), s) \/ UNCHANGED <<room, commands>>
      /\ ~pages[Page(s)].linked \/ s # Current(Page(s))
  BY RelayTyped, SocketElements, BusyIsUsed, Named DEF Close, RInv
<1>2. q \in Socket
  BY <1>1 DEF Socket
<1> HIDE DEF q
<1>3. \A r \in Sockets : r # s => sockets'[r] = sockets[r]
  BY <1>1, <1>2, RelayTyped, Sets
<1>4. \A i \in Instances : room'[i] \subseteq room[i] /\ (i # At(s) => commands'[i] = commands[i])
  <2>1. CASE Registry!Leave(At(s), s)
    <3>1. /\ room'[At(s)] = room[At(s)] \ {s}
          /\ \A j \in Instances : j # At(s) => room'[j] = room[j] /\ commands'[j] = commands[j]
      BY <1>1, <2>1, Leaves
    <3> QED
      BY <3>1
  <2> QED
    BY <1>1, <2>1
<1>5. ASSUME NEW u \in Clients PROVE LeftAlone(u)
  <2>1. ASSUME pages[u].n = 1, pages[u].linked
        PROVE  /\ sockets'[Current(u)] = sockets[Current(u)]
               /\ commands'[At(Current(u))] = commands[At(Current(u))]
    <3>1. PICK r \in Sockets : r = Current(u) /\ Page(r) = u /\ At(r) \in Instances
      BY <2>1, SocketsOf, Named DEF RInv
    <3>2. s # r
      BY <1>1, <2>1, <3>1
    <3>3. At(s) # At(r)
      BY <1>1, <2>1, <3>1, <3>2, HomeAlone
    <3> QED
      BY <1>3, <1>4, <3>1, <3>2, <3>3
  <2> QED
    BY <1>1, <2>1 DEF LeftAlone
<1> QED
  BY <1>1, <1>4, <1>5, SameOpens, AllLeft

\* The socket on whose behalf Redis answers, and the first sockets beside it.
LEMMA Answered ==
  ASSUME RInv, PInv, Apiece, NEW i \in Instances, Registry!Reply(i) \/ Registry!Refuse(i),
         room' = room
  PROVE  /\ Head(commands[i]).by \in Sockets /\ At(Head(commands[i]).by) = i
         /\ commands[i] # <<>>
         /\ \A j \in Instances : j # i => commands'[j] = commands[j]
         /\ \A u \in Clients : pages[u].n = 1 /\ pages[u].linked /\ At(Current(u)) = i =>
              Current(u) = Head(commands[i]).by
<1> DEFINE s == Head(commands[i]).by
<1>1. /\ commands[i] # <<>> /\ \A j \in Instances : j # i => commands'[j] = commands[j]
      /\ Registry!TypeOK
  BY RelayTyped, Answers
<1>2. commands[i] \in Seq(Registry!Command) /\ Len(commands[i]) \in Nat
  BY <1>1, CommandElements
<1>3. 1 \in 1 .. Len(commands[i]) /\ Head(commands[i]) = commands[i][1]
  BY <1>1, <1>2, Headed
<1>4. s \in Sockets /\ At(s) = i /\ Used(pages, s)
  BY <1>1, <1>3, CommandElements DEF PInv, Asked, Sends
<1> HIDE DEF s
<1>5. \A u \in Clients : pages[u].n = 1 /\ pages[u].linked /\ At(Current(u)) = i =>
        Current(u) = s
  BY <1>4, HomeAlone
<1> QED
  BY <1>1, <1>4, <1>5 DEF s

\* The first socket of a page has its SUBSCRIBE answered.
LEMMA SubscribedLeaves ==
  ASSUME RInv, RInv', PInv, Apiece, FInv, NEW i \in Instances, Subscribed(i) PROVE FInv'
<1>1. PICK c : c = Head(commands[i])
  OBVIOUS
<1>2. PICK s : s = c.by
  OBVIOUS
<1>3. /\ TypeOK /\ TypeOK' /\ BusTyped /\ FramesTyped /\ sockets \in [Sockets -> Socket]
      /\ Registry!Reply(i) /\ UNCHANGED <<room, pages, lost>>
      /\ IF c.op = "sub" THEN Joined(s, sockets[s]) ELSE UNCHANGED <<sockets, down>>
  BY <1>1, <1>2, RelayTyped DEF Subscribed, RInv
<1>4. /\ s \in Sockets /\ At(s) = i /\ commands[i] # <<>>
      /\ \A j \in Instances : j # i => commands'[j] = commands[j]
      /\ \A u \in Clients : pages[u].n = 1 /\ pages[u].linked /\ At(Current(u)) = i =>
           Current(u) = s
  BY <1>1, <1>2, <1>3, Answered
<1>5. \A r \in Sockets : r # s => sockets'[r] = sockets[r]
  <2>1. CASE Joined(s, sockets[s])
    <3>1. sockets[s] \in Socket
      BY <1>3, <1>4
    <3>2. PICK q \in Socket : Welcomed(s, sockets[s], q)
      BY <1>3, <1>4, <2>1, <3>1, JoinedFacts
    <3> QED
      BY <1>3, <1>4, <3>2, Sets DEF Welcomed
  <2> QED
    BY <1>3, <2>1
<1>6. ASSUME NEW u \in Clients, pages[u].n = 1, pages[u].linked, At(Current(u)) = i,
             sockets'[s].open
      PROVE  Ready(s)'
  <2>1. Current(u) = s
    BY <1>4, <1>6
  <2>2. sockets[s].open /\ sockets[s] \in Socket
    <3>1. sockets[s] \in Socket
      BY <1>3, <1>4
    <3>2. CASE Joined(s, sockets[s])
      <4>1. PICK q \in Socket : Welcomed(s, sockets[s], q)
        BY <1>3, <1>4, <3>1, <3>2, JoinedFacts
      <4>2. sockets'[s] = q
        BY <1>3, <1>4, <4>1, Sets DEF Welcomed
      <4> QED
        BY <1>6, <3>1, <4>1, <4>2 DEF Welcomed
    <3> QED
      BY <1>3, <1>6, <3>1, <3>2
  <2>3. Waiting(s)
    <3>1. Waiting(s) \/ Ready(s)
      BY <1>6, <2>1, <2>2 DEF FInv, FirstAt
    <3>2. CASE Ready(s)
      BY <1>4, <2>2, <3>2, HandlerFacts DEF Ready
    <3> QED
      BY <3>1, <3>2
  <2>4. c.op = "sub" /\ commands[i] = <<c>>
    BY <1>1, <1>4, <2>3 DEF Waiting
  <2>5. PICK q \in Socket : Welcomed(s, sockets[s], q)
    BY <1>3, <1>4, <2>2, <2>4, JoinedFacts
  <2>6. q.pc = "ready" /\ q.heeds = Heeds(i) /\ sockets'[s] = q
    BY <1>3, <1>4, <2>3, <2>5, Sets DEF Waiting, Welcomed
  <2>7. Heeds(i)
    <3>1. commands'[i] = Tail(<<c>>) /\ subscribed' = subscribed \cup {i}
      BY <1>1, <1>3, <2>4, RelayTyped DEF Registry!Reply, Registry!TypeOK
    <3>2. commands'[i] = <<>>
      BY <3>1
    <3> QED
      BY <3>1, <3>2 DEF Heeds
  <2> QED
    BY <2>6, <2>7 DEF Ready
<1>7. ASSUME NEW u \in Clients PROVE FirstAt(u)'
  <2>1. Current(u)' = Current(u) /\ FirstAt(u)
    BY <1>3 DEF Current, FInv
  <2>2. CASE pages[u].n = 1 /\ pages[u].linked /\ At(Current(u)) = i
    BY <1>3, <1>4, <1>6, <2>1, <2>2 DEF FirstAt
  <2>3. CASE ~(pages[u].n = 1 /\ pages[u].linked /\ At(Current(u)) = i)
    <3>1. ASSUME pages[u].n = 1, pages[u].linked
          PROVE  /\ sockets'[Current(u)] = sockets[Current(u)]
                 /\ commands'[At(Current(u))] = commands[At(Current(u))]
      <4>1. PICK r \in Sockets : r = Current(u) /\ At(r) \in Instances
        BY <3>1, SocketsOf, Named DEF RInv
      <4> QED
        BY <1>4, <1>5, <2>3, <3>1, <4>1
    <3>2. LeftAlone(u)
      BY <1>3, <3>1 DEF LeftAlone
    <3> QED
      BY <2>1, <3>2, FirstLeft
  <2> QED
    BY <2>2, <2>3
<1>8. Members'
  BY <1>3 DEF FInv, Members, Used
<1> QED
  BY <1>3, <1>7, <1>8 DEF FInv

LEMMA SubscribeFailLeaves ==
  ASSUME RInv, RInv', PInv, Apiece, FInv, NEW i \in Instances, SubscribeFails(i) PROVE FInv'
<1>1. PICK s : s = Head(commands[i]).by
  OBVIOUS
<1> DEFINE q == [sockets[s] EXCEPT !.pc = "over", !.open = FALSE]
<1>2. /\ TypeOK /\ TypeOK' /\ sockets \in [Sockets -> Socket] /\ Set(s, q)
      /\ Registry!Refuse(i) /\ UNCHANGED <<room, pages, lost>>
  BY <1>1, RelayTyped DEF SubscribeFails, RInv
<1>3. /\ s \in Sockets /\ At(s) = i
      /\ \A j \in Instances : j # i => commands'[j] = commands[j]
      /\ \A u \in Clients : pages[u].n = 1 /\ pages[u].linked /\ At(Current(u)) = i =>
           Current(u) = s
  BY <1>1, <1>2, Answered
<1>4. q \in Socket /\ q.open = FALSE
  BY <1>2, <1>3 DEF Socket
<1> HIDE DEF q
<1>5. sockets'[s] = q /\ \A r \in Sockets : r # s => sockets'[r] = sockets[r]
  BY <1>2, <1>3, <1>4, Sets
<1>6. ASSUME NEW u \in Clients PROVE LeftAlone(u)
  <2>1. ASSUME pages[u].n = 1, pages[u].linked, sockets'[Current(u)].open
        PROVE  /\ sockets'[Current(u)] = sockets[Current(u)]
               /\ commands'[At(Current(u))] = commands[At(Current(u))]
    <3>1. PICK r \in Sockets : r = Current(u) /\ At(r) \in Instances
      BY <2>1, SocketsOf, Named DEF RInv
    <3> QED
      BY <1>3, <1>4, <1>5, <2>1, <3>1
  <2> QED
    BY <1>2, <2>1 DEF LeftAlone
<1> QED
  BY <1>2, <1>6, SameOpens, AllLeft

\* The room of a page that has opened no socket is empty.
LEMMA NobodyThere ==
  ASSUME RInv, PInv, Apiece, FInv, NEW u \in Clients, pages[u].n = 0
  PROVE  room[Home[u]] = {} /\ commands[Home[u]] = <<>>
<1>1. Registry!TypeOK /\ Home[u] \in Instances
  BY RelayTyped, RelayAssumption
<1>2. \A r \in Sockets : ~(At(r) = Home[u] /\ Used(pages, r))
  <2> SUFFICES ASSUME NEW r \in Sockets, At(r) = Home[u], Used(pages, r) PROVE FALSE
    OBVIOUS
  <2>1. Page(r) = u
    BY SocketsOf DEF At, Apiece
  <2>2. r[2] \in 1 .. MaxConnects /\ MaxConnects \in Nat
    BY Numbers
  <2> QED
    BY <2>1, <2>2 DEF Used
<1>3. room[Home[u]] = {}
  <2> SUFFICES ASSUME NEW r \in room[Home[u]] PROVE FALSE
    OBVIOUS
  <2>1. r \in Sockets /\ At(r) = Home[u] /\ Used(pages, r)
    BY <1>1, RegistryElements DEF RInv, InRoom, FInv, Members
  <2> QED
    BY <1>2, <2>1
<1>4. commands[Home[u]] = <<>>
  <2> SUFFICES ASSUME commands[Home[u]] # <<>> PROVE FALSE
    OBVIOUS
  <2>1. commands[Home[u]] \in Seq(Registry!Command)
    BY <1>1, CommandElements
  <2>2. 1 \in 1 .. Len(commands[Home[u]])
    BY <2>1, Headed
  <2>3. /\ commands[Home[u]][1].by \in Sockets /\ At(commands[Home[u]][1].by) = Home[u]
        /\ Used(pages, commands[Home[u]][1].by)
    BY <1>1, <2>2, CommandElements DEF PInv, Asked, Sends
  <2> QED
    BY <1>2, <2>3
<1> QED
  BY <1>3, <1>4

LEMMA ConnectLeaves ==
  ASSUME RInv, RInv', PInv, Apiece, FInv, NEW u \in Clients, Connect(u) PROVE FInv'
<1> DEFINE socket == [NoSocket EXCEPT !.pc = "join", !.open = TRUE, !.since = pages[u].cursor]
           page == [pages[u] EXCEPT !.n = @ + 1, !.linked = TRUE, !.queue = 0]
<1>1. /\ TypeOK /\ TypeOK' /\ BusTyped /\ FramesTyped /\ Registry!TypeOK
      /\ sockets \in [Sockets -> Socket] /\ pages \in [Clients -> PageState]
      /\ UNCHANGED <<lost, subscribed>>
  BY RelayTyped DEF RInv, Connect
<1>2. /\ pages[u] \in PageState /\ pages[u].n \in 0 .. MaxConnects /\ MaxConnects \in Nat
      /\ pages[u].cursor \in Cursors /\ pages[u].n < MaxConnects
  BY <1>1, PageElements DEF Connect
<1>3. PICK s \in Sockets : s = <<u, pages[u].n + 1>> /\ Page(s) = u /\ At(s) = Home[u]
  <2>1. pages[u].n + 1 \in 1 .. MaxConnects
    BY <1>2
  <2> QED
    BY <2>1, SocketsOf DEF At
<1>4. /\ Registry!Join(At(s), s) /\ At(s) \in Instances
      /\ IF room[At(s)] = {} THEN Set(s, socket) /\ UNCHANGED down ELSE Joined(s, socket)
      /\ pages' = [pages EXCEPT ![u] = page]
  <2>1. pages' = [pages EXCEPT ![u].n = @ + 1, ![u].linked = TRUE, ![u].queue = 0]
    BY DEF Connect
  <2>2. pages' = [pages EXCEPT ![u] = page]
    BY <1>1, <2>1 DEF PageState
  <2> QED
    BY <1>3, <2>2, Named DEF Connect
<1>5. /\ socket \in Socket /\ socket.pc = "join" /\ socket.open = TRUE
      /\ socket.since = pages[u].cursor
  BY <1>2 DEF NoSocket, Socket
<1>6. page.n = pages[u].n + 1
  BY <1>2 DEF PageState
<1> HIDE DEF socket, page
<1>7. pages'[u] = page /\ \A v \in Clients : v # u => pages'[v] = pages[v]
  BY <1>1, <1>4
<1>8. Opens /\ Used(pages', s)
  <2>1. \A v \in Clients : pages[v].n \in Nat
    BY <1>1, Numbers
  <2>2. pages[u].n <= pages'[u].n
    BY <1>6, <1>7, <2>1
  <2> QED
    BY <1>3, <1>6, <1>7, <2>1, <2>2 DEF Opens, Used
<1>9. \A r \in Sockets : r # s => sockets'[r] = sockets[r]
  <2>1. CASE Set(s, socket)
    BY <1>1, <1>5, <2>1, Sets
  <2>2. CASE Joined(s, socket)
    <3>1. PICK q \in Socket : Welcomed(s, socket, q)
      BY <1>1, <1>5, <2>2, JoinedFacts
    <3> QED
      BY <1>1, <3>1, Sets DEF Welcomed
  <2> QED
    BY <1>4, <2>1, <2>2
<1>10. /\ room'[At(s)] = room[At(s)] \cup {s}
       /\ \A j \in Instances : j # At(s) => room'[j] = room[j] /\ commands'[j] = commands[j]
  BY <1>1, <1>4, Joins
<1>11. Members'
  <2> SUFFICES ASSUME NEW i \in Instances, NEW r \in room'[i] PROVE Used(pages', r)
    BY DEF Members
  <2>1. CASE r = s
    BY <1>8, <2>1
  <2>2. CASE r # s
    <3>1. r \in room[i]
      BY <1>10, <2>2
    <3>2. r \in Sockets /\ Used(pages, r)
      BY <1>1, <3>1, RegistryElements DEF FInv, Members
    <3> QED
      BY <1>1, <1>8, <3>2, UsedStays
  <2> QED
    BY <2>1, <2>2
<1>12. FirstAt(u)'
  <2>1. CASE pages[u].n = 0
    <3>1. room[At(s)] = {} /\ commands[At(s)] = <<>> /\ pages[u].cursor = NoCursor
      BY <1>3, <2>1, NobodyThere DEF FInv, FirstAt
    <3>2. sockets'[s] = socket
      BY <1>1, <1>4, <1>5, <3>1, Sets
    <3>3. commands'[At(s)] = <<[op |-> "sub", by |-> s]>>
      <4>1. commands'[At(s)] = Append(commands[At(s)], [op |-> "sub", by |-> s])
        BY <1>1, <1>4, <3>1 DEF Registry!Join, Registry!Send, Registry!TypeOK
      <4> QED
        BY <3>1, <4>1
    <3>4. Waiting(s)'
      BY <1>5, <3>1, <3>2, <3>3 DEF Waiting, At, Page
    <3>5. Current(u)' = s /\ pages'[u].n # 0
      BY <1>2, <1>3, <1>6, <1>7 DEF Current
    <3> QED
      BY <3>4, <3>5 DEF FirstAt
  <2>2. CASE pages[u].n # 0
    <3>1. pages'[u].n # 0 /\ pages'[u].n # 1
      BY <1>2, <1>6, <1>7, <2>2
    <3> QED
      BY <3>1 DEF FirstAt
  <2> QED
    BY <2>1, <2>2
<1>13. ASSUME NEW v \in Clients, v # u PROVE FirstAt(v)'
  <2>1. pages'[v] = pages[v]
    BY <1>7, <1>13
  <2>2. ASSUME pages[v].n = 1, pages[v].linked
        PROVE  /\ sockets'[Current(v)] = sockets[Current(v)]
               /\ commands'[At(Current(v))] = commands[At(Current(v))]
    <3>1. PICK r \in Sockets : r = Current(v) /\ Page(r) = v /\ At(r) \in Instances
      BY <2>2, SocketsOf, Named DEF RInv
    <3>2. At(r) # At(s) /\ r # s
      BY <1>3, <1>13, <3>1 DEF At, Apiece
    <3> QED
      BY <1>9, <1>10, <3>1, <3>2
  <2>3. LeftAlone(v)
    BY <2>1, <2>2 DEF LeftAlone
  <2> QED
    BY <2>3, FirstLeft DEF FInv
<1> QED
  BY <1>1, <1>11, <1>12, <1>13 DEF FInv

LEMMA FirstStart == ASSUME Init PROVE FInv
<1>1. lost = {} /\ Members
  BY DEF Init, Registry!Init, Members
<1>2. \A u \in Clients : FirstAt(u)
  BY DEF Init, FirstAt
<1> QED
  BY <1>1, <1>2 DEF FInv

LEMMA FirstStep ==
  ASSUME RInv, RInv', PInv, Apiece, NoneLost, FInv, [Next]_vars PROVE FInv'
<1>1. CASE Browser
  BY <1>1, PageLeaves, ConnectLeaves DEF Browser
<1>2. ASSUME NEW s \in Sockets, Handler(s) PROVE FInv'
  BY <1>2, ReplayLeaves, CloseLeaves, BusLeaves DEF Handler
<1>3. ASSUME NEW i \in Instances, Process(i) PROVE FInv'
  <2>1. ~Crash(i)
    <3>1. Crash(i) => "crash" \in Failures
      BY Zenon DEF Crash, Fault
    <3> QED
      BY <3>1 DEF NoneLost
  <2> QED
    BY <1>3, <2>1, SubscribedLeaves, SubscribeFailLeaves, BusLeaves DEF Process
<1>4. CASE Post \/ ApiPublish \/ UNCHANGED vars
  BY <1>4, BusLeaves
<1> QED
  BY <1>1, <1>2, <1>3, <1>4 DEF Next

LEMMA FirstShown ==
  ASSUME RInv, PInv, FInv PROVE KeepsUp
<1> SUFFICES ASSUME Quiet, NEW u \in Clients, pages[u].linked, pages[u].n = 1,
                    Listening(Current(u))
             PROVE  Shows(u, sockets[Current(u)].lo)
  BY DEF KeepsUp
<1>1. PICK s \in Sockets : s = Current(u) /\ Page(s) = u /\ At(s) \in Instances
  BY SocketsOf, Named DEF RInv
<1>2. sockets[s].heeds /\ sockets[s].lo \in Nat /\ sockets[s].lo >= 1 /\ Len(log) \in Nat
  BY <1>1, RelayTyped, SocketElements, BusElements
     DEF Listening, FInv, FirstAt, Waiting, Ready, RInv, Placed
<1>3. \A id : ~InFrame(s, id) /\ ~UnderWay(id, At(s)) /\ id \notin lost
  BY <1>1 DEF Quiet, InFrame, UnderWay, FInv
<1> SUFFICES ASSUME NEW id \in sockets[s].lo .. Len(log), Page(log[id]) # u
             PROVE  id \in pages[u].have
  BY <1>1 DEF Shows
<1>4. id \in Ids /\ id >= sockets[s].lo /\ log[id] # s
  BY <1>1, <1>2 DEF Ids
<1> QED
  BY <1>1, <1>2, <1>3, <1>4, ShowsOrComes

\* Where each page has a ws instance of its own and no broadcast is lost, with any
\* number of reconnects, entries trimmed, dropped connections and failures of
\* XADD, SUBSCRIBE and XRANGE: once all is read, a page on its first socket shows
\* every entry since it joined.
THEOREM EveryoneKeepsUp == ASSUME Apiece, NoneLost PROVE Spec => []KeepsUp
<1>1. Init => FInv
  BY FirstStart
<1>2. RInv /\ RInv' /\ PInv /\ FInv /\ [Next]_vars => FInv'
  BY FirstStep
<1>3. RInv /\ PInv /\ FInv => KeepsUp
  BY FirstShown
<1> QED
  BY <1>1, <1>2, <1>3, RelayHolds, PagesHold, PTL DEF Spec

=============================================================================
