-------------------------- MODULE SocketLifeProofs --------------------------
(***************************************************************************)
(* Of any number of pages, sockets and processes: the two ends of the      *)
(* sockets do to the rooms what RoomRegistry may do, a page has one line,  *)
(* and the heartbeat terminates nobody who answers.                        *)
(***************************************************************************)
EXTENDS SocketLife, RoomRegistryProofs

\* LifeTypeOK without the rooms.
Typed ==
  /\ clients \in [Pages -> Client]
  /\ \A u \in Pages : clients[u].calls <= MaxCalls[u]
  /\ lines \in [Sockets -> Line \cup {Unused}]
  /\ process \in [Instances -> {"up", "stopping", "down"}]
  /\ faults \in 0 .. MaxFaults

\* A socket in use has a page, and is not the one that is none.
LEMMA UsedLines ==
  ASSUME Typed
  PROVE  /\ \A s \in Used : s \in Sockets /\ s # 0 /\ lines[s] \in Line /\ lines[s].page \in Pages
                            /\ At(s) \in Instances
         /\ \A line \in Line : line # Unused
  BY LifeAssumption DEF Typed, Used, Line, Unused, At

\* What open() does.
LEMMA Opens ==
  ASSUME Typed, NEW u \in Pages, NEW client, NEW all, Open(u, client, all)
  PROVE  \E s \in Sockets :
           /\ all[s] = Unused
           /\ lines' = [all EXCEPT ![s] = New(u)]
           /\ clients' = [clients EXCEPT ![u] = [client EXCEPT !.current = s]]
  <1> DEFINE s == CHOOSE n \in Sockets : all[n] = Unused
  <1>1. s \in Sockets /\ all[s] = Unused
    BY DEF Open
  <1> QED
    BY <1>1 DEF Open

\* The steps of the server, of the network, and the failures, leave the clients
\* and what is live of a page as they are.
Server ==
  \/ \E s \in Used : Handler(s) \/ Ending(s) \/ Pong(s) \/ Cut(s)
  \/ \E i \in Instances : Heartbeat(i) \/ Shutdown(i) \/ Exit(i) \/ Crash(i) \/ Restart(i)
                          \/ Answer(i) \/ Refusal(i)

\* The clients, lines and processes at the start.
LEMMA TypedInit == LifeInit => Typed
  BY LifeAssumption DEF LifeInit, Typed, Client, Used

\* A line that the page opens.
LEMMA TypedOpen ==
  ASSUME Typed, NEW u \in Pages, NEW client \in Client, NEW all \in [Sockets -> Line \cup {Unused}],
         client.calls <= MaxCalls[u],
         Open(u, client, all), UNCHANGED <<process, faults>>
  PROVE  Typed'
  <1>1. PICK s \in Sockets :
           /\ all[s] = Unused
           /\ lines' = [all EXCEPT ![s] = New(u)]
           /\ clients' = [clients EXCEPT ![u] = [client EXCEPT !.current = s]]
    BY Opens
  <1>2. New(u) \in Line
    BY DEF New, Line
  <1>3. [client EXCEPT !.current = s] \in Client /\ [client EXCEPT !.current = s].calls = client.calls
    BY DEF Client
  <1>4. lines' \in [Sockets -> Line \cup {Unused}]
    BY <1>1, <1>2
  <1>5. clients' \in [Pages -> Client] /\ \A v \in Pages : clients'[v].calls <= MaxCalls[v]
    BY <1>1, <1>3 DEF Typed
  <1> QED
    BY <1>4, <1>5 DEF Typed

\* A line that the page sees the end of.
LEMMA TypedTrigger ==
  ASSUME Typed, NEW s \in Used, TriggerClose(s), faults' \in 0 .. MaxFaults
  PROVE  Typed'
  <1> DEFINE u == lines[s].page
             client == [clients[u] EXCEPT !.current = IF @ = s THEN 0 ELSE @]
             line == [lines[s] EXCEPT !.browser = "closed"]
  <1>1. /\ s \in Sockets /\ lines[s] \in Line /\ u \in Pages /\ clients[u] \in Client
        /\ clients[u].calls <= MaxCalls[u]
    BY UsedLines DEF Typed
  <1>2. line \in Line
    BY <1>1 DEF Line
  <1>3. lines' \in [Sockets -> Line \cup {Unused}]
    BY <1>1, <1>2 DEF TriggerClose, Put, Typed
  <1>4. client \in Client /\ client.calls = clients[u].calls
    BY <1>1 DEF Client
  <1>5. \/ clients' = [clients EXCEPT ![u] = client]
        \/ clients' = [clients EXCEPT ![u] = Scheduled(client, lines[s].server # "none")]
    BY DEF TriggerClose
  <1> HIDE DEF client
  <1>6. /\ Scheduled(client, lines[s].server # "none") \in Client
        /\ Scheduled(client, lines[s].server # "none").calls = clients[u].calls
    BY <1>4 DEF Scheduled, Client
  <1>7. clients' \in [Pages -> Client] /\ \A v \in Pages : clients'[v].calls <= MaxCalls[v]
    BY <1>1, <1>4, <1>5, <1>6 DEF Typed
  <1> QED
    BY <1>3, <1>7 DEF Typed, TriggerClose

\* The lines that the steps of the server, of the network and the failures leave.
LEMMA TypedServer ==
  ASSUME Typed, Server
  PROVE  Typed' /\ UNCHANGED clients
  <1> SUFFICES UNCHANGED clients /\ lines' \in [Sockets -> Line \cup {Unused}]
               /\ process' \in [Instances -> {"up", "stopping", "down"}] /\ faults' \in 0 .. MaxFaults
    BY DEF Typed
  <1>1. ASSUME NEW s \in Used, Handler(s) \/ Ending(s) \/ Pong(s) \/ Cut(s)
        PROVE  /\ UNCHANGED clients /\ lines' \in [Sockets -> Line \cup {Unused}]
               /\ process' = process /\ faults' \in 0 .. MaxFaults
    <2>1. s \in Sockets /\ lines[s] \in Line
      BY UsedLines
    <2>2. /\ Upgraded(lines[s]) \in Line
          /\ [lines[s] EXCEPT !.server = "ready"] \in Line
          /\ [lines[s] EXCEPT !.ended = "closed"] \in Line
          /\ [lines[s] EXCEPT !.server = "over", !.ended = "no"] \in Line
          /\ [lines[s] EXCEPT !.server = "deaf", !.ended = "no"] \in Line
          /\ [lines[s] EXCEPT !.isAlive = TRUE, !.pinged = FALSE] \in Line
          /\ [lines[s] EXCEPT !.cut = TRUE] \in Line
      BY <2>1 DEF Line, Upgraded
    <2>3. \E line \in Line \cup {Unused} : lines' = [lines EXCEPT ![s] = line]
      <3>1. CASE Handler(s)
        BY <2>2, <3>1, Zenon DEF Handler, Handshake, Ready
      <3>2. CASE ServerSees(s)
        BY <2>2, <3>2, Zenon DEF ServerSees
      <3>3. CASE CloseSeen(s)
        BY <2>2, <3>3, Zenon DEF CloseSeen, Put
      <3>4. CASE Pong(s)
        BY <2>2, <3>4, Zenon DEF Pong
      <3>5. CASE Cut(s)
        BY <2>2, <3>5, Zenon DEF Cut
      <3> QED
        BY <1>1, <3>1, <3>2, <3>3, <3>4, <3>5 DEF Ending
    <2>4. UNCHANGED clients /\ process' = process /\ faults' \in 0 .. MaxFaults
      BY <1>1, LifeAssumption
      DEF Handler, Ending, Handshake, Ready, ServerSees, CloseSeen, Pong, Cut, Fault, Typed
    <2> QED
      BY <2>1, <2>3, <2>4 DEF Typed
  <1>2. ASSUME NEW i \in Instances, Heartbeat(i) \/ Shutdown(i) \/ Exit(i) \/ Crash(i)
                                    \/ Restart(i) \/ Answer(i) \/ Refusal(i)
        PROVE  /\ UNCHANGED clients /\ lines' \in [Sockets -> Line \cup {Unused}]
               /\ process' \in [Instances -> {"up", "stopping", "down"}] /\ faults' \in 0 .. MaxFaults
    <2>1. \A s \in Used : /\ Pinged(lines[s]) \in Line
                          /\ [lines[s] EXCEPT !.ended = "terminated"] \in Line
                          /\ [lines[s] EXCEPT !.ended = "closed"] \in Line
                          /\ [lines[s] EXCEPT !.server = "over", !.ended = "no"] \in Line
      BY UsedLines DEF Line, Pinged
    <2>2. \A s \in Sockets : lines[s] \in Line \cup {Unused}
      BY DEF Typed
    <2>3. lines' \in [Sockets -> Line \cup {Unused}]
      <3>1. CASE Heartbeat(i)
        BY <2>1, <2>2, <3>1 DEF Heartbeat, Peers
      <3>2. CASE Shutdown(i)
        BY <2>1, <2>2, <3>2 DEF Shutdown, Peers
      <3>3. CASE Exit(i) \/ Crash(i)
        <4>1. \A s \in Sockets : lines'[s] \in Line \cup {Unused}
          <5> SUFFICES ASSUME NEW s \in Sockets PROVE lines'[s] \in Line \cup {Unused}
            OBVIOUS
          <5>1. Die(i)
            BY <3>3 DEF Exit, Crash
          <5>2. \/ lines'[s] = lines[s]
                \/ lines'[s] = Unused
                \/ s \in Used /\ lines'[s] = [lines[s] EXCEPT !.server = "over", !.ended = "no"]
            BY <5>1, Zenon DEF Die
          <5> QED
            BY <2>1, <2>2, <5>2
        <4>2. lines' = [s \in Sockets |-> lines'[s]]
          BY <3>3 DEF Exit, Crash, Die
        <4> QED
          BY <4>1, <4>2
      <3>4. CASE Restart(i) \/ Answer(i) \/ Refusal(i)
        BY <3>4 DEF Restart, Answer, Refusal, Typed
      <3> QED
        BY <1>2, <3>1, <3>2, <3>3, <3>4
    <2>4. UNCHANGED clients /\ process' \in [Instances -> {"up", "stopping", "down"}]
          /\ faults' \in 0 .. MaxFaults
      <3>1. UNCHANGED clients
        BY <1>2 DEF Heartbeat, Shutdown, Exit, Crash, Die, Restart, Answer, Refusal
      <3>2. process' = process \/ \E status \in {"up", "stopping", "down"} : process' = [process EXCEPT ![i] = status]
        BY <1>2 DEF Heartbeat, Shutdown, Exit, Crash, Die, Restart, Answer, Refusal
      <3>3. faults' = faults \/ Fault
        BY <1>2 DEF Heartbeat, Shutdown, Exit, Crash, Die, Restart, Answer, Refusal
      <3>4. faults' \in 0 .. MaxFaults
        BY <3>3, LifeAssumption DEF Fault, Typed
      <3> QED
        BY <3>1, <3>2, <3>4 DEF Typed
    <2> QED
      BY <2>3, <2>4
  <1> QED
    BY <1>1, <1>2 DEF Server, Typed

\* What each page does.
PageStep(u) == Connect(u) \/ Reconnect(u) \/ Close(u) \/ Timer(u)
LineEnds(s) == Browser(s) \/ Noticed(s)

LEMMA LifeSteps ==
  LifeNext <=> \/ \E u \in Pages : PageStep(u)
               \/ \E s \in Used : LineEnds(s)
               \/ Server
  BY DEF LifeNext, PageStep, LineEnds, Server

\* close() of the page's socket.
LEMMA ClosingLines ==
  ASSUME Typed, NEW u \in Pages
  PROVE  /\ Closing(clients[u]) \in [Sockets -> Line \cup {Unused}]
         /\ \A s \in Sockets :
              \/ Closing(clients[u])[s] = lines[s]
              \/ /\ s = clients[u].current /\ s \in Used
                 /\ lines[s].browser \in {"connecting", "open"}
                 /\ Closing(clients[u])[s] = [lines[s] EXCEPT !.browser = "closing"]
  <1>1. ASSUME NEW s \in Sockets
        PROVE  \/ Closing(clients[u])[s] = lines[s]
               \/ /\ s = clients[u].current
                  /\ lines[s].browser \in {"connecting", "open"}
                  /\ Closing(clients[u])[s] = [lines[s] EXCEPT !.browser = "closing"]
    BY Zenon DEF Closing
  <1>2. \A s \in Sockets : lines[s].browser \in {"connecting", "open"} => s \in Used
    BY DEF Used, Unused
  <1>3. \A s \in Used : [lines[s] EXCEPT !.browser = "closing"] \in Line
    BY UsedLines DEF Line
  <1>4. \A s \in Sockets : Closing(clients[u])[s] \in Line \cup {Unused}
    <2>1. \A s \in Sockets : lines[s] \in Line \cup {Unused}
      BY DEF Typed
    <2>2. ASSUME NEW s \in Sockets, lines[s].browser \in {"connecting", "open"},
                 Closing(clients[u])[s] = [lines[s] EXCEPT !.browser = "closing"]
          PROVE  Closing(clients[u])[s] \in Line
      BY <1>2, <1>3, <2>2
    <2> QED
      BY <1>1, <2>1, <2>2
  <1>5. Closing(clients[u]) = [s \in Sockets |-> Closing(clients[u])[s]]
    BY DEF Closing
  <1> QED
    BY <1>1, <1>2, <1>4, <1>5

\* connect() and reconnect(): only if nothing is on its way is the new socket alone.
LEMMA CalledClient ==
  ASSUME Typed, NEW u \in Pages
  PROVE  /\ Called(u) \in Client /\ Called(u).calls = clients[u].calls + 1
         /\ ~Called(u).overlapped => Live(u) = {} /\ Called(u).timers = 0 /\ ~Called(u).closedByUser
  <1> DEFINE late == clients[u].overlapped \/ Live(u) # {} \/ clients[u].timers > 0
  <1>1. late \in BOOLEAN /\ clients[u] \in Client
    BY DEF Typed
  <1>2. Called(u) = [clients[u] EXCEPT !.closedByUser = FALSE, !.calls = @ + 1, !.overlapped = late]
    BY DEF Called
  <1>3. ~late => Live(u) = {} /\ clients[u].timers = 0
    BY <1>1 DEF Client
  <1> HIDE DEF late
  <1>4. /\ Called(u).current = clients[u].current /\ Called(u).closedByUser = FALSE
        /\ Called(u).timers = clients[u].timers /\ Called(u).calls = clients[u].calls + 1
        /\ Called(u).overlapped = late
        /\ Called(u) = [current |-> Called(u).current, closedByUser |-> Called(u).closedByUser,
                        timers |-> Called(u).timers, calls |-> Called(u).calls,
                        overlapped |-> Called(u).overlapped]
    BY <1>1, <1>2 DEF Client
  <1>5. Called(u) \in Client
    <2>1. /\ clients[u].current \in Sockets \cup {0} /\ clients[u].timers \in Nat
          /\ clients[u].calls + 1 \in Nat
      BY <1>1 DEF Client
    <2> QED
      BY <1>1, <1>4, <2>1 DEF Client
  <1>6. ~Called(u).overlapped => ~late
    BY <1>4, Zenon
  <1> QED
    BY <1>3, <1>4, <1>5, <1>6

\* What the page does itself, and the ends of its lines.
LEMMA TypedPage ==
  ASSUME Typed, (\E u \in Pages : PageStep(u)) \/ \E s \in Used : LineEnds(s)
  PROVE  Typed'
  <1>1. ASSUME NEW u \in Pages, Connect(u) \/ Reconnect(u)
        PROVE  Typed'
    <2>1. /\ clients[u] \in Client /\ clients[u].calls < MaxCalls[u] /\ MaxCalls[u] \in Nat
          /\ lines \in [Sockets -> Line \cup {Unused}]
      BY <1>1, LifeAssumption DEF Connect, Reconnect, Typed, Client
    <2>2. Called(u) \in Client /\ Called(u).calls = clients[u].calls + 1
      BY CalledClient
    <2>3. Called(u).calls <= MaxCalls[u]
      BY <2>1, <2>2 DEF Client
    <2> QED
      BY <1>1, <2>1, <2>2, <2>3, TypedOpen, ClosingLines DEF Connect, Reconnect
  <1>2. ASSUME NEW u \in Pages, Close(u)
        PROVE  Typed'
    <2>1. [clients[u] EXCEPT !.closedByUser = TRUE, !.current = 0] \in Client
      BY DEF Typed, Client
    <2>2. [clients[u] EXCEPT !.closedByUser = TRUE, !.current = 0].calls = clients[u].calls
      BY DEF Typed, Client
    <2>3. clients' = [clients EXCEPT ![u] = [clients[u] EXCEPT !.closedByUser = TRUE, !.current = 0]]
      BY <1>2 DEF Close, Typed
    <2> QED
      BY <1>2, <2>1, <2>2, <2>3, ClosingLines DEF Close, Typed
  <1>3. ASSUME NEW u \in Pages, Timer(u)
        PROVE  Typed'
    <2> DEFINE client == [clients[u] EXCEPT !.timers = @ - 1]
    <2>1. /\ client \in Client /\ client.calls = clients[u].calls /\ clients[u].calls <= MaxCalls[u]
          /\ lines \in [Sockets -> Line \cup {Unused}]
      BY <1>3 DEF Timer, Typed, Client
    <2>2. CASE client.closedByUser
      BY <1>3, <2>1, <2>2 DEF Timer, Typed
    <2>3. CASE ~client.closedByUser
      BY <1>3, <2>1, <2>3, TypedOpen DEF Timer
    <2> QED
      BY <2>2, <2>3
  <1>4. ASSUME NEW s \in Used, LineEnds(s)
        PROVE  Typed'
    <2>1. TriggerClose(s) /\ (faults' = faults \/ Fault)
      BY <1>4 DEF LineEnds, Browser, CloseEvent, Refused, ClosedThere, Noticed
    <2>2. faults' \in 0 .. MaxFaults
      BY <2>1, LifeAssumption DEF Fault, Typed
    <2> QED
      BY <2>1, <2>2, TypedTrigger
  <1> QED
    BY <1>1, <1>2, <1>3, <1>4 DEF PageStep

\* The type of everything but the rooms.
LEMMA LinesTyped == LifeSpec => []Typed
<1>1. Typed /\ [LifeNext]_lifeVars => Typed'
  <2>1. ASSUME Typed, UNCHANGED lifeVars PROVE Typed'
    BY <2>1 DEF lifeVars, Typed
  <2> QED
    BY <2>1, LifeSteps, TypedServer, TypedPage
<1> QED
  BY <1>1, TypedInit, PTL DEF LifeSpec

\* What the two ends of the sockets do to the rooms is what RoomRegistry may do.
THEOREM SocketsImplementRegistry == LifeSpec => ImplementsRegistry
<1>1. Typed /\ [LifeNext]_lifeVars => [Next]_vars
  <2> SUFFICES ASSUME Typed, LifeNext PROVE [Next]_vars
    BY DEF lifeVars, vars
  <2>1. ASSUME NEW s \in Used, Handshake(s) \/ CloseSeen(s)
        PROVE  [Next]_vars
    <3>1. JoinStep(At(s), s) \/ LeaveStep(At(s), s) \/ UNCHANGED vars
      BY <2>1 DEF Handshake, CloseSeen, Departs, vars
    <3> QED
      BY <3>1, UsedLines DEF Next
  <2>2. ASSUME NEW i \in Instances, Exit(i) \/ Crash(i) \/ Answer(i) \/ Refusal(i)
        PROVE  [Next]_vars
    BY <2>2 DEF Exit, Crash, Die, Answer, Refusal, Next, RedisStep
  <2>3. ASSUME NEW u \in Pages, PageStep(u)
        PROVE  UNCHANGED vars
    BY <2>3 DEF PageStep, Connect, Reconnect, Close, Timer, vars
  <2>4. ASSUME NEW s \in Used, LineEnds(s) \/ Ready(s) \/ ServerSees(s) \/ Pong(s) \/ Cut(s)
        PROVE  UNCHANGED vars
    BY <2>4 DEF LineEnds, Browser, CloseEvent, Refused, ClosedThere, Noticed, TriggerClose, Ready,
                ServerSees, Pong, Cut, vars
  <2>5. ASSUME NEW i \in Instances, Heartbeat(i) \/ Shutdown(i) \/ Restart(i)
        PROVE  UNCHANGED vars
    BY <2>5 DEF Heartbeat, Shutdown, Restart, vars
  <2> QED
    BY <2>1, <2>2, <2>3, <2>4, <2>5, LifeSteps DEF Server, Handler, Ending
<1>2. LifeInit => Init
  BY DEF LifeInit
<1> QED
  BY <1>1, <1>2, LinesTyped, PTL DEF LifeSpec, ImplementsRegistry, Spec

\* Type correctness of both ends and the rooms.
THEOREM SocketsTyped == LifeSpec => []LifeTypeOK
<1>1. Typed /\ TypeOK => LifeTypeOK
  BY DEF Typed, LifeTypeOK
<1> QED
  BY <1>1, LinesTyped, SocketsImplementRegistry, RegistryTyped, PTL DEF ImplementsRegistry

\* Whoever opens, closes, terminates and reconnects: if no SUBSCRIBE is refused, an
\* occupied room is heard.
THEOREM SocketsAreHeard ==
  ASSUME "sub" \notin Failures
  PROVE  LifeSpec => []OccupiedIsHeard
  BY SocketsImplementRegistry, OccupiedStaysHeard, PTL DEF ImplementsRegistry

-----------------------------------------------------------------------------
\* The server, the network and the failures take no line from a page and give it
\* none, and do not open what is closing.
Kept(s) ==
  \/ lines'[s] = lines[s]
  \/ s \in Used /\ lines[s].browser = "closed" /\ lines'[s] = Unused
  \/ /\ s \in Used /\ lines'[s] \in Line
     /\ lines'[s].page = lines[s].page
     /\ \/ lines'[s].browser = lines[s].browser
        \/ lines[s].browser = "connecting" /\ lines'[s].browser = "open"

LEMMA ServerKeeps ==
  ASSUME Typed, Server
  PROVE  \A s \in Sockets : Kept(s)
  <1>1. ASSUME NEW s \in Used, Handler(s) \/ Ending(s) \/ Pong(s) \/ Cut(s)
        PROVE  \A t \in Sockets : Kept(t)
    <2>1. s \in Sockets /\ lines[s] \in Line /\ lines \in [Sockets -> Line \cup {Unused}]
      BY UsedLines DEF Typed
    <2>2. \E line : /\ lines' = [lines EXCEPT ![s] = line]
                    /\ \/ lines[s].browser = "closed" /\ line = Unused
                       \/ /\ line \in Line /\ line.page = lines[s].page
                          /\ \/ line.browser = lines[s].browser
                             \/ lines[s].browser = "connecting" /\ line.browser = "open"
      <3>1. CASE Handshake(s)
        <4>1. lines' = [lines EXCEPT ![s] = Upgraded(lines[s])]
          BY <3>1, <2>1 DEF Handshake
        <4>2. Upgraded(lines[s]) \in Line /\ Upgraded(lines[s]).page = lines[s].page
              /\ Upgraded(lines[s]).browser = "open"
          BY <2>1 DEF Upgraded, Line
        <4> QED
          BY <3>1, <4>1, <4>2 DEF Handshake
      <3>2. ASSUME NEW line \in Line, line.page = lines[s].page, line.browser = lines[s].browser,
                   Put(s, line) \/ lines' = [lines EXCEPT ![s] = line]
            PROVE  \E l : /\ lines' = [lines EXCEPT ![s] = l]
                          /\ \/ lines[s].browser = "closed" /\ l = Unused
                             \/ l \in Line /\ l.page = lines[s].page /\ l.browser = lines[s].browser
        <4>1. CASE lines' = [lines EXCEPT ![s] = line]
          BY <3>2, <4>1
        <4>2. CASE lines' = [lines EXCEPT ![s] = Unused] /\ line.browser = "closed"
          BY <3>2, <4>2
        <4> QED
          BY <3>2, <4>1, <4>2 DEF Put
      <3>3. CASE Ready(s)
        <4>1. lines' = [lines EXCEPT ![s] = [lines[s] EXCEPT !.server = "ready"]]
          BY <3>3, <2>1 DEF Ready
        <4> QED
          BY <2>1, <3>2, <4>1 DEF Line
      <3>4. CASE ServerSees(s)
        <4>1. lines' = [lines EXCEPT ![s] = [lines[s] EXCEPT !.ended = "closed"]]
          BY <3>4, <2>1 DEF ServerSees
        <4> QED
          BY <2>1, <3>2, <4>1 DEF Line
      <3>5. CASE CloseSeen(s)
        <4>1. \/ Put(s, [lines[s] EXCEPT !.server = "over", !.ended = "no"])
              \/ Put(s, [lines[s] EXCEPT !.server = "deaf", !.ended = "no"])
          BY <3>5 DEF CloseSeen
        <4> QED
          BY <2>1, <3>2, <4>1 DEF Line
      <3>6. CASE Pong(s)
        <4>1. lines' = [lines EXCEPT ![s] = [lines[s] EXCEPT !.isAlive = TRUE, !.pinged = FALSE]]
          BY <3>6, <2>1, Zenon DEF Pong
        <4> QED
          BY <2>1, <3>2, <4>1 DEF Line
      <3>7. CASE Cut(s)
        <4>1. lines' = [lines EXCEPT ![s] = [lines[s] EXCEPT !.cut = TRUE]]
          BY <3>7, <2>1 DEF Cut
        <4> QED
          BY <2>1, <3>2, <4>1 DEF Line
      <3> QED
        BY <1>1, <3>1, <3>3, <3>4, <3>5, <3>6, <3>7 DEF Handler, Ending
    <2> QED
      BY <2>1, <2>2 DEF Kept, Used
  <1>2. ASSUME NEW i \in Instances, Heartbeat(i) \/ Shutdown(i) \/ Exit(i) \/ Crash(i)
                                    \/ Restart(i) \/ Answer(i) \/ Refusal(i),
               NEW s \in Sockets
        PROVE  Kept(s)
    <2>1. \/ lines'[s] = lines[s]
          \/ s \in Used /\ lines[s].browser = "closed" /\ lines'[s] = Unused
          \/ s \in Used /\ lines'[s] = Pinged(lines[s])
          \/ s \in Used /\ lines'[s] = [lines[s] EXCEPT !.ended = "terminated"]
          \/ s \in Used /\ lines'[s] = [lines[s] EXCEPT !.ended = "closed"]
          \/ s \in Used /\ lines'[s] = [lines[s] EXCEPT !.server = "over", !.ended = "no"]
      <3>1. CASE Heartbeat(i)
        BY <3>1, Zenon DEF Heartbeat, Peers
      <3>2. CASE Shutdown(i)
        BY <3>2, Zenon DEF Shutdown, Peers
      <3>3. CASE Die(i)
        BY <3>3, Zenon DEF Die
      <3>4. CASE UNCHANGED lines
        BY <3>4
      <3> QED
        BY <1>2, <3>1, <3>2, <3>3, <3>4 DEF Exit, Crash, Restart, Answer, Refusal
    <2>2. ASSUME s \in Used
          PROVE  \A line \in {Pinged(lines[s]), [lines[s] EXCEPT !.ended = "terminated"],
                              [lines[s] EXCEPT !.ended = "closed"],
                              [lines[s] EXCEPT !.server = "over", !.ended = "no"]} :
                   line \in Line /\ line.page = lines[s].page /\ line.browser = lines[s].browser
      BY <2>2, UsedLines DEF Line, Pinged
    <2> QED
      BY <2>1, <2>2 DEF Kept
  <1> QED
    BY <1>1, <1>2 DEF Server

\* So the lines of a page are those it had.
LEMMA ServerKeepsLive ==
  ASSUME Typed, Server, NEW u \in Pages
  PROVE  /\ Live(u)' = Live(u)
         /\ \A s \in Live(u) : lines[s].browser = "closing" => lines'[s].browser = "closing"
  <1>1. \A s \in Sockets : Kept(s)
    BY ServerKeeps
  <1>2. ASSUME NEW s \in Sockets
        PROVE  /\ s \in Live(u)' <=> s \in Live(u)
               /\ s \in Live(u) /\ lines[s].browser = "closing" => lines'[s].browser = "closing"
    BY <1>1, UsedLines DEF Kept, Live, Used
  <1> QED
    BY <1>2 DEF Live, Used

\* open() adds one socket to those of the page.
LEMMA OpensLive ==
  ASSUME Typed, NEW u \in Pages, NEW client \in Client, NEW all \in [Sockets -> Line \cup {Unused}],
         Open(u, client, all),
         \A t \in Sockets :
           \/ all[t] = lines[t]
           \/ t \in Used /\ lines[t].browser # "closed" /\ all[t] = [lines[t] EXCEPT !.browser = "closing"]
  PROVE  \E s \in Sockets :
           /\ \A v \in Pages : s \notin Live(v)
           /\ s \in Live(u)' /\ s # 0
           /\ \A v \in Pages : Live(v)' = IF v = u THEN Live(v) \cup {s} ELSE Live(v)
           /\ \A t \in Sockets \ {s} : t \in Used => lines'[t].browser \in {lines[t].browser, "closing"}
           /\ clients' = [clients EXCEPT ![u] = [client EXCEPT !.current = s]]
  <1>1. PICK s \in Sockets :
           /\ all[s] = Unused
           /\ lines' = [all EXCEPT ![s] = New(u)]
           /\ clients' = [clients EXCEPT ![u] = [client EXCEPT !.current = s]]
    BY Opens
  <1>2. ASSUME NEW t \in Sockets
        PROVE  /\ t = s => lines'[t] = New(u)
               /\ t # s => lines'[t] = all[t]
    BY <1>1
  <1>3. New(u) # Unused /\ New(u).page = u /\ New(u).browser = "connecting"
    BY DEF New, Unused
  <1>4. lines[s] = Unused /\ s \notin Used
    <2>1. \A t \in Used : [lines[t] EXCEPT !.browser = "closing"] \in Line
      BY UsedLines DEF Line
    <2> QED
      BY <1>1, UsedLines DEF Used, Line
  <1>5. ASSUME NEW t \in Sockets, t # s, t \in Used
        PROVE  /\ lines'[t] \in Line /\ lines'[t].page = lines[t].page
               /\ lines'[t].browser \in {lines[t].browser, "closing"}
               /\ lines[t].browser = "closed" <=> lines'[t].browser = "closed"
    BY <1>2, <1>5, UsedLines DEF Line
  <1>6. ASSUME NEW t \in Sockets, t # s, t \notin Used
        PROVE  lines'[t] = Unused
    BY <1>2, <1>6 DEF Used
  <1>7. ASSUME NEW v \in Pages, NEW t \in Sockets
        PROVE  t \in Live(v)' <=> t \in Live(v) \/ (t = s /\ v = u)
    <2>1. CASE t = s
      BY <1>2, <1>3, <1>4, <2>1 DEF Live, Used
    <2>2. CASE t # s
      BY <1>5, <1>6, <2>2, UsedLines DEF Live, Used
    <2> QED
      BY <2>1, <2>2
  <1>8. \A v \in Pages : Live(v)' = IF v = u THEN Live(v) \cup {s} ELSE Live(v)
    BY <1>7 DEF Live, Used
  <1>9. \A v \in Pages : s \notin Live(v)
    BY <1>4 DEF Live
  <1> QED
    BY <1>1, <1>5, <1>8, <1>9, LifeAssumption

\* triggerClose takes the socket from those of its page, and touches no other.
LEMMA TriggerLive ==
  ASSUME Typed, NEW s \in Used, TriggerClose(s)
  PROVE  /\ \A v \in Pages : Live(v)' = Live(v) \ {s}
         /\ \A t \in Sockets \ {s} : lines'[t] = lines[t]
         /\ \A v \in Pages \ {lines[s].page} : clients'[v] = clients[v]
         /\ LET old == clients[lines[s].page]
                new == clients'[lines[s].page]
            IN /\ new.current = IF old.current = s THEN 0 ELSE old.current
               /\ new.overlapped = old.overlapped /\ new.closedByUser = old.closedByUser
               /\ new.timers = IF old.closedByUser THEN old.timers ELSE old.timers + 1
  <1> DEFINE u == lines[s].page
  <1>1. s \in Sockets /\ lines[s] \in Line /\ u \in Pages /\ clients[u] \in Client
        /\ lines \in [Sockets -> Line \cup {Unused}] /\ clients \in [Pages -> Client]
    BY UsedLines DEF Typed
  <1>2. \E line \in Line \cup {Unused} :
          (line = Unused \/ line.browser = "closed") /\ lines' = [lines EXCEPT ![s] = line]
    <2>1. [lines[s] EXCEPT !.browser = "closed"] \in Line
          /\ [lines[s] EXCEPT !.browser = "closed"].browser = "closed"
      BY <1>1 DEF Line
    <2> QED
      BY <2>1, Zenon DEF TriggerClose, Put
  <1>3. \A t \in Sockets \ {s} : lines'[t] = lines[t]
    BY <1>1, <1>2
  <1>4. lines'[s] = Unused \/ lines'[s].browser = "closed"
    BY <1>1, <1>2
  <1>5. ASSUME NEW v \in Pages, NEW t \in Sockets
        PROVE  t \in Live(v)' <=> t \in Live(v) /\ t # s
    BY <1>3, <1>4 DEF Live, Used
  <1>6. \A v \in Pages : Live(v)' = Live(v) \ {s}
    BY <1>5 DEF Live, Used
  <1>7. PICK client \in Client :
          /\ client.current = IF clients[u].current = s THEN 0 ELSE clients[u].current
          /\ client.overlapped = clients[u].overlapped /\ client.closedByUser = clients[u].closedByUser
          /\ client.timers = clients[u].timers
          /\ clients' = [clients EXCEPT ![u] = IF client.closedByUser THEN client
                                               ELSE [client EXCEPT !.timers = @ + 1]]
    <2> DEFINE client == [clients[u] EXCEPT !.current = IF @ = s THEN 0 ELSE @]
    <2>1. client \in Client
          /\ client.current = (IF clients[u].current = s THEN 0 ELSE clients[u].current)
          /\ client.overlapped = clients[u].overlapped /\ client.closedByUser = clients[u].closedByUser
          /\ client.timers = clients[u].timers
      BY <1>1 DEF Client
    <2>2. clients' = [clients EXCEPT ![u] = IF client.closedByUser THEN client
                                            ELSE [client EXCEPT !.timers = @ + 1]]
      BY DEF TriggerClose, Scheduled
    <2> HIDE DEF client
    <2> QED
      BY <2>1, <2>2
  <1>8. \A v \in Pages \ {u} : clients'[v] = clients[v]
    BY <1>1, <1>7
  <1>9. clients'[u] = IF client.closedByUser THEN client ELSE [client EXCEPT !.timers = @ + 1]
    BY <1>1, <1>7
  <1>10. clients'[u].timers = IF client.closedByUser THEN client.timers ELSE client.timers + 1
    BY <1>7, <1>9 DEF Client
  <1>11. clients'[u].current = client.current /\ clients'[u].overlapped = client.overlapped
         /\ clients'[u].closedByUser = client.closedByUser
    BY <1>7, <1>9 DEF Client
  <1> QED
    BY <1>3, <1>6, <1>7, <1>8, <1>10, <1>11

\* What OneLine says of a page.
Straight(u) ==
  ~clients[u].overlapped =>
    /\ clients[u].timers <= 1 /\ (clients[u].timers = 1 => Live(u) = {})
    /\ \A s, t \in Live(u) : s = t
    /\ \A s \in Live(u) : \/ lines[s].browser = "closing"
                          \/ s = clients[u].current /\ ~clients[u].closedByUser
PageInv(u) ==
  /\ clients[u].current # 0 => clients[u].current \in Live(u)
  /\ Straight(u)

\* A page that does nothing, while its sockets at most begin to close.
LEMMA Untouched ==
  ASSUME NEW u \in Pages, PageInv(u), clients'[u] = clients[u], Live(u)' = Live(u),
         \A s \in Live(u) : lines[s].browser = "closing" => lines'[s].browser = "closing"
  PROVE  PageInv(u)'
  BY DEF PageInv, Straight

\* A page that opens a socket.
LEMMA OpenKeeps ==
  ASSUME Typed, NEW u \in Pages, NEW client \in Client, NEW all \in [Sockets -> Line \cup {Unused}],
         Open(u, client, all), \A v \in Pages : PageInv(v),
         \A t \in Sockets :
           \/ all[t] = lines[t]
           \/ t \in Used /\ lines[t].browser # "closed" /\ all[t] = [lines[t] EXCEPT !.browser = "closing"],
         ~client.overlapped => Live(u) = {} /\ client.timers = 0 /\ ~client.closedByUser
  PROVE  \A v \in Pages : PageInv(v)'
  <1>1. PICK s \in Sockets :
           /\ s \in Live(u)' /\ s # 0
           /\ \A v \in Pages : Live(v)' = IF v = u THEN Live(v) \cup {s} ELSE Live(v)
           /\ \A v \in Pages : s \notin Live(v)
           /\ \A t \in Sockets \ {s} : t \in Used => lines'[t].browser \in {lines[t].browser, "closing"}
           /\ clients' = [clients EXCEPT ![u] = [client EXCEPT !.current = s]]
    BY OpensLive
  <1>2. ASSUME NEW v \in Pages, v # u
        PROVE  PageInv(v)'
    <2>1. clients'[v] = clients[v] /\ Live(v)' = Live(v)
      BY <1>1, <1>2
    <2>2. \A t \in Live(v) : lines[t].browser = "closing" => lines'[t].browser = "closing"
      <3>1. \A t \in Live(v) : t \in Sockets \ {s} /\ t \in Used
        BY <1>1, UsedLines DEF Live
      <3> QED
        BY <1>1, <3>1
    <2> QED
      BY <2>1, <2>2, Untouched
  <1>3. clients'[u] = [client EXCEPT !.current = s]
    BY <1>1 DEF Typed
  <1>4. /\ clients'[u].current = s /\ clients'[u].overlapped = client.overlapped
        /\ clients'[u].timers = client.timers /\ clients'[u].closedByUser = client.closedByUser
    BY <1>3 DEF Client
  <1>5. ~client.overlapped => Live(u)' = {s}
    BY <1>1
  <1>6. PageInv(u)'
    BY <1>1, <1>4, <1>5 DEF PageInv, Straight
  <1> QED
    BY <1>2, <1>6

\* A page whose sockets end.
LEMMA EndKeeps ==
  ASSUME Typed, NEW s \in Used, LineEnds(s), \A v \in Pages : PageInv(v)
  PROVE  \A v \in Pages : PageInv(v)'
  <1>0. PICK u \in Pages : u = lines[s].page
    BY UsedLines
  <1>1. TriggerClose(s) /\ lines[s].browser # "closed" /\ s \in Sockets
    BY UsedLines DEF LineEnds, Browser, CloseEvent, Refused, ClosedThere, Noticed
  <1>2. s \in Live(u) /\ \A v \in Pages : s \in Live(v) => v = u
    BY <1>0, <1>1 DEF Live
  <1>3. /\ \A v \in Pages : Live(v)' = Live(v) \ {s}
        /\ \A t \in Sockets \ {s} : lines'[t] = lines[t]
        /\ \A v \in Pages \ {u} : clients'[v] = clients[v]
        /\ clients'[u].current = IF clients[u].current = s THEN 0 ELSE clients[u].current
        /\ clients'[u].overlapped = clients[u].overlapped
        /\ clients'[u].timers = IF clients[u].closedByUser THEN clients[u].timers
                                ELSE clients[u].timers + 1
    BY <1>0, <1>1, TriggerLive
  <1>4. ASSUME NEW v \in Pages, v # u
        PROVE  PageInv(v)'
    <2>1. Live(v)' = Live(v) /\ \A t \in Live(v) : lines'[t] = lines[t]
      BY <1>2, <1>3, <1>4, UsedLines DEF Live
    <2> QED
      BY <1>3, <1>4, <2>1, Untouched
  <1>5. PageInv(u)'
    <2>1. PageInv(u) /\ clients[u].timers \in Nat
      BY DEF Typed, Client
    <2>2. clients'[u].current # 0 => clients'[u].current \in Live(u)'
      BY <1>1, <1>3, <2>1 DEF PageInv
    <2>3. ASSUME ~clients[u].overlapped
          PROVE  /\ clients'[u].timers <= 1 /\ Live(u)' = {}
      BY <1>1, <1>2, <1>3, <2>1, <2>3 DEF PageInv, Straight
    <2> QED
      BY <1>3, <2>2, <2>3 DEF PageInv, Straight
  <1> QED
    BY <1>4, <1>5

\* One line for every page, however many sockets it has had: unless the page calls
\* connect() again too early.
THEOREM PagesHaveOneLine == LifeSpec => []OneLine
<1> DEFINE Inv == \A u \in Pages : PageInv(u)
<1>1. LifeInit => Inv
  BY DEF LifeInit, PageInv, Straight, Live, Used
<1>2. Typed /\ Inv /\ [LifeNext]_lifeVars => Inv'
  <2> SUFFICES ASSUME Typed, Inv, [LifeNext]_lifeVars PROVE Inv'
    OBVIOUS
  <2>1. ASSUME NEW u \in Pages, Connect(u) \/ Reconnect(u)
        PROVE  Inv'
    <3>1. /\ clients[u] \in Client /\ Called(u) \in Client
          /\ ~Called(u).overlapped => Live(u) = {} /\ Called(u).timers = 0 /\ ~Called(u).closedByUser
      BY CalledClient DEF Typed
    <3>2. CASE Connect(u)
      <4>1. Open(u, Called(u), lines) /\ lines \in [Sockets -> Line \cup {Unused}]
        BY <3>2 DEF Connect, Typed
      <4> QED
        BY <3>1, <4>1, OpenKeeps
    <3>3. CASE Reconnect(u)
      <4>1. Open(u, Called(u), Closing(clients[u]))
        BY <3>3 DEF Reconnect
      <4>2. \A t \in Sockets :
              \/ Closing(clients[u])[t] = lines[t]
              \/ t \in Used /\ lines[t].browser # "closed"
                 /\ Closing(clients[u])[t] = [lines[t] EXCEPT !.browser = "closing"]
        BY ClosingLines
      <4> QED
        BY <3>1, <4>1, <4>2, ClosingLines, OpenKeeps
    <3> QED
      BY <2>1, <3>2, <3>3
  <2>2. ASSUME NEW u \in Pages, Close(u)
        PROVE  Inv'
    <3>1. lines' = Closing(clients[u]) /\ clients[u] \in Client
          /\ clients' = [clients EXCEPT ![u] = [clients[u] EXCEPT !.closedByUser = TRUE, !.current = 0]]
      BY <2>2 DEF Close, Typed
    <3>2. /\ \A v \in Pages \ {u} : clients'[v] = clients[v]
          /\ clients'[u].current = 0 /\ clients'[u].overlapped = clients[u].overlapped
          /\ clients'[u].timers = clients[u].timers
      BY <3>1 DEF Client, Typed
    <3>3. ASSUME NEW s \in Sockets
          PROVE  \/ lines'[s] = lines[s] /\ (s = clients[u].current /\ s \in Used
                                             => lines[s].browser \in {"closing", "closed"})
                 \/ /\ s \in Used /\ lines[s].browser # "closed"
                    /\ lines'[s] \in Line /\ lines'[s].page = lines[s].page
                    /\ lines'[s].browser = "closing"
      <4>1. s \in Used => [lines[s] EXCEPT !.browser = "closing"] \in Line
                          /\ lines[s].browser \in {"connecting", "open", "closing", "closed"}
        BY UsedLines DEF Line
      <4>2. CASE s = clients[u].current /\ lines[s].browser \in {"connecting", "open"}
        <5>1. s \in Used
          BY <4>2 DEF Used, Unused
        <5>2. lines'[s] = [lines[s] EXCEPT !.browser = "closing"]
          BY <3>1, <4>2, Zenon DEF Closing
        <5> QED
          BY <4>1, <4>2, <5>1, <5>2, UsedLines DEF Line
      <4>3. CASE ~(s = clients[u].current /\ lines[s].browser \in {"connecting", "open"})
        <5>1. lines'[s] = lines[s]
          BY <3>1, <4>3, Zenon DEF Closing
        <5> QED
          BY <4>1, <4>3, <5>1
      <4> QED
        BY <4>2, <4>3
    <3>4. ASSUME NEW v \in Pages, NEW s \in Sockets
          PROVE  /\ s \in Live(v)' <=> s \in Live(v)
                 /\ s \in Live(v) /\ lines[s].browser = "closing" => lines'[s].browser = "closing"
                 /\ s \in Live(v) /\ s = clients[u].current => lines'[s].browser = "closing"
      BY <3>3, UsedLines DEF Live, Used
    <3>5. \A v \in Pages : Live(v)' = Live(v)
      BY <3>4 DEF Live, Used
    <3>6. \A v \in Pages : \A s \in Live(v) :
            /\ lines[s].browser = "closing" => lines'[s].browser = "closing"
            /\ s = clients[u].current => lines'[s].browser = "closing"
      BY <3>4 DEF Live, Used
    <3>7. \A v \in Pages \ {u} : PageInv(v)'
      BY <3>2, <3>5, <3>6, Untouched
    <3>8. PageInv(u)'
      BY <3>2, <3>5, <3>6 DEF PageInv, Straight
    <3> QED
      BY <3>7, <3>8
  <2>3. ASSUME NEW u \in Pages, Timer(u)
        PROVE  Inv'
    <3> DEFINE client == [clients[u] EXCEPT !.timers = @ - 1]
    <3>1. /\ clients[u] \in Client /\ clients[u].timers > 0 /\ client \in Client
          /\ client.current = clients[u].current /\ client.closedByUser = clients[u].closedByUser
          /\ client.overlapped = clients[u].overlapped /\ client.timers = clients[u].timers - 1
      BY <2>3 DEF Timer, Typed, Client
    <3>2. \/ clients[u].closedByUser /\ clients' = [clients EXCEPT ![u] = client] /\ UNCHANGED lines
          \/ ~clients[u].closedByUser /\ Open(u, client, lines)
      BY <2>3, <3>1 DEF Timer
    <3> HIDE DEF client
    <3>3. ~client.overlapped => Live(u) = {} /\ client.timers = 0
      BY <3>1 DEF PageInv, Straight, Client
    <3>4. CASE clients[u].closedByUser /\ clients' = [clients EXCEPT ![u] = client] /\ UNCHANGED lines
      <4>1. \A v \in Pages : Live(v)' = Live(v)
        BY <3>4 DEF Live, Used
      <4>2. clients'[u] = client /\ \A v \in Pages \ {u} : clients'[v] = clients[v]
        BY <3>4 DEF Typed
      <4>3. \A v \in Pages \ {u} : PageInv(v)'
        BY <3>4, <4>1, <4>2, Untouched
      <4>4. PageInv(u)'
        BY <3>1, <3>3, <4>1, <4>2 DEF PageInv, Straight
      <4> QED
        BY <4>3, <4>4
    <3>5. CASE ~clients[u].closedByUser /\ Open(u, client, lines)
      <4>1. lines \in [Sockets -> Line \cup {Unused}]
        BY DEF Typed
      <4> QED
        BY <3>1, <3>3, <3>5, <4>1, OpenKeeps
    <3> QED
      BY <3>2, <3>4, <3>5
  <2>4. ASSUME NEW s \in Used, LineEnds(s)
        PROVE  Inv'
    BY <2>4, EndKeeps
  <2>5. CASE Server
    BY <2>5, ServerKeepsLive, TypedServer, Untouched
  <2>6. CASE UNCHANGED lifeVars
    BY <2>6 DEF lifeVars, PageInv, Straight, Live, Used
  <2> QED
    BY <2>1, <2>2, <2>3, <2>4, <2>5, <2>6, LifeSteps DEF PageStep
<1>3. Inv => OneLine
  BY DEF PageInv, Straight, OneLine
<1> QED
  BY <1>1, <1>2, <1>3, LinesTyped, PTL DEF LifeSpec

-----------------------------------------------------------------------------
\* What is kept of a line: the server has to do with it once it is granted, and a
\* peer that is not alive has not answered a ping.
Sound(line) ==
  line # Unused =>
    /\ line.browser = "connecting" => line.server = "none" /\ line.ended = "no"
    /\ line.ended = "terminated" => line.cut \/ line.browser # "open"
    /\ line.server \in {"joining", "ready"} /\ ~line.isAlive => line.pinged

\* The pages open sound lines, and close them.
LEMMA PageSound ==
  ASSUME Typed, \A s \in Sockets : Sound(lines[s]),
         (\E u \in Pages : PageStep(u)) \/ \E s \in Used : LineEnds(s)
  PROVE  \A s \in Sockets : Sound(lines'[s])
  <1>1. ASSUME NEW u \in Pages, NEW client, NEW all \in [Sockets -> Line \cup {Unused}], Open(u, client, all),
               \A s \in Sockets : Sound(all[s])
        PROVE  \A s \in Sockets : Sound(lines'[s])
    <2>1. PICK s \in Sockets : lines' = [all EXCEPT ![s] = New(u)]
      BY <1>1, Opens
    <2>2. Sound(New(u))
      BY DEF Sound, New
    <2> QED
      BY <1>1, <2>1, <2>2
  <1>2. ASSUME NEW u \in Pages
        PROVE  \A s \in Sockets : Sound(Closing(clients[u])[s])
    <2>1. \A s \in Used : Sound([lines[s] EXCEPT !.browser = "closing"])
      <3> SUFFICES ASSUME NEW s \in Used PROVE Sound([lines[s] EXCEPT !.browser = "closing"])
        OBVIOUS
      <3>1. lines[s] \in Line /\ lines[s] # Unused /\ Sound(lines[s])
        BY UsedLines
      <3> QED
        BY <3>1 DEF Sound, Line
    <2>2. ASSUME NEW s \in Sockets
          PROVE  Sound(Closing(clients[u])[s])
      <3>1. CASE Closing(clients[u])[s] = lines[s]
        BY <3>1
      <3>2. CASE s \in Used /\ Closing(clients[u])[s] = [lines[s] EXCEPT !.browser = "closing"]
        BY <2>1, <3>2
      <3> QED
        BY <3>1, <3>2, ClosingLines
    <2> QED
      BY <2>2
  <1>3. ASSUME NEW s \in Used, TriggerClose(s)
        PROVE  \A t \in Sockets : Sound(lines'[t])
    <2>1. /\ s \in Sockets /\ lines[s] \in Line /\ lines[s] # Unused /\ Sound(lines[s])
          /\ lines \in [Sockets -> Line \cup {Unused}]
      BY UsedLines DEF Typed
    <2>2. Sound([lines[s] EXCEPT !.browser = "closed"]) /\ Sound(Unused)
      BY <2>1 DEF Sound, Line
    <2>3. \E line : Sound(line) /\ lines' = [lines EXCEPT ![s] = line]
      BY <1>3, <2>2, Zenon DEF TriggerClose, Put
    <2> QED
      BY <2>1, <2>3
  <1>4. ASSUME NEW u \in Pages, PageStep(u)
        PROVE  \A s \in Sockets : Sound(lines'[s])
    <2>1. \/ lines' = lines
          \/ lines' = Closing(clients[u])
          \/ \E client : Open(u, client, lines) \/ Open(u, client, Closing(clients[u]))
      BY <1>4, Zenon DEF PageStep, Connect, Reconnect, Close, Timer
    <2>2. lines \in [Sockets -> Line \cup {Unused}]
      BY DEF Typed
    <2>3. CASE \E client : Open(u, client, lines) \/ Open(u, client, Closing(clients[u]))
      BY <1>1, <1>2, <2>2, <2>3, ClosingLines
    <2> QED
      BY <1>2, <2>1, <2>3
  <1>5. ASSUME NEW s \in Used, LineEnds(s)
        PROVE  TriggerClose(s)
    BY <1>5 DEF LineEnds, Browser, CloseEvent, Refused, ClosedThere, Noticed
  <1> QED
    BY <1>3, <1>4, <1>5

\* The server answers for the ends of its peers, and terminates one only whose
\* last ping has had no answer.
LEMMA ServerSound ==
  ASSUME Typed, \A s \in Sockets : Sound(lines[s]), Server
  PROVE  \A s \in Sockets : Sound(lines'[s])
  <1>1. ASSUME NEW s \in Used, Handler(s) \/ Ending(s) \/ Pong(s) \/ Cut(s)
        PROVE  \A t \in Sockets : Sound(lines'[t])
    <2>1. /\ s \in Sockets /\ lines[s] \in Line /\ lines[s] # Unused /\ Sound(lines[s])
          /\ lines \in [Sockets -> Line \cup {Unused}]
      BY UsedLines DEF Typed
    <2>2. \E line : Sound(line) /\ lines' = [lines EXCEPT ![s] = line]
      <3>1. CASE Handshake(s)
        <4>1. lines' = [lines EXCEPT ![s] = Upgraded(lines[s])] /\ lines[s].browser = "connecting"
          BY <3>1, <2>1 DEF Handshake
        <4> QED
          BY <2>1, <4>1 DEF Sound, Upgraded, Line
      <3>2. CASE Ready(s)
        <4>1. lines' = [lines EXCEPT ![s] = [lines[s] EXCEPT !.server = "ready"]]
              /\ lines[s].server = "joining"
          BY <3>2, <2>1 DEF Ready
        <4> QED
          BY <2>1, <4>1 DEF Sound, Line
      <3>3. CASE ServerSees(s)
        <4>1. lines' = [lines EXCEPT ![s] = [lines[s] EXCEPT !.ended = "closed"]]
              /\ lines[s].browser \in {"closing", "closed"}
          BY <3>3, <2>1 DEF ServerSees
        <4> QED
          BY <2>1, <4>1 DEF Sound, Line
      <3>4. CASE CloseSeen(s)
        <4>1. lines[s].ended # "no"
              /\ \/ Put(s, [lines[s] EXCEPT !.server = "over", !.ended = "no"])
                 \/ Put(s, [lines[s] EXCEPT !.server = "deaf", !.ended = "no"])
          BY <3>4 DEF CloseSeen
        <4>2. /\ Sound([lines[s] EXCEPT !.server = "over", !.ended = "no"])
              /\ Sound([lines[s] EXCEPT !.server = "deaf", !.ended = "no"])
              /\ Sound(Unused)
          BY <2>1, <4>1 DEF Sound, Line
        <4> QED
          BY <4>1, <4>2, Zenon DEF Put
      <3>5. CASE Pong(s)
        <4>1. lines' = [lines EXCEPT ![s] = [lines[s] EXCEPT !.isAlive = TRUE, !.pinged = FALSE]]
          BY <3>5, <2>1, Zenon DEF Pong
        <4> QED
          BY <2>1, <4>1 DEF Sound, Line
      <3>6. CASE Cut(s)
        <4>1. lines' = [lines EXCEPT ![s] = [lines[s] EXCEPT !.cut = TRUE]]
          BY <3>6, <2>1 DEF Cut
        <4> QED
          BY <2>1, <4>1 DEF Sound, Line
      <3> QED
        BY <1>1, <3>1, <3>2, <3>3, <3>4, <3>5, <3>6 DEF Handler, Ending
    <2> QED
      BY <2>1, <2>2
  <1>2. ASSUME NEW i \in Instances, Heartbeat(i) \/ Shutdown(i) \/ Exit(i) \/ Crash(i)
                                    \/ Restart(i) \/ Answer(i) \/ Refusal(i),
               NEW s \in Sockets
        PROVE  Sound(lines'[s])
    <2>1. s \in Used => lines[s] \in Line /\ lines[s] # Unused /\ Sound(lines[s])
      BY UsedLines
    <2>2. Sound(Unused)
      BY DEF Sound
    <2>3. CASE Heartbeat(i)
      <3>1. CASE s \in Peers(i) /\ lines[s].isAlive
        <4>1. lines'[s] = Pinged(lines[s])
          BY <2>3, <3>1, Zenon DEF Heartbeat
        <4> QED
          BY <2>1, <3>1, <4>1 DEF Sound, Pinged, Line, Peers
      <3>2. CASE s \in Peers(i) /\ ~lines[s].isAlive
        <4>1. lines'[s] = [lines[s] EXCEPT !.ended = "terminated"] /\ (Answers(s) => ~lines[s].pinged)
          BY <2>3, <3>2, Zenon DEF Heartbeat
        <4> QED
          BY <2>1, <3>2, <4>1 DEF Sound, Line, Peers, Answers
      <3>3. CASE s \notin Peers(i)
        BY <2>3, <3>3, Zenon DEF Heartbeat
      <3> QED
        BY <3>1, <3>2, <3>3
    <2>4. CASE Shutdown(i)
      <3>1. CASE s \in Peers(i)
        <4>1. lines'[s] = [lines[s] EXCEPT !.ended = "closed"]
          BY <2>4, <3>1, Zenon DEF Shutdown
        <4> QED
          BY <2>1, <3>1, <4>1 DEF Sound, Line, Peers
      <3>2. CASE s \notin Peers(i)
        BY <2>4, <3>2, Zenon DEF Shutdown
      <3> QED
        BY <3>1, <3>2
    <2>5. CASE Exit(i) \/ Crash(i)
      <3>1. Die(i)
        BY <2>5 DEF Exit, Crash
      <3>2. \/ lines'[s] = lines[s]
            \/ lines'[s] = Unused
            \/ /\ s \in Used /\ lines[s].server # "none"
               /\ lines'[s] = [lines[s] EXCEPT !.server = "over", !.ended = "no"]
        BY <3>1, Zenon DEF Die
      <3> QED
        BY <2>1, <2>2, <3>2 DEF Sound, Line
    <2>6. CASE Restart(i) \/ Answer(i) \/ Refusal(i)
      BY <2>6 DEF Restart, Answer, Refusal
    <2> QED
      BY <1>2, <2>3, <2>4, <2>5, <2>6
  <1> QED
    BY <1>1, <1>2 DEF Server

\* A peer that answers its pings is not terminated, at whatever moment it was opened
\* and whatever its handler is waiting for: as long as a pong takes less than an
\* interval.
THEOREM AnsweringIsSafe == LifeSpec => []AnsweringSurvives
<1> DEFINE Inv == \A s \in Sockets : Sound(lines[s])
<1>1. LifeInit => Inv
  BY DEF LifeInit, Sound
<1>2. Typed /\ Inv /\ [LifeNext]_lifeVars => Inv'
  <2>1. ASSUME UNCHANGED lifeVars, Inv PROVE Inv'
    BY <2>1 DEF lifeVars
  <2> QED
    BY <2>1, LifeSteps, PageSound, ServerSound
<1>3. Typed /\ Inv => AnsweringSurvives
  BY UsedLines DEF Sound, AnsweringSurvives, Answers
<1> QED
  BY <1>1, <1>2, <1>3, LinesTyped, PTL DEF LifeSpec

=============================================================================
