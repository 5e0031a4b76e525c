----------------------------- MODULE SocketLife -----------------------------
(***************************************************************************)
(* The connections of the pages to the ws processes, from both ends: the   *)
(* WsClient of a page (apps/web/src/lib/ws.ts), which opens them again,    *)
(* and the connection handler, the heartbeat and the shutdown of the ws    *)
(* server (apps/ws/src/server.ts), over the rooms of RoomRegistry.         *)
(*                                                                         *)
(* Time is in one place only: a pong takes less than a heartbeat interval. *)
(* What goes over the connections is in StreamRelay.                       *)
(***************************************************************************)
EXTENDS RoomRegistry

CONSTANTS
  Pages,
  Home,      \* the ws process of each page
  MaxCalls,  \* bound: calls of connect() and reconnect(), of each page
  MaxFaults  \* bound: failures

ASSUME LifeAssumption ==
  /\ Sockets \subseteq Nat \ {0}
  /\ Home \in [Pages -> Instances]
  /\ MaxCalls \in [Pages -> Nat]
  /\ MaxFaults \in Nat

VARIABLES
  clients,  \* the WsClient of each page
  lines,    \* the sockets, each with its two ends; numbers are used again
  process,  \* the ws processes
  faults    \* failures so far

lifeVars == <<room, commands, subscribed, clients, lines, process, faults>>

\* current: this.ws, 0 if it is null or closed. overlapped: connect() has been
\* called while an earlier socket was not closed, or was about to be replaced.
Client == [current : Sockets \cup {0}, closedByUser : BOOLEAN, timers : Nat,
           calls : Nat, overlapped : BOOLEAN]

\* server: the connection handler is in join or the replay, has its listeners
\* on, was told of the close before it had, or has been told of it. ended: the
\* server's end is closed, and its close event to come. pinged: there is a ping
\* without its pong. cut: neither end reaches the other.
Line == [page : Pages, browser : {"connecting", "open", "closing", "closed"},
         server : {"none", "joining", "ready", "deaf", "over"},
         ended : {"no", "closed", "terminated"}, isAlive : BOOLEAN, pinged : BOOLEAN,
         cut : BOOLEAN]
Unused == [browser |-> "unused"]

\* Clients, sockets and processes are such.
LifeTypeOK ==
  /\ TypeOK
  /\ clients \in [Pages -> Client]
  /\ \A u \in Pages : clients[u].calls <= MaxCalls[u]
  /\ lines \in [Sockets -> Line \cup {Unused}]
  /\ process \in [Instances -> {"up", "stopping", "down"}]
  /\ faults \in 0 .. MaxFaults

LifeInit ==
  /\ Init
  /\ clients = [u \in Pages |-> [current |-> 0, closedByUser |-> FALSE, timers |-> 0, calls |-> 0,
                                 overlapped |-> FALSE]]
  /\ lines = [s \in Sockets |-> Unused]
  /\ process = [i \in Instances |-> "up"]
  /\ faults = 0

Used == {s \in Sockets : lines[s] # Unused}
At(s) == Home[lines[s].page]
Fault == faults < MaxFaults /\ faults' = faults + 1

\* The sockets that a page has not seen the end of.
Live(u) == {s \in Used : lines[s].page = u /\ lines[s].browser # "closed"}

\* A socket that both ends are done with is nobody's.
Put(s, line) ==
  lines' = [lines EXCEPT ![s] =
    IF line.browser = "closed" /\ line.server \in {"none", "over"} THEN Unused ELSE line]

-----------------------------------------------------------------------------
(* The page.                                                               *)

New(u) == [page |-> u, browser |-> "connecting", server |-> "none", ended |-> "no",
           isAlive |-> TRUE, pinged |-> FALSE, cut |-> FALSE]

\* open(): a new WebSocket, whatever becomes of the one before.
Open(u, client, all) ==
  LET s == CHOOSE n \in Sockets : all[n] = Unused IN
  /\ \E n \in Sockets : all[n] = Unused
  /\ clients' = [clients EXCEPT ![u] = [client EXCEPT !.current = s]]
  /\ lines' = [all EXCEPT ![s] = New(u)]

\* ws.close(), of this.ws.
Closing(client) ==
  [s \in Sockets |-> IF s = client.current /\ lines[s].browser \in {"connecting", "open"}
                     THEN [lines[s] EXCEPT !.browser = "closing"] ELSE lines[s]]

Called(u) == [clients[u] EXCEPT !.closedByUser = FALSE, !.calls = @ + 1,
                !.overlapped = @ \/ Live(u) # {} \/ clients[u].timers > 0]

\* connect(), when the page is mounted.
Connect(u) ==
  /\ clients[u].calls = 0 /\ MaxCalls[u] > 0
  /\ Open(u, Called(u), lines)
  /\ UNCHANGED <<room, commands, subscribed, process, faults>>

\* reconnect(): the close event of the socket it closes is still to come.
Reconnect(u) ==
  /\ clients[u].calls \in 1 .. MaxCalls[u] - 1
  /\ Open(u, Called(u), Closing(clients[u]))
  /\ UNCHANGED <<room, commands, subscribed, process, faults>>

\* close(), when the page is unmounted.
Close(u) ==
  /\ clients[u].calls > 0 /\ ~clients[u].closedByUser
  /\ lines' = Closing(clients[u])
  /\ clients' = [clients EXCEPT ![u].closedByUser = TRUE, ![u].current = 0]
  /\ UNCHANGED <<room, commands, subscribed, process, faults>>

\* Mutant: the error listener schedules a reconnection of its own.
ScheduledTwice(client, opened) == [client EXCEPT !.timers = @ + IF opened THEN 1 ELSE 2]
\* Mutant: a socket that has not been open schedules nothing.
ScheduledOpened(client, opened) == [client EXCEPT !.timers = @ + IF opened THEN 1 ELSE 0]
\* scheduleReconnect, after whatever backoff.
Scheduled(client, opened) == [client EXCEPT !.timers = @ + 1]

\* The close event: triggerClose, of any socket the page has had.
TriggerClose(s) ==
  LET u == lines[s].page
      client == [clients[u] EXCEPT !.current = IF @ = s THEN 0 ELSE @]
  IN
  /\ Put(s, [lines[s] EXCEPT !.browser = "closed"])
  /\ clients' = [clients EXCEPT ![u] =
       IF client.closedByUser THEN client ELSE Scheduled(client, lines[s].server # "none")]
  /\ UNCHANGED <<room, commands, subscribed, process>>

\* It comes after the page has closed the socket,
CloseEvent(s) == lines[s].browser = "closing" /\ TriggerClose(s) /\ UNCHANGED faults

\* when nobody answers, or decideUpgrade refuses (the page has no uid cookie),
Refused(s) ==
  /\ lines[s].browser = "connecting"
  /\ \/ process[At(s)] # "up" /\ UNCHANGED faults
     \/ Fault
  /\ TriggerClose(s)

\* when the server has closed it,
ClosedThere(s) ==
  /\ lines[s].browser = "open" /\ ~lines[s].cut
  /\ lines[s].ended # "no" \/ lines[s].server \in {"deaf", "over"}
  /\ TriggerClose(s) /\ UNCHANGED faults

\* and when the browser finds out, which it does not have to, that it is cut.
Noticed(s) == lines[s].browser = "open" /\ lines[s].cut /\ TriggerClose(s) /\ UNCHANGED faults

\* The timeout of scheduleReconnect.
Timer(u) ==
  LET client == [clients[u] EXCEPT !.timers = @ - 1] IN
  /\ clients[u].timers > 0
  /\ IF client.closedByUser THEN clients' = [clients EXCEPT ![u] = client] /\ UNCHANGED lines
     ELSE Open(u, client, lines)
  /\ UNCHANGED <<room, commands, subscribed, process, faults>>

-----------------------------------------------------------------------------
(* The ws process.                                                         *)

\* Mutant: a new context is not alive.
UpgradedSilent(line) == [line EXCEPT !.browser = "open", !.server = "joining", !.isAlive = FALSE]
\* The upgrade is granted, the context attached; the page has its open event.
Upgraded(line) == [line EXCEPT !.browser = "open", !.server = "joining", !.isAlive = TRUE]

\* The connection event, up to the await of join.
Handshake(s) ==
  /\ lines[s].browser = "connecting" /\ process[At(s)] = "up"
  /\ lines' = [lines EXCEPT ![s] = Upgraded(@)]
  /\ JoinStep(At(s), s)
  /\ UNCHANGED <<clients, process, faults>>

\* join and the replay have returned: the listeners are registered.
Ready(s) ==
  /\ lines[s].server = "joining" /\ process[At(s)] # "down"
  /\ ~\E k \in DOMAIN commands[At(s)] : commands[At(s)][k] = [op |-> "sub", by |-> s]
  /\ lines' = [lines EXCEPT ![s].server = "ready"]
  /\ UNCHANGED <<room, commands, subscribed, clients, process, faults>>

\* The page's end is closed.
ServerSees(s) ==
  /\ lines[s].server \in {"joining", "ready"} /\ lines[s].ended = "no"
  /\ lines[s].browser \in {"closing", "closed"} /\ ~lines[s].cut
  /\ lines' = [lines EXCEPT ![s].ended = "closed"]
  /\ UNCHANGED <<room, commands, subscribed, clients, process, faults>>

\* Mutant: the socket is taken out of its room, and the bus not told.
DepartsSilently(s) ==
  room' = [room EXCEPT ![At(s)] = @ \ {s}] /\ UNCHANGED <<commands, subscribed>>
Departs(s) == LeaveStep(At(s), s)

\* The close event of the server's end. Before the listeners are registered
\* nobody hears it, and the socket stays in its room.
CloseSeen(s) ==
  /\ lines[s].ended # "no"
  /\ \/ /\ lines[s].server = "ready"
        /\ Departs(s)
        /\ Put(s, [lines[s] EXCEPT !.server = "over", !.ended = "no"])
     \/ /\ lines[s].server = "joining"
        /\ Put(s, [lines[s] EXCEPT !.server = "deaf", !.ended = "no"])
        /\ UNCHANGED <<room, commands, subscribed>>
  /\ UNCHANGED <<clients, process, faults>>

Peers(i) == {s \in Used : At(s) = i /\ lines[s].server \in {"joining", "ready"} /\ lines[s].ended = "no"}
Answers(s) == ~lines[s].cut /\ lines[s].browser = "open"

\* Mutant: isAlive is not reset.
PingedStill(line) == [line EXCEPT !.pinged = TRUE]
Pinged(line) == [line EXCEPT !.isAlive = FALSE, !.pinged = TRUE]

\* The interval of the heartbeat. Whoever answers has answered the last ping.
Heartbeat(i) ==
  /\ process[i] = "up" /\ Peers(i) # {}
  /\ \A s \in Peers(i) : Answers(s) => ~lines[s].pinged
  /\ lines' = [s \in Sockets |->
       IF s \notin Peers(i) THEN lines[s]
       ELSE IF lines[s].isAlive THEN Pinged(lines[s])
       ELSE [lines[s] EXCEPT !.ended = "terminated"]]
  /\ UNCHANGED <<room, commands, subscribed, clients, process, faults>>

\* The pong event; browsers answer pings by themselves.
Pong(s) ==
  /\ s \in Peers(At(s)) /\ Answers(s) /\ lines[s].pinged
  /\ lines' = [lines EXCEPT ![s].isAlive = TRUE, ![s].pinged = FALSE]
  /\ UNCHANGED <<room, commands, subscribed, clients, process, faults>>

\* SIGTERM: the heartbeat is over, no socket is accepted, those there are closed.
Shutdown(i) ==
  /\ Fault
  /\ process[i] = "up"
  /\ process' = [process EXCEPT ![i] = "stopping"]
  /\ lines' = [s \in Sockets |-> IF s \in Peers(i) THEN [lines[s] EXCEPT !.ended = "closed"] ELSE lines[s]]
  /\ UNCHANGED <<room, commands, subscribed, clients>>

\* The process is gone, with its rooms and its end of every socket.
Die(i) ==
  /\ Lose(i)
  /\ process' = [process EXCEPT ![i] = "down"]
  /\ lines' = [s \in Sockets |->
       IF s \notin Used \/ At(s) # i \/ lines[s].server = "none" THEN lines[s]
       ELSE IF lines[s].browser = "closed" THEN Unused
       ELSE [lines[s] EXCEPT !.server = "over", !.ended = "no"]]
  /\ UNCHANGED clients

\* 250 ms later.
Exit(i) == process[i] = "stopping" /\ Die(i) /\ UNCHANGED faults
Crash(i) == process[i] = "up" /\ Fault /\ Die(i)

\* The process is started again, if it is.
Restart(i) ==
  /\ process[i] = "down"
  /\ process' = [process EXCEPT ![i] = "up"]
  /\ UNCHANGED <<room, commands, subscribed, clients, lines, faults>>

\* Redis answers, or refuses an UNSUBSCRIBE. (A refused SUBSCRIBE is in StreamRelay.)
Answer(i) == Reply(i) /\ UNCHANGED <<room, clients, lines, process, faults>>
Refusal(i) == Fault /\ Refuse(i) /\ UNCHANGED <<room, clients, lines, process>>

\* The network between the two ends is gone, and neither is told.
Cut(s) ==
  /\ Fault
  /\ lines[s].browser = "open" /\ ~lines[s].cut
  /\ lines' = [lines EXCEPT ![s].cut = TRUE]
  /\ UNCHANGED <<room, commands, subscribed, clients, process>>

-----------------------------------------------------------------------------
Browser(s) == CloseEvent(s) \/ Refused(s) \/ ClosedThere(s)
Handler(s) == Handshake(s) \/ Ready(s)
Ending(s) == ServerSees(s) \/ CloseSeen(s)

LifeNext ==
  \/ \E u \in Pages : Connect(u) \/ Reconnect(u) \/ Close(u) \/ Timer(u)
  \/ \E s \in Used : Browser(s) \/ Noticed(s) \/ Handler(s) \/ Ending(s) \/ Pong(s) \/ Cut(s)
  \/ \E i \in Instances : Heartbeat(i) \/ Shutdown(i) \/ Exit(i) \/ Crash(i) \/ Restart(i)
                          \/ Answer(i) \/ Refusal(i)

LifeSpec == LifeInit /\ [][LifeNext]_lifeVars

\* Event loops, timers and Redis go on. Nobody is obliged to call anything, a
\* process to come back, or a browser to find out that its connection is cut.
LifeFairSpec ==
  /\ LifeSpec
  /\ \A u \in Pages : WF_lifeVars(Timer(u))
  /\ \A s \in Sockets :
       /\ WF_lifeVars(s \in Used /\ Browser(s)) /\ WF_lifeVars(s \in Used /\ Handler(s))
       /\ WF_lifeVars(s \in Used /\ Ending(s)) /\ WF_lifeVars(s \in Used /\ Pong(s))
  /\ \A i \in Instances : WF_lifeVars(Heartbeat(i)) /\ WF_lifeVars(Exit(i)) /\ WF_lifeVars(Answer(i))

-----------------------------------------------------------------------------
(* Properties.                                                             *)

\* A page has one socket or one timer at most, whatever ends in whichever order:
\* the socket is the one that send() uses, or it has been closed, and after
\* close() none is open. Unless connect() came while an earlier socket was on its
\* way out (ws.ts:54).
OneLine ==
  \A u \in Pages : ~clients[u].overlapped =>
    /\ clients[u].timers <= 1 /\ (clients[u].timers = 1 => Live(u) = {})
    /\ \A s, t \in Live(u) : s = t
    /\ \A s \in Live(u) : \/ lines[s].browser = "closing"
                          \/ s = clients[u].current /\ ~clients[u].closedByUser

\* "Terminate any socket that hasn't ponged since the previous interval"
\* (server.ts:269), and none that does: not one that was opened right before
\* an interval, nor one whose handler is still in join or the replay.
AnsweringSurvives == \A s \in Used : lines[s].ended = "terminated" => ~Answers(s)

\* A peer that is gone, without a word or with one, leaves its room: the close
\* event, the heartbeat or the end of the process sees to it, once the listeners
\* are on.
GoneLeave ==
  \A s \in Sockets :
    (s \in Used /\ lines[s].server = "ready" /\ ~Answers(s)) ~> (\A i \in Instances : s \notin room[i])

\* A page that is not closed gets a socket that the server listens to, for as
\* often as it has lost it, unless the process stays away, or the browser does
\* not find out that its connection is cut.
Connected(u) == \E s \in Live(u) : lines[s].browser = "open" /\ lines[s].server = "ready"
Reconnects ==
  \A u \in Pages :
    (clients[u].calls > 0) ~> \/ clients[u].closedByUser \/ Connected(u)
                              \/ process[Home[u]] # "up" \/ \E s \in Live(u) : lines[s].cut

\* What this does to the rooms is what RoomRegistry may do, so that what is
\* proved of it holds here.
ImplementsRegistry == Spec

=============================================================================
