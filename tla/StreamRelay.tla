----------------------------- MODULE StreamRelay -----------------------------
(***************************************************************************)
(* The way of a frame from one browser to the others: apps/ws (server.ts,  *)
(* handlers/crdt.ts, bus.ts, replay.ts) over the rooms of RoomRegistry,    *)
(* with the WsClient of apps/web/src/lib/ws.ts at both ends and the api's  *)
(* own XADD and PUBLISH beside it. One document.                           *)
(*                                                                         *)
(* A stream id is the position of its entry in `log`; 0 is the id 0-0.     *)
(***************************************************************************)
EXTENDS Integers, Sequences, FiniteSets, SequencesExt

CONSTANTS
  Instances,    \* ws processes
  Clients,      \* browser pages
  Home,         \* the instance that each page connects to
  Failures,     \* what may fail, a subset of AllFailures
  StreamMaxLen, \* MAXLEN ~ of every XADD
  MaxConnects,  \* bound: sockets a page ever opens
  MaxTyped,     \* bound: deltas a page ever sends
  MaxPosts,     \* bound: requests to post_operations
  MaxEntries,   \* bound: entries ever appended
  MaxFaults     \* bound: failures

AllFailures == {"drop", "crash", "xadd", "publish", "sub", "replay"}

ASSUME RelayAssumption ==
  /\ Home \in [Clients -> Instances]
  /\ Instances \cap {"api", "replay"} = {}
  /\ Failures \subseteq AllFailures
  /\ StreamMaxLen \in Nat \ {0}
  /\ {MaxConnects, MaxTyped, MaxPosts, MaxEntries, MaxFaults} \subseteq Nat

VARIABLES
  log,        \* every entry ever appended: the socket that sent it, or Api
  trimmed,    \* ids up to this one have left the stream
  room, commands, subscribed,  \* the registry of each instance
  sockets,    \* the connection handler of each socket
  up,         \* messages on their way from the page, in number
  down,       \* frames on their way to the page
  sending,    \* ids each process has XADDed and not yet broadcast
  inbox,      \* bus messages on their way to each subscribed instance
  pages,      \* the WsClient and the Y.Docs of each page
  heard,      \* history: how often a socket was sent an id by a broadcast
  lost,       \* history: ids whose broadcast or PUBLISH never happened
  faults      \* failures so far

registry == <<room, commands, subscribed>>
stream == <<log, trimmed>>
vars == <<stream, registry, sockets, up, down, sending, inbox, pages, heard, lost, faults>>

Sockets == Clients \X (1 .. MaxConnects)
Page(s) == s[1]
At(s) == Home[Page(s)]
Api == <<"api", 0>>
Processes == Instances \cup {"api"}

Ids == 1 .. Len(log)

NoCursor == -1
Cursors == {NoCursor} \cup 0 .. MaxEntries

Registry == INSTANCE RoomRegistry WITH
  Failures <- Failures \cap {"sub", "unsub"}, MaxCommands <- MaxEntries

\* pc: the await the connection handler is at; "ready" once it has registered
\* 'message' and 'close', "over" if it returned before. lo .. hi: the entries
\* XRANGE has read, the sockets without a cursor reading none. heeds: the
\* instance was subscribed, with no command under way, when it read them.
\* gone: its close event has been emitted.
Socket == [pc : {"none", "join", "xinfo", "xrange", "send", "ready", "over"},
           open : BOOLEAN, gone : BOOLEAN, since : Cursors,
           lo : Nat, hi : Nat, heeds : BOOLEAN]
NoSocket == [pc |-> "none", open |-> FALSE, gone |-> FALSE, since |-> NoCursor,
             lo |-> 1, hi |-> 0, heeds |-> FALSE]

\* live: sent by a broadcast, and by which process.
Frame == [t : {"hello", "entry", "done", "reload"}, id : 0 .. MaxEntries,
          live : Processes \cup {"replay"}]
Note(t, id) == [t |-> t, id |-> id, live |-> "replay"]

\* have: the ids whose effect the page shows.
PageState == [loaded : BOOLEAN, n : 0 .. MaxConnects, linked : BOOLEAN, cursor : Cursors,
              have : SUBSET (1 .. MaxEntries),
              queue : 0 .. MaxTyped, typed : 0 .. MaxTyped]

\* Ids are ids of the log, frames are frames, and the hello frame carries an id
\* that is one.
TypeOK ==
  /\ log \in Seq(Sockets \cup {Api}) /\ Len(log) <= MaxEntries
  /\ trimmed \in 0 .. Len(log)
  /\ Registry!TypeOK
  /\ sockets \in [Sockets -> Socket]
  /\ up \in [Sockets -> 0 .. MaxTyped]
  /\ down \in [Sockets -> Seq(Frame)]
  /\ sending \in [Processes -> Seq(Ids)]
  /\ inbox \in [Instances -> Seq([id : Ids, origin : Processes])]
  /\ pages \in [Clients -> PageState]
  /\ heard \in [Sockets -> [1 .. MaxEntries -> Nat]]
  /\ lost \subseteq Ids
  /\ faults \in 0 .. MaxFaults

Init ==
  /\ log = <<>> /\ trimmed = 0
  /\ Registry!Init
  /\ sockets = [s \in Sockets |-> NoSocket]
  /\ up = [s \in Sockets |-> 0]
  /\ down = [s \in Sockets |-> <<>>]
  /\ sending = [p \in Processes |-> <<>>]
  /\ inbox = [i \in Instances |-> <<>>]
  /\ pages = [u \in Clients |-> [loaded |-> FALSE, n |-> 0, linked |-> FALSE,
                                 cursor |-> NoCursor, have |-> {},
                                 queue |-> 0, typed |-> 0]]
  /\ heard = [s \in Sockets |-> [id \in 1 .. MaxEntries |-> 0]]
  /\ lost = {}
  /\ faults = 0

Fault(what) == what \in Failures /\ faults < MaxFaults /\ faults' = faults + 1

Set(s, state) == sockets' = [sockets EXCEPT ![s] = state]
Push(s, frames) == down' = [down EXCEPT ![s] = @ \o frames]
Current(u) == <<u, pages[u].n>>

-----------------------------------------------------------------------------
(* The page.                                                               *)

\* loadInitial: the snapshot of GET /blocks. Its lastStreamId does not reach
\* the WsClient, whose cursor comes from localStorage.
Load(u) ==
  /\ ~pages[u].loaded 
  /\ pages' = [pages EXCEPT ![u].loaded = TRUE, ![u].have = Ids]
  /\ UNCHANGED <<stream, registry, sockets, up, down, sending, inbox, heard, lost, faults>>

\* Whether a frame published from now on reaches the instance.
Heeds(i) == i \in subscribed' /\ commands'[i] = <<>>

\* Mutant: the hello frame without its `?? '0-0'`.
HelloRaw(since) == since

HelloId(since) == IF since = NoCursor THEN 0 ELSE since

\* rooms.join has returned: the hello frame, and the replay if there is a cursor.
Joined(s, socket) ==
  /\ Set(s, [socket EXCEPT
       !.pc = CASE socket.since = NoCursor -> "ready"
                [] socket.since = 0 -> "xrange"
                [] OTHER -> "xinfo",
       !.lo = Len(log) + 1, !.hi = Len(log), !.heeds = Heeds(At(s))])
  /\ Push(s, IF socket.open THEN <<Note("hello", HelloId(socket.since))>> ELSE <<>>)

\* open(): the upgrade, and the server's connection handler up to its first
\* await. The page flushes its send queue as soon as it is open.
Connect(u) ==
  LET s == <<u, pages[u].n + 1>>
      socket == [NoSocket EXCEPT !.pc = "join", !.open = TRUE, !.since = pages[u].cursor]
  IN
  /\ pages[u].loaded /\ ~pages[u].linked /\ pages[u].n < MaxConnects
  /\ Registry!Join(At(s), s) /\ UNCHANGED subscribed
  /\ IF room[At(s)] = {} THEN Set(s, socket) /\ UNCHANGED down ELSE Joined(s, socket)
  /\ up' = [up EXCEPT ![s] = pages[u].queue]
  /\ pages' = [pages EXCEPT ![u].n = @ + 1, ![u].linked = TRUE, ![u].queue = 0]
  /\ UNCHANGED <<stream, sending, inbox, heard, lost, faults>>

\* A keystroke: a crdt frame, sent or queued until the next open.
Type(u) ==
  /\ pages[u].loaded /\ pages[u].typed < MaxTyped
  /\ IF pages[u].linked
     THEN /\ up' = [up EXCEPT ![Current(u)] = @ + 1]
          /\ pages' = [pages EXCEPT ![u].typed = @ + 1]
     ELSE /\ pages' = [pages EXCEPT ![u].typed = @ + 1, ![u].queue = @ + 1]
          /\ UNCHANGED up
  /\ UNCHANGED <<stream, registry, sockets, down, sending, inbox, heard, lost, faults>>

\* Mutant: an entry that is not above the cursor is taken for an old one.
ReadAscending(page, f) ==
  CASE f.t = "hello" -> [page EXCEPT !.cursor = IF @ = NoCursor THEN f.id ELSE @]
    [] f.t = "entry" -> IF f.id > page.cursor
                        THEN [page EXCEPT !.cursor = f.id, !.have = @ \cup {f.id}] ELSE page
    [] f.t = "done" -> [page EXCEPT !.cursor = f.id]
    [] f.t = "reload" -> [page EXCEPT !.cursor = NoCursor, !.have = Ids]

\* The cursor follows any frame that carries a streamId, higher or lower; a
\* hello only fills an empty one. A reload fetches the blocks anew.
Read(page, f) ==
  CASE f.t = "hello" -> [page EXCEPT !.cursor = IF @ = NoCursor THEN f.id ELSE @]
    [] f.t = "entry" -> [page EXCEPT !.cursor = f.id, !.have = @ \cup {f.id}]
    [] f.t = "done" -> [page EXCEPT !.cursor = f.id]
    [] f.t = "reload" -> [page EXCEPT !.cursor = NoCursor, !.have = Ids]

Receive(u) ==
  LET s == Current(u) IN
  /\ pages[u].linked /\ down[s] # <<>>
  /\ pages' = [pages EXCEPT ![u] = Read(@, Head(down[s]))]
  /\ down' = [down EXCEPT ![s] = Tail(@)]
  /\ UNCHANGED <<stream, registry, sockets, up, sending, inbox, heard, lost, faults>>

\* The page sees the socket closed: by the server, after the frames before it,
\* or because the network is gone, and the frames under way with it.
SeeClose(u) ==
  LET s == Current(u) IN
  /\ pages[u].linked
  /\ \/ ~sockets[s].open /\ down[s] = <<>> /\ UNCHANGED faults
     \/ Fault("drop")
  /\ pages' = [pages EXCEPT ![u].linked = FALSE]
  /\ down' = [down EXCEPT ![s] = <<>>]
  /\ UNCHANGED <<stream, registry, sockets, up, sending, inbox, heard, lost>>

-----------------------------------------------------------------------------
(* The connection handler.                                                 *)

\* Redis answers the SUBSCRIBE or UNSUBSCRIBE at the head of the connection.
\* Only the socket that sent a SUBSCRIBE has been waiting for it.
Subscribed(i) ==
  /\ Registry!Reply(i) /\ UNCHANGED room
  /\ LET c == Head(commands[i]) IN
     IF c.op = "sub" THEN Joined(c.by, sockets[c.by]) ELSE UNCHANGED <<sockets, down>>
  /\ UNCHANGED <<stream, up, sending, inbox, pages, heard, lost, faults>>

\* The SUBSCRIBE is refused: the socket is closed, and the handler returns.
SubscribeFails(i) ==
  /\ Fault("sub")
  /\ Registry!Refuse(i) /\ UNCHANGED room
  /\ LET s == Head(commands[i]).by IN
     Set(s, [sockets[s] EXCEPT !.pc = "over", !.open = FALSE])
  /\ UNCHANGED <<stream, up, down, sending, inbox, pages, heard, lost>>

\* XINFO: a first entry behind the cursor is taken for a trimmed stream.
Xinfo(s) ==
  LET trimmedAway == trimmed < Len(log) /\ trimmed + 1 > sockets[s].since IN
  /\ sockets[s].pc = "xinfo"
  /\ IF trimmedAway
     THEN /\ Push(s, IF sockets[s].open THEN <<Note("reload", 0)>> ELSE <<>>)
          /\ Set(s, [sockets[s] EXCEPT !.pc = "over", !.open = FALSE])
     ELSE /\ Set(s, [sockets[s] EXCEPT !.pc = "xrange"])
          /\ UNCHANGED down
  /\ UNCHANGED <<stream, registry, up, sending, inbox, pages, heard, lost, faults>>

\* XRANGE (since +, as Redis carries it out.
Xrange(s) ==
  LET since == sockets[s].since IN
  /\ sockets[s].pc = "xrange"
  /\ UNCHANGED <<stream, registry, up, down, sending, inbox, pages, heard, lost, faults>>
  /\ Set(s, [sockets[s] EXCEPT !.pc = "send", !.heeds = Heeds(At(s)),
       !.lo = (IF trimmed > since THEN trimmed ELSE since) + 1, !.hi = Len(log)])

\* Its answer is back: the entries, replay_done, and at last the handlers.
SendReplay(s) ==
  LET q == sockets[s]
      Entry(k) == [t |-> "entry", id |-> q.lo + k - 1, live |-> "replay"]
      last == IF q.lo <= q.hi THEN q.hi ELSE q.since
  IN
  /\ q.pc = "send"
  /\ Push(s, IF q.open THEN Append([k \in 1 .. q.hi - q.lo + 1 |-> Entry(k)], Note("done", last))
                       ELSE <<>>)
  /\ Set(s, [q EXCEPT !.pc = "ready"])
  /\ UNCHANGED <<stream, registry, up, sending, inbox, pages, heard, lost, faults>>

\* Redis fails under the XRANGE: the socket is closed, the handler returns.
ReplayFails(s) ==
  /\ Fault("replay")
  /\ sockets[s].pc = "xrange"
  /\ Set(s, [sockets[s] EXCEPT !.pc = "over", !.open = FALSE])
  /\ UNCHANGED <<stream, registry, up, down, sending, inbox, pages, heard, lost>>

\* The close event. Before the handler has registered its listener, and after
\* it has returned early, nobody hears it.
Close(s) ==
  /\ sockets[s].pc # "none" /\ ~sockets[s].gone
  /\ ~pages[Page(s)].linked \/ s # Current(Page(s))
  /\ Set(s, [sockets[s] EXCEPT !.open = FALSE, !.gone = TRUE])
  /\ IF sockets[s].pc = "ready" THEN Registry!Leave(At(s), s) ELSE UNCHANGED <<room, commands>>
  /\ up' = [up EXCEPT ![s] = 0]
  /\ UNCHANGED <<stream, subscribed, down, sending, inbox, pages, heard, lost, faults>>

-----------------------------------------------------------------------------
(* Deltas, operations and the bus.                                         *)

\* Mutant: the answer of the last XADD is taken for the first one's.
XAddSwapped(by, process) ==
  /\ Len(log) < MaxEntries
  /\ log' = Append(log, by)
  /\ trimmed' \in {trimmed} \cup {t \in trimmed .. Len(log) : Len(log) + 1 - t >= StreamMaxLen}
  /\ sending' = [sending EXCEPT ![process] = <<Len(log) + 1>> \o @]

\* XADD ... MAXLEN ~ n, as Redis carries it out.
XAdd(by, process) ==
  /\ Len(log) < MaxEntries
  /\ log' = Append(log, by)
  /\ trimmed' \in {trimmed} \cup {t \in trimmed .. Len(log) : Len(log) + 1 - t >= StreamMaxLen}
  /\ sending' = [sending EXCEPT ![process] = Append(@, Len(log) + 1)]

\* A message event. handleCrdt up to the await of its XADD, which goes out in
\* the order of the messages; without a listener the message is gone.
Message(s) ==
  /\ up[s] > 0 /\ ~sockets[s].gone
  /\ up' = [up EXCEPT ![s] = @ - 1]
  /\ IF sockets[s].pc = "ready" THEN XAdd(s, At(s)) ELSE UNCHANGED <<stream, sending>>
  /\ UNCHANGED <<registry, sockets, down, inbox, pages, heard, lost, faults>>

\* The XADD fails: logged, nothing else.
XaddFails(s) ==
  /\ Fault("xadd")
  /\ up[s] > 0 /\ ~sockets[s].gone /\ sockets[s].pc = "ready"
  /\ up' = [up EXCEPT ![s] = @ - 1]
  /\ UNCHANGED <<stream, registry, sockets, down, sending, inbox, pages, heard, lost>>

\* post_operations after its commit: XADD, later PUBLISH.
Post ==
  /\ Cardinality({id \in Ids : log[id] = Api}) < MaxPosts
  /\ XAdd(Api, "api")
  /\ UNCHANGED <<registry, sockets, up, down, inbox, pages, heard, lost, faults>>

\* broadcastLocal to those of the given sockets that are open.
Broadcast(to, id, origin) ==
  LET open == {s \in to : sockets[s].open}
      f == [t |-> "entry", id |-> id, live |-> origin]
  IN
  /\ down' = [s \in Sockets |-> IF s \in open THEN Append(down[s], f) ELSE down[s]]
  /\ heard' = [s \in Sockets |-> IF s \in open THEN [heard[s] EXCEPT ![id] = @ + 1] ELSE heard[s]]

\* PUBLISH, or its failure, which is logged.
Publish(id, origin) ==
  \/ /\ inbox' = [i \in Instances |-> IF i \in subscribed
                     THEN Append(inbox[i], [id |-> id, origin |-> origin]) ELSE inbox[i]]
     /\ UNCHANGED <<lost, faults>>
  \/ Fault("publish") /\ lost' = lost \cup {id} /\ UNCHANGED inbox

\* The answers of XADD come in the order of the calls: local fan-out without
\* the sender, then the bus.
Fanout(i) ==
  LET id == Head(sending[i]) IN
  /\ sending[i] # <<>>
  /\ sending' = [sending EXCEPT ![i] = Tail(@)]
  /\ Broadcast(room[i] \ {log[id]}, id, i)
  /\ Publish(id, i)
  /\ UNCHANGED <<stream, registry, sockets, up, pages>>

\* Requests of the api overtake each other between XADD and PUBLISH.
ApiPublish ==
  \E k \in 1 .. Len(sending["api"]) :
    LET id == sending["api"][k] IN
    /\ sending' = [sending EXCEPT !["api"] = RemoveAt(@, k)]
    /\ Publish(id, "api")
    /\ UNCHANGED <<stream, registry, sockets, up, down, pages, heard>>

\* Mutant: the frames of this instance are not skipped.
SkipsNone(i, origin) == FALSE

\* Mutant: the frames of every ws instance are skipped.
SkipsPeers(i, origin) == origin # "api"

Skips(i, origin) == origin = i

\* The subscriber's message event: the frames of this instance are skipped.
Deliver(i) ==
  LET m == Head(inbox[i]) IN
  /\ inbox[i] # <<>>
  /\ inbox' = [inbox EXCEPT ![i] = Tail(@)]
  /\ IF Skips(i, m.origin) THEN UNCHANGED <<down, heard>> ELSE Broadcast(room[i], m.id, m.origin)
  /\ UNCHANGED <<stream, registry, sockets, up, sending, pages, lost, faults>>

\* A ws process dies, with what it had not broadcast yet.
Crash(i) ==
  LET here == {s \in Sockets : At(s) = i} IN
  /\ Fault("crash")
  /\ Registry!Lose(i)
  /\ sockets' = [s \in Sockets |->
       IF s \in here /\ sockets[s].pc # "none"
       THEN [sockets[s] EXCEPT !.pc = "over", !.open = FALSE, !.gone = TRUE] ELSE sockets[s]]
  /\ up' = [s \in Sockets |-> IF s \in here THEN 0 ELSE up[s]]
  /\ down' = [s \in Sockets |-> IF s \in here THEN <<>> ELSE down[s]]
  /\ lost' = lost \cup {sending[i][k] : k \in 1 .. Len(sending[i])}
  /\ sending' = [sending EXCEPT ![i] = <<>>]
  /\ inbox' = [inbox EXCEPT ![i] = <<>>]
  /\ UNCHANGED <<stream, pages, heard>>

-----------------------------------------------------------------------------
Browser == \E u \in Clients : Load(u) \/ Connect(u) \/ Type(u) \/ Receive(u) \/ SeeClose(u)

Handler(s) ==
  Xinfo(s) \/ Xrange(s) \/ SendReplay(s) \/ ReplayFails(s) \/ Close(s) \/ Message(s) \/ XaddFails(s)

Process(i) == Subscribed(i) \/ SubscribeFails(i) \/ Fanout(i) \/ Deliver(i) \/ Crash(i)

Next ==
  \/ Browser
  \/ \E s \in Sockets : Handler(s)
  \/ \E i \in Instances : Process(i)
  \/ Post \/ ApiPublish

Spec == Init /\ [][Next]_vars

\* Redis and the event loops answer; nobody is obliged to connect or to type.
Fairness ==
  /\ \A i \in Instances : WF_vars(Subscribed(i)) /\ WF_vars(Fanout(i)) /\ WF_vars(Deliver(i))
  /\ WF_vars(ApiPublish)

FairSpec == Spec /\ Fairness

-----------------------------------------------------------------------------
(* Properties.                                                             *)

Listening(s) == sockets[s].pc = "ready" /\ sockets[s].open

\* The broadcast of an entry that has yet to reach the sockets of instance i.
UnderWay(id, i) ==
  \/ \E p \in Processes : \E k \in 1 .. Len(sending[p]) : sending[p][k] = id
  \/ \E k \in 1 .. Len(inbox[i]) : inbox[i][k].id = id

\* A socket is sent each entry by at most one broadcast (the local one or the
\* one off the bus), and its own entries by none.
EachOnce ==
  \A s \in Sockets : \A id \in Ids :
    heard[s][id] <= (IF log[id] = s THEN 0 ELSE 1)

\* Replay and live frames join without a gap: an entry from `lo` on that a
\* listening socket has neither replayed nor heard is on its way, if the
\* instance was subscribed for good when the handler looked at the stream.
NoGap(s) ==
  \A id \in Ids : id >= sockets[s].lo /\ log[id] # s =>
    \/ id <= sockets[s].hi \/ heard[s][id] > 0
    \/ UnderWay(id, At(s)) \/ id \in lost
ReplayMeetsLive == \A s \in Sockets : Listening(s) /\ sockets[s].heeds => NoGap(s)

\* The frames of one ws instance reach a socket in stream order.
OriginOrder ==
  \A s \in Sockets : \A k, m \in 1 .. Len(down[s]) :
    k < m /\ down[s][k].live \in Instances /\ down[s][m].live = down[s][k].live
      => down[s][k].id < down[s][m].id

\* Everything sent has been read, broadcast and shown.
Quiet == /\ \A p \in Processes : sending[p] = <<>>
         /\ \A i \in Instances : inbox[i] = <<>>
         /\ \A s \in Sockets : sockets[s].pc \in {"none", "ready", "over"} /\ down[s] = <<>>
Shows(u, from) ==
  \A id \in from .. Len(log) : id \in pages[u].have \/ Page(log[id]) = u

\* The cursor of a page may be above entries it has not read, the frames of
\* different processes overtaking each other. Of those the replay and the bus owe
\* it, none is passed over: a linked page whose instance was subscribed when the
\* handler looked at the stream shows each, or it is on its way, or lost.
InFrame(s, id) == \E k \in 1 .. Len(down[s]) : down[s][k].t = "entry" /\ down[s][k].id = id
ListenersShow ==
  \A u \in Clients :
    LET s == Current(u) IN
    pages[u].linked /\ Listening(s) /\ sockets[s].heeds =>
      \A id \in Ids : id >= sockets[s].lo /\ log[id] # s =>
        \/ id \in pages[u].have \/ InFrame(s, id)
        \/ UnderWay(id, At(s)) \/ id \in lost

\* "All clients receive the crdt deltas of all blocks when they enter the room"
\* (docs/block-based-document.md:898): once all is read, a page on its first
\* socket shows every entry since it joined.
KeepsUp ==
  Quiet => \A u \in Clients :
    LET s == Current(u) IN
    pages[u].linked /\ pages[u].n = 1 /\ Listening(s) => Shows(u, sockets[s].lo)

\* An entry that a subscribed, listening socket has yet to hear reaches it.
EveryoneHears ==
  \A s \in Sockets : \A id \in 1 .. MaxEntries :
    (Listening(s) /\ sockets[s].heeds /\ id \in Ids /\ id > sockets[s].hi /\ log[id] # s)
      ~> (heard[s][id] > 0 \/ ~sockets[s].open)

=============================================================================
