------------------------------ MODULE TextSync ------------------------------
(***************************************************************************)
(* The text of one block on several pages: the Yjs registry of the page    *)
(* (apps/web/src/editor/yjs.ts), the contentEditable that it drives        *)
(* (ContentEditableBlock.tsx), the load and the messages of the document   *)
(* page (DocumentClient.tsx), the send queue and the cursor of its socket  *)
(* (lib/ws.ts).                                                            *)
(*                                                                         *)
(* A text is the set of Yjs updates its Y.Doc has been given. The library  *)
(* shows an update when it has all that the update builds on: what the     *)
(* same Y.Doc inserted before it, and its neighbours. A page is given the  *)
(* stream in order, live or replayed (StreamRelay has the exceptions). The *)
(* content of the row is that of the insert, for the consumer cannot       *)
(* decode the base64 deltas of the ws server (OperationConsumer).          *)
(***************************************************************************)
EXTENDS Integers, Sequences, FiniteSets, SequencesExt

CONSTANTS
  Pages,
  Contents,  \* what the block may have been inserted with: {"empty", "text"}
  MaxEvents, \* bound: updates, operations on the block and failures, together
  MaxFaults  \* bound: failures

ASSUME TextAssumption ==
  /\ Contents \subseteq {"empty", "text"}
  /\ {MaxEvents, MaxFaults} \subseteq Nat

VARIABLES
  content,  \* the content in the insert of the block, and in its row
  row,      \* the block in Postgres: not yet, there, or gone
  op,       \* the operation on the block that is on its way to the api
  edits,    \* every update that a Y.Doc has made, its number is its place
  stream,   \* the entries of the document stream, as far as the block goes
  gone,     \* how many of them MAXLEN has taken away
  pages,    \* the registry, the editor and the socket of each page
  lost,     \* history: updates whose frame never reached the stream
  faults    \* failures so far

vars == <<content, row, op, edits, stream, gone, pages, lost, faults>>

NoCursor == -1
Numbers == 1 .. Len(edits)
\* A Y.Doc: the page and the how manieth of that page. by: the one that made
\* the update. needs: what it builds on, and that builds on. erases: what it
\* deletes, {} of an insert.
Docs == Pages \X Nat
EditRecord == [by : Docs, needs : SUBSET Nat, erases : SUBSET Nat]
\* socket: the connection that a delta came by.
Entry == [kind : {"insert", "delete"}] \cup [kind : {"crdt"}, edit : Numbers, socket : Pages \X Nat]

Page == [
  status : {"away", "loading", "ready", "error"},
  gets : Seq({"sent", "no", "there", "gone"}), \* the answers of GET /blocks under way
  shown : BOOLEAN,          \* the block is in the store
  doc : Nat, made : Nat,    \* the number of its Y.Doc, 0 if none; Y.Docs so far
  has : SUBSET Numbers,     \* what that Y.Doc has been given
  fresh : SUBSET Numbers,   \* bufferedDeltas, and those
  stale : SUBSET Numbers,   \* of them that are older than bufferTtlMs
  dom : SUBSET Numbers,     \* what the contentEditable shows
  composing : BOOLEAN,      \* an IME has the contentEditable
  remade : BOOLEAN,         \* the editor is mounted still, its Y.Doc is another
  up : BOOLEAN, socket : Nat,               \* connected; connections so far
  cursor : {NoCursor} \cup 0 .. Len(stream),
  at : 0 .. Len(stream),    \* the entries the connection has been sent
  queue : Seq(Numbers),     \* sendQueue
  out : Seq(Numbers),       \* sent, not yet at the ws server
  missed : SUBSET Numbers]  \* history: updates that the page has let pass

\* Pages are pages, an update is numbered after what it needs, and needs what that
\* needs.
TypeOK ==
  /\ content \in Contents
  /\ row \in {"no", "there", "gone"}
  /\ op \in {"none", "insert", "delete"}
  /\ edits \in Seq(EditRecord)
  /\ \A e \in Numbers : /\ edits[e].erases \subseteq edits[e].needs
                        /\ edits[e].needs \subseteq 1 .. e - 1
                        /\ \A d \in edits[e].needs : edits[d].needs \subseteq edits[e].needs
  /\ stream \in Seq(Entry)
  /\ gone \in 0 .. Len(stream)
  /\ pages \in [Pages -> Page]
  /\ lost \subseteq Numbers
  /\ faults \in 0 .. MaxFaults

Absent == [status |-> "away", gets |-> <<>>, shown |-> FALSE, doc |-> 0, made |-> 0,
           has |-> {}, fresh |-> {}, stale |-> {}, dom |-> {}, composing |-> FALSE,
           remade |-> FALSE, up |-> FALSE, socket |-> 0, cursor |-> NoCursor, at |-> 0,
           queue |-> <<>>, out |-> <<>>, missed |-> {}]

Init ==
  /\ content \in Contents
  /\ row \in {"no", "there"}
  /\ op = "none"
  /\ edits = <<>> /\ stream = <<>> /\ gone = 0
  /\ pages = [u \in Pages |-> Absent]
  /\ lost = {} /\ faults = 0

-----------------------------------------------------------------------------
(* Y.Docs.                                                                 *)

\* What a Y.Doc with these updates has taken in: those that it has all the grounds
\* of. What builds on the seed of another Y.Doc never is.
Integrated(all, doc, has) ==
  {e \in has :
    /\ all[e].needs \subseteq has
    /\ content = "text" => \A d \in {e} \cup all[e].needs : all[d].erases = {} => all[d].by = doc}

\* readInlineNodes: the inserts that no update has deleted.
Visible(all, doc, has) ==
  LET taken == Integrated(all, doc, has) IN
  {e \in taken : all[e].erases = {} /\ \A d \in taken : e \notin all[d].erases}

Text(u, page, all) == Visible(all, <<u, page.doc>>, page.has)

\* The editor of the block is on the screen, and renderInlineNodes of its text.
Mounted(page) == page.status = "ready" /\ page.shown
Rendered(u, page, all) == [page EXCEPT !.dom = IF Mounted(page) THEN Text(u, page, all) ELSE {}]

\* Mutant: a block that is known gets another Y.Doc.
EnsureAnew(page) ==
  [page EXCEPT !.made = @ + 1, !.doc = page.made + 1, !.has = page.fresh,
               !.fresh = {}, !.stale = {}, !.missed = @ \cup page.stale]
\* Mutant: what has been buffered is dropped.
EnsureEmpty(page) ==
  IF page.doc # 0 THEN page
  ELSE [page EXCEPT !.made = @ + 1, !.doc = page.made + 1, !.has = {},
                    !.fresh = {}, !.stale = {}, !.missed = @ \cup page.stale]
\* ensure: a new Y.Doc is given what has been buffered for it and is not stale.
Ensure(page) ==
  IF page.doc # 0 THEN page
  ELSE [page EXCEPT !.made = @ + 1, !.doc = page.made + 1, !.has = page.fresh,
                    !.fresh = {}, !.stale = {}, !.missed = @ \cup page.stale]

\* destroy, and clear: the Y.Doc, its observers, its buffer.
Destroyed(page) == [page EXCEPT !.doc = 0, !.has = {}, !.fresh = {}, !.stale = {}]

\* The observers of the block: none if the registry was cleared under the
\* editor, and they leave the screen to an IME.
Heard(page) == ~page.composing /\ ~page.remade

\* Mutant: the delta goes into the Y.Doc, and nobody is told.
GivenSilently(u, page, e) ==
  IF page.doc = 0 THEN [page EXCEPT !.fresh = @ \cup {e}] ELSE [page EXCEPT !.has = @ \cup {e}]
\* applyRemoteDelta.
Given(u, page, e) ==
  IF page.doc = 0 THEN [page EXCEPT !.fresh = @ \cup {e}]
  ELSE LET given == [page EXCEPT !.has = @ \cup {e}] IN
       IF Heard(page) THEN Rendered(u, given, edits) ELSE given

-----------------------------------------------------------------------------
(* The editor.                                                             *)

\* The bound leaves room for n more updates, operations or failures.
Operations == Cardinality({k \in 1 .. Len(stream) : stream[k].kind # "crdt"})
              + IF op = "none" THEN 0 ELSE 1
Within(n) == Len(edits) + Operations + faults + n <= MaxEvents
Fault == faults < MaxFaults /\ Within(1) /\ faults' = faults + 1

\* Updates of the Y.Doc of u, whose handler sends them, or queues them.
Update(u, page, new) ==
  LET numbers == [k \in 1 .. Len(new) |-> Len(edits) + k]
      given == [page EXCEPT !.has = @ \cup ToSet(numbers),
                            !.queue = IF page.up THEN @ ELSE @ \o numbers,
                            !.out = IF page.up THEN @ \o numbers ELSE @]
  IN
  /\ Within(Len(new))
  /\ edits' = edits \o new
  /\ pages' = [pages EXCEPT ![u] = Rendered(u, given, edits \o new)]
  /\ UNCHANGED <<content, row, op, stream, gone, lost, faults>>

Mine(u) == {e \in Numbers : edits[e].by = <<u, pages[u].doc>> /\ edits[e].erases = {}}
InText(u) == Integrated(edits, <<u, pages[u].doc>>, pages[u].has)
Items(u) == {e \in InText(u) : edits[e].erases = {}}

\* An insert builds on what the Y.Doc has inserted before, and on its neighbours, if
\* there are any but the seed; a deletion on what it deletes.
Neighbours(u) ==
  {near \in SUBSET Items(u) : Cardinality(near) <= 2 /\ (near = {} => content = "text" \/ Items(u) = {})}
Grounds(direct) == direct \cup UNION {edits[e].needs : e \in direct}
Insert(u, near) == [by |-> <<u, pages[u].doc>>, needs |-> Grounds(Mine(u) \cup near), erases |-> {}]
Erase(u, what) == [by |-> <<u, pages[u].doc>>, needs |-> Grounds(what), erases |-> what]

\* Text in the place of what is selected of it, if anything is.
Replace(u, what) ==
  LET erased == IF what = {} THEN <<>> ELSE <<Erase(u, what)>> IN
  /\ Within(Len(erased) + 1)
  /\ \E near \in Neighbours(u) : Update(u, pages[u], Append(erased, Insert(u, near)))
Selections(u) == SUBSET Text(u, pages[u], edits)

\* insertText, insertLineBreak, and the paste of plain text. An IME keeps only
\* the first two away.
Type(u) ==
  /\ Mounted(pages[u]) /\ Within(1)
  /\ \E what \in Selections(u) : Replace(u, what)

\* deleteContentBackward, deleteContentForward.
Delete(u) ==
  /\ Mounted(pages[u]) /\ ~pages[u].composing /\ Within(1)
  /\ \E what \in Selections(u) \ {{}} : Update(u, pages[u], <<Erase(u, what)>>)

\* Any other input is the browser's; reconcileFromDom then replaces the whole
\* text by what the browser shows. That of a remade editor is about the Y.Doc
\* that has been destroyed, and nothing comes of it.
Reconcile(u) ==
  /\ Mounted(pages[u]) /\ ~pages[u].composing /\ ~pages[u].remade /\ Within(1)
  /\ Replace(u, Text(u, pages[u], edits))

StartComposing(u) ==
  /\ Mounted(pages[u]) /\ ~pages[u].composing
  /\ pages' = [pages EXCEPT ![u].composing = TRUE]
  /\ UNCHANGED <<content, row, op, edits, stream, gone, lost, faults>>

\* compositionend: what was composed, if anything, goes into the text.
EndComposing(u) ==
  LET page == [pages[u] EXCEPT !.composing = FALSE] IN
  /\ pages[u].composing
  /\ \/ /\ Within(1)
        /\ \E near \in Neighbours(u) : Update(u, page, <<Insert(u, near)>>)
     \/ /\ pages' = [pages EXCEPT ![u] = Rendered(u, page, edits)]
        /\ UNCHANGED <<content, row, op, edits, stream, gone, lost, faults>>

-----------------------------------------------------------------------------
(* The block itself: BlockStore has these operations, their answers and    *)
(* their repetitions.                                                      *)

\* The block is put into the store, its editor mounts.
InsertBlock(u) ==
  /\ pages[u].status = "ready" /\ row = "no" /\ op = "none" /\ Within(1)
  /\ op' = "insert"
  /\ pages' = [pages EXCEPT ![u] = Rendered(u, Ensure([@ EXCEPT !.shown = TRUE]), edits)]
  /\ UNCHANGED <<content, row, edits, stream, gone, lost, faults>>

\* And out of it. The Y.Doc stays until the operation comes back.
DeleteBlock(u) ==
  /\ Mounted(pages[u]) /\ row = "there" /\ op = "none" /\ Within(1)
  /\ op' = "delete"
  /\ pages' = [pages EXCEPT ![u] = [@ EXCEPT !.shown = FALSE, !.dom = {}, !.composing = FALSE,
                                             !.remade = FALSE]]
  /\ UNCHANGED <<content, row, edits, stream, gone, lost, faults>>

\* The api commits it, and appends it to the stream.
CommitOp ==
  /\ op # "none"
  /\ op' = "none"
  /\ row' = IF op = "insert" THEN "there" ELSE "gone"
  /\ stream' = Append(stream, [kind |-> op])
  /\ UNCHANGED <<content, edits, gone, pages, lost, faults>>

-----------------------------------------------------------------------------
(* Loading.                                                                *)

\* The updates among the first n entries.
Past(n) == {stream[k].edit : k \in {j \in 1 .. n : stream[j].kind = "crdt"}}
Published == Past(Len(stream))

\* The page is opened. localStorage may have the cursor of an earlier visit.
Visit(u) ==
  /\ pages[u].status = "away"
  /\ \E c \in {NoCursor} \cup 0 .. Len(stream) :
       pages' = [pages EXCEPT ![u] = [@ EXCEPT !.status = "loading", !.gets = <<"sent">>,
                   !.cursor = c, !.missed = IF c = NoCursor THEN {} ELSE Past(c)]]
  /\ UNCHANGED <<content, row, op, edits, stream, gone, lost, faults>>

\* GET /blocks reads the rows. Its stream_last_id is used for nothing.
ReadRows(u) ==
  \E k \in DOMAIN pages[u].gets :
    /\ pages[u].gets[k] = "sent"
    /\ pages' = [pages EXCEPT ![u].gets[k] = row]
    /\ UNCHANGED <<content, row, op, edits, stream, gone, lost, faults>>

\* The answer: the registry is cleared of all that has come so far, the store
\* gets the rows, an editor that is mounted for another answer stays so.
Loaded(u) ==
  \E k \in DOMAIN pages[u].gets :
    LET page == pages[u]
        there == page.gets[k] = "there"
        stays == Mounted(page) /\ there
        clear == [Destroyed(page) EXCEPT !.gets = RemoveAt(page.gets, k), !.status = "ready",
                    !.shown = there, !.missed = @ \cup Past(page.at), !.remade = stays,
                    !.composing = page.composing /\ stays]
        loaded == IF there THEN Ensure(clear) ELSE clear
    IN
    /\ page.gets[k] # "sent"
    /\ pages' = [pages EXCEPT ![u] = IF stays THEN loaded ELSE Rendered(u, loaded, edits)]
    /\ UNCHANGED <<content, row, op, edits, stream, gone, lost, faults>>

\* Or there is none: the page says so, with what it has left as it is.
LoadFails(u) ==
  /\ Fault
  /\ \E k \in DOMAIN pages[u].gets :
       pages' = [pages EXCEPT ![u] = [pages[u] EXCEPT !.gets = RemoveAt(@, k),
                                      !.status = "error", !.dom = {}, !.composing = FALSE,
                                      !.remade = FALSE]]
  /\ UNCHANGED <<content, row, op, edits, stream, gone, lost>>

-----------------------------------------------------------------------------
(* The socket.                                                             *)

\* Mutant: sendQueue is sent and kept.
FlushedTwice(page, n) == [page EXCEPT !.out = @ \o SubSeq(page.queue, n + 1, Len(page.queue))]
\* flushSendQueue. The first n frames come before the connection handler has
\* joined the room and replayed, and registers its message listener.
Flushed(page, n) ==
  [page EXCEPT !.out = @ \o SubSeq(page.queue, n + 1, Len(page.queue)), !.queue = <<>>]

\* The page's cursor is below the first entry of the stream.
Trimmed(page) == page.cursor \in 1 .. gone

\* Mutant: a missing cursor is taken for a cursor.
StartNoCursor(page) == IF page.cursor < gone /\ page.cursor # NoCursor THEN gone ELSE page.cursor
\* Where a connection starts: without a cursor what has been in the stream is not
\* replayed; with one, the stream from there on is.
Start(page) ==
  CASE page.cursor = NoCursor -> Len(stream)
    [] page.cursor \in 0 .. gone -> gone
    [] OTHER -> page.cursor

\* The connection sends from there; what it lets pass is missed. The hello of a
\* page without a cursor says 0-0.
Joined(page, at, passed) ==
  [page EXCEPT !.up = TRUE, !.socket = @ + 1, !.at = at, !.missed = @ \cup passed,
               !.cursor = IF @ = NoCursor THEN 0 ELSE @]

\* open(), and the open event.
Connect(u) ==
  LET page == pages[u]
      at == Start(page)
      passed == IF page.cursor \in {NoCursor, 0} THEN Past(at) \ page.has ELSE {}
  IN
  /\ page.status # "away" /\ ~page.up /\ ~Trimmed(page)
  /\ \E n \in 0 .. Len(page.queue) :
       /\ lost' = lost \cup ToSet(SubSeq(page.queue, 1, n))
       /\ pages' = [pages EXCEPT ![u] = Joined(Flushed(page, n), at, passed)]
  /\ UNCHANGED <<content, row, op, edits, stream, gone, faults>>

\* The stream has been trimmed: what the open event sends has no listener, then
\* comes reload_required, and the close. The page drops everything, and loads
\* again, whatever load is under way.
ReloadRequired(u) ==
  /\ pages[u].status # "away" /\ ~pages[u].up /\ Trimmed(pages[u])
  /\ lost' = lost \cup ToSet(pages[u].queue)
  /\ pages' = [pages EXCEPT ![u] = [Destroyed(pages[u]) EXCEPT
       !.status = "loading", !.shown = FALSE, !.dom = {}, !.composing = FALSE, !.remade = FALSE,
       !.gets = Append(@, "sent"), !.cursor = NoCursor, !.queue = <<>>, !.socket = @ + 1]]
  /\ UNCHANGED <<content, row, op, edits, stream, gone, faults>>

\* The connection is lost, with the deltas that are not at the server yet.
Drop(u) ==
  /\ Fault
  /\ pages[u].up
  /\ lost' = lost \cup ToSet(pages[u].out)
  /\ pages' = [pages EXCEPT ![u].up = FALSE, ![u].out = <<>>]
  /\ UNCHANGED <<content, row, op, edits, stream, gone>>

\* handleCrdt: the XADD, or its failure, which is logged.
Publish(u) ==
  /\ pages[u].out # <<>>
  /\ pages' = [pages EXCEPT ![u].out = Tail(@)]
  /\ stream' = Append(stream, [kind |-> "crdt", edit |-> Head(pages[u].out),
                               socket |-> <<u, pages[u].socket>>])
  /\ UNCHANGED <<content, row, op, edits, gone, lost, faults>>
XaddFails(u) ==
  /\ Fault
  /\ pages[u].out # <<>>
  /\ pages' = [pages EXCEPT ![u].out = Tail(@)]
  /\ lost' = lost \cup {Head(pages[u].out)}
  /\ UNCHANGED <<content, row, op, edits, stream, gone>>

\* MAXLEN ~: the XADD of another block's entry takes old ones away.
Trim ==
  /\ Fault
  /\ gone' \in gone + 1 .. Len(stream)
  /\ UNCHANGED <<content, row, op, edits, stream, pages, lost>>

\* The next entry, as a frame. The socket that a delta came by gets none.
Frame(u, page, entry) ==
  CASE entry.kind = "insert" ->
         Rendered(u, Ensure([page EXCEPT !.shown = TRUE]), edits)
    [] entry.kind = "delete" ->
         [Destroyed(page) EXCEPT !.shown = FALSE, !.dom = {}, !.composing = FALSE, !.remade = FALSE]
    [] entry.kind = "crdt" ->
         Given(u, page, entry.edit)

Receive(u) ==
  LET page == [pages[u] EXCEPT !.at = @ + 1]
      entry == stream[page.at]
      mine == entry.kind = "crdt" /\ entry.socket = <<u, page.socket>>
  IN
  /\ pages[u].up /\ pages[u].at < Len(stream)
  /\ pages' = [pages EXCEPT ![u] =
       IF mine THEN [page EXCEPT !.missed = @ \cup ({entry.edit} \ page.has)]
       ELSE Frame(u, [page EXCEPT !.cursor = page.at], entry)]
  /\ UNCHANGED <<content, row, op, edits, stream, gone, lost, faults>>

\* A second goes by.
Expire(u) ==
  /\ pages[u].fresh # {}
  /\ pages' = [pages EXCEPT ![u].fresh = {}, ![u].stale = @ \cup pages[u].fresh]
  /\ UNCHANGED <<content, row, op, edits, stream, gone, lost, faults>>

-----------------------------------------------------------------------------
Editor(u) == Reconcile(u) \/ Type(u) \/ Delete(u) \/ StartComposing(u) \/ EndComposing(u)
             \/ InsertBlock(u) \/ DeleteBlock(u)
Loading(u) == ReadRows(u) \/ Loaded(u)
Socket(u) == Connect(u) \/ ReloadRequired(u) \/ Publish(u) \/ Receive(u)
Failure(u) == Drop(u) \/ XaddFails(u) \/ LoadFails(u) \/ Expire(u)

Next ==
  \/ \E u \in Pages : Editor(u) \/ Visit(u) \/ Loading(u) \/ Socket(u) \/ Failure(u)
  \/ CommitOp \/ Trim

Spec == Init /\ [][Next]_vars

-----------------------------------------------------------------------------
(* Properties.                                                             *)

\* A page that is at the end of the stream has been given every update in it,
\* or has let it pass for a reason there is: the stream began for it after the
\* update, or was trimmed; a load or a reload wiped it; it had been made here,
\* in an earlier Y.Doc; its buffer was too old. Nothing else gets an update lost.
NothingSlips ==
  \A u \in Pages : LET p == pages[u] IN
    p.up /\ p.at = Len(stream) /\ p.doc # 0 => Published \subseteq p.has \cup p.missed

\* "Concurrent text edits converge (CRDT semantics)" (README.md:102): pages that
\* are quiet show the same text, composed while others typed or not. Quiet: the
\* page is at the end of the stream, has let nothing pass, and lost nothing on its
\* way there.
Quiet(u) ==
  LET page == pages[u] IN
  /\ Mounted(page) /\ ~page.composing /\ ~page.remade
  /\ page.up /\ page.at = Len(stream)
  /\ page.doc # 0 /\ page.missed = {}
  /\ \A e \in page.has : edits[e].by[1] = u => e \in Published
QuietPagesAgree ==
  LET quiet == {u \in Pages : Quiet(u)} IN \A u, v \in quiet : pages[u].dom = pages[v].dom

\* The same of a block that was inserted without content. (The Y.Doc of one with
\* content is seeded on every page for itself: TextSeeded is about these.)
TextsAgree == content = "empty" => QuietPagesAgree

\* What a mounted editor shows goes away only when an update erases it: no
\* replay, repeated insert or reconnection takes text off the screen. (A load may
\* have put another Y.Doc under the editor: what it showed before goes with the
\* next rendering.)
Erased(all, what) == \A e \in what : \E d \in 1 .. Len(all) : e \in all[d].erases
TextStays ==
  [][\A u \in Pages : Mounted(pages[u]) /\ Mounted(pages'[u]) /\ ~pages[u].remade
       => Erased(edits', pages[u].dom \ pages'[u].dom)]_vars

\* "crdt deltas MUST NOT be dropped silently or we lose keystrokes" (ws.ts:66): an
\* update is in the stream, once, or on its way there from the page that made
\* it, or was lost, sent over a connection that ended or did not listen yet or
\* refused by the stream; and it is only one of these.
Streamed(e) == Cardinality({k \in 1 .. Len(stream) : stream[k].kind = "crdt" /\ stream[k].edit = e})
Waiting(e, frames) == Cardinality({k \in 1 .. Len(frames) : frames[k] = e})
EachEditOnce ==
  \A e \in Numbers :
    LET page == pages[edits[e].by[1]] IN
    Streamed(e) + Waiting(e, page.queue) + Waiting(e, page.out) + (IF e \in lost THEN 1 ELSE 0) = 1

=============================================================================
