------------------------------ MODULE BlockStore ------------------------------
(***************************************************************************)
(* The optimistic block store of the web client and its wiring to the      *)
(* socket: apps/web/src/store/block-store.ts, DocumentClient.tsx,          *)
(* BlockEditor.tsx, over the handler of the ops channel and POST           *)
(* /operations.                                                            *)
(*                                                                         *)
(* An event of the page is one step: React runs the effect on pendingOps   *)
(* at the end of it.  Every operation is at the root of the document, as   *)
(* those of the editor are.  The api's work on a request is one step, from *)
(* the transaction to the PUBLISH: BlockOps has its inside, and the orders *)
(* of commits and stream that may differ.  A page gets the entries in      *)
(* stream order, live or replayed after a reconnect: StreamRelay has the   *)
(* exceptions.                                                             *)
(***************************************************************************)
EXTENDS Integers, Sequences, FiniteSets, Bags, SequencesExt

CONSTANTS
  Pages,
  Blocks,     \* block ids, each inserted by one user event at most
  Original,   \* the blocks of the snapshot that every page has loaded
  MaxOps,     \* bound: operations made by the users
  MaxPaste,   \* bound: blocks of a paste
  MaxFaults   \* bound: lost connections and failed requests

None == "none"
ASSUME StoreAssumption ==
  /\ None \notin Blocks /\ Original \subseteq Blocks
  /\ {MaxOps, MaxPaste, MaxFaults} \subseteq Nat

VARIABLES
  ops,      \* every operation made, its number is its clientSeq
  pages,    \* the store and the socket of each page
  frames,   \* ops frames sent and not handled yet
  rows,     \* doc_blocks
  stream,   \* the operations applied, with their new versions
  answers,  \* acks and nacks on their way down
  refused,  \* history: the pages that were refused an operation, with its block
  faults    \* failures so far

vars == <<ops, pages, frames, rows, stream, answers, refused, faults>>
server == <<rows, stream>>

Numbers == 1 .. Len(ops)
\* val: the operation whose attrs the block has, 0 those of the snapshot.
Block == [present : BOOLEAN, val : Nat, ver : Nat]
Gone == [present |-> FALSE, val |-> 0, ver |-> 0]
Op == [by : Pages, kind : {"insert", "delete", "attrs"}, block : Blocks,
       after : Blocks \cup {None}, ver : Nat]
\* pending: pendingOps. seen: the stream entries received, which is the cursor.
Page == [blocks : [Blocks -> Block], pending : Seq(Numbers), open : BOOLEAN,
         seen : 0 .. Len(stream)]
\* live: the socket it came by is the one the page has now.
Frame == [op : Numbers, live : BOOLEAN]
Answer == [page : Pages, op : Numbers, kind : {"ack", "nack"}, ver : Nat]

TypeOK ==
  /\ ops \in Seq(Op)
  /\ pages \in [Pages -> Page]
  /\ \A u \in Pages : IsInjective(pages[u].pending)
  /\ IsABag(frames) /\ BagToSet(frames) \subseteq Frame
  /\ rows \in [Blocks -> Block]
  /\ stream \in Seq([op : Numbers, ver : Nat])
  /\ IsABag(answers) /\ BagToSet(answers) \subseteq Answer
  /\ refused \subseteq Pages \X Blocks
  /\ faults \in 0 .. MaxFaults

Snapshot == [b \in Blocks |-> IF b \in Original THEN [present |-> TRUE, val |-> 0, ver |-> 1]
                              ELSE Gone]
Init ==
  /\ ops = <<>> /\ rows = Snapshot
  /\ pages = [u \in Pages |-> [blocks |-> Snapshot, pending |-> <<>>, open |-> TRUE, seen |-> 0]]
  /\ frames = EmptyBag /\ answers = EmptyBag
  /\ stream = <<>> /\ refused = {} /\ faults = 0

-----------------------------------------------------------------------------
(* The editor: every event changes the store at once and enqueues.         *)

Insert(u, b, after) == [by |-> u, kind |-> "insert", block |-> b, after |-> after, ver |-> 0]
OnBlock(u, kind, b) == [by |-> u, kind |-> kind, block |-> b, after |-> None,
                        ver |-> pages[u].blocks[b].ver]

\* insertBlock, deleteBlock, updateAttrs: what operation n makes of the block.
Local(block, op, n) ==
  CASE op.kind = "insert" -> [present |-> TRUE, val |-> n, ver |-> 1]
    [] op.kind = "delete" -> Gone
    [] op.kind = "attrs"  -> [block EXCEPT !.val = n]

\* Mutant: the effect sends what is new, an answer sends nothing.
FlushNew(before, page) ==
  IF page.open /\ page.pending # <<>> /\ Len(page.pending) > Len(before.pending)
  THEN SetToBag({[op |-> Last(page.pending), live |-> TRUE]}) ELSE EmptyBag
\* The effect on pendingOps sends the last of them, whatever made them change.
Flush(before, page) ==
  IF page.open /\ page.pending # <<>>
  THEN SetToBag({[op |-> Last(page.pending), live |-> TRUE]}) ELSE EmptyBag

\* Mutant: clientSeqCounter stays for the rest of the event.
ClientSeqStuck(i) == Len(ops) + 1
ClientSeq(i) == Len(ops) + i

\* One event of the editor that enqueues new, a sequence of operations, of which
\* no two are on the same block.
Edited(u, new) ==
  [b \in Blocks |->
    IF \E i \in DOMAIN new : new[i].block = b
    THEN LET i == CHOOSE i \in DOMAIN new : new[i].block = b
         IN Local(pages[u].blocks[b], new[i], ClientSeq(i))
    ELSE pages[u].blocks[b]]
Edit(u, new) ==
  LET page == [pages[u] EXCEPT !.blocks = Edited(u, new),
                               !.pending = @ \o [i \in 1 .. Len(new) |-> ClientSeq(i)]] IN
  /\ Len(ops) + Len(new) <= MaxOps
  /\ ops' = ops \o new
  /\ pages' = [pages EXCEPT ![u] = page]
  /\ frames' = frames (+) Flush(pages[u], page)
  /\ UNCHANGED <<server, answers, refused, faults>>

Here(u) == {b \in Blocks : pages[u].blocks[b].present}
\* The ids that newBlockId may give next.
Fresh == Blocks \ (Original \cup {ops[n].block : n \in Numbers})

\* Enter, the slash menu, and the button of an empty document.
Enter(u) ==
  \E b \in Fresh : \E after \in IF Here(u) = {} THEN {None} ELSE Here(u) :
    Edit(u, <<Insert(u, b, after)>>)
Backspace(u) == \E b \in Here(u) : Edit(u, <<OnBlock(u, "delete", b)>>)
Check(u) == \E b \in Here(u) : Edit(u, <<OnBlock(u, "attrs", b)>>)

\* A paste puts each block after the one before; an empty block is replaced.
Paste(u) ==
  \E at \in Here(u), empty \in BOOLEAN, k \in 1 .. MaxPaste : \E ids \in [1 .. k -> Fresh] :
    /\ IsInjective(ids)
    /\ Edit(u, [i \in 1 .. k |-> Insert(u, ids[i], IF i = 1 THEN at ELSE ids[i - 1])]
               \o IF empty THEN <<OnBlock(u, "delete", at)>> ELSE <<>>)

-----------------------------------------------------------------------------
(* The api: apply_op in a transaction, then XADD, PUBLISH, the answer.     *)

Row(op) == rows[op.block]

\* Mutant: versions are not compared.
AppliesStale(op) == (op.kind = "insert") # Row(op).present
\* AppliedOp or OpConflict. Deleting what is gone is applied, as version 0.
Applies(op) ==
  CASE op.kind = "insert" -> ~Row(op).present /\ (op.after # None => rows[op.after].present)
    [] op.kind = "delete" -> Row(op).present => Row(op).ver = op.ver
    [] op.kind = "attrs"  -> Row(op).present /\ Row(op).ver = op.ver

NewVersion(op) ==
  IF op.kind = "insert" THEN 1 ELSE IF Row(op).present THEN Row(op).ver + 1 ELSE 0

Apply(f) ==
  LET op == ops[f.op] IN
  /\ Applies(op)
  /\ frames' = frames (-) SetToBag({f})
  /\ rows' = [rows EXCEPT ![op.block] =
                IF op.kind = "delete" THEN Gone
                ELSE [present |-> TRUE, val |-> f.op, ver |-> NewVersion(op)]]
  /\ stream' = Append(stream, [op |-> f.op, ver |-> NewVersion(op)])
  /\ UNCHANGED <<ops, pages, refused>>

\* The answer finds the socket it belongs to, or nobody.
Reply(f, kind, ver) ==
  answers' = IF f.live THEN answers (+) SetToBag({[page |-> ops[f.op].by, op |-> f.op,
                                                   kind |-> kind, ver |-> ver]})
             ELSE answers

Commit(f) ==
  Apply(f) /\ Reply(f, "ack", NewVersion(ops[f.op])) /\ UNCHANGED faults

\* A conflict: the api answers 200, so the ws server acks it, with version 0.
\* That of a lost connection, whose answer nobody gets, is as good as lost.
Conflict(f) ==
  /\ f.live /\ ~Applies(ops[f.op])
  /\ frames' = frames (-) SetToBag({f})
  /\ Reply(f, "ack", 0)
  /\ UNCHANGED <<ops, pages, server, refused, faults>>

Handle(f) == Commit(f) \/ Conflict(f)

-----------------------------------------------------------------------------
(* Messages that reach the page.                                           *)

\* applyRemoteOps, which every page runs, also the one the operation is of.
\* The version on the wire is the new one; the page adds 1 to that of attrs.
Remote(block, n, ver) ==
  CASE ops[n].kind = "insert" -> [present |-> TRUE, val |-> n, ver |-> 1]
    [] ops[n].kind = "delete" -> Gone
    [] ops[n].kind = "attrs"  -> IF block.present
                                 THEN [block EXCEPT !.val = n, !.ver = ver + 1] ELSE block

Receive(u) ==
  /\ pages[u].open /\ pages[u].seen < Len(stream)
  /\ LET c == stream[pages[u].seen + 1] IN
     pages' = [pages EXCEPT ![u].seen = @ + 1,
                 ![u].blocks[ops[c.op].block] = Remote(@, c.op, c.ver)]
  /\ UNCHANGED <<ops, frames, server, answers, refused, faults>>

\* Mutant: an answer settles all that was enqueued before.
UnansweredAfter(pending, op) == SelectSeq(pending, LAMBDA n : n > op)
\* Without the operation, which is there once if at all.
Unanswered(pending, op) ==
  IF op \in ToSet(pending)
  THEN RemoveAt(pending, CHOOSE i \in DOMAIN pending : pending[i] = op) ELSE pending

\* handleAck sets the version, handleNack takes the block away: no nack of
\* the ws server carries the block as it is.
Settle(page, a) ==
  [page EXCEPT !.pending = Unanswered(@, a.op),
     !.blocks[ops[a.op].block] =
       IF a.kind = "nack" THEN Gone ELSE IF @.present THEN [@ EXCEPT !.ver = a.ver] ELSE @]

Answered(a) ==
  LET page == Settle(pages[a.page], a) IN
  /\ answers' = answers (-) SetToBag({a})
  /\ pages' = [pages EXCEPT ![a.page] = page]
  /\ frames' = frames (+) Flush(pages[a.page], page)
  /\ refused' = IF a.kind = "nack" \/ \A s \in ToSet(stream) : s.op # a.op
                THEN refused \cup {<<a.page, ops[a.op].block>>} ELSE refused
  /\ UNCHANGED <<ops, server, faults>>

\* The open listener: drainPending sends all that is pending.
Drain(page) == SetToBag({[op |-> n, live |-> TRUE] : n \in ToSet(page.pending)})

Open(u) ==
  /\ ~pages[u].open
  /\ pages' = [pages EXCEPT ![u].open = TRUE]
  /\ frames' = frames (+) Drain(pages[u])
  /\ UNCHANGED <<ops, server, answers, refused, faults>>

-----------------------------------------------------------------------------
(* Failures.                                                               *)

Fault == faults < MaxFaults /\ faults' = faults + 1

\* The connection is lost, and with it the answers. What the page had sent
\* may still be on its way to the api, or nowhere.
Drop(u) ==
  LET sent == {f \in BagToSet(frames) : f.live /\ ops[f.op].by = u}
      orphans == {[f EXCEPT !.live = FALSE] : f \in sent}
      lost == {a \in BagToSet(answers) : a.page = u} IN
  /\ Fault /\ pages[u].open
  /\ pages' = [pages EXCEPT ![u].open = FALSE]
  /\ frames' = (frames (-) [f \in sent |-> frames[f]])
               (+) [f \in orphans |-> frames[[f EXCEPT !.live = TRUE]]]
  /\ answers' = answers (-) [a \in lost |-> answers[a]]
  /\ UNCHANGED <<ops, server, refused>>

\* The ws server does not reach the api, or the api fails before it commits.
RequestFails(f) ==
  /\ Fault /\ f.live
  /\ frames' = frames (-) SetToBag({f})
  /\ Reply(f, "nack", 0)
  /\ UNCHANGED <<ops, pages, server, refused>>

\* The operation is applied, its response is lost or a 500.
ResponseFails(f) == Fault /\ f.live /\ Apply(f) /\ Reply(f, "nack", 0)

-----------------------------------------------------------------------------
User(u) == Enter(u) \/ Backspace(u) \/ Check(u) \/ Paste(u)

Next ==
  \/ \E u \in Pages : User(u) \/ Receive(u) \/ Open(u) \/ Drop(u)
  \/ \E f \in BagToSet(frames) : Handle(f) \/ RequestFails(f) \/ ResponseFails(f)
  \/ \E a \in BagToSet(answers) : Answered(a)

Spec == Init /\ [][Next]_vars

\* The api answers what has reached it, the socket delivers, and a client
\* without a socket reconnects. Users need not type; what a lost connection
\* had under way need not arrive.
Fairness ==
  /\ WF_vars(\E f \in BagToSet(frames) : f.live /\ Handle(f))
  /\ WF_vars(\E a \in BagToSet(answers) : Answered(a))
  /\ \A u \in Pages : WF_vars(Open(u))

FairSpec == Spec /\ Fairness

-----------------------------------------------------------------------------
(* Properties.                                                             *)

\* However often the page sends an operation again (every answer makes it
\* send its last one, every reconnect all of them), an insert or an update
\* takes effect a second time only after its block has been deleted.
RepeatsNeedDelete ==
  \A i, j \in DOMAIN stream : i < j /\ stream[i].op = stream[j].op =>
    \E k \in i .. j : LET op == ops[stream[k].op] IN
                      op.kind = "delete" /\ op.block = ops[stream[i].op].block

Quiet(u) == pages[u].pending = <<>> /\ pages[u].seen = Len(stream)

\* A page that awaits nothing shows the blocks and the attrs of the server,
\* although it has applied its own edits early and then once more from the
\* stream: but for blocks of which it was refused an operation, which it
\* keeps (a conflict) or drops (a nack) on its own.
ConvergesUnlessRefused ==
  \A u \in Pages : Quiet(u) =>
    \A b \in Blocks : <<u, b>> \notin refused =>
      LET mine == pages[u].blocks[b] IN
      mine.present = rows[b].present /\ (mine.present => mine.val = rows[b].val)

\* Every operation is answered in the end: the effect sends only the last one,
\* but each answer makes it send another, and a reconnect sends them all.
EveryEditAnswered ==
  \A u \in Pages : (pages[u].pending # <<>>) ~> (pages[u].pending = <<>>)

\* "Flush new pending ops as they come in" (DocumentClient.tsx:155): without
\* any failure, a block that the only user has inserted is on the server once
\* nothing is pending, if the block it was put after is there.
InsertsReachServer ==
  \A u \in Pages : Quiet(u) =>
    \A n \in Numbers :
      LET op == ops[n] IN
      /\ op.kind = "insert" /\ pages[u].blocks[op.block].present
      /\ op.after # None => rows[op.after].present
      => rows[op.block].present

=============================================================================
