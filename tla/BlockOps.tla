------------------------------ MODULE BlockOps ------------------------------
(***************************************************************************)
(* Requests to POST /operations that run beside each other on one document *)
(* (apps/api/app/routes/blocks.py over app/ops/apply.py), from the frame   *)
(* of handleOps in apps/ws/src/handlers/ops.ts to its answer: transactions *)
(* of Postgres at READ COMMITTED, then XADD, the archive and PUBLISH.      *)
(*                                                                         *)
(* A request in its transaction has locked the rows of `mine` (SELECT ...  *)
(* FOR UPDATE and what it wrote), of which `copy` is its own version, has  *)
(* key-share locked the parents in `shares` (foreign keys), and holds the  *)
(* advisory locks of the parents in `advisory`. It reads its own rows and  *)
(* what is committed of the others. A position is a number here, with room *)
(* between any two of them; the ranks are in SiblingList.                  *)
(***************************************************************************)
EXTENDS Naturals, Sequences, FiniteSets

CONSTANTS
  Blocks,     \* block ids
  Requests,   \* frames {ch: "ops"} of the clients
  Kinds,      \* the operations of this instance, a subset of AllKinds
  Nested,     \* TRUE: the document may start with nested blocks
  Resends,    \* TRUE: an insert may be sent again (drainPending)
  Placed,     \* the position of each block the document starts with
  Top,        \* open upper end of the positions
  MaxOps,     \* bound: operations of a request
  Failures,   \* a subset of AllFailures
  MaxFaults   \* bound: failures

AllKinds == {"insert", "delete", "move", "attrs", "content"}
AllFailures == {"xadd", "record", "publish", "crash"}
Root == "root"      \* a NULL parent_id or afterId
Parents == Blocks \cup {Root}

ASSUME OpsAssumption ==
  /\ Root \notin Blocks
  /\ Kinds \subseteq AllKinds
  /\ {Nested, Resends} \subseteq BOOLEAN
  /\ Top \in Nat
  /\ Placed \in [Blocks -> 1 .. Top - 1]
  /\ \A b, c \in Blocks : b # c => Placed[b] # Placed[c]
  /\ MaxOps \in Nat \ {0}
  /\ Failures \subseteq AllFailures
  /\ MaxFaults \in Nat

VARIABLES
  rows,      \* doc_blocks, as committed
  requests,  \* the frame and the transaction of each request
  stream,    \* the ops entries, each the changes of one request
  archive,   \* doc_operations: the requests recorded there
  settled,   \* history: the changes that a COMMIT has made durable, in order
  faults     \* failures so far

vars == <<rows, requests, stream, archive, settled, faults>>

Row == [present : BOOLEAN, parent : Parents, pos : 0 .. Top, depth : Nat, ver : Nat]
NoRow == [present |-> FALSE, parent |-> Root, pos |-> 0, depth |-> 0, ver |-> 0]

\* ver: the version the client has of the block.
Op == [kind : AllKinds, block : Blocks, parent : Parents, after : Parents, ver : Nat]

\* What a request did to a block: the AppliedOp, with its new_version. A delete
\* of a block that is gone has version 0.
Change == [by : Requests, block : Blocks, ver : Nat]

Stages == {"idle", "op", "place", "write", "commit", "xadd", "record", "publish", "answer", "done"}
Request == [pc : Stages, ops : Seq(Op), at : Nat, depth : Nat, pos : 0 .. Top,
            mine : SUBSET Blocks, copy : [Blocks -> Row], shares : SUBSET Blocks,
            advisory : SUBSET Parents, broken : BOOLEAN,
            did : Seq(Change), reply : {"none", "ack", "nack"}]
NoRequest == [pc |-> "idle", ops |-> <<>>, at |-> 1, depth |-> 0, pos |-> 0,
              mine |-> {}, copy |-> [b \in Blocks |-> NoRow], shares |-> {},
              advisory |-> {}, broken |-> FALSE,
              did |-> <<>>, reply |-> "none"]

\* Rows are rows, and a request in its transaction is at one of its operations.
TypeOK ==
  /\ rows \in [Blocks -> Row]
  /\ requests \in [Requests -> Request]
  /\ \A r \in Requests : requests[r].pc \in {"op", "place", "write"} =>
       requests[r].at \in 1 .. Len(requests[r].ops)
  /\ stream \in Seq(Seq(Change))
  /\ archive \subseteq Requests
  /\ settled \in Seq(Change)
  /\ faults \in 0 .. MaxFaults

\* Documents one level deep at most, with the depths the inserts gave them.
Documents ==
  {doc \in [Blocks -> {NoRow} \cup [present : {TRUE}, parent : Parents, pos : {0}, depth : 0 .. 1, ver : {1}]] :
     \A b \in Blocks : doc[b].present =>
       IF doc[b].parent = Root THEN doc[b].depth = 0
       ELSE /\ Nested /\ doc[b].depth = 1
            /\ doc[doc[b].parent].present /\ doc[doc[b].parent].parent = Root}

Init ==
  /\ \E doc \in Documents :
       rows = [b \in Blocks |-> IF doc[b].present THEN [doc[b] EXCEPT !.pos = Placed[b]] ELSE NoRow]
  /\ requests = [r \in Requests |-> NoRequest]
  /\ stream = <<>> /\ archive = {} /\ settled = <<>>
  /\ faults = 0

-----------------------------------------------------------------------------
(* What a transaction sees, and whom it waits for.                         *)

View(r) == [b \in Blocks |-> IF b \in requests[r].mine THEN requests[r].copy[b] ELSE rows[b]]
Current(r) == requests[r].ops[requests[r].at]
Has(tree, parent) == parent = Root \/ tree[parent].present

\* The block and everything below it, what ON DELETE CASCADE reaches: the least
\* set that has the block and the children of its members.
Closed(tree, blocks) ==
  \A c \in Blocks : tree[c].present /\ tree[c].parent \in blocks => c \in blocks
Subtree(tree, b) ==
  {c \in Blocks : \A blocks \in SUBSET Blocks : b \in blocks /\ Closed(tree, blocks) => c \in blocks}

Others(r) == Requests \ {r}
Writers(r, blocks) == {q \in Others(r) : requests[q].mine \cap blocks # {}}
Sharers(r, blocks) == {q \in Others(r) : requests[q].shares \cap blocks # {}}

\* Mutant: SELECT without FOR UPDATE.
RowHoldersUnlocked(r) == {}

\* SELECT ... FOR UPDATE and the UPDATE of update_content: a row that nobody
\* has committed is not there to be waited for.
RowHolders(r) ==
  LET o == Current(r) IN
  IF ~rows[o.block].present THEN {}
  ELSE Writers(r, {o.block}) \cup (IF o.kind = "content" THEN {} ELSE Sharers(r, {o.block}))

\* Mutant: no pg_advisory_xact_lock.
SiblingHoldersUnlocked(r) == {}

\* pg_advisory_xact_lock of the parent.
SiblingHolders(r) == {q \in Others(r) : Current(r).parent \in requests[q].advisory}

\* The statement that writes: the primary key, the foreign key, the cascade.
WriteHolders(r) ==
  LET o == Current(r) IN
  CASE o.kind = "insert" -> Writers(r, {o.block, o.parent})
    [] o.kind = "move"   -> Writers(r, {o.parent})
    [] o.kind = "delete" -> LET all == Subtree(View(r), o.block)
                            IN Writers(r, all) \cup Sharers(r, all)

WaitsFor(r) ==
  CASE requests[r].pc = "op" /\ Current(r).kind # "insert" -> RowHolders(r)
    [] requests[r].pc = "place" -> SiblingHolders(r)
    [] requests[r].pc = "write" -> WriteHolders(r)
    [] OTHER -> {}

-----------------------------------------------------------------------------
(* The steps of a request.                                                 *)

Goto(r, state) == requests' = [requests EXCEPT ![r] = state]

\* A frame {ch: "ops"}: its versions are those of the client's copy, which has
\* seen the document as it is now. A new block has a fresh uuid, or the one of
\* an insert that is sent a second time.
Fresh(b) == ~rows[b].present /\ \A q \in Requests : \A k \in 1 .. Len(requests[q].ops) :
              requests[q].ops[k].block # b
Resent(b) == \E q \in Requests : \E k \in 1 .. Len(requests[q].ops) :
               requests[q].ops[k].kind = "insert" /\ requests[q].ops[k].block = b
Submitted ==
  {[kind |-> "insert", block |-> b, parent |-> p, after |-> a, ver |-> 0] :
     b \in {x \in Blocks : Fresh(x) \/ (Resends /\ Resent(x))}, p \in Parents, a \in Parents}
  \cup {[kind |-> "move", block |-> b, parent |-> p, after |-> a, ver |-> rows[b].ver] :
          b \in {x \in Blocks : rows[x].present}, p \in Parents, a \in Parents}
  \cup {[kind |-> k, block |-> b, parent |-> Root, after |-> Root, ver |-> rows[b].ver] :
          k \in {"delete", "attrs", "content"}, b \in {x \in Blocks : rows[x].present}}
Sensible(o) == o.kind \in Kinds /\ Has(rows, o.parent) /\ o.block # o.after
               /\ (o.after # Root => rows[o.after].present /\ rows[o.after].parent = o.parent)

Submit(r) ==
  /\ requests[r].pc = "idle"
  /\ \E n \in 1 .. MaxOps : \E ops \in [1 .. n -> {o \in Submitted : Sensible(o)}] :
       Goto(r, [requests[r] EXCEPT !.pc = "op", !.ops = ops])
  /\ UNCHANGED <<rows, stream, archive, settled, faults>>

\* Mutant: the loop over body.ops runs one past its end.
OnwardTooFar(q) == [q EXCEPT !.at = @ + 1, !.pc = IF q.at <= Len(q.ops) THEN "op" ELSE "commit"]

\* The operation at hand is done with; q is the request with its effect.
Onward(q) == [q EXCEPT !.at = @ + 1, !.pc = IF q.at < Len(q.ops) THEN "op" ELSE "commit"]
Conflict(q) == Onward(q)
Applied(r, q, ver) ==
  [Onward(q) EXCEPT !.did = Append(@, [by |-> r, block |-> Current(r).block, ver |-> ver])]

\* A row locked and, if it is there, copied.
Locked(q, b) ==
  IF rows[b].present \/ b \in q.mine
  THEN [q EXCEPT !.mine = @ \cup {b}, !.copy[b] = IF b \in q.mine THEN @ ELSE rows[b]] ELSE q

\* The first statements of each handler, up to the next lock they wait for.
InsertChecks(r) ==
  LET o == Current(r)
      v == View(r)
      q == requests[r]
  IN
  /\ o.kind = "insert"
  /\ Goto(r, IF v[o.block].present \/ ~Has(v, o.parent) THEN Conflict(q)
             ELSE [q EXCEPT !.pc = "place",
                     !.depth = IF o.parent = Root THEN 0 ELSE v[o.parent].depth + 1])

FreshEnough(row, o) == row.ver = o.ver

Checked(r) ==
  LET o == Current(r)
      row == View(r)[o.block]
      q == Locked(requests[r], o.block)
  IN
  /\ o.kind \in {"delete", "move", "attrs"}
  /\ Goto(r,
       CASE ~row.present -> IF o.kind = "delete" THEN Applied(r, q, 0) ELSE Conflict(q)
         [] row.present /\ ~FreshEnough(row, o) -> Conflict(q)
         [] row.present /\ FreshEnough(row, o) /\ o.kind = "move" -> [q EXCEPT !.pc = "place"]
         [] row.present /\ FreshEnough(row, o) /\ o.kind = "delete" -> [q EXCEPT !.pc = "write"]
         [] row.present /\ FreshEnough(row, o) /\ o.kind = "attrs" ->
              Applied(r, [q EXCEPT !.copy[o.block].ver = @ + 1], row.ver + 1))

UpdateContent(r) ==
  LET o == Current(r)
      row == View(r)[o.block]
      q == Locked(requests[r], o.block)
  IN
  /\ o.kind = "content"
  /\ Goto(r, IF ~row.present THEN Conflict(q)
             ELSE Applied(r, [q EXCEPT !.copy[o.block].ver = @ + 1], row.ver + 1))

Begin(r) ==
  /\ requests[r].pc = "op" /\ ~requests[r].broken /\ WaitsFor(r) = {}
  /\ InsertChecks(r) \/ Checked(r) \/ UpdateContent(r)
  /\ UNCHANGED <<rows, stream, archive, settled, faults>>

\* _compute_position: between afterId, wherever it is now, and the next sibling.
Siblings(tree, parent) == {b \in Blocks : tree[b].present /\ tree[b].parent = parent}
Left(tree, after) == IF after = Root THEN 0 ELSE tree[after].pos
Right(tree, parent, after) ==
  LET above == {tree[b].pos : b \in Siblings(tree, parent)} \cap Left(tree, after) + 1 .. Top
  IN IF above = {} THEN Top ELSE CHOOSE p \in above : \A p2 \in above : p <= p2
Midpoint(tree, parent, after) == (Left(tree, after) + Right(tree, parent, after)) \div 2

\* Bound: the positions go as deep as there is room between two of them.
Room(tree, parent, after) == Right(tree, parent, after) - Left(tree, after) > 1

\* The block to go behind is there, and so is the new parent of a move.
Placeable(tree, o) == Has(tree, o.after) /\ (o.kind = "move" => Has(tree, o.parent))

\* The advisory lock, and the position under it; move_block reads the depth of
\* its new parent only now.
Place(r) ==
  LET o == Current(r)
      v == View(r)
      q == [requests[r] EXCEPT !.advisory = @ \cup {o.parent}]
  IN
  /\ requests[r].pc = "place" /\ WaitsFor(r) = {}
  /\ IF Placeable(v, o)
     THEN /\ Room(v, o.parent, o.after)
          /\ Goto(r, [q EXCEPT !.pc = "write", !.pos = Midpoint(v, o.parent, o.after),
                        !.depth = CASE o.kind = "insert" -> @
                                    [] o.kind = "move" /\ o.parent = Root -> 0
                                    [] OTHER -> v[o.parent].depth + 1])
     ELSE Goto(r, Conflict(q))
  /\ UNCHANGED <<rows, stream, archive, settled, faults>>

\* uq_block_position, which holds NULL parents for distinct.
Taken(r) ==
  LET o == Current(r)
      v == View(r)
  IN o.parent # Root /\ \E b \in Siblings(v, o.parent) \ {o.block} : v[b].pos = requests[r].pos

\* Mutant: pg_advisory_lock, which outlives the transaction.
ReleasedSession(q) == [q EXCEPT !.mine = {}, !.copy = [b \in Blocks |-> NoRow], !.shares = {},
                                !.depth = 0, !.pos = 0]

\* The end of a transaction.
Released(q) == [q EXCEPT !.mine = {}, !.copy = [b \in Blocks |-> NoRow], !.shares = {},
                         !.advisory = {}, !.depth = 0, !.pos = 0]

\* Mutant: the exception of an operation is swallowed.
RaisedSwallowed(q) == [Released(q) EXCEPT !.pc = "xadd"]

\* An exception leaves post_operations: the transaction is rolled back, the
\* answer is a 500, which handleOps turns into a nack.
Raised(q) == [Released(q) EXCEPT !.pc = "done", !.reply = "nack"]

\* The INSERT: a UniqueViolationError is caught, and leaves a transaction that
\* Postgres has aborted.
InsertBlock(r) ==
  LET o == Current(r)
      v == View(r)
      q == requests[r]
      new == [present |-> TRUE, parent |-> o.parent, pos |-> q.pos, depth |-> q.depth, ver |-> 1]
  IN
  /\ o.kind = "insert"
  /\ Goto(r,
       IF v[o.block].present \/ Taken(r) THEN [Conflict(q) EXCEPT !.broken = TRUE]
       ELSE IF ~Has(v, o.parent) THEN Raised(q)
       ELSE Applied(r, [q EXCEPT !.mine = @ \cup {o.block}, !.copy[o.block] = new,
                                 !.shares = @ \cup ({o.parent} \ {Root})], 1))

MoveBlock(r) ==
  LET o == Current(r)
      v == View(r)
      q == requests[r]
      ver == v[o.block].ver + 1
  IN
  /\ o.kind = "move"
  /\ Goto(r,
       IF Taken(r) THEN [Conflict(q) EXCEPT !.broken = TRUE]
       ELSE IF ~Has(v, o.parent) THEN Raised(q)
       ELSE Applied(r, [q EXCEPT !.shares = @ \cup ({o.parent} \ {Root}),
                          !.copy[o.block] = [present |-> TRUE, parent |-> o.parent, pos |-> q.pos,
                                             depth |-> q.depth, ver |-> ver]], ver))

DeleteBlock(r) ==
  LET o == Current(r)
      v == View(r)
      q == requests[r]
      all == Subtree(v, o.block)
  IN
  /\ o.kind = "delete"
  /\ Goto(r, Applied(r, [q EXCEPT !.mine = @ \cup all,
                           !.copy = [b \in Blocks |-> IF b \in all THEN NoRow ELSE q.copy[b]]],
                     v[o.block].ver + 1))

Write(r) ==
  /\ requests[r].pc = "write" /\ WaitsFor(r) = {}
  /\ InsertBlock(r) \/ MoveBlock(r) \/ DeleteBlock(r)
  /\ UNCHANGED <<rows, stream, archive, settled, faults>>

\* A statement after the one that failed: InFailedSQLTransactionError.
FailsOn(r) ==
  /\ requests[r].pc = "op" /\ requests[r].broken
  /\ Goto(r, Raised(requests[r]))
  /\ UNCHANGED <<rows, stream, archive, settled, faults>>

\* Postgres breaks a cycle of waiting transactions at one of them.
Stuck(all) == all # {} /\ \A q \in all : WaitsFor(q) \cap all # {}
Deadlock(r) ==
  /\ \E all \in SUBSET Requests :
       /\ r \in all /\ Stuck(all)
       /\ \A fewer \in SUBSET all : Stuck(fewer) => fewer = all
  /\ Goto(r, Raised(requests[r]))
  /\ UNCHANGED <<rows, stream, archive, settled, faults>>

\* COMMIT. Of an aborted transaction it is a ROLLBACK that raises nothing.
Commit(r) ==
  LET q == requests[r] IN
  /\ q.pc = "commit"
  /\ IF q.broken THEN UNCHANGED <<rows, settled>>
     ELSE rows' = View(r) /\ settled' = settled \o q.did
  /\ Goto(r, [Released(q) EXCEPT !.pc = IF q.did = <<>> THEN "answer" ELSE "xadd"])
  /\ UNCHANGED <<stream, archive, faults>>

-----------------------------------------------------------------------------
(* After the commit.                                                       *)

Xadd(r) ==
  /\ requests[r].pc = "xadd"
  /\ stream' = Append(stream, requests[r].did)
  /\ Goto(r, [requests[r] EXCEPT !.pc = "record"])
  /\ UNCHANGED <<rows, archive, settled, faults>>

Record(r) ==
  /\ requests[r].pc = "record"
  /\ archive' = archive \cup {r}
  /\ Goto(r, [requests[r] EXCEPT !.pc = "publish"])
  /\ UNCHANGED <<rows, stream, settled, faults>>

Publish(r) ==
  /\ requests[r].pc = "publish"
  /\ Goto(r, [requests[r] EXCEPT !.pc = "answer"])
  /\ UNCHANGED <<rows, stream, archive, settled, faults>>

\* The OperationsResponse is a 200, whatever its results; handleOps acks it.
Answer(r) ==
  /\ requests[r].pc = "answer"
  /\ Goto(r, [requests[r] EXCEPT !.pc = "done", !.reply = "ack"])
  /\ UNCHANGED <<rows, stream, archive, settled, faults>>

Fault(what) == what \in Failures /\ faults < MaxFaults /\ faults' = faults + 1

\* XADD and PUBLISH fail with a log line; doc_operations with an exception.
XaddFails(r) ==
  /\ Fault("xadd") /\ requests[r].pc = "xadd"
  /\ Goto(r, [requests[r] EXCEPT !.pc = "publish"])
  /\ UNCHANGED <<rows, stream, archive, settled>>

RecordFails(r) ==
  /\ Fault("record") /\ requests[r].pc = "record"
  /\ Goto(r, Raised(requests[r]))
  /\ UNCHANGED <<rows, stream, archive, settled>>

PublishFails(r) ==
  /\ Fault("publish") /\ requests[r].pc = "publish"
  /\ Goto(r, [requests[r] EXCEPT !.pc = "answer"])
  /\ UNCHANGED <<rows, stream, archive, settled>>

\* The api process dies: every request in it is answered "api_unreachable".
Crash ==
  /\ Fault("crash")
  /\ requests' = [r \in Requests |->
       IF requests[r].pc \in {"idle", "done"} THEN requests[r] ELSE Raised(requests[r])]
  /\ UNCHANGED <<rows, stream, archive, settled>>

-----------------------------------------------------------------------------
Transaction(r) == Begin(r) \/ Place(r) \/ Write(r) \/ FailsOn(r) \/ Commit(r)
Follow(r) == Xadd(r) \/ Record(r) \/ Publish(r) \/ Answer(r)
Failure(r) == XaddFails(r) \/ RecordFails(r) \/ PublishFails(r)

Next ==
  \/ \E r \in Requests : Submit(r) \/ Transaction(r) \/ Deadlock(r) \/ Follow(r) \/ Failure(r)
  \/ Crash

Spec == Init /\ [][Next]_vars

\* Postgres, Redis and the event loop answer. Nobody is obliged to submit.
FairSpec == Spec /\ \A r \in Requests : WF_vars(Transaction(r) \/ Deadlock(r) \/ Follow(r))

-----------------------------------------------------------------------------
(* Properties.                                                             *)

\* Siblings have distinct positions, those at the root included, for which
\* uq_block_position checks nothing: the advisory lock has to see to it.
SiblingsDistinct ==
  \A b, c \in Blocks :
    b # c /\ rows[b].present /\ rows[c].present /\ rows[b].parent = rows[c].parent
      => rows[b].pos # rows[c].pos

\* What an operation does to the tree and the versions when it runs alone.
Links(tree) ==
  [b \in Blocks |-> [present |-> tree[b].present, parent |-> tree[b].parent, ver |-> tree[b].ver]]
Unlinked == [present |-> FALSE, parent |-> Root, ver |-> 0]
Alone(tree, o) ==
  CASE o.kind = "insert" -> [tree EXCEPT ![o.block] = [present |-> TRUE, parent |-> o.parent, ver |-> 1]]
    [] o.kind = "move" -> [tree EXCEPT ![o.block].parent = o.parent, ![o.block].ver = @ + 1]
    [] o.kind = "delete" -> [b \in Blocks |-> IF b \in Subtree(tree, o.block) THEN Unlinked ELSE tree[b]]
    [] o.kind \in {"attrs", "content"} -> [tree EXCEPT ![o.block].ver = @ + 1]

\* The operation passes its checks on the tree.
Passes(tree, o) ==
  CASE o.kind = "insert" -> ~tree[o.block].present /\ Has(tree, o.parent)
    [] o.kind = "move" -> tree[o.block].present /\ tree[o.block].ver = o.ver /\ Has(tree, o.parent)
    [] o.kind \in {"delete", "attrs"} -> tree[o.block].present /\ tree[o.block].ver = o.ver
    [] o.kind = "content" -> tree[o.block].present

\* A COMMIT has the effect of some of the request's operations, in order, one
\* after the other on what is committed at that moment, each of them passing its
\* version check there: no update is lost between a check and its commit.
CommitIsSerial(r) ==
  LET ops == requests[r].ops IN
  \E chosen \in SUBSET (1 .. Len(ops)) :
    LET tree[n \in 0 .. Len(ops)] ==
          IF n = 0 THEN Links(rows)
          ELSE IF n \in chosen THEN Alone(tree[n - 1], ops[n]) ELSE tree[n - 1]
    IN /\ \A n \in chosen : Passes(tree[n - 1], ops[n])
       /\ Links(rows') = tree[Len(ops)]
CommitsAreSerial == [][rows' # rows => \E r \in Requests : CommitIsSerial(r)]_vars

Committed(change) == \E n \in 1 .. Len(settled) : settled[n] = change

\* "XADD is done only for the operations that succeeded" (docs/block-based-
\* document.md:1084): what is in the stream has been committed. Of requests of
\* one operation this holds; of longer ones OnlyBrokenStrays does.
StreamedIsCommitted ==
  \A k \in 1 .. Len(stream) : \A m \in 1 .. Len(stream[k]) : Committed(stream[k][m])

\* The same of every request whose transaction Postgres has not aborted under a
\* caught UniqueViolationError: deadlocks, exceptions after the commit, a lost
\* api and the other requests put nothing into the stream that is not durable.
OnlyBrokenStrays ==
  \A k \in 1 .. Len(stream) : \A m \in 1 .. Len(stream[k]) :
    Committed(stream[k][m]) \/ requests[stream[k][m].by].broken

\* Every request that is submitted is answered: no wait lasts, whichever order
\* the rows, the parents and the advisory locks are taken in.
EveryRequestAnswered ==
  \A r \in Requests : (requests[r].pc = "op") ~> (requests[r].pc = "done")

=============================================================================
