-------------------------- MODULE OperationConsumer --------------------------
(***************************************************************************)
(* The path of a Y.Text delta from one document's Redis stream into its    *)
(* doc_blocks rows: apps/api/app/consumer/worker.py, the producers that    *)
(* append to the stream, and the REST writes to the same rows that a       *)
(* consumer can interleave with.                                           *)
(*                                                                         *)
(* Stream ids (`ms-seq`) are the positions of a log that only grows: Redis *)
(* orders them totally, and _stream_id_le compares exactly that order.     *)
(* A delta is the id of the entry that carries it, a Y.Doc is the set of   *)
(* the deltas merged into it (merging commutes and is idempotent).         *)
(***************************************************************************)
EXTENDS Naturals, Sequences

CONSTANTS
  Blocks,        \* block ids of one document
  Workers,       \* processes that run an OperationConsumer
  Routes,        \* the REST operations of this instance, a subset of AllRoutes
  Encodings,     \* how the `delta` field is written, a subset of AllEncodings
  InsertFirst,   \* TRUE: a delta is only appended for a block that has its row
  ReadCount,     \* XREAD_COUNT
  StreamMaxLen,  \* MAXLEN ~ of every XADD
  MaxEntries,    \* bound: entries ever appended
  MaxResets,     \* bound: calls of reset_doc
  MaxFaults      \* bound: crashes and failed calls to Postgres or Redis

AllRoutes == {"insert", "delete", "attrs", "content", "reset"}
AllEncodings == {"bytes", "base64"}

ASSUME ConsumerAssumption ==
  /\ Workers # {}
  /\ Routes \subseteq AllRoutes
  /\ Encodings \subseteq AllEncodings
  /\ InsertFirst \in BOOLEAN
  /\ ReadCount \in Nat \ {0}
  /\ StreamMaxLen \in Nat \ {0}
  /\ MaxEntries \in Nat
  /\ MaxResets \in Nat
  /\ MaxFaults \in Nat

VARIABLES
  log,       \* every entry ever appended; an entry's id is its index
  trimmed,   \* ids up to this one have left the stream (MAXLEN or DEL)
  keyExists, \* the stream key exists
  group,     \* the consumer group "block-ops" of that key
  rows,      \* doc_blocks
  workers,   \* the control state of each worker
  acked,     \* history: ids a worker has XACKed
  applied,   \* history: ids whose delta a transaction has committed
  reset,     \* the step a running reset_doc is at, and the calls made
  faults     \* crashes and failures so far

stream == <<log, trimmed, keyExists>>
history == <<acked, applied>>
vars == <<stream, group, rows, workers, history, reset, faults>>

Ids == 1 .. Len(log)
Entry == [kind : {"crdt", "ops"}, block : Blocks, enc : AllEncodings]

\* lastApplied = 0 is the column's NULL, yjs = {} a NULL or an empty state.
\* byOp: the text of `content` is one an operation wrote; otherwise it is the
\* text of yjs_state. attrs: `content` carries the block's attrs.
Row == [present : BOOLEAN, yjs : SUBSET Nat, lastApplied : Nat,
        byOp : BOOLEAN, attrs : BOOLEAN]
NoRow == [present |-> FALSE, yjs |-> {}, lastApplied |-> 0,
          byOp |-> FALSE, attrs |-> FALSE]
NewRow(attrs) == [present |-> TRUE, yjs |-> {}, lastApplied |-> 0,
                  byOp |-> TRUE, attrs |-> attrs]

\* A worker holds the entries cur .. end of the batch it has read.
WorkerState == [pc : {"down", "scan", "create", "read", "handle", "ack"},
                known : BOOLEAN, cur : Nat, end : Nat]
Idle(pc, known) == [pc |-> pc, known |-> known, cur |-> 1, end |-> 0]

NoGroup == [created |-> FALSE, last |-> 0, pel |-> {}]
\* Mutant: XGROUP CREATE at "$", not at "0".
NewGroupAtEnd == [created |-> TRUE, last |-> Len(log), pel |-> {}]

NewGroup == [created |-> TRUE, last |-> 0, pel |-> {}]
Greater(a, b) == IF a < b THEN b ELSE a
Lesser(a, b) == IF a < b THEN a ELSE b

\* The entry a worker is at lies in its batch, and the batch in the log.
InBatch(ws) ==
  ws.pc \in {"handle", "ack"} => ws.cur \in 1 .. ws.end /\ ws.end \in Ids

GroupType == [created : BOOLEAN, last : 0 .. Len(log), pel : SUBSET Ids]

ResetType == [pc : {"idle", "del", "seed"}, count : 0 .. MaxResets]

StoreOK ==
  /\ log \in Seq(Entry) /\ trimmed \in 0 .. Len(log) /\ keyExists \in BOOLEAN
  /\ group \in GroupType
  /\ rows \in [Blocks -> Row]
  /\ acked \subseteq Ids /\ applied \subseteq Ids
  /\ reset \in ResetType
  /\ faults \in 0 .. MaxFaults

WorkersOK ==
  /\ workers \in [Workers -> WorkerState]
  /\ \A w \in Workers : InBatch(workers[w])

\* The log, the group and the rows have their types, and a worker is at an entry
\* of a batch that the log has.
TypeOK == StoreOK /\ WorkersOK

Init ==
  /\ log = <<>>
  /\ trimmed = 0
  /\ keyExists = FALSE
  /\ group = NoGroup
  /\ rows \in [Blocks -> {NoRow, NewRow(FALSE)}]
  /\ workers = [w \in Workers |-> Idle("scan", FALSE)]
  /\ acked = {}
  /\ applied = {}
  /\ reset = [pc |-> "idle", count |-> 0]
  /\ faults = 0

-----------------------------------------------------------------------------
(* The producers.                                                          *)

\* XADD ... MAXLEN ~ n: creates the key, and may drop a prefix of the stream
\* as long as StreamMaxLen entries stay.
XAdd(entry) ==
  /\ Len(log) < MaxEntries
  /\ log' = Append(log, entry)
  /\ keyExists' = TRUE
  /\ \/ trimmed' = trimmed
     \/ trimmed' \in {t \in trimmed .. Len(log) : Len(log) + 1 - t >= StreamMaxLen}
  /\ UNCHANGED <<group, rows, workers, history, reset, faults>>

\* handleCrdt of a ws instance appends the base64 string of the frame,
\* xadd_crdt raw bytes. A delta is typed into whatever the client shows: the
\* block's insert_block may still be on its way, or its delete already done.
AddDelta(b, enc) ==
  /\ InsertFirst => rows[b].present
  /\ XAdd([kind |-> "crdt", block |-> b, enc |-> enc])

\* The entry post_operations appends after its commit.
AddOps(b) == XAdd([kind |-> "ops", block |-> b, enc |-> "bytes"])

-----------------------------------------------------------------------------
(* Committed effects of the REST routes on the consumer's columns.         *)

Write(b, row) ==
  /\ rows' = [rows EXCEPT ![b] = row]
  /\ UNCHANGED <<stream, group, workers, history, reset, faults>>

InsertBlock(b, attrs) ==
  /\ "insert" \in Routes
  /\ ~rows[b].present
  /\ Write(b, NewRow(attrs))

DeleteBlock(b) ==
  /\ "delete" \in Routes
  /\ rows[b].present
  /\ Write(b, NoRow)

UpdateAttrs(b, attrs) ==
  /\ "attrs" \in Routes
  /\ rows[b].present
  /\ Write(b, [rows[b] EXCEPT !.attrs = attrs])

UpdateContent(b, attrs) ==
  /\ "content" \in Routes
  /\ rows[b].present
  /\ Write(b, [rows[b] EXCEPT !.byOp = TRUE, !.attrs = attrs])

\* reset_doc: the rows, the stream key and the seed row are three separate
\* calls; nothing tells the consumer.
ResetRows ==
  /\ "reset" \in Routes
  /\ reset.pc = "idle" /\ reset.count < MaxResets
  /\ rows' = [b \in Blocks |-> NoRow]
  /\ reset' = [pc |-> "del", count |-> reset.count + 1]
  /\ UNCHANGED <<stream, group, workers, history, faults>>

ResetStream ==
  /\ reset.pc = "del"
  /\ trimmed' = Len(log)
  /\ keyExists' = FALSE
  /\ group' = NoGroup
  /\ reset' = [reset EXCEPT !.pc = "seed"]
  /\ UNCHANGED <<log, rows, workers, history, faults>>

\* The seed paragraph gets a fresh uuid: one no entry and no row has used. If
\* the bounded set has none left, the call ends without a modelled seed.
Fresh(b) == ~rows[b].present /\ \A i \in Ids : log[i].block # b
ResetSeed ==
  /\ reset.pc = "seed"
  /\ \/ \E b \in Blocks : Fresh(b) /\ rows' = [rows EXCEPT ![b] = NewRow(FALSE)]
     \/ (\A b \in Blocks : ~Fresh(b)) /\ UNCHANGED rows
  /\ reset' = [reset EXCEPT !.pc = "idle"]
  /\ UNCHANGED <<stream, group, workers, history, faults>>

-----------------------------------------------------------------------------
(* The worker's loop.                                                      *)

Goto(w, state) == workers' = [workers EXCEPT ![w] = state]

\* _discover_streams_if_needed, the SCAN: skipped while a stream is known and
\* five seconds have not passed. A key seen for the first time gets a group.
Scan(w) ==
  /\ workers[w].pc = "scan"
  /\ \/ workers[w].known /\ Goto(w, Idle("read", TRUE))
     \/ ~keyExists /\ Goto(w, Idle("read", FALSE))
     \/ keyExists /\ ~workers[w].known /\ Goto(w, Idle("create", FALSE))
  /\ UNCHANGED <<stream, group, rows, history, reset, faults>>

\* XGROUP CREATE ... 0 MKSTREAM; BUSYGROUP is ignored.
CreateGroup(w) ==
  /\ workers[w].pc = "create"
  /\ keyExists' = TRUE
  /\ group' = IF group.created THEN group ELSE NewGroup
  /\ Goto(w, Idle("read", TRUE))
  /\ UNCHANGED <<log, trimmed, rows, history, reset, faults>>

\* Mutant: the stream is read again from its start.
BatchFromStart == [first |-> trimmed + 1,
                   last  |-> Lesser(trimmed + ReadCount, Len(log))]

\* XREADGROUP ... COUNT n STREAMS key >: the first n entries after the group's
\* cursor, whatever the pending list holds. A deleted key has lost its group:
\* the error makes the worker forget the stream and rescan.
Batch == [first |-> Greater(group.last, trimmed) + 1,
          last  |-> Lesser(Greater(group.last, trimmed) + ReadCount, Len(log))]
Dealt == [group EXCEPT !.last = Batch.last, !.pel = @ \cup (Batch.first .. Batch.last)]

ReadGroup(w) ==
  /\ workers[w].pc = "read"
  /\ \/ /\ workers[w].known /\ group.created /\ Batch.first <= Batch.last
        /\ group' = Dealt
        /\ Goto(w, [pc |-> "handle", known |-> TRUE,
                    cur |-> Batch.first, end |-> Batch.last])
     \/ /\ workers[w].known /\ group.created /\ Batch.first > Batch.last
        /\ Goto(w, Idle("scan", TRUE)) /\ UNCHANGED group
     \/ /\ workers[w].known => ~group.created
        /\ Goto(w, Idle("scan", FALSE)) /\ UNCHANGED group
  /\ UNCHANGED <<stream, rows, history, reset, faults>>

\* Mutant: the loop over the batch runs one past its end.
NextEntryTooFar(ws) ==
  IF ws.cur <= ws.end THEN [ws EXCEPT !.pc = "handle", !.cur = @ + 1]
                      ELSE Idle("scan", ws.known)

\* The entry at the head of the batch is done with, acknowledged or not.
NextEntry(ws) ==
  IF ws.cur < ws.end THEN [ws EXCEPT !.pc = "handle", !.cur = @ + 1]
                     ELSE Idle("scan", ws.known)

\* Mutant: the UPDATE forgets last_applied_stream_id.
MergedNoCursor(row, id) ==
  [row EXCEPT !.yjs = @ \cup {id}, !.byOp = FALSE, !.attrs = FALSE]

\* The committed transaction of _apply_crdt_delta: merge, extract, and
\* overwrite `content` with what extract_content returns, which has no attrs.
Merged(row, id) ==
  [row EXCEPT !.yjs = @ \cup {id}, !.lastApplied = id,
              !.byOp = FALSE, !.attrs = FALSE]

\* Mutant: no idempotency check.
NeverSkips(row, id) == FALSE

Skips(row, id) == row.lastApplied # 0 /\ id <= row.lastApplied

\* _handle_entry for the head of the batch, up to its return or its raise.
HandleEntry(w) ==
  LET id  == workers[w].cur
      e   == log[id]
      row == rows[e.block]
  IN
  /\ workers[w].pc = "handle"
  /\ \/ /\ e.kind # "crdt" \/ (row.present /\ Skips(row, id))
        /\ Goto(w, [workers[w] EXCEPT !.pc = "ack"])
        /\ UNCHANGED <<rows, applied>>
     \/ /\ e.kind = "crdt" /\ row.present /\ ~Skips(row, id) /\ e.enc = "bytes"
        /\ rows' = [rows EXCEPT ![e.block] = Merged(row, id)]
        /\ applied' = applied \cup {id}
        /\ Goto(w, [workers[w] EXCEPT !.pc = "ack"])
     \* No row, or bytes that are no Yjs update: the handler raises and the
     \* entry is left unacknowledged.
     \/ /\ e.kind = "crdt"
        /\ \/ ~row.present
           \/ ~Skips(row, id) /\ e.enc # "bytes"
        /\ Goto(w, NextEntry(workers[w]))
        /\ UNCHANGED <<rows, applied>>
  /\ UNCHANGED <<stream, group, acked, reset, faults>>

Ack(w) ==
  /\ workers[w].pc = "ack"
  /\ acked' = acked \cup {workers[w].cur}
  /\ group' = [group EXCEPT !.pel = @ \ {workers[w].cur}]
  /\ Goto(w, NextEntry(workers[w]))
  /\ UNCHANGED <<stream, rows, applied, reset, faults>>

-----------------------------------------------------------------------------
(* Failures.                                                               *)

Fault == faults < MaxFaults /\ faults' = faults + 1

\* The DEL of reset_doc fails: logged, and the call goes on to its seed row.
ResetDelFails ==
  /\ Fault
  /\ reset.pc = "del"
  /\ reset' = [reset EXCEPT !.pc = "seed"]
  /\ UNCHANGED <<stream, group, rows, workers, history>>

\* The answer of an XREADGROUP is lost: Redis has dealt the batch, nobody has it.
ReadFails(w) ==
  /\ Fault
  /\ workers[w].pc = "read" /\ workers[w].known /\ group.created
  /\ Batch.first <= Batch.last
  /\ group' = Dealt
  /\ Goto(w, Idle("scan", TRUE))
  /\ UNCHANGED <<stream, rows, history, reset>>

\* Mutant: the except clause falls through to the XACK.
HandleFailsAcked(w) ==
  /\ Fault
  /\ workers[w].pc = "handle" /\ log[workers[w].cur].kind = "crdt"
  /\ Goto(w, [workers[w] EXCEPT !.pc = "ack"])
  /\ UNCHANGED <<stream, group, rows, history, reset>>

\* The transaction fails: rolled back, logged, left unacknowledged.
HandleFails(w) ==
  /\ Fault
  /\ workers[w].pc = "handle" /\ log[workers[w].cur].kind = "crdt"
  /\ Goto(w, NextEntry(workers[w]))
  /\ UNCHANGED <<stream, group, rows, history, reset>>

\* The transaction commits, but the answer to its COMMIT is lost: the worker
\* takes it for a failure.
HandleInDoubt(w) ==
  LET id == workers[w].cur
      b  == log[id].block
  IN
  /\ Fault
  /\ workers[w].pc = "handle"
  /\ log[id].kind = "crdt" /\ log[id].enc = "bytes"
  /\ rows[b].present /\ ~Skips(rows[b], id)
  /\ rows' = [rows EXCEPT ![b] = Merged(rows[b], id)]
  /\ applied' = applied \cup {id}
  /\ Goto(w, NextEntry(workers[w]))
  /\ UNCHANGED <<stream, group, acked, reset>>

\* Redis fails under the XACK, which no handler surrounds: the exception
\* leaves _read_once and the rest of the batch is abandoned with it.
AckFails(w) ==
  /\ Fault
  /\ workers[w].pc = "ack"
  /\ Goto(w, Idle("scan", workers[w].known))
  /\ UNCHANGED <<stream, group, rows, history, reset>>

\* The process dies, or stop() cancels the task after its five seconds.
Crash(w) ==
  /\ Fault
  /\ workers[w].pc # "down"
  /\ Goto(w, Idle("down", FALSE))
  /\ UNCHANGED <<stream, group, rows, history, reset>>

Restart(w) ==
  /\ workers[w].pc = "down"
  /\ Goto(w, Idle("scan", FALSE))
  /\ UNCHANGED <<stream, group, rows, history, reset, faults>>

-----------------------------------------------------------------------------
Producer ==
  \E b \in Blocks :
    \/ \E enc \in Encodings : AddDelta(b, enc)
    \/ AddOps(b)

Route ==
  \/ \E b \in Blocks, attrs \in BOOLEAN :
       InsertBlock(b, attrs) \/ UpdateAttrs(b, attrs) \/ UpdateContent(b, attrs)
  \/ \E b \in Blocks : DeleteBlock(b)
  \/ ResetRows \/ ResetStream \/ ResetSeed

Work(w) == Scan(w) \/ CreateGroup(w) \/ ReadGroup(w) \/ HandleEntry(w) \/ Ack(w)

Failure(w) ==
  ReadFails(w) \/ HandleFails(w) \/ HandleInDoubt(w) \/ AckFails(w) \/ Crash(w)

Next ==
  \/ Producer
  \/ Route
  \/ ResetDelFails
  \/ \E w \in Workers : Work(w) \/ Failure(w) \/ Restart(w)

Spec == Init /\ [][Next]_vars

\* The event loop keeps scheduling the task, a supervisor restarts a dead
\* process, a started reset_doc finishes. Nobody is obliged to type.
Fairness ==
  /\ \A w \in Workers : WF_vars(Work(w)) /\ WF_vars(Restart(w))
  /\ WF_vars(ResetStream \/ ResetSeed)

FairSpec == Spec /\ Fairness

-----------------------------------------------------------------------------
(* Properties.                                                             *)

\* A row holds deltas of its own block only, each of them committed, and its
\* cursor last_applied_stream_id covers them all: the idempotency check of
\* _apply_crdt_delta recognises every delta that comes a second time.
StateBelowCursor ==
  \A b \in Blocks : \A i \in rows[b].yjs :
    /\ i \in applied /\ log[i].kind = "crdt" /\ log[i].block = b
    /\ i <= rows[b].lastApplied

\* However many workers share the group, a row never merges a delta older
\* than one it already holds: the row lock and the cursor serialise them.
MergedInStreamOrder ==
  [][\A b \in Blocks : rows[b].present /\ rows'[b].present =>
       /\ rows[b].yjs \subseteq rows'[b].yjs
       /\ \A i \in rows'[b].yjs \ rows[b].yjs : \A j \in rows[b].yjs : j < i]_vars

\* XACK only after the delta is in Postgres: Redis may forget the entry then.
AckedIsApplied ==
  \A i \in acked : log[i].kind = "crdt" => i \in applied

\* One worker, whatever fails, implements the ordered reader of OrderedApply:
\* it applies before it acknowledges, never twice and never out of order.
Reader == INSTANCE OrderedApply WITH Entries <- Entry
ImplementsOrderedApply == Reader!Spec

\* Every entry is handled to its XACK by one of the workers, or has left the
\* stream: also after reset_doc has destroyed the group under their feet.
\* What AckedIsApplied says of an acknowledged entry then holds of it.
EveryEntryAcked ==
  \A i \in 1 .. MaxEntries : (i \in Ids) ~> (i \in acked \/ i <= trimmed)

=============================================================================
