----------------------- MODULE OperationConsumerProofs -----------------------
(***************************************************************************)
(* Theorems about OperationConsumer for every number of blocks, workers,   *)
(* entries, resets and failures.                                           *)
(***************************************************************************)
EXTENDS OperationConsumer, TLAPS

\* Appending keeps every id and what it names: the stream only grows.
LEMMA AppendKeepsIds ==
  ASSUME NEW entry \in Entry, log \in Seq(Entry), log' = Append(log, entry)
  PROVE  /\ log' \in Seq(Entry)
         /\ Len(log') = Len(log) + 1
         /\ Len(log) \in Nat
         /\ Ids \subseteq Ids'
         /\ \A i \in Ids : log'[i] = log[i]
  BY DEF Ids

\* The bounds of a batch read with XREADGROUP: it starts right after the
\* frontier, is not empty, and ends inside the log.
LEMMA BatchBounds ==
  ASSUME TypeOK, Batch.first <= Batch.last
  PROVE  /\ Batch.first = Greater(group.last, trimmed) + 1
         /\ Batch.first \in Ids /\ Batch.last \in Ids
         /\ Batch.last >= trimmed /\ Batch.last >= group.last
         /\ Batch.first .. Batch.last \subseteq Ids
  <1>1. Len(log) \in Nat /\ group.last \in 0 .. Len(log) /\ trimmed \in 0 .. Len(log)
    BY DEF TypeOK, StoreOK, GroupType
  <1>2. ReadCount \in Nat \ {0}
    BY ConsumerAssumption DEF ConsumerAssumption
  <1> QED
    BY <1>1, <1>2 DEF Batch, Greater, Lesser, Ids

\* The states a worker passes to: idle, or further down its batch.
LEMMA IdleType ==
  ASSUME NEW pc \in {"down", "scan", "create", "read"}, NEW known \in BOOLEAN
  PROVE  Idle(pc, known) \in WorkerState /\ InBatch(Idle(pc, known))
  BY DEF Idle, WorkerState, InBatch

\* Going on to the next entry stays inside the batch, or leaves it.
LEMMA NextEntryType ==
  ASSUME NEW ws \in WorkerState, ws.pc \in {"handle", "ack"}, InBatch(ws)
  PROVE  /\ NextEntry(ws) \in WorkerState
         /\ InBatch(NextEntry(ws))
         /\ NextEntry(ws).pc \in {"handle", "scan"}
         /\ NextEntry(ws).pc = "handle" =>
              NextEntry(ws).cur = ws.cur + 1 /\ NextEntry(ws).end = ws.end
  <1>0. ws.cur \in Nat /\ ws.end \in Nat /\ ws.known \in BOOLEAN /\ ws.cur \in 1 .. ws.end
    BY DEF WorkerState, InBatch
  <1>1. CASE ws.cur < ws.end
    <2>1. NextEntry(ws) = [pc |-> "handle", known |-> ws.known, cur |-> ws.cur + 1, end |-> ws.end]
      BY <1>1 DEF NextEntry, WorkerState
    <2> QED
      BY <1>0, <1>1, <2>1 DEF WorkerState, InBatch
  <1>2. CASE ~(ws.cur < ws.end)
    <2>1. NextEntry(ws) = Idle("scan", ws.known)
      BY <1>2 DEF NextEntry
    <2>2. Idle("scan", ws.known).pc = "scan"
      BY DEF Idle
    <2> QED
      BY <1>0, <2>1, <2>2, IdleType
  <1> QED
    BY <1>1, <1>2

\* A worker that has handled its entry may acknowledge it.
LEMMA AckStateType ==
  ASSUME NEW ws \in WorkerState, ws.pc = "handle", InBatch(ws)
  PROVE  /\ [ws EXCEPT !.pc = "ack"] \in WorkerState
         /\ InBatch([ws EXCEPT !.pc = "ack"])
  BY DEF WorkerState, InBatch

\* A worker that moves to a good state leaves all of them in good states, if
\* the log did not shrink.
LEMMA GotoType ==
  ASSUME TypeOK, NEW w \in Workers, NEW ws \in WorkerState, InBatch(ws), Goto(w, ws),
         Len(log') = Len(log)
  PROVE  workers' \in [Workers -> WorkerState] /\ \A v \in Workers : InBatch(workers[v])'
  BY DEF TypeOK, WorkersOK, Goto, InBatch, Ids

\* The values the group takes on.
LEMMA GroupValues ==
  ASSUME StoreOK
  PROVE  /\ NoGroup \in GroupType
         /\ NewGroup \in GroupType
         /\ \A S \in SUBSET Ids : [group EXCEPT !.pel = S] \in GroupType
         /\ \A n \in 0 .. Len(log), S \in SUBSET Ids :
              [group EXCEPT !.last = n, !.pel = S] \in GroupType
         /\ group.pel \subseteq Ids /\ group.last \in 0 .. Len(log)
         /\ group.created \in BOOLEAN
  <1>1. Len(log) \in Nat /\ group \in GroupType
    BY DEF StoreOK
  <1>2. /\ group.pel \subseteq Ids /\ group.last \in 0 .. Len(log)
        /\ group.created \in BOOLEAN
    BY <1>1 DEF GroupType
  <1>3. NoGroup \in GroupType /\ NewGroup \in GroupType
    BY <1>1 DEF GroupType, NoGroup, NewGroup
  <1>4. ASSUME NEW n \in 0 .. Len(log), NEW S \in SUBSET Ids
        PROVE  [group EXCEPT !.last = n, !.pel = S] \in GroupType
    BY <1>1 DEF GroupType
  <1>5. ASSUME NEW S \in SUBSET Ids
        PROVE  [group EXCEPT !.pel = S] \in GroupType
    BY <1>1 DEF GroupType
  <1> QED
    BY <1>2, <1>3, <1>4, <1>5

\* An action that leaves the workers and the log alone keeps the workers typed.
LEMMA WorkersKept ==
  ASSUME WorkersOK, UNCHANGED workers, Ids \subseteq Ids'
  PROVE  WorkersOK'
  BY DEF WorkersOK, InBatch

\* The group after a batch has been dealt.
LEMMA DealtType ==
  ASSUME TypeOK, Batch.first <= Batch.last
  PROVE  Dealt \in GroupType /\ Dealt.last = Batch.last /\ Dealt.created = group.created
  <1> DEFINE S == group.pel \cup (Batch.first .. Batch.last)
  <1>1. group \in GroupType /\ group.pel \subseteq Ids
    BY GroupValues DEF TypeOK, StoreOK
  <1>2. S \in SUBSET Ids /\ Batch.last \in 0 .. Len(log)
    BY <1>1, BatchBounds DEF Ids, TypeOK, StoreOK
  <1>3. Dealt = [group EXCEPT !.last = Batch.last, !.pel = S]
    BY DEF Dealt
  <1> HIDE DEF S
  <1>4. Dealt \in GroupType
    BY <1>2, <1>3, GroupValues DEF TypeOK
  <1> QED
    BY <1>1, <1>3, <1>4 DEF GroupType

\* Merging an entry of the log keeps doc_blocks typed.
LEMMA MergeType ==
  ASSUME StoreOK, NEW id \in Ids
  PROVE  /\ log[id].block \in Blocks
         /\ [rows EXCEPT ![log[id].block] = Merged(rows[log[id].block], id)] \in [Blocks -> Row]
         /\ applied \cup {id} \subseteq Ids
  <1>1. log[id] \in Entry /\ rows \in [Blocks -> Row] /\ id \in Nat /\ applied \subseteq Ids
    BY DEF StoreOK, Ids
  <1>2. log[id].block \in Blocks
    BY <1>1 DEF Entry
  <1>3. Merged(rows[log[id].block], id) \in Row
    BY <1>1, <1>2 DEF Merged, Row
  <1> QED
    BY <1>1, <1>2, <1>3

\* Type correctness of the consumer, the producers and the routes it meets.
THEOREM TypeCorrect == Spec => []TypeOK
<1>1. Init => TypeOK
  <2> SUFFICES ASSUME Init PROVE TypeOK
    OBVIOUS
  <2>1. NoRow \in Row /\ NewRow(FALSE) \in Row
    BY DEF NoRow, NewRow, Row
  <2>2. WorkersOK
    BY IdleType DEF Init, WorkersOK
  <2>3. log = <<>> /\ Len(log) = 0 /\ log \in Seq(Entry)
    BY DEF Init
  <2>4. group \in GroupType
    BY <2>3 DEF Init, GroupType, NoGroup
  <2>5. reset \in ResetType /\ faults \in 0 .. MaxFaults
    BY ConsumerAssumption DEF Init, ResetType, ConsumerAssumption
  <2>6. StoreOK
    <3>1. rows \in [Blocks -> Row]
      BY <2>1 DEF Init
    <3>2. trimmed \in 0 .. Len(log) /\ keyExists \in BOOLEAN /\ acked \subseteq Ids /\ applied \subseteq Ids
      <4>1. trimmed = 0 /\ keyExists = FALSE /\ acked = {} /\ applied = {}
        BY DEF Init
      <4>2. keyExists \in BOOLEAN
        BY <4>1, Zenon
      <4>3. trimmed \in 0 .. Len(log) /\ acked \subseteq Ids /\ applied \subseteq Ids
        BY <2>3, <4>1
      <4> QED
        BY <4>2, <4>3
    <3> QED
      BY <2>3, <2>4, <2>5, <3>1, <3>2 DEF StoreOK
  <2> QED
    BY <2>2, <2>6 DEF TypeOK
<1>2. TypeOK /\ [Next]_vars => TypeOK'
  <2> SUFFICES ASSUME TypeOK, [Next]_vars PROVE TypeOK'
    OBVIOUS
  <2>0. StoreOK /\ WorkersOK /\ Len(log) \in Nat
    BY DEF TypeOK, StoreOK
  <2>1. ASSUME NEW e \in Entry, XAdd(e) PROVE TypeOK'
    <3>1. StoreOK'
      BY <2>0, <2>1, AppendKeepsIds DEF XAdd, StoreOK, GroupType, history, Ids
    <3>2. WorkersOK'
      BY <2>0, <2>1, AppendKeepsIds, WorkersKept DEF XAdd, StoreOK
    <3> QED
      BY <3>1, <3>2 DEF TypeOK
  <2>2. CASE Producer
    BY <2>1, <2>2, ConsumerAssumption
    DEF Producer, AddDelta, AddOps, Entry, AllEncodings, ConsumerAssumption
  <2>3. ASSUME NEW b \in Blocks, NEW row \in Row, Write(b, row) PROVE TypeOK'
    BY <2>0, <2>3, WorkersKept DEF Write, TypeOK, StoreOK, GroupType, stream, history, Ids
  <2>4. ASSUME NEW b \in Blocks, NEW attrs \in BOOLEAN,
               InsertBlock(b, attrs) \/ UpdateAttrs(b, attrs) \/ UpdateContent(b, attrs)
        PROVE  TypeOK'
    <3>1. /\ NewRow(attrs) \in Row
          /\ [rows[b] EXCEPT !.attrs = attrs] \in Row
          /\ [rows[b] EXCEPT !.byOp = TRUE, !.attrs = attrs] \in Row
      BY <2>0 DEF StoreOK, NewRow, NoRow, Row
    <3> QED
      BY <2>3, <2>4, <3>1 DEF InsertBlock, UpdateAttrs, UpdateContent
  <2>5. ASSUME NEW b \in Blocks, DeleteBlock(b) PROVE TypeOK'
    <3>1. NoRow \in Row
      BY DEF NoRow, Row
    <3> QED
      BY <2>3, <2>5, <3>1 DEF DeleteBlock
  <2>6. CASE ResetRows
    <3>1. NoRow \in Row
      BY DEF NoRow, Row
    <3>2. reset' \in ResetType
      BY <2>0, <2>6, ConsumerAssumption DEF ResetRows, StoreOK, ResetType, ConsumerAssumption
    <3>3. StoreOK'
      BY <2>0, <2>6, <3>1, <3>2
      DEF ResetRows, StoreOK, GroupType, stream, history, Ids
    <3> QED
      BY <2>0, <2>6, <3>3, WorkersKept DEF ResetRows, stream, Ids, TypeOK
  <2>7. CASE ResetStream
    <3>1. group' \in GroupType /\ reset' \in ResetType
      BY <2>0, <2>7, GroupValues DEF ResetStream, StoreOK, GroupType, ResetType
    <3>2. StoreOK'
      <4>1. GroupType' = GroupType /\ Ids' = Ids /\ log' = log
        BY <2>7 DEF ResetStream, GroupType, Ids
      <4>2. trimmed' \in 0 .. Len(log) /\ keyExists' \in BOOLEAN
        <5>1. trimmed' = Len(log) /\ keyExists' = FALSE
          BY <2>7 DEF ResetStream
        <5>2. keyExists' \in BOOLEAN
          BY <5>1, Zenon
        <5>3. trimmed' \in 0 .. Len(log)
          BY <2>0, <5>1
        <5> QED
          BY <5>2, <5>3
      <4> QED
        BY <2>0, <2>7, <3>1, <4>1, <4>2 DEF ResetStream, StoreOK, ResetType, history
    <3> QED
      BY <2>0, <2>7, <3>2, WorkersKept DEF ResetStream, Ids, TypeOK
  <2>8. CASE ResetSeed
    <3>1. NewRow(FALSE) \in Row
      BY DEF NewRow, NoRow, Row
    <3>2. rows' \in [Blocks -> Row]
      BY <2>0, <2>8, <3>1 DEF ResetSeed, StoreOK
    <3>3. reset' \in ResetType
      BY <2>0, <2>8 DEF ResetSeed, StoreOK, ResetType
    <3>4. StoreOK'
      BY <2>0, <2>8, <3>2, <3>3 DEF ResetSeed, StoreOK, GroupType, stream, history, Ids
    <3> QED
      BY <2>0, <2>8, <3>4, WorkersKept DEF ResetSeed, stream, Ids, TypeOK
  <2>9. ASSUME NEW w \in Workers
        PROVE  workers[w] \in WorkerState /\ workers[w].known \in BOOLEAN /\ InBatch(workers[w])
    BY <2>0 DEF WorkersOK, WorkerState
  <2>10. ASSUME NEW w \in Workers, Scan(w) PROVE TypeOK'
    <3>1. WorkersOK'
      BY <2>9, <2>10, IdleType, GotoType DEF Scan, stream, WorkersOK
    <3>2. StoreOK'
      BY <2>0, <2>10 DEF Scan, StoreOK, GroupType, stream, history, Ids
    <3> QED
      BY <3>1, <3>2 DEF TypeOK
  <2>11. ASSUME NEW w \in Workers, CreateGroup(w) PROVE TypeOK'
    <3>1. WorkersOK'
      BY <2>11, IdleType, GotoType DEF CreateGroup, WorkersOK
    <3>2. StoreOK'
      BY <2>0, <2>11, GroupValues DEF CreateGroup, StoreOK, GroupType, history, Ids
    <3> QED
      BY <3>1, <3>2 DEF TypeOK
  <2>12. ASSUME NEW w \in Workers, ReadGroup(w) PROVE TypeOK'
    <3>1. CASE Batch.first <= Batch.last /\ workers[w].known /\ group.created
      <4> DEFINE ws == [pc |-> "handle", known |-> TRUE, cur |-> Batch.first, end |-> Batch.last]
      <4>1. ws \in WorkerState /\ InBatch(ws)
        BY <3>1, <2>0, BatchBounds DEF WorkerState, InBatch, Ids
      <4>2. /\ Goto(w, ws) /\ UNCHANGED <<stream, rows, history, reset, faults>>
            /\ group' = Dealt
        <5>1. ~(Batch.first > Batch.last)
          BY <2>0, <3>1, BatchBounds DEF Ids
        <5> QED
          BY <2>12, <3>1, <5>1 DEF ReadGroup
      <4> HIDE DEF ws
      <4>3. WorkersOK'
        BY <4>1, <4>2, GotoType DEF stream, WorkersOK
      <4>4. group' \in GroupType
        BY <3>1, <4>2, DealtType
      <4>5. StoreOK'
        BY <2>0, <4>2, <4>4 DEF StoreOK, GroupType, stream, history, Ids
      <4> QED
        BY <4>3, <4>5 DEF TypeOK
    <3>2. CASE ~(Batch.first <= Batch.last /\ workers[w].known /\ group.created)
      <4>1. /\ Goto(w, Idle("scan", TRUE)) \/ Goto(w, Idle("scan", FALSE))
            /\ UNCHANGED <<stream, group, rows, history, reset, faults>>
        BY <2>12, <3>2 DEF ReadGroup
      <4>2. WorkersOK'
        BY <4>1, IdleType, GotoType DEF stream, WorkersOK
      <4>3. StoreOK'
        BY <2>0, <4>1 DEF StoreOK, GroupType, stream, history, Ids
      <4> QED
        BY <4>2, <4>3 DEF TypeOK
    <3> QED
      BY <3>1, <3>2 DEF TypeOK
  <2>13. ASSUME NEW w \in Workers, HandleEntry(w) PROVE TypeOK'
    <3>0. workers[w].pc = "handle" /\ workers[w].cur \in Ids
      BY <2>9, <2>13 DEF HandleEntry, InBatch, Ids
    <3>3. rows' \in [Blocks -> Row] /\ applied' \subseteq Ids
      BY <2>0, <2>13, <3>0, MergeType DEF HandleEntry, StoreOK
    <3>4. StoreOK'
      BY <2>0, <2>13, <3>3 DEF HandleEntry, StoreOK, GroupType, stream, Ids
    <3>5. Goto(w, [workers[w] EXCEPT !.pc = "ack"]) \/ Goto(w, NextEntry(workers[w]))
      BY <2>13 DEF HandleEntry
    <3>6. WorkersOK'
      BY <2>9, <2>13, <3>0, <3>5, NextEntryType, AckStateType, GotoType DEF HandleEntry, stream, WorkersOK
    <3> QED
      BY <3>4, <3>6 DEF TypeOK
  <2>14. ASSUME NEW w \in Workers, Ack(w) PROVE TypeOK'
    <3>0. workers[w].pc = "ack" /\ workers[w].cur \in Ids
      BY <2>9, <2>14 DEF Ack, InBatch, Ids
    <3>1. WorkersOK'
      BY <2>9, <2>14, <3>0, NextEntryType, GotoType DEF Ack, stream, WorkersOK
    <3>2. StoreOK'
      BY <2>0, <2>14, <3>0, GroupValues DEF Ack, StoreOK, GroupType, stream, Ids
    <3> QED
      BY <3>1, <3>2 DEF TypeOK
  <2>18. CASE ResetDelFails
    <3>1. faults' \in 0 .. MaxFaults /\ reset' \in ResetType
      BY <2>0, <2>18, ConsumerAssumption
      DEF ResetDelFails, Fault, StoreOK, ResetType, ConsumerAssumption
    <3>2. StoreOK'
      BY <2>0, <2>18, <3>1 DEF ResetDelFails, StoreOK, GroupType, stream, history, Ids
    <3> QED
      BY <2>0, <2>18, <3>2, WorkersKept DEF ResetDelFails, stream, Ids, TypeOK
  <2>19. ASSUME NEW w \in Workers, ReadFails(w) PROVE TypeOK'
    <3>1. group' \in GroupType
      BY <2>19, DealtType DEF ReadFails
    <3>2. faults' \in 0 .. MaxFaults
      BY <2>0, <2>19, ConsumerAssumption DEF ReadFails, Fault, StoreOK, ConsumerAssumption
    <3>3. StoreOK'
      BY <2>0, <2>19, <3>1, <3>2 DEF ReadFails, StoreOK, GroupType, stream, history, Ids
    <3>4. WorkersOK'
      BY <2>9, <2>19, IdleType, GotoType DEF ReadFails, stream, WorkersOK
    <3> QED
      BY <3>3, <3>4 DEF TypeOK
  <2>20. ASSUME NEW w \in Workers, HandleInDoubt(w) PROVE TypeOK'
    <3>1. faults' \in 0 .. MaxFaults
      BY <2>0, <2>20, ConsumerAssumption DEF HandleInDoubt, Fault, StoreOK, ConsumerAssumption
    <3>2. workers[w].pc = "handle" /\ workers[w].cur \in Ids
      BY <2>9, <2>20 DEF HandleInDoubt, InBatch, Ids
    <3>3. rows' \in [Blocks -> Row] /\ applied' \subseteq Ids
      BY <2>0, <2>20, <3>2, MergeType DEF HandleInDoubt
    <3>4. StoreOK'
      BY <2>0, <2>20, <3>1, <3>3 DEF HandleInDoubt, StoreOK, GroupType, stream, Ids
    <3>5. WorkersOK'
      BY <2>9, <2>20, <3>2, NextEntryType, GotoType DEF HandleInDoubt, stream, WorkersOK
    <3> QED
      BY <3>4, <3>5 DEF TypeOK
  <2>15. ASSUME NEW w \in Workers, HandleFails(w) \/ AckFails(w) \/ Crash(w) PROVE TypeOK'
    <3>1. WorkersOK'
      BY <2>9, <2>15, NextEntryType, IdleType, GotoType
      DEF HandleFails, AckFails, Crash, stream, WorkersOK
    <3>2. faults' \in 0 .. MaxFaults
      <4>1. faults < MaxFaults /\ faults' = faults + 1
        BY <2>15 DEF HandleFails, AckFails, Crash, Fault
      <4> QED
        BY <2>0, <4>1, ConsumerAssumption DEF StoreOK, ConsumerAssumption
    <3>3. StoreOK'
      BY <2>0, <2>15, <3>2
      DEF HandleFails, AckFails, Crash, StoreOK, GroupType, stream, history, Ids
    <3> QED
      BY <3>1, <3>3 DEF TypeOK
  <2>16. ASSUME NEW w \in Workers, Restart(w) PROVE TypeOK'
    <3>1. WorkersOK'
      BY <2>16, IdleType, GotoType DEF Restart, stream, WorkersOK
    <3>2. StoreOK'
      BY <2>0, <2>16 DEF Restart, StoreOK, GroupType, stream, history, Ids
    <3> QED
      BY <3>1, <3>2 DEF TypeOK
  <2>17. CASE UNCHANGED vars
    BY <2>17 DEF vars, TypeOK, StoreOK, GroupType, WorkersOK, InBatch, stream, history, Ids
  <2> QED
    BY <2>2, <2>4, <2>5, <2>6, <2>7, <2>8, <2>10, <2>11, <2>12, <2>13, <2>14,
       <2>15, <2>16, <2>17, <2>18, <2>19, <2>20 DEF Next, Route, Work, Failure
<1> QED
  BY <1>1, <1>2, PTL DEF Spec

-----------------------------------------------------------------------------
(* Any number of workers: what a step can do to a row.                     *)

RowKept(b) ==
  rows'[b].yjs = rows[b].yjs /\ rows'[b].lastApplied = rows[b].lastApplied
RowEmptied(b) ==
  rows'[b].yjs = {} /\ rows'[b].lastApplied = 0 /\ ~(rows[b].present /\ rows'[b].present)
RowMerges(b, i) ==
  /\ log[i].kind = "crdt" /\ log[i].block = b
  /\ ~Skips(rows[b], i)
  /\ rows' = [rows EXCEPT ![b] = Merged(rows[b], i)]
  /\ applied' = applied \cup {i}

\* A step only appends to the log.
LEMMA LogGrows ==
  ASSUME TypeOK, [Next]_vars
  PROVE  Ids \subseteq Ids' /\ \A i \in Ids : log'[i] = log[i]
  <1>1. ASSUME NEW e \in Entry, XAdd(e)
        PROVE  Ids \subseteq Ids' /\ \A i \in Ids : log'[i] = log[i]
    BY <1>1, AppendKeepsIds DEF TypeOK, StoreOK, XAdd
  <1>2. CASE Producer
    BY <1>1, <1>2, ConsumerAssumption
    DEF Producer, AddDelta, AddOps, Entry, AllEncodings, ConsumerAssumption
  <1>3. CASE UNCHANGED log
    BY <1>3 DEF Ids
  <1> QED
    BY <1>2, <1>3 DEF Next, Route, InsertBlock, DeleteBlock, UpdateAttrs, UpdateContent,
         Write, ResetRows, ResetStream, ResetSeed, Work, Scan, CreateGroup, ReadGroup,
         HandleEntry, Ack, Failure, ReadFails, HandleFails, HandleInDoubt, AckFails, Crash,
         Restart, ResetDelFails, vars, stream

\* NoRow and a fresh row hold no deltas.
LEMMA EmptyRows ==
  /\ NoRow.yjs = {} /\ NoRow.lastApplied = 0 /\ NoRow.present = FALSE
  /\ \A attrs \in BOOLEAN : NewRow(attrs).yjs = {} /\ NewRow(attrs).lastApplied = 0
  BY DEF NoRow, NewRow

\* A REST write never merges: it keeps a row's Y.Doc or empties it.
LEMMA RouteRows ==
  ASSUME TypeOK, Route, NEW b \in Blocks
  PROVE  applied' = applied /\ (RowKept(b) \/ RowEmptied(b))
  <1>1. ASSUME NEW c \in Blocks, NEW attrs \in BOOLEAN,
               InsertBlock(c, attrs) \/ UpdateAttrs(c, attrs) \/ UpdateContent(c, attrs) \/ DeleteBlock(c)
        PROVE  applied' = applied /\ (RowKept(b) \/ RowEmptied(b))
    <2>0. rows \in [Blocks -> Row] /\ applied' = applied
      BY <1>1 DEF InsertBlock, UpdateAttrs, UpdateContent, DeleteBlock, Write, TypeOK, StoreOK, history
    <2>1. CASE InsertBlock(c, attrs)
      BY <2>0, <2>1, EmptyRows DEF InsertBlock, Write, RowKept, RowEmptied
    <2>2. CASE UpdateAttrs(c, attrs)
      BY <2>0, <2>2 DEF UpdateAttrs, Write, RowKept, Row
    <2>3. CASE UpdateContent(c, attrs)
      BY <2>0, <2>3 DEF UpdateContent, Write, RowKept, Row
    <2>4. CASE DeleteBlock(c)
      BY <2>0, <2>4, EmptyRows DEF DeleteBlock, Write, RowKept, RowEmptied
    <2> QED
      BY <1>1, <2>0, <2>1, <2>2, <2>3, <2>4
  <1>2. ASSUME ResetRows \/ ResetSeed
        PROVE  applied' = applied /\ (RowKept(b) \/ RowEmptied(b))
    <2>0. rows \in [Blocks -> Row] /\ applied' = applied
      BY <1>2 DEF ResetRows, ResetSeed, TypeOK, StoreOK, history
    <2>1. CASE ResetRows
      BY <2>0, <2>1, EmptyRows DEF ResetRows, RowEmptied
    <2>2. CASE ResetSeed
      BY <2>0, <2>2, EmptyRows DEF ResetSeed, Fresh, RowKept, RowEmptied
    <2> QED
      BY <1>2, <2>0, <2>1, <2>2
  <1>3. CASE ResetStream
    BY <1>3 DEF ResetStream, RowKept, history
  <1> QED
    BY <1>1, <1>2, <1>3 DEF Route

\* Every step leaves a row's Y.Doc alone, empties it by deleting or inserting
\* the row, or merges one delta of that block that its cursor does not cover.
LEMMA RowSteps ==
  ASSUME TypeOK, [Next]_vars, NEW b \in Blocks
  PROVE  /\ applied \subseteq applied'
         /\ RowKept(b) \/ RowEmptied(b) \/ \E i \in Ids : RowMerges(b, i)
  <1>1. ASSUME NEW w \in Workers, HandleEntry(w) \/ HandleInDoubt(w)
        PROVE  /\ applied \subseteq applied'
               /\ RowKept(b) \/ \E i \in Ids : RowMerges(b, i)
    <2> DEFINE id == workers[w].cur
    <2>0. id \in Ids
      BY <1>1 DEF HandleEntry, HandleInDoubt, TypeOK, WorkersOK, InBatch, Ids
    <2>1. CASE UNCHANGED <<rows, applied>>
      BY <2>1 DEF RowKept
    <2>2. CASE ~UNCHANGED <<rows, applied>>
      <3>1. /\ log[id].kind = "crdt" /\ ~Skips(rows[log[id].block], id)
            /\ rows' = [rows EXCEPT ![log[id].block] = Merged(rows[log[id].block], id)]
            /\ applied' = applied \cup {id}
        BY <1>1, <2>2 DEF HandleEntry, HandleInDoubt
      <3>2. CASE log[id].block = b
        BY <2>0, <3>1, <3>2 DEF RowMerges
      <3>3. CASE log[id].block # b
        BY <3>1, <3>3 DEF RowKept, TypeOK, StoreOK
      <3> QED
        BY <3>1, <3>2, <3>3
    <2> QED
      BY <2>1, <2>2
  <1>4. CASE UNCHANGED <<rows, applied>>
    BY <1>4 DEF RowKept
  <1> QED
    BY <1>1, <1>4, RouteRows
    DEF Next, Producer, AddDelta, AddOps, XAdd, Work, Scan, CreateGroup,
        ReadGroup, Ack, Failure, ReadFails, HandleFails, AckFails, Crash, Restart,
        ResetDelFails, vars, history

\* A delta that the cursor does not cover is newer than all the row holds.
LEMMA MergesNewest ==
  ASSUME TypeOK, StateBelowCursor, NEW b \in Blocks, NEW i \in Ids, ~Skips(rows[b], i)
  PROVE  \A j \in rows[b].yjs : j < i
  <1>1. ASSUME NEW j \in rows[b].yjs PROVE j < i
    <2>1. j \in Ids /\ j <= rows[b].lastApplied /\ rows[b].lastApplied \in Nat
      BY DEF StateBelowCursor, TypeOK, StoreOK, Row
    <2> QED
      BY <2>1 DEF Skips, Ids, TypeOK, StoreOK
  <1> QED
    BY <1>1

\* For any number of workers and failures, a row holds committed deltas of its
\* own block, all of them covered by last_applied_stream_id.
THEOREM CursorCoversState == Spec => []StateBelowCursor
<1>1. Init => StateBelowCursor
  <2> SUFFICES ASSUME Init, NEW b \in Blocks PROVE rows[b].yjs = {}
    BY DEF StateBelowCursor
  <2>1. rows[b] \in {NoRow, NewRow(FALSE)}
    BY DEF Init
  <2> QED
    BY <2>1, EmptyRows
<1>2. TypeOK /\ StateBelowCursor /\ [Next]_vars => StateBelowCursor'
  <2> SUFFICES ASSUME TypeOK, StateBelowCursor, [Next]_vars,
                      NEW b \in Blocks, NEW i \in rows'[b].yjs
               PROVE  /\ i \in applied' /\ log'[i].kind = "crdt" /\ log'[i].block = b
                      /\ i <= rows'[b].lastApplied
    BY DEF StateBelowCursor
  <2>0. applied \subseteq Ids /\ Len(log) \in Nat /\ rows[b] \in Row
    BY DEF TypeOK, StoreOK
  <2>1. CASE RowKept(b)
    BY <2>0, <2>1, LogGrows, RowSteps DEF RowKept, StateBelowCursor
  <2>2. CASE RowEmptied(b)
    BY <2>2 DEF RowEmptied
  <2>3. ASSUME NEW k \in Ids, RowMerges(b, k)
        PROVE  /\ i \in applied' /\ log'[i].kind = "crdt" /\ log'[i].block = b
               /\ i <= rows'[b].lastApplied
    <3>1. rows'[b].yjs = rows[b].yjs \cup {k} /\ rows'[b].lastApplied = k
      BY <2>3 DEF RowMerges, Merged, TypeOK, StoreOK, Row
    <3>2. CASE i = k
      BY <2>0, <2>3, <3>1, <3>2, LogGrows DEF RowMerges, Ids
    <3>3. CASE i \in rows[b].yjs
      <4>1. i \in applied /\ i \in Ids /\ log[i].kind = "crdt" /\ log[i].block = b
        BY <2>0, <3>3 DEF StateBelowCursor
      <4>2. i < k
        BY <2>3, <3>3, MergesNewest DEF RowMerges
      <4> QED
        BY <2>0, <3>1, <4>1, <4>2, LogGrows, RowSteps DEF Ids
    <3> QED
      BY <3>1, <3>2, <3>3
  <2> QED
    BY <2>1, <2>2, <2>3, RowSteps
<1> QED
  BY <1>1, <1>2, TypeCorrect, PTL DEF Spec

\* For any number of workers and failures, a row's deltas are merged in stream
\* order: the row lock and the cursor make the race of two workers harmless to
\* the order, if not to the outcome (see AckedIsApplied).
THEOREM StreamOrder == Spec => MergedInStreamOrder
<1> DEFINE InOrder ==
      \A b \in Blocks : rows[b].present /\ rows'[b].present =>
        /\ rows[b].yjs \subseteq rows'[b].yjs
        /\ \A i \in rows'[b].yjs \ rows[b].yjs : \A j \in rows[b].yjs : j < i
<1>1. TypeOK /\ StateBelowCursor /\ [Next]_vars => [InOrder]_vars
  <2> SUFFICES ASSUME TypeOK, StateBelowCursor, [Next]_vars, NEW b \in Blocks,
                      rows[b].present, rows'[b].present
               PROVE  /\ rows[b].yjs \subseteq rows'[b].yjs
                      /\ \A i \in rows'[b].yjs \ rows[b].yjs : \A j \in rows[b].yjs : j < i
    OBVIOUS
  <2>1. CASE RowKept(b)
    BY <2>1 DEF RowKept
  <2>2. ASSUME NEW k \in Ids, RowMerges(b, k)
        PROVE  /\ rows[b].yjs \subseteq rows'[b].yjs
               /\ \A i \in rows'[b].yjs \ rows[b].yjs : \A j \in rows[b].yjs : j < i
    <3>1. rows'[b].yjs = rows[b].yjs \cup {k}
      BY <2>2 DEF RowMerges, Merged, TypeOK, StoreOK, Row
    <3> QED
      BY <2>2, <3>1, MergesNewest DEF RowMerges
  <2> QED
    BY <2>1, <2>2, RowSteps DEF RowEmptied
<1> QED
  BY <1>1, TypeCorrect, CursorCoversState, PTL DEF Spec, MergedInStreamOrder

-----------------------------------------------------------------------------
(* One worker.  What it has dealt with lies behind the entry it is at, and *)
(* the entry it is at behind the frontier from which Redis deals the next  *)
(* batch: so the cursor of a row never covers an entry still to come, and  *)
(* "already applied" is only ever said of what was applied.                *)

Frontier == Greater(group.last, trimmed)

Behind(n) == (\A i \in applied : i < n) /\ (\A b \in Blocks : rows[b].lastApplied < n)
AckedBehind(n) == \A i \in acked : i < n

\* The position of a worker in its batch.
AtEntry(w) ==
  LET ws == workers[w] IN
  /\ ws.pc \in {"handle", "ack"} => ws.end <= Frontier /\ AckedBehind(ws.cur)
  /\ ws.pc = "handle" => Behind(ws.cur)
  /\ ws.pc = "ack" => /\ Behind(ws.cur + 1)
                      /\ log[ws.cur].kind = "crdt" => ws.cur \in applied

GroupInv == group.created \/ group.last = 0

ReaderInv ==
  /\ GroupInv
  /\ Behind(Frontier + 1) /\ AckedBehind(Frontier + 1)
  /\ \A w \in Workers : AtEntry(w)
  /\ AckedIsApplied

\* The ids dealt with are ids of the log.
LEMMA FrontierType ==
  ASSUME TypeOK
  PROVE  /\ Frontier \in Nat /\ Frontier <= Len(log) /\ Len(log) \in Nat
         /\ Frontier >= trimmed /\ Frontier >= group.last
         /\ trimmed \in Nat /\ group.last \in Nat
         /\ Frontier \in {trimmed, group.last}
  BY DEF TypeOK, StoreOK, GroupType, Frontier, Greater

\* A step that neither merges a delta nor acknowledges an entry, moves no
\* worker into a batch, and does not take the frontier back.
Quiet ==
  /\ applied' = applied /\ acked' = acked
  /\ \A b \in Blocks : RowKept(b) \/ RowEmptied(b)
  /\ Frontier' \in Nat /\ Frontier <= Frontier'
  /\ GroupInv'
  /\ Ids \subseteq Ids' /\ \A i \in Ids : log'[i] = log[i]

\* A step that is quiet (no worker moves, no delta is merged) keeps ReaderInv.
LEMMA QuietKeeps ==
  ASSUME TypeOK, ReaderInv, Quiet,
         \A w \in Workers : \/ workers'[w] = workers[w]
                            \/ workers'[w].pc \notin {"handle", "ack"}
  PROVE  ReaderInv'
  <1>0. applied \subseteq Ids /\ acked \subseteq Ids /\ Frontier \in Nat /\ Frontier' \in Nat
        /\ Ids \subseteq Nat /\ \A b \in Blocks : rows[b].lastApplied \in Nat
    BY FrontierType DEF TypeOK, StoreOK, Ids, Quiet, Row
  <1>a. Frontier \in Nat /\ Frontier' \in Nat /\ Frontier <= Frontier'
    BY FrontierType DEF Quiet
  <1>b. Frontier + 1 \in Nat \ {0} /\ Frontier' + 1 \in Nat /\ Frontier + 1 <= Frontier' + 1
    BY <1>a DEF Frontier
  <1>1. ASSUME NEW n \in Nat \ {0}, NEW m \in Nat, n <= m, Behind(n)
        PROVE  (\A i \in applied' : i < m) /\ (\A b \in Blocks : rows'[b].lastApplied < m)
    BY <1>0, <1>1 DEF Behind, Quiet, RowKept, RowEmptied
  <1>2. Behind(Frontier + 1)'
    <2>1. Behind(Frontier + 1)
      BY DEF ReaderInv
    <2> QED
      BY <1>b, <1>1, <2>1 DEF Behind
  <1>3. AckedBehind(Frontier + 1)'
    <2>1. ASSUME NEW i \in acked PROVE i < Frontier' + 1
      <3>1. i < Frontier + 1 /\ i \in Nat /\ Frontier <= Frontier'
        BY <1>0 DEF AckedBehind, Quiet, ReaderInv
      <3> QED
        BY <1>a, <3>1 DEF Frontier
    <2>2. acked' = acked
      BY DEF Quiet
    <2> QED
      BY <2>1, <2>2 DEF AckedBehind
  <1>4. ASSUME NEW w \in Workers PROVE AtEntry(w)'
    <2>1. CASE workers'[w].pc \notin {"handle", "ack"}
      BY <2>1 DEF AtEntry
    <2>2. CASE workers'[w] = workers[w] /\ workers[w].pc \in {"handle", "ack"}
      <3>1. workers[w].cur \in Nat \ {0} /\ workers[w].cur \in Ids /\ workers[w].end \in Nat
        BY <2>2 DEF TypeOK, StoreOK, WorkersOK, InBatch, Ids
      <3>2. AtEntry(w)
        BY DEF ReaderInv
      <3>3. /\ workers'[w].end <= Frontier'
            /\ AckedBehind(workers[w].cur)'
        BY <1>0, <2>2, <3>1, <3>2 DEF AtEntry, AckedBehind, Quiet
      <3>4. workers'[w].pc = "handle" => Behind(workers[w].cur)'
        BY <1>1, <2>2, <3>1, <3>2 DEF AtEntry, Behind
      <3>5. workers'[w].pc = "ack" =>
              Behind(workers[w].cur + 1)' /\ (log'[workers[w].cur].kind = "crdt" => workers[w].cur \in applied')
        <4>1. workers[w].cur + 1 \in Nat \ {0} /\ workers[w].cur + 1 <= workers[w].cur + 1
          BY <3>1
        <4> QED
          BY <1>1, <2>2, <3>1, <3>2, <4>1 DEF AtEntry, Behind, Quiet
      <3> QED
        BY <2>2, <3>3, <3>4, <3>5 DEF AtEntry, Behind, AckedBehind
    <2> QED
      BY <2>1, <2>2
  <1>5. AckedIsApplied'
    BY <1>0 DEF AckedIsApplied, Quiet, ReaderInv
  <1> QED
    BY <1>2, <1>3, <1>4, <1>5 DEF ReaderInv, Quiet

\* A step that leaves doc_blocks alone keeps every row.
LEMMA RowsKept == ASSUME UNCHANGED rows PROVE \A b \in Blocks : RowKept(b)
  BY DEF RowKept

\* The producers and the routes: no worker moves.
LEMMA OutsideIsQuiet ==
  ASSUME TypeOK, ReaderInv, [Next]_vars, Producer \/ Route \/ ResetDelFails
  PROVE  Quiet /\ workers' = workers
  <1>0. Ids \subseteq Ids' /\ \A i \in Ids : log'[i] = log[i]
    BY LogGrows
  <1>1. ASSUME NEW e \in Entry, XAdd(e) PROVE Quiet /\ workers' = workers
    <2>1. group' = group /\ trimmed' \in Nat /\ trimmed' >= trimmed
      BY <1>1, FrontierType DEF XAdd
    <2>2. Frontier' \in Nat /\ Frontier <= Frontier'
      BY <2>1, FrontierType DEF Frontier, Greater
    <2>3. GroupInv'
      BY <2>1 DEF ReaderInv, GroupInv
    <2> QED
      BY <1>0, <1>1, <2>2, <2>3, RowsKept DEF XAdd, Quiet, history
  <1>2. CASE Producer
    BY <1>1, <1>2, ConsumerAssumption
    DEF Producer, AddDelta, AddOps, Entry, AllEncodings, ConsumerAssumption
  <1>4. CASE ResetDelFails
    <2>1. Frontier' = Frontier /\ GroupInv'
      BY <1>4 DEF ResetDelFails, Frontier, ReaderInv, GroupInv, stream
    <2> QED
      BY <1>0, <1>4, <2>1, FrontierType, RowsKept DEF ResetDelFails, Quiet, history
  <1>3. CASE Route
    <2>1. /\ UNCHANGED <<group, trimmed>> \/ (group' = NoGroup /\ trimmed' = Len(log))
          /\ acked' = acked /\ workers' = workers
      BY <1>3 DEF Route, InsertBlock, DeleteBlock, UpdateAttrs, UpdateContent, Write,
           ResetRows, ResetStream, ResetSeed, stream, history
    <2>2. Frontier' \in Nat /\ Frontier <= Frontier'
      BY <2>1, FrontierType DEF Frontier, Greater, NoGroup
    <2>3. GroupInv'
      BY <2>1 DEF ReaderInv, GroupInv, NoGroup
    <2>4. applied' = applied
      <3>1. CASE Blocks = {}
        BY <1>3, <3>1 DEF Route, ResetRows, ResetStream, ResetSeed, history
      <3> QED
        BY <1>3, <3>1, RouteRows
    <2> QED
      BY <1>0, <1>3, <2>1, <2>2, <2>3, <2>4, RouteRows DEF Quiet
  <1> QED
    BY <1>2, <1>3, <1>4

\* A worker that ends up outside any batch without touching the store.
LEMMA IdleMoves ==
  ASSUME TypeOK, ReaderInv, [Next]_vars, NEW w \in Workers,
         Scan(w) \/ CreateGroup(w) \/ AckFails(w) \/ Crash(w) \/ Restart(w)
  PROVE  Quiet /\ \A v \in Workers : \/ workers'[v] = workers[v]
                                    \/ workers'[v].pc \notin {"handle", "ack"}
  <1>1. /\ UNCHANGED <<log, trimmed, rows, history>>
        /\ group' = group \/ (~group.created /\ group' = NewGroup)
        /\ \E pc \in {"down", "scan", "create", "read"}, known \in BOOLEAN :
             workers' = [workers EXCEPT ![w] = Idle(pc, known)]
    BY DEF Scan, CreateGroup, AckFails, Crash, Restart, Goto, stream, TypeOK, WorkersOK, WorkerState
  <1>2. Frontier' = Frontier /\ GroupInv'
    BY <1>1, FrontierType DEF Frontier, Greater, NewGroup, ReaderInv, GroupInv
  <1>3. Quiet
    BY <1>1, <1>2, LogGrows, FrontierType, RowsKept DEF Quiet, history
  <1> QED
    BY <1>1, <1>3 DEF Idle, TypeOK, WorkersOK

\* Where the single worker is when it handles or acknowledges an entry.
LEMMA AtBatch ==
  ASSUME TypeOK, ReaderInv, NEW w \in Workers, workers[w].pc \in {"handle", "ack"}
  PROVE  /\ workers[w] \in WorkerState /\ InBatch(workers[w])
         /\ workers[w].cur \in Ids /\ workers[w].cur \in Nat \ {0}
         /\ workers[w].cur <= Frontier
         /\ workers[w].end <= Frontier /\ AckedBehind(workers[w].cur)
         /\ Behind(workers[w].cur + 1)
         /\ workers[w].pc = "handle" => Behind(workers[w].cur)
         /\ workers[w].pc = "ack" => (log[workers[w].cur].kind = "crdt" => workers[w].cur \in applied)
  <1>1. /\ workers[w] \in WorkerState /\ InBatch(workers[w])
        /\ workers[w].cur \in 1 .. workers[w].end /\ workers[w].end \in Ids
        /\ Len(log) \in Nat /\ AtEntry(w)
    BY DEF TypeOK, StoreOK, WorkersOK, InBatch, ReaderInv
  <1>2. /\ workers[w].cur \in Ids /\ workers[w].cur \in Nat \ {0} /\ workers[w].end \in Nat
        /\ workers[w].end <= Frontier
    BY <1>1 DEF Ids, AtEntry
  <1>3. workers[w].cur <= Frontier
    BY <1>1, <1>2, FrontierType
  <1>4. /\ AckedBehind(workers[w].cur)
        /\ workers[w].pc = "handle" => Behind(workers[w].cur)
        /\ workers[w].pc = "ack" => Behind(workers[w].cur + 1)
        /\ workers[w].pc = "ack" => (log[workers[w].cur].kind = "crdt" => workers[w].cur \in applied)
    BY <1>1 DEF AtEntry
  <1>5. Behind(workers[w].cur + 1)
    <2>1. CASE workers[w].pc = "handle"
      <3>1. applied \subseteq Nat /\ \A b \in Blocks : rows[b].lastApplied \in Nat
        BY <1>1 DEF TypeOK, StoreOK, Ids, Row
      <3> QED
        BY <1>2, <1>4, <2>1, <3>1 DEF Behind
    <2> QED
      BY <1>4, <2>1
  <1> QED
    BY <1>1, <1>2, <1>3, <1>4, <1>5

\* The worker goes on to the next entry of its batch, or back to its loop.
LEMMA AdvanceKeeps ==
  ASSUME TypeOK, ReaderInv, NEW w \in Workers, Workers = {w},
         workers[w].pc \in {"handle", "ack"}, Goto(w, NextEntry(workers[w])),
         UNCHANGED <<log, trimmed>>, group'.last = group.last,
         group'.created = group.created,
         applied \subseteq applied', applied' \subseteq applied \cup {workers[w].cur},
         \A b \in Blocks : rows'[b].lastApplied \in {rows[b].lastApplied, workers[w].cur},
         \/ acked' = acked
         \/ workers[w].pc = "ack" /\ acked' = acked \cup {workers[w].cur}
  PROVE  ReaderInv'
  <1>1. PICK c \in Nat \ {0}, e \in Nat : c = workers[w].cur /\ e = workers[w].end
    BY AtBatch DEF WorkerState
  <1>2. /\ AckedBehind(c) /\ Behind(c + 1) /\ c <= Frontier /\ e <= Frontier /\ c \in Ids
        /\ log' = log
    BY <1>1, AtBatch
  <1>3. /\ Frontier' = Frontier /\ Frontier \in Nat /\ GroupInv'
        /\ acked \subseteq Nat /\ acked' \subseteq acked \cup {c}
    BY <1>1, FrontierType DEF Frontier, Greater, ReaderInv, GroupInv, TypeOK, StoreOK, Ids
  <1>4. \A i \in acked' : i < c + 1
    BY <1>1, <1>2, <1>3 DEF AckedBehind
  <1>9. /\ \A i \in applied' : i \in Nat /\ i < c + 1
        /\ \A b \in Blocks : rows'[b].lastApplied \in Nat /\ rows'[b].lastApplied < c + 1
    <2>1. \A i \in applied : i \in Nat
      BY DEF TypeOK, StoreOK, Ids
    <2>2. \A b \in Blocks : rows[b].lastApplied \in Nat
      BY DEF TypeOK, StoreOK, Row
    <2> QED
      BY <1>1, <1>2, <2>1, <2>2 DEF Behind
  <1>5. AckedBehind(Frontier + 1)' /\ Behind(Frontier + 1)'
    <2>1. PICK f \in Nat : f = Frontier /\ f = Frontier'
      BY <1>3
    <2>2. c <= f /\ \A i \in acked' : i \in Nat /\ i < c + 1
      BY <1>2, <1>3, <1>4, <2>1
    <2>3. /\ \A i \in acked' \cup applied' : i < f + 1
          /\ \A b \in Blocks : rows'[b].lastApplied < f + 1
      BY <1>9, <2>2
    <2> QED
      BY <2>1, <2>3 DEF AckedBehind, Behind
  <1>7. AckedIsApplied'
    BY <1>1, <1>2, AtBatch DEF AckedIsApplied, ReaderInv
  <1>8. AtEntry(w)'
    <2>1. workers'[w] = NextEntry(workers[w])
      BY DEF Goto, TypeOK, WorkersOK
    <2>2. /\ workers'[w].pc \in {"handle", "scan"}
          /\ workers'[w].pc = "handle" => workers'[w].cur = c + 1 /\ workers'[w].end = e
      BY <1>1, <2>1, AtBatch, NextEntryType
    <2>3. CASE workers'[w].pc = "handle"
      <3>1. workers'[w].end <= Frontier'
        BY <1>2, <1>3, <2>2, <2>3
      <3>2. AckedBehind(workers[w].cur)'
        BY <1>4, <2>2, <2>3 DEF AckedBehind
      <3>3. Behind(workers[w].cur)'
        BY <1>9, <2>2, <2>3 DEF Behind
      <3> QED
        BY <2>3, <3>1, <3>2, <3>3 DEF AtEntry
    <2> QED
      BY <2>2, <2>3 DEF AtEntry
  <1> QED
    BY <1>3, <1>5, <1>7, <1>8 DEF ReaderInv

\* A batch begins right behind everything dealt with.
LEMMA ReadKeeps ==
  ASSUME TypeOK, ReaderInv, [Next]_vars, NEW w \in Workers, Workers = {w}, ReadGroup(w)
  PROVE  ReaderInv'
  <1>1. CASE Batch.first <= Batch.last /\ workers[w].known /\ group.created
    <2>1. /\ workers' = [workers EXCEPT ![w] = [pc |-> "handle", known |-> TRUE,
                                            cur |-> Batch.first, end |-> Batch.last]]
          /\ group'.last = Batch.last /\ group'.created = group.created
          /\ UNCHANGED <<log, trimmed, rows, applied, acked>>
      <3>1. ~(Batch.first > Batch.last)
        BY <1>1, BatchBounds DEF Ids
      <3> QED
        BY <1>1, <3>1, DealtType DEF ReadGroup, Goto, stream, history
    <2>2. PICK f \in Nat, g \in Nat : /\ f = Frontier /\ g = Frontier'
                                     /\ f + 1 = Batch.first /\ g = Batch.last /\ f < g
      BY <1>1, <2>1, BatchBounds, FrontierType DEF Frontier, Greater, Ids
    <2>3. applied \subseteq Nat /\ acked \subseteq Nat /\ \A b \in Blocks : rows[b].lastApplied \in Nat
      BY DEF TypeOK, StoreOK, Ids, Row
    <2>4. /\ \A i \in applied \cup acked : i < f + 1
          /\ \A b \in Blocks : rows[b].lastApplied < f + 1
      BY <2>2 DEF ReaderInv, Behind, AckedBehind
    <2>5. Behind(Frontier + 1)' /\ AckedBehind(Frontier + 1)'
      <3>1. /\ \A i \in applied \cup acked : i < g + 1
            /\ \A b \in Blocks : rows[b].lastApplied < g + 1
        BY <2>2, <2>3, <2>4
      <3> QED
        BY <2>1, <2>2, <3>1 DEF Behind, AckedBehind
    <2>6. /\ workers'[w].pc = "handle" /\ workers'[w].cur = f + 1 /\ workers'[w].end = g
      BY <2>1, <2>2 DEF TypeOK, WorkersOK
    <2>7. AtEntry(w)'
      BY <2>1, <2>2, <2>4, <2>6 DEF AtEntry, Behind, AckedBehind
    <2>8. AckedIsApplied' /\ GroupInv'
      BY <1>1, <2>1 DEF ReaderInv, GroupInv, AckedIsApplied
    <2> QED
      BY <2>5, <2>7, <2>8 DEF ReaderInv
  <1>2. CASE ~(Batch.first <= Batch.last /\ workers[w].known /\ group.created)
    <2>1. /\ Goto(w, Idle("scan", TRUE)) \/ Goto(w, Idle("scan", FALSE))
          /\ UNCHANGED <<log, trimmed, group, rows, history>>
      BY <1>2 DEF ReadGroup, stream
    <2>2. Frontier' = Frontier /\ GroupInv'
      BY <2>1 DEF Frontier, ReaderInv, GroupInv
    <2>3. Quiet
      BY <2>1, <2>2, LogGrows, FrontierType, RowsKept DEF Quiet, history
    <2>4. \A v \in Workers : workers'[v] = workers[v] \/ workers'[v].pc \notin {"handle", "ack"}
      BY <2>1 DEF Goto, Idle, TypeOK, WorkersOK
    <2> QED
      BY <2>3, <2>4, QuietKeeps
  <1> QED
    BY <1>1, <1>2

\* Handling: the cursor never covers the entry at hand, so it is merged, or
\* passed over when it cannot be.
LEMMA HandleKeeps ==
  ASSUME TypeOK, ReaderInv, NEW w \in Workers, Workers = {w}, HandleEntry(w)
  PROVE  ReaderInv'
  <1>0. workers[w].pc = "handle" /\ UNCHANGED <<log, trimmed, group, acked>>
    BY DEF HandleEntry, stream
  <1>1. PICK c \in Nat \ {0}, e \in Nat : c = workers[w].cur /\ e = workers[w].end
    BY <1>0, AtBatch DEF WorkerState
  <1>2. /\ Behind(c) /\ AckedBehind(c) /\ Behind(c + 1)
        /\ c <= Frontier /\ e <= Frontier /\ c \in Ids
    BY <1>0, <1>1, AtBatch
  <1>3. log[c].block \in Blocks
    <2>1. log[c] \in Entry
      BY <1>2 DEF TypeOK, StoreOK, Ids
    <2> QED
      BY <2>1 DEF Entry
  <1>4. ~Skips(rows[log[c].block], c)
    <2>1. rows[log[c].block].lastApplied < c /\ rows[log[c].block].lastApplied \in Nat
      BY <1>2, <1>3 DEF Behind, TypeOK, StoreOK, Row
    <2> QED
      BY <1>1, <2>1 DEF Skips
  <1>5. Frontier' = Frontier /\ GroupInv' /\ Frontier \in Nat
    BY <1>0, FrontierType DEF Frontier, ReaderInv, GroupInv
  <1>6. CASE Goto(w, NextEntry(workers[w])) /\ UNCHANGED <<rows, applied>>
    BY <1>0, <1>6, AdvanceKeeps
  <1>7. CASE /\ Goto(w, [workers[w] EXCEPT !.pc = "ack"])
             /\ \/ log[c].kind # "crdt" /\ UNCHANGED <<rows, applied>>
                \/ /\ rows' = [rows EXCEPT ![log[c].block] = Merged(rows[log[c].block], c)]
                   /\ applied' = applied \cup {c}
    <2>1. /\ workers'[w].pc = "ack" /\ workers'[w].cur = c /\ workers'[w].end = e
      BY <1>1, <1>7 DEF Goto, TypeOK, WorkersOK, WorkerState
    <2>2. /\ \A i \in applied' : i < c + 1
          /\ \A b \in Blocks : rows'[b].lastApplied < c + 1
      <3>1. \A b \in Blocks : rows'[b].lastApplied \in {rows[b].lastApplied, c}
        BY <1>3, <1>7 DEF Merged, TypeOK, StoreOK, Row
      <3> QED
        BY <1>2, <1>7, <3>1 DEF Behind
    <2>3. Behind(Frontier + 1)' /\ AckedBehind(Frontier + 1)'
      <3>1. PICK f \in Nat : f = Frontier /\ f = Frontier'
        BY <1>5
      <3>2. /\ applied' \subseteq Nat /\ acked' \subseteq Nat /\ \A b \in Blocks : rows'[b].lastApplied \in Nat
        <4>1. \A b \in Blocks : rows'[b].lastApplied \in {rows[b].lastApplied, c}
          BY <1>3, <1>7 DEF Merged, TypeOK, StoreOK, Row
        <4>2. \A b \in Blocks : rows[b].lastApplied \in Nat
          BY DEF TypeOK, StoreOK, Row
        <4>3. applied \subseteq Nat /\ acked \subseteq Nat
          BY DEF TypeOK, StoreOK, Ids
        <4> QED
          BY <1>0, <1>7, <4>1, <4>2, <4>3
      <3>3. c <= f /\ \A i \in acked' : i < c
        BY <1>0, <1>2, <3>1 DEF AckedBehind
      <3>4. /\ \A i \in applied' \cup acked' : i < f + 1
            /\ \A b \in Blocks : rows'[b].lastApplied < f + 1
        BY <2>2, <3>2, <3>3
      <3> QED
        BY <3>1, <3>4 DEF Behind, AckedBehind
    <2>4. AtEntry(w)'
      <3>1. workers'[w].end <= Frontier' /\ \A i \in acked' : i < c
        BY <1>0, <1>2, <1>5, <2>1 DEF AckedBehind
      <3>2. log'[c].kind = "crdt" => c \in applied'
        BY <1>0, <1>7
      <3> QED
        BY <2>1, <2>2, <3>1, <3>2 DEF AtEntry, Behind, AckedBehind
    <2>5. AckedIsApplied'
      BY <1>0, <1>7 DEF AckedIsApplied, ReaderInv
    <2> QED
      BY <1>5, <2>3, <2>4, <2>5 DEF ReaderInv
  <1> QED
    BY <1>1, <1>4, <1>6, <1>7 DEF HandleEntry

\* One worker: nothing is acknowledged that is not applied.
THEOREM OneWorkerReads ==
  ASSUME NEW w \in Workers, Workers = {w}
  PROVE  Spec => []ReaderInv
<1>1. Init => ReaderInv
  <2> SUFFICES ASSUME Init PROVE ReaderInv
    OBVIOUS
  <2>1. /\ applied = {} /\ acked = {} /\ group.last = 0 /\ trimmed = 0
        /\ \A v \in Workers : workers[v].pc = "scan"
    BY DEF Init, NoGroup, Idle
  <2>2. \A b \in Blocks : rows[b].lastApplied = 0
    BY EmptyRows DEF Init
  <2>3. Frontier = 0
    BY <2>1 DEF Frontier, Greater
  <2> QED
    BY <2>1, <2>2, <2>3 DEF ReaderInv, GroupInv, Behind, AckedBehind, AtEntry, AckedIsApplied
<1>2. TypeOK /\ ReaderInv /\ [Next]_vars => ReaderInv'
  <2> SUFFICES ASSUME TypeOK, ReaderInv, [Next]_vars PROVE ReaderInv'
    OBVIOUS
  <2>1. CASE Producer \/ Route \/ ResetDelFails
    BY <2>1, OutsideIsQuiet, QuietKeeps
  <2>2. CASE Scan(w) \/ CreateGroup(w) \/ AckFails(w) \/ Crash(w) \/ Restart(w)
    BY <2>2, IdleMoves, QuietKeeps
  <2>3. CASE ReadGroup(w)
    BY <2>3, ReadKeeps
  <2>4. CASE HandleEntry(w)
    BY <2>4, HandleKeeps
  <2>5. CASE Ack(w)
    <3>1. group'.last = group.last /\ group'.created = group.created
      BY <2>5 DEF Ack, TypeOK, StoreOK, GroupType
    <3> QED
      BY <2>5, <3>1, AdvanceKeeps DEF Ack, stream
  <2>6. CASE HandleFails(w)
    BY <2>6, AdvanceKeeps DEF HandleFails, stream, history
  <2>8. CASE HandleInDoubt(w)
    <3>1. /\ workers[w].pc = "handle" /\ Goto(w, NextEntry(workers[w]))
          /\ UNCHANGED <<log, trimmed, group, acked>>
          /\ applied' = applied \cup {workers[w].cur}
      BY <2>8 DEF HandleInDoubt, stream
    <3>2. \A b \in Blocks : rows'[b].lastApplied \in {rows[b].lastApplied, workers[w].cur}
      <4>1. workers[w].cur \in Ids
        BY <3>1, AtBatch
      <4>2. rows \in [Blocks -> Row] /\ log[workers[w].cur].block \in Blocks
        BY <4>1, MergeType DEF TypeOK, StoreOK
      <4> QED
        BY <2>8, <4>2 DEF HandleInDoubt, Merged, Row
    <3> QED
      BY <3>1, <3>2, AdvanceKeeps
  <2>9. CASE ReadFails(w)
    <3>1. /\ Batch.first <= Batch.last /\ UNCHANGED <<log, trimmed, rows, history>>
          /\ group' = Dealt /\ Goto(w, Idle("scan", TRUE)) /\ group.created
      BY <2>9 DEF ReadFails, stream
    <3>2. Frontier' \in Nat /\ Frontier <= Frontier' /\ GroupInv'
      <4>1. PICK f \in Nat, g \in Nat : /\ f = Frontier /\ g = Frontier'
                                       /\ f + 1 = Batch.first /\ g = Batch.last
        BY <3>1, DealtType, BatchBounds, FrontierType DEF Frontier, Greater, Ids
      <4>2. f <= g
        BY <3>1, <4>1
      <4> QED
        BY <3>1, <4>1, <4>2, DealtType DEF GroupInv
    <3>3. Quiet
      BY <3>1, <3>2, LogGrows, RowsKept DEF Quiet, history
    <3>4. \A v \in Workers : workers'[v] = workers[v] \/ workers'[v].pc \notin {"handle", "ack"}
      BY <3>1 DEF Goto, Idle, TypeOK, WorkersOK
    <3> QED
      BY <3>3, <3>4, QuietKeeps
  <2>7. CASE UNCHANGED vars
    BY <2>7 DEF vars, stream, history, ReaderInv, GroupInv, Behind, AckedBehind, AtEntry,
         Frontier, AckedIsApplied
  <2> QED
    BY <2>1, <2>2, <2>3, <2>4, <2>5, <2>6, <2>7, <2>8, <2>9 DEF Next, Work, Failure
<1> QED
  BY <1>1, <1>2, TypeCorrect, PTL DEF Spec

\* XACK only after the delta is in Postgres: with one worker, whatever crashes
\* or fails, Redis never forgets a delta that is not in the database.
THEOREM AcknowledgedIsDurable ==
  ASSUME NEW w \in Workers, Workers = {w}
  PROVE  Spec => []AckedIsApplied
<1>1. ReaderInv => AckedIsApplied
  BY DEF ReaderInv
<1>2. Spec => []ReaderInv
  BY OneWorkerReads
<1> QED
  BY <1>1, <1>2, PTL

\* One worker implements the ordered reader: every step appends, applies the
\* next newer delta, acknowledges the next newer entry it has nothing left to
\* apply of, or is invisible there.
THEOREM ReaderRefines ==
  ASSUME NEW w \in Workers, Workers = {w}
  PROVE  Spec => ImplementsOrderedApply
<1>1. Init => Reader!Init
  BY DEF Init, Reader!Init
<1>2. TypeOK /\ ReaderInv /\ [Next]_vars => [Reader!Next]_<<log, applied, acked>>
  <2> SUFFICES ASSUME TypeOK, ReaderInv, [Next]_vars,
                      ~UNCHANGED <<log, applied, acked>>
               PROVE  Reader!Next
    OBVIOUS
  <2>1. ASSUME NEW e \in Entry, XAdd(e) PROVE Reader!Next
    BY <2>1 DEF XAdd, history, Reader!Next, Reader!Submit
  <2>2. CASE Producer
    BY <2>1, <2>2, ConsumerAssumption
    DEF Producer, AddDelta, AddOps, Entry, AllEncodings, ConsumerAssumption
  <2>3. CASE HandleEntry(w) \/ HandleInDoubt(w)
    <3>1. /\ workers[w].pc = "handle" /\ UNCHANGED <<log, acked>>
          /\ log[workers[w].cur].kind = "crdt" /\ applied' = applied \cup {workers[w].cur}
      BY <2>3 DEF HandleEntry, HandleInDoubt, stream
    <3>2. workers[w].cur \in Ids /\ \A j \in applied : j < workers[w].cur
      BY <3>1, AtBatch DEF Behind
    <3> QED
      BY <3>1, <3>2 DEF Reader!Next, Reader!Apply, Ids
  <2>4. CASE Ack(w)
    <3>1. /\ workers[w].pc = "ack" /\ UNCHANGED <<log, applied>>
          /\ acked' = acked \cup {workers[w].cur}
      BY <2>4 DEF Ack, stream
    <3>2. /\ workers[w].cur \in Ids /\ \A j \in acked : j < workers[w].cur
          /\ log[workers[w].cur].kind = "crdt" => workers[w].cur \in applied
      BY <3>1, AtBatch DEF AckedBehind
    <3> QED
      BY <3>1, <3>2 DEF Reader!Next, Reader!Acknowledge, Ids
  <2>5. CASE Route
    BY <2>5 DEF Route, InsertBlock, DeleteBlock, UpdateAttrs, UpdateContent, Write,
         ResetRows, ResetStream, ResetSeed, stream, history
  <2>6. CASE \/ Scan(w) \/ CreateGroup(w) \/ ReadGroup(w) \/ ReadFails(w) \/ HandleFails(w)
             \/ AckFails(w) \/ Crash(w) \/ Restart(w) \/ ResetDelFails
    BY <2>6 DEF Scan, CreateGroup, ReadGroup, ReadFails, HandleFails, AckFails, Crash,
         Restart, ResetDelFails, stream, history
  <2> QED
    BY <2>2, <2>3, <2>4, <2>5, <2>6 DEF Next, Work, Failure, vars, stream, history
<1>3. Spec => []ReaderInv
  BY OneWorkerReads
<1> QED
  BY <1>1, <1>2, <1>3, TypeCorrect, PTL DEF Spec, ImplementsOrderedApply, Reader!Spec

=============================================================================
