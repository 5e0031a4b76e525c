--------------------------- MODULE BlockStoreProofs ---------------------------
(***************************************************************************)
(* Of any number of pages, blocks, operations and failures: the optimistic *)
(* store, its retries and the stream.                                      *)
(***************************************************************************)
EXTENDS BlockStore, SequenceTheorems, TLAPS

-----------------------------------------------------------------------------
(* The invariant.                                                          *)

Subject(i) == ops[stream[i].op]
On(b, i) == Subject(i).block = b

\* As far as presence and attrs go, r is the block b after the first k entries of
\* the stream: the last entry on b decides, or the snapshot.
Untouched(b, k) == \A i \in 1 .. k : ~On(b, i)
Newest(b, k, i) == i \in 1 .. k /\ On(b, i) /\ \A j \in i + 1 .. k : ~On(b, j)
Is(r, present, val) == r.present = present /\ (present => r.val = val)
Shows(r, b, k) ==
  \/ Untouched(b, k) /\ Is(r, b \in Original, 0)
  \/ \E i \in 1 .. k : Newest(b, k, i) /\ Is(r, Subject(i).kind # "delete", stream[i].op)

\* The rows are what the stream says.
RowsShow == \A b \in Blocks : Shows(rows[b], b, Len(stream))

\* Attrs are updated of a block that is there.
AttrsHaveBlock ==
  \A i \in 1 .. Len(stream) : Subject(i).kind = "attrs" =>
    \A r \in Block : Shows(r, Subject(i).block, i - 1) => r.present

\* What has been applied cannot be applied again, unless its block was deleted.
DeletedAfter(i, b) == \E k \in 1 .. Len(stream) : i < k /\ Subject(k).kind = "delete" /\ On(b, k)
Superseded(i) ==
  LET op == Subject(i) IN
  \/ op.kind = "delete"
  \/ DeletedAfter(i, op.block)
  \/ rows[op.block].present /\ (op.kind = "attrs" => rows[op.block].ver > op.ver)
AllSuperseded == \A i \in 1 .. Len(stream) : Superseded(i)

\* An operation on b that the page has not received yet, and that is pending or
\* in the stream. One of attrs explains no block that the page does not have.
Has(q, e) == \E k \in 1 .. Len(q) : q[k] = e
Pending(u, n) == Has(pages[u].pending, n)
Ahead(u, n) == \E i \in 1 .. Len(stream) : i > pages[u].seen /\ stream[i].op = n
Behind(u, n) == \E i \in 1 .. pages[u].seen : stream[i].op = n
Explains(u, b, n) ==
  /\ ops[n].block = b
  /\ ops[n].kind = "attrs" => pages[u].blocks[b].present
  /\ ~Behind(u, n)
  /\ Pending(u, n) \/ Ahead(u, n)

\* Where a page shows something else than the stream it has received, there is one.
Explained(u, b) ==
  \/ <<u, b>> \in refused
  \/ Shows(pages[u].blocks[b], b, pages[u].seen)
  \/ \E n \in 1 .. Len(ops) : Explains(u, b, n)
AllExplained == \A u \in Pages, b \in Blocks : Explained(u, b)

SInv ==
  /\ TypeOK /\ RowsShow /\ AttrsHaveBlock /\ AllSuperseded /\ AllExplained
  /\ RepeatsNeedDelete

-----------------------------------------------------------------------------
(* Sequences and bags.                                                     *)

LEMMA Elements ==
  ASSUME NEW S, NEW q \in Seq(S)
  PROVE  Len(q) \in Nat /\ \A k \in 1 .. Len(q) : q[k] \in S
  OBVIOUS

LEMMA Widened ==
  ASSUME NEW S, NEW T, S \subseteq T, NEW q \in Seq(S)
  PROVE  q \in Seq(T)
  OBVIOUS

LEMMA Appended ==
  ASSUME NEW S, NEW q \in Seq(S), NEW e \in S
  PROVE  /\ Append(q, e) \in Seq(S) /\ Len(Append(q, e)) = Len(q) + 1
         /\ \A k \in 1 .. Len(q) : Append(q, e)[k] = q[k]
         /\ Append(q, e)[Len(q) + 1] = e
  OBVIOUS

LEMMA Joint ==
  ASSUME NEW S, NEW q \in Seq(S), NEW r \in Seq(S)
  PROVE  /\ q \o r \in Seq(S) /\ Len(q \o r) = Len(q) + Len(r)
         /\ \A k \in 1 .. Len(q) : (q \o r)[k] = q[k]
         /\ \A k \in 1 .. Len(r) : (q \o r)[Len(q) + k] = r[k]
  OBVIOUS

\* What is left of a sequence that has e at most once, without e.
LEMMA WithoutOne ==
  ASSUME NEW S, NEW q \in Seq(S), IsInjective(q), NEW e
  PROVE  /\ Unanswered(q, e) \in Seq(S) /\ IsInjective(Unanswered(q, e))
         /\ \A n : Has(Unanswered(q, e), n) <=> n # e /\ Has(q, n)
<1> USE DEF Has
<1>1. CASE e \notin ToSet(q)
  BY <1>1 DEF Unanswered, ToSet
<1>2. CASE e \in ToSet(q)
  <2> DEFINE i == CHOOSE i \in DOMAIN q : q[i] = e
             front == SubSeq(q, 1, i - 1)
             back == SubSeq(q, i + 1, Len(q))
  <2>1. i \in 1 .. Len(q) /\ q[i] = e
    BY <1>2 DEF ToSet
  <2> HIDE DEF i
  <2>2. /\ front \in Seq(S) /\ Len(front) = i - 1
        /\ \A j \in 1 .. i - 1 : front[j] = q[j]
    BY <2>1
  <2>3. /\ back \in Seq(S) /\ Len(back) = Len(q) - i
        /\ \A j \in 1 .. Len(q) - i : back[j] = q[j + i]
    BY <2>1
  <2>4. Unanswered(q, e) = front \o back
    BY <1>2 DEF Unanswered, RemoveAt, i
  <2> HIDE DEF front, back
  <2> DEFINE r == front \o back
  <2>5. /\ r \in Seq(S) /\ Len(r) = Len(q) - 1
        /\ \A j \in 1 .. i - 1 : r[j] = q[j]
        /\ \A j \in 1 .. Len(q) - i : r[i - 1 + j] = q[i + j]
    <3>1. /\ r \in Seq(S) /\ Len(r) = Len(front) + Len(back)
          /\ \A k \in 1 .. Len(front) : r[k] = front[k]
          /\ \A k \in 1 .. Len(back) : r[Len(front) + k] = back[k]
      <4>1. front \in Seq(S) /\ back \in Seq(S)
        BY <2>2, <2>3
      <4> QED
        BY <4>1
    <3> HIDE DEF r
    <3>2. Len(q) \in Nat
      BY Elements
    <3> QED
      BY <3>1, <3>2, <2>1, <2>2, <2>3
  <2> HIDE DEF r
  <2>6. \A j \in 1 .. Len(q) - 1 : r[j] = IF j < i THEN q[j] ELSE q[j + 1]
    <3> SUFFICES ASSUME NEW j \in 1 .. Len(q) - 1, ~(j < i) PROVE r[j] = q[j + 1]
      BY <2>1, <2>5
    <3>1. (j - i + 1) \in 1 .. Len(q) - i /\ i - 1 + (j - i + 1) = j /\ i + (j - i + 1) = j + 1
      BY <2>1
    <3> QED
      BY <3>1, <2>5
  <2>7. \A a, b \in 1 .. Len(q) : q[a] = q[b] => a = b
    BY DEF IsInjective
  <2>8. \A a, b \in 1 .. Len(r) : r[a] = r[b] => a = b
    BY <2>1, <2>5, <2>6, <2>7
  <2>9. IsInjective(r)
    BY <2>5, <2>8 DEF IsInjective
  <2>10. ASSUME NEW n, NEW k \in 1 .. Len(r), r[k] = n
         PROVE  n # e /\ \E j \in 1 .. Len(q) : q[j] = n
    BY <2>1, <2>5, <2>6, <2>7, <2>10
  <2>11. ASSUME NEW n, n # e, NEW k \in 1 .. Len(q), q[k] = n
         PROVE  \E j \in 1 .. Len(r) : r[j] = n
    <3>1. CASE k < i
      BY <3>1, <2>1, <2>5, <2>6, <2>11
    <3>2. CASE k > i
      <4>1. (k - 1) \in 1 .. Len(r) /\ r[k - 1] = n
        BY <3>2, <2>1, <2>5, <2>6, <2>11
      <4> QED
        BY <4>1
    <3> QED
      BY <3>1, <3>2, <2>1, <2>11
  <2> QED
    BY <2>4, <2>5, <2>9, <2>10, <2>11 DEF r
<1> QED
  BY <1>1, <1>2

Bagged(bag, S) == IsABag(bag) /\ BagToSet(bag) \subseteq S

LEMMA BagOfSet ==
  ASSUME NEW S, NEW T, S \subseteq T
  PROVE  Bagged(SetToBag(S), T) /\ Bagged(EmptyBag, T)
  BY DEF Bagged, IsABag, BagToSet, SetToBag, EmptyBag

LEMMA BagJoined ==
  ASSUME NEW S, NEW one, NEW two, Bagged(one, S), Bagged(two, S)
  PROVE  Bagged(one (+) two, S)
  BY DEF Bagged, IsABag, BagToSet, (+)

LEMMA BagLeft ==
  ASSUME NEW S, NEW one, NEW two, Bagged(one, S), IsABag(two)
  PROVE  Bagged(one (-) two, S)
  BY DEF Bagged, IsABag, BagToSet, (-)

-----------------------------------------------------------------------------
(* What stays true while operations are made and entries appended.         *)

Extended ==
  /\ ops' \in Seq(Op) /\ Len(ops') >= Len(ops)
  /\ \A n \in 1 .. Len(ops) : ops'[n] = ops[n]
  /\ stream' \in Seq([op : 1 .. Len(ops'), ver : Nat]) /\ Len(stream') >= Len(stream)
  /\ \A i \in 1 .. Len(stream) : stream'[i] = stream[i]

LEMMA Entries ==
  ASSUME TypeOK
  PROVE  /\ Len(ops) \in Nat /\ Len(stream) \in Nat
         /\ \A n \in 1 .. Len(ops) : ops[n] \in Op
         /\ \A i \in 1 .. Len(stream) :
              stream[i].op \in 1 .. Len(ops) /\ stream[i].ver \in Nat /\ Subject(i) \in Op
<1>1. ops \in Seq(Op) /\ stream \in Seq([op : Numbers, ver : Nat])
  BY DEF TypeOK
<1>2. /\ Len(ops) \in Nat /\ Len(stream) \in Nat
      /\ \A n \in 1 .. Len(ops) : ops[n] \in Op
      /\ \A i \in 1 .. Len(stream) : stream[i] \in [op : Numbers, ver : Nat]
  BY <1>1, Elements
<1> QED
  BY <1>2 DEF Subject, Numbers

LEMMA SubjectKept ==
  ASSUME TypeOK, Extended
  PROVE  /\ \A i \in 1 .. Len(stream) : Subject(i)' = Subject(i) /\ stream'[i].op = stream[i].op
         /\ \A b : \A i \in 1 .. Len(stream) : On(b, i)' <=> On(b, i)
  BY Entries DEF Extended, Subject, On

LEMMA ShowsKept ==
  ASSUME TypeOK, Extended
  PROVE  \A r, b : \A k \in 0 .. Len(stream) : Shows(r, b, k)' <=> Shows(r, b, k)
<1> SUFFICES ASSUME NEW r, NEW b, NEW k \in 0 .. Len(stream)
             PROVE  Shows(r, b, k)' <=> Shows(r, b, k)
  OBVIOUS
<1>1. Len(stream) \in Nat /\ k \in Nat /\ \A i \in 1 .. k : i \in 1 .. Len(stream)
  BY Entries
<1>2. Untouched(b, k)' <=> Untouched(b, k)
  BY <1>1, SubjectKept DEF Untouched
<1>3. \A i \in 1 .. k : Newest(b, k, i)' <=> Newest(b, k, i)
  BY <1>1, SubjectKept DEF Newest
<1> QED
  BY <1>1, <1>2, <1>3, SubjectKept DEF Shows, Is

LEMMA ShowsOne ==
  ASSUME TypeOK, NEW r, NEW s, NEW b, NEW k \in 0 .. Len(stream), Shows(r, b, k), Shows(s, b, k),
         r.present \in BOOLEAN, s.present \in BOOLEAN
  PROVE  r.present = s.present /\ (r.present => r.val = s.val)
<1>1. k \in Nat
  BY Entries
<1>2. \A i, j \in 1 .. k : Newest(b, k, i) /\ Newest(b, k, j) => i = j
  BY <1>1 DEF Newest
<1>3. \A i \in 1 .. k : ~(Untouched(b, k) /\ Newest(b, k, i))
  BY DEF Untouched, Newest
<1> QED
  BY <1>2, <1>3 DEF Shows, Is

\* After the step: an entry on another block changes nothing, one on the block
\* decides.
LEMMA ShowsNext ==
  ASSUME NEW k \in Nat
  PROVE  \A r, b :
           /\ ~On(b, k + 1)' /\ Shows(r, b, k)' => Shows(r, b, k + 1)'
           /\ On(b, k + 1)' /\ Is(r, Subject(k + 1)'.kind # "delete", stream'[k + 1].op)
                => Shows(r, b, k + 1)'
<1> SUFFICES ASSUME NEW r, NEW b
             PROVE  /\ ~On(b, k + 1)' /\ Shows(r, b, k)' => Shows(r, b, k + 1)'
                    /\ On(b, k + 1)' /\ Is(r, Subject(k + 1)'.kind # "delete", stream'[k + 1].op)
                         => Shows(r, b, k + 1)'
  OBVIOUS
<1>1. ASSUME ~On(b, k + 1)', Untouched(b, k)' PROVE Untouched(b, k + 1)'
  BY <1>1 DEF Untouched
<1>2. ASSUME ~On(b, k + 1)', NEW i \in 1 .. k, Newest(b, k, i)'
      PROVE  i \in 1 .. k + 1 /\ Newest(b, k + 1, i)'
  BY <1>2 DEF Newest
<1>3. ASSUME On(b, k + 1)' PROVE Newest(b, k + 1, k + 1)'
  BY <1>3 DEF Newest
<1>4. ASSUME ~On(b, k + 1)', Shows(r, b, k)' PROVE Shows(r, b, k + 1)'
  BY <1>1, <1>2, <1>4 DEF Shows
<1>5. k + 1 \in 1 .. k + 1
  OBVIOUS
<1>6. ASSUME On(b, k + 1)', Is(r, Subject(k + 1)'.kind # "delete", stream'[k + 1].op)
      PROVE  Shows(r, b, k + 1)'
  BY <1>3, <1>5, <1>6 DEF Shows, Is
<1> QED
  BY <1>4, <1>6

-----------------------------------------------------------------------------
(* Types.                                                                  *)

LEMMA Parts ==
  ASSUME TypeOK
  PROVE  /\ \A u \in Pages :
              /\ pages[u].blocks \in [Blocks -> Block] /\ pages[u].pending \in Seq(Numbers)
              /\ pages[u].open \in BOOLEAN /\ pages[u].seen \in 0 .. Len(stream)
              /\ pages[u] = [blocks |-> pages[u].blocks, pending |-> pages[u].pending,
                             open |-> pages[u].open, seen |-> pages[u].seen]
              /\ IsInjective(pages[u].pending)
         /\ \A f \in BagToSet(frames) : f.op \in Numbers /\ f.live \in BOOLEAN /\ ops[f.op] \in Op
         /\ \A a \in BagToSet(answers) :
              /\ a.page \in Pages /\ a.op \in Numbers /\ a.kind \in {"ack", "nack"} /\ a.ver \in Nat
              /\ ops[a.op] \in Op
<1>1. \A u \in Pages : pages[u] \in Page /\ IsInjective(pages[u].pending)
  BY DEF TypeOK
<1>2. \A n \in Numbers : ops[n] \in Op
  BY Entries DEF Numbers
<1>3. \A f \in BagToSet(frames) : f \in Frame
  BY DEF TypeOK
<1>4. \A a \in BagToSet(answers) : a \in Answer
  BY DEF TypeOK
<1>5. \A f \in BagToSet(frames) : f.op \in Numbers /\ f.live \in BOOLEAN
  BY <1>3 DEF Frame
<1>6. \A a \in BagToSet(answers) :
        a.page \in Pages /\ a.op \in Numbers /\ a.kind \in {"ack", "nack"} /\ a.ver \in Nat
  BY <1>4 DEF Answer
<1>7. \A p \in Page : /\ p.blocks \in [Blocks -> Block] /\ p.pending \in Seq(Numbers)
                      /\ p.open \in BOOLEAN /\ p.seen \in 0 .. Len(stream)
                      /\ p = [blocks |-> p.blocks, pending |-> p.pending,
                              open |-> p.open, seen |-> p.seen]
  BY DEF Page
<1> QED
  BY <1>1, <1>2, <1>5, <1>6, <1>7

LEMMA Kept ==
  ASSUME TypeOK, Extended
  PROVE  /\ Numbers \subseteq Numbers' /\ Frame \subseteq Frame' /\ Answer \subseteq Answer'
         /\ Page \subseteq Page'
<1>1. Numbers \subseteq Numbers' /\ 0 .. Len(stream) \subseteq 0 .. Len(stream')
  <2>1. Len(ops) \in Nat /\ Len(stream) \in Nat /\ Len(ops') \in Nat /\ Len(stream') \in Nat
    BY Entries DEF Extended
  <2> QED
    BY <2>1 DEF Extended, Numbers
<1>2. \A q \in Seq(Numbers) : q \in Seq(Numbers')
  BY <1>1, Widened
<1>3. Frame \subseteq Frame' /\ Answer \subseteq Answer'
  BY <1>1 DEF Frame, Answer
<1>4. Page \subseteq Page'
  BY <1>1, <1>2 DEF Page
<1> QED
  BY <1>1, <1>3, <1>4

\* What is sent is a frame for an operation that is pending.
LEMMA Sent ==
  ASSUME NEW N, NEW before, NEW page, page.pending \in Seq(N)
  PROVE  Bagged(Flush(before, page), [op : N, live : BOOLEAN]) /\
         Bagged(Drain(page), [op : N, live : BOOLEAN])
<1>1. \A k \in 1 .. Len(page.pending) : page.pending[k] \in N
  BY Elements
<1>2. ASSUME page.pending # <<>> PROVE Last(page.pending) \in N
  <2>1. Len(page.pending) \in 1 .. Len(page.pending)
    BY <1>2
  <2> QED
    BY <1>1, <2>1 DEF Last
<1>3. Bagged(Flush(before, page), [op : N, live : BOOLEAN])
  <2>1. CASE page.open /\ page.pending # <<>>
    <3>1. {[op |-> Last(page.pending), live |-> TRUE]} \subseteq [op : N, live : BOOLEAN]
      BY <1>2, <2>1
    <3> QED
      BY <3>1, <2>1, BagOfSet DEF Flush
  <2>2. CASE ~(page.open /\ page.pending # <<>>)
    BY <2>2, BagOfSet DEF Flush
  <2> QED
    BY <2>1, <2>2
<1>4. Bagged(Drain(page), [op : N, live : BOOLEAN])
  <2>1. DOMAIN page.pending = 1 .. Len(page.pending)
    OBVIOUS
  <2>2. {[op |-> n, live |-> TRUE] : n \in ToSet(page.pending)} \subseteq [op : N, live : BOOLEAN]
    <3>1. \A n \in ToSet(page.pending) : n \in N
      BY <1>1, <2>1 DEF ToSet
    <3>2. ASSUME NEW n \in N PROVE [op |-> n, live |-> TRUE] \in [op : N, live : BOOLEAN]
      OBVIOUS
    <3> QED
      BY <3>1, <3>2, Zenon
  <2> QED
    BY <2>2, BagOfSet DEF Drain
<1> QED
  BY <1>3, <1>4

\* A step that makes and applies nothing.
LEMMA Unextended ==
  ASSUME TypeOK, UNCHANGED <<ops, stream>>
  PROVE  Extended /\ Numbers' = Numbers /\ Frame' = Frame /\ Answer' = Answer /\ Page' = Page
<1>1. stream \in Seq([op : Numbers, ver : Nat]) /\ ops \in Seq(Op)
  BY DEF TypeOK
<1>2. Extended
  BY <1>1, Entries DEF Extended, Numbers
<1> QED
  BY <1>2 DEF Numbers, Frame, Answer, Page

-----------------------------------------------------------------------------
(* An event of the editor.                                                 *)

\* It is made of operations of the page, on blocks that it has if not inserts.
Sound(u, op) ==
  op \in Op /\ op.by = u /\ (op.kind = "attrs" => pages[u].blocks[op.block].present)

LEMMA UserEdits ==
  ASSUME TypeOK, NEW u \in Pages, User(u)
  PROVE  \E new \in Seq(Op) : Edit(u, new) /\ \A i \in 1 .. Len(new) : Sound(u, new[i])
<1>1. Fresh \subseteq Blocks /\ Here(u) \subseteq Blocks
  BY DEF Fresh, Here
<1>2. ASSUME NEW b \in Blocks, NEW after \in Blocks \cup {None}
      PROVE  Sound(u, Insert(u, b, after))
  BY DEF Sound, Insert, Op
<1>3. ASSUME NEW b \in Here(u), NEW kind \in {"delete", "attrs"}
      PROVE  Sound(u, OnBlock(u, kind, b))
  <2>1. pages[u].blocks[b] \in Block /\ pages[u].blocks[b].present
    BY <1>1, Parts DEF Here
  <2> QED
    BY <2>1, <1>1 DEF Sound, OnBlock, Op, Block
<1>4. ASSUME NEW op, Sound(u, op), Edit(u, <<op>>)
      PROVE  \E new \in Seq(Op) : Edit(u, new) /\ \A i \in 1 .. Len(new) : Sound(u, new[i])
  <2>1. <<op>> \in Seq(Op) /\ Len(<<op>>) = 1 /\ <<op>>[1] = op
    BY <1>4 DEF Sound
  <2>2. \A i \in 1 .. Len(<<op>>) : Sound(u, <<op>>[i])
    <3> SUFFICES ASSUME NEW i \in 1 .. Len(<<op>>) PROVE Sound(u, <<op>>[i])
      OBVIOUS
    <3>1. i = 1
      BY <2>1
    <3> QED
      BY <3>1, <2>1, <1>4
  <2> QED
    BY <2>1, <2>2, <1>4
<1>5. CASE Enter(u)
  BY <1>1, <1>2, <1>4, <1>5 DEF Enter
<1>6. CASE Backspace(u)
  BY <1>3, <1>4, <1>6 DEF Backspace
<1>7. CASE Check(u)
  BY <1>3, <1>4, <1>7 DEF Check
<1>8. CASE Paste(u)
  <2>0. PICK at \in Here(u), empty \in BOOLEAN, k \in 1 .. MaxPaste :
          \E ids \in [1 .. k -> Fresh] :
            Edit(u, [i \in 1 .. k |-> Insert(u, ids[i], IF i = 1 THEN at ELSE ids[i - 1])]
                    \o IF empty THEN <<OnBlock(u, "delete", at)>> ELSE <<>>)
    BY <1>8 DEF Paste
  <2>1. PICK ids \in [1 .. k -> Fresh] :
          Edit(u, [i \in 1 .. k |-> Insert(u, ids[i], IF i = 1 THEN at ELSE ids[i - 1])]
                  \o IF empty THEN <<OnBlock(u, "delete", at)>> ELSE <<>>)
    BY <2>0
  <2> DEFINE inserts == [i \in 1 .. k |-> Insert(u, ids[i], IF i = 1 THEN at ELSE ids[i - 1])]
             deletes == IF empty THEN <<OnBlock(u, "delete", at)>> ELSE <<>>
  <2>2. k \in Nat
    BY StoreAssumption
  <2>3. \A i \in 1 .. k : Sound(u, Insert(u, ids[i], IF i = 1 THEN at ELSE ids[i - 1]))
    <3> SUFFICES ASSUME NEW i \in 1 .. k
                 PROVE  Sound(u, Insert(u, ids[i], IF i = 1 THEN at ELSE ids[i - 1]))
      OBVIOUS
    <3>1. ids[i] \in Blocks /\ (i # 1 => ids[i - 1] \in Blocks) /\ at \in Blocks
      BY <1>1, <2>2
    <3> QED
      BY <3>1, <1>2
  <2>4. inserts \in Seq(Op) /\ Len(inserts) = k /\ \A i \in 1 .. k : Sound(u, inserts[i])
    <3>1. \A i \in 1 .. k : inserts[i] \in Op /\ Sound(u, inserts[i])
      BY <2>3 DEF Sound
    <3>2. inserts \in [1 .. k -> Op]
      BY <3>1
    <3> HIDE DEF inserts
    <3> QED
      BY <3>1, <3>2, <2>2
  <2>5. deletes \in Seq(Op) /\ \A i \in 1 .. Len(deletes) : Sound(u, deletes[i])
    <3>1. CASE empty
      <4>1. Sound(u, OnBlock(u, "delete", at))
        BY <1>3
      <4> DEFINE op == OnBlock(u, "delete", at)
      <4>2. Sound(u, op) /\ deletes = <<op>>
        BY <3>1, <4>1
      <4> HIDE DEF op, deletes
      <4>3. deletes \in Seq(Op) /\ Len(deletes) = 1 /\ deletes[1] = op
        BY <4>2 DEF Sound
      <4> QED
        BY <4>2, <4>3
    <3>2. CASE ~empty
      BY <3>2
    <3> QED
      BY <3>1, <3>2
  <2> HIDE DEF inserts, deletes
  <2> DEFINE new == inserts \o deletes
  <2>6. /\ new \in Seq(Op) /\ Len(new) = Len(inserts) + Len(deletes)
        /\ \A i \in 1 .. Len(inserts) : new[i] = inserts[i]
        /\ \A i \in 1 .. Len(deletes) : new[Len(inserts) + i] = deletes[i]
    <3>1. inserts \in Seq(Op) /\ deletes \in Seq(Op)
      BY <2>4, <2>5
    <3> QED
      BY <3>1
  <2>7. ASSUME NEW i \in 1 .. Len(new) PROVE Sound(u, new[i])
    <3> HIDE DEF new
    <3>1. Len(inserts) \in Nat /\ Len(deletes) \in Nat /\ i \in 1 .. Len(inserts) + Len(deletes)
      BY <2>4, <2>5, <2>6
    <3>2. CASE i <= Len(inserts)
      <4>1. i \in 1 .. Len(inserts)
        BY <3>1, <3>2
      <4> QED
        BY <4>1, <2>4, <2>6
    <3>3. CASE i > Len(inserts)
      <4>1. (i - Len(inserts)) \in 1 .. Len(deletes) /\ Len(inserts) + (i - Len(inserts)) = i
        BY <3>1, <3>3
      <4> QED
        BY <4>1, <2>5, <2>6
    <3> QED
      BY <3>1, <3>2, <3>3
  <2>8. Edit(u, new)
    BY <2>1 DEF inserts, deletes
  <2> QED
    BY <2>6, <2>7, <2>8
<1> QED
  BY <1>5, <1>6, <1>7, <1>8 DEF User

\* What the event makes of the page, with its operations last in ops and pending.
Made(u, new) ==
  /\ Extended /\ Len(ops') = Len(ops) + Len(new)
  /\ \A i \in 1 .. Len(new) : ops'[Len(ops) + i] = new[i]
  /\ pages' = [pages EXCEPT ![u] = pages'[u]]
  /\ pages'[u].seen = pages[u].seen /\ pages'[u].open = pages[u].open
  /\ pages'[u].pending \in Seq(1 .. Len(ops'))
  /\ Len(pages'[u].pending) = Len(pages[u].pending) + Len(new)
  /\ \A k \in 1 .. Len(pages[u].pending) : pages'[u].pending[k] = pages[u].pending[k]
  /\ \A i \in 1 .. Len(new) : pages'[u].pending[Len(pages[u].pending) + i] = Len(ops) + i
  /\ \A b \in Blocks :
       \/ pages'[u].blocks[b] = pages[u].blocks[b]
       \/ \E i \in 1 .. Len(new) :
            new[i].block = b /\ pages'[u].blocks[b] = Local(pages[u].blocks[b], new[i], Len(ops) + i)
  /\ pages'[u] \in Page'

LEMMA Rewritten ==
  ASSUME NEW page \in Page, NEW blocks, NEW pending
  PROVE  LET new == [page EXCEPT !.blocks = blocks, !.pending = pending] IN
         /\ new.blocks = blocks /\ new.pending = pending
         /\ new.open = page.open /\ new.seen = page.seen
  BY DEF Page

LEMMA RewrittenPage ==
  ASSUME NEW N, NEW page \in [blocks : [Blocks -> Block], pending : Seq(N), open : BOOLEAN,
                             seen : 0 .. Len(stream)],
         NEW blocks \in [Blocks -> Block], NEW pending \in Seq(N)
  PROVE  [page EXCEPT !.blocks = blocks, !.pending = pending]
           \in [blocks : [Blocks -> Block], pending : Seq(N), open : BOOLEAN,
               seen : 0 .. Len(stream)]
  OBVIOUS

LEMMA EditMakes ==
  ASSUME TypeOK, NEW u \in Pages, NEW new \in Seq(Op), Edit(u, new)
  PROVE  Made(u, new) /\ frames' = frames (+) Flush(pages[u], pages'[u])
         /\ UNCHANGED <<rows, stream, answers, refused, faults>>
<1> DEFINE numbers == [i \in 1 .. Len(new) |-> ClientSeq(i)]
           N == 1 .. Len(ops) + Len(new)
           page == [pages[u] EXCEPT !.blocks = Edited(u, new), !.pending = @ \o numbers]
<1>1. /\ Len(ops) \in Nat /\ Len(new) \in Nat /\ \A i \in 1 .. Len(new) : new[i] \in Op
      /\ DOMAIN new = 1 .. Len(new) /\ ops \in Seq(Op)
  BY Entries DEF TypeOK
<1>2. /\ ops' = ops \o new /\ frames' = frames (+) Flush(pages[u], page)
      /\ pages' = [pages EXCEPT ![u] = page]
      /\ UNCHANGED <<rows, stream, answers, refused, faults>>
  BY DEF Edit, server
<1>3. pages'[u] = page
  BY <1>2 DEF TypeOK
<1>4. /\ page.blocks = Edited(u, new) /\ page.pending = pages[u].pending \o numbers
      /\ page.seen = pages[u].seen /\ page.open = pages[u].open
  <2> DEFINE pending == pages[u].pending \o numbers
  <2> HIDE DEF pending
  <2>1. page = [pages[u] EXCEPT !.blocks = Edited(u, new), !.pending = pending]
    BY DEF pending
  <2>2. pages[u] \in Page
    BY DEF TypeOK
  <2> HIDE DEF page
  <2>3. /\ page.blocks = Edited(u, new) /\ page.pending = pending
        /\ page.seen = pages[u].seen /\ page.open = pages[u].open
    BY <2>1, <2>2, Rewritten
  <2> QED
    BY <2>3 DEF pending
<1> HIDE DEF page
<1>5. /\ ops' \in Seq(Op) /\ Len(ops') = Len(ops) + Len(new)
      /\ \A n \in 1 .. Len(ops) : ops'[n] = ops[n]
      /\ \A i \in 1 .. Len(new) : ops'[Len(ops) + i] = new[i]
  <2>1. ops \in Seq(Op) /\ new \in Seq(Op)
    BY <1>1
  <2>2. /\ ops \o new \in Seq(Op) /\ Len(ops \o new) = Len(ops) + Len(new)
        /\ \A n \in 1 .. Len(ops) : (ops \o new)[n] = ops[n]
        /\ \A i \in 1 .. Len(new) : (ops \o new)[Len(ops) + i] = new[i]
    BY <2>1
  <2> QED
    BY <2>2, <1>2
<1>6. 1 .. Len(ops) \subseteq N /\ N = 1 .. Len(ops') /\ Numbers = 1 .. Len(ops)
  BY <1>1, <1>5 DEF Numbers
<1>7. Extended
  <2>1. stream \in Seq([op : 1 .. Len(ops), ver : Nat])
    BY <1>6 DEF TypeOK
  <2>2. [op : 1 .. Len(ops), ver : Nat] \subseteq [op : N, ver : Nat]
    BY <1>6
  <2>3. stream \in Seq([op : N, ver : Nat])
    BY <2>1, <2>2, Widened
  <2>4. stream' \in Seq([op : 1 .. Len(ops'), ver : Nat])
    BY <1>2, <1>6, <2>3
  <2> QED
    BY <1>1, <1>2, <1>5, <2>4, Entries DEF Extended
<1>8. /\ numbers \in Seq(N) /\ Len(numbers) = Len(new)
      /\ \A i \in 1 .. Len(new) : numbers[i] = Len(ops) + i
  <2>1. \A i \in 1 .. Len(new) : ClientSeq(i) = Len(ops) + i /\ ClientSeq(i) \in N
    BY <1>1 DEF ClientSeq
  <2>2. numbers \in [1 .. Len(new) -> N] /\ \A i \in 1 .. Len(new) : numbers[i] = Len(ops) + i
    BY <2>1
  <2> HIDE DEF numbers
  <2> QED
    BY <2>2, <1>1
<1> HIDE DEF numbers
<1>9. /\ page.pending \in Seq(N) /\ Len(page.pending) = Len(pages[u].pending) + Len(new)
      /\ \A k \in 1 .. Len(pages[u].pending) : page.pending[k] = pages[u].pending[k]
      /\ \A i \in 1 .. Len(new) : page.pending[Len(pages[u].pending) + i] = Len(ops) + i
  <2> DEFINE old == pages[u].pending
  <2>1. old \in Seq(N)
    BY <1>6, Parts, Widened
  <2> HIDE DEF old, N
  <2>2. /\ old \o numbers \in Seq(N) /\ Len(old \o numbers) = Len(old) + Len(new)
        /\ \A k \in 1 .. Len(old) : (old \o numbers)[k] = old[k]
        /\ \A i \in 1 .. Len(new) : (old \o numbers)[Len(old) + i] = numbers[i]
    <3>1. old \in Seq(N) /\ numbers \in Seq(N)
      BY <2>1, <1>8
    <3>2. /\ old \o numbers \in Seq(N) /\ Len(old \o numbers) = Len(old) + Len(numbers)
          /\ \A k \in 1 .. Len(old) : (old \o numbers)[k] = old[k]
          /\ \A i \in 1 .. Len(numbers) : (old \o numbers)[Len(old) + i] = numbers[i]
      BY <3>1
    <3> QED
      BY <3>2, <1>8
  <2> QED
    BY <2>2, <1>4, <1>8 DEF old
<1>10. ASSUME NEW b \in Blocks
       PROVE  \/ page.blocks[b] = pages[u].blocks[b]
              \/ \E i \in 1 .. Len(new) :
                   new[i].block = b /\ page.blocks[b] = Local(pages[u].blocks[b], new[i], Len(ops) + i)
  <2>1. CASE \E i \in DOMAIN new : new[i].block = b
    <3> DEFINE i == CHOOSE i \in DOMAIN new : new[i].block = b
    <3>1. i \in DOMAIN new /\ new[i].block = b
      BY <2>1
    <3>2. page.blocks[b] = Local(pages[u].blocks[b], new[i], ClientSeq(i))
      BY <1>4, <2>1 DEF Edited
    <3> HIDE DEF i
    <3>3. i \in 1 .. Len(new)
      BY <3>1, <1>1
    <3> QED
      BY <3>1, <3>2, <3>3 DEF ClientSeq
  <2>2. CASE ~\E i \in DOMAIN new : new[i].block = b
    BY <1>4, <2>2 DEF Edited
  <2> QED
    BY <2>1, <2>2
<1>11. page.blocks \in [Blocks -> Block]
  <2>1. DOMAIN page.blocks = Blocks /\ page.blocks = [b \in Blocks |-> page.blocks[b]]
    BY <1>4 DEF Edited
  <2>2. ASSUME NEW b \in Blocks PROVE page.blocks[b] \in Block
    <3>1. pages[u].blocks[b] \in Block
      BY Parts
    <3>2. CASE page.blocks[b] = pages[u].blocks[b]
      BY <3>1, <3>2
    <3>3. CASE \E i \in 1 .. Len(new) : page.blocks[b] = Local(pages[u].blocks[b], new[i], Len(ops) + i)
      <4>1. PICK i \in 1 .. Len(new) : page.blocks[b] = Local(pages[u].blocks[b], new[i], Len(ops) + i)
        BY <3>3
      <4>2. new[i].kind \in {"insert", "delete", "attrs"} /\ Len(ops) + i \in Nat
        BY <1>1 DEF Op
      <4> QED
        BY <4>1, <4>2, <3>1 DEF Local, Gone, Block
    <3> QED
      BY <1>10, <3>2, <3>3
  <2> QED
    BY <2>1, <2>2
<1>12. page \in Page'
  <2> DEFINE pending == pages[u].pending \o numbers
  <2>1. page = [pages[u] EXCEPT !.blocks = Edited(u, new), !.pending = pending]
    BY DEF page
  <2>2. pending = page.pending
    BY <1>4
  <2> HIDE DEF pending
  <2>3. pending \in Seq(Numbers') /\ Edited(u, new) \in [Blocks -> Block]
    BY <2>2, <1>4, <1>6, <1>9, <1>11 DEF Numbers
  <2>4. pages[u] \in Page'
    BY <1>7, Kept DEF TypeOK
  <2>5. Page' = [blocks : [Blocks -> Block], pending : Seq(Numbers'), open : BOOLEAN,
                 seen : 0 .. Len(stream)]
    BY <1>2 DEF Page
  <2>6. [pages[u] EXCEPT !.blocks = Edited(u, new), !.pending = pending]
          \in [blocks : [Blocks -> Block], pending : Seq(Numbers'), open : BOOLEAN,
              seen : 0 .. Len(stream)]
    BY <2>3, <2>4, <2>5, RewrittenPage
  <2> QED
    BY <2>1, <2>5, <2>6
<1>13. pages' = [pages EXCEPT ![u] = pages'[u]]
  BY <1>2, <1>3
<1>14. page.pending \in Seq(1 .. Len(ops'))
  BY <1>6, <1>9
<1> HIDE DEF N
<1>15. Made(u, new)
  BY <1>3, <1>4, <1>5, <1>7, <1>9, <1>10, <1>12, <1>13, <1>14, Zenon DEF Made
<1> QED
  BY <1>2, <1>3, <1>15

-----------------------------------------------------------------------------
(* What the steps have in common.                                          *)

LEMMA TypeNext ==
  ASSUME TypeOK, Extended,
         pages' \in [Pages -> Page'], \A u \in Pages : IsInjective(pages'[u].pending),
         Bagged(frames', Frame'), Bagged(answers', Answer'),
         rows' \in [Blocks -> Block], refused' \subseteq Pages \X Blocks,
         faults' \in 0 .. MaxFaults
  PROVE  TypeOK'
  BY DEF TypeOK, Extended, Bagged, Numbers

LEMMA BagsKept ==
  ASSUME TypeOK, Extended
  PROVE  /\ Bagged(frames, Frame) /\ Bagged(answers, Answer)
         /\ Bagged(frames, Frame') /\ Bagged(answers, Answer')
<1>1. Bagged(frames, Frame) /\ Bagged(answers, Answer)
  BY DEF TypeOK, Bagged
<1> QED
  BY <1>1, Kept DEF Bagged

\* Nothing is applied: the rows and the stream stay as they are.
LEMMA ServerKept ==
  ASSUME SInv, Extended, UNCHANGED <<rows, stream>>
  PROVE  RowsShow' /\ AttrsHaveBlock' /\ AllSuperseded' /\ RepeatsNeedDelete'
<1> USE DEF SInv
<1>1. Len(stream) \in Nat
  BY Entries
<1>2. RowsShow'
  <2>1. \A b \in Blocks : Shows(rows[b], b, Len(stream))' <=> Shows(rows[b], b, Len(stream))
    BY <1>1, ShowsKept
  <2> QED
    BY <2>1 DEF RowsShow
<1>3. AttrsHaveBlock'
  <2> SUFFICES ASSUME NEW i \in 1 .. Len(stream), Subject(i)'.kind = "attrs",
                      NEW r \in Block, Shows(r, Subject(i).block, i - 1)'
               PROVE  r.present
    BY DEF AttrsHaveBlock
  <2>1. Subject(i)' = Subject(i) /\ i - 1 \in 0 .. Len(stream)
    BY <1>1, SubjectKept
  <2>2. Shows(r, Subject(i).block, i - 1)
    BY <2>1, ShowsKept
  <2> QED
    BY <2>1, <2>2 DEF AttrsHaveBlock
<1>4. AllSuperseded'
  <2> SUFFICES ASSUME NEW i \in 1 .. Len(stream) PROVE Superseded(i)'
    BY DEF AllSuperseded
  <2>1. Superseded(i) /\ Subject(i)' = Subject(i)
    BY SubjectKept DEF AllSuperseded
  <2>2. \A b : DeletedAfter(i, b) => DeletedAfter(i, b)'
    BY SubjectKept DEF DeletedAfter
  <2> QED
    BY <2>1, <2>2 DEF Superseded
<1>5. RepeatsNeedDelete'
  <2> SUFFICES ASSUME NEW i \in 1 .. Len(stream), NEW j \in 1 .. Len(stream),
                      i < j, stream[i].op = stream[j].op
               PROVE  \E k \in i .. j : Subject(k)'.kind = "delete"
                                        /\ Subject(k)'.block = Subject(i)'.block
    <3>1. DOMAIN stream = 1 .. Len(stream)
      BY DEF TypeOK
    <3> QED
      BY <3>1 DEF RepeatsNeedDelete, Subject
  <2>1. PICK k \in i .. j : Subject(k).kind = "delete" /\ Subject(k).block = Subject(i).block
    <3>1. DOMAIN stream = 1 .. Len(stream)
      BY DEF TypeOK
    <3> QED
      BY <3>1 DEF RepeatsNeedDelete, Subject
  <2>2. k \in 1 .. Len(stream)
    BY <1>1
  <2> QED
    BY <2>1, <2>2, SubjectKept
<1> QED
  BY <1>2, <1>3, <1>4, <1>5

\* An operation explains what it did as long as the page has received no more,
\* awaits it still or finds it ahead, and has the block still.
LEMMA ExplainsKept ==
  ASSUME TypeOK, Extended, NEW u \in Pages, NEW b \in Blocks, NEW n \in 1 .. Len(ops),
         Explains(u, b, n), pages'[u].seen = pages[u].seen,
         pages[u].blocks[b].present => pages'[u].blocks[b].present,
         Pending(u, n) => Pending(u, n)' \/ Ahead(u, n)
  PROVE  n \in 1 .. Len(ops') /\ Explains(u, b, n)'
<1>1. n \in 1 .. Len(ops') /\ ops'[n] = ops[n]
  BY Entries DEF Extended
<1>2. /\ Len(stream) \in Nat /\ Len(stream') \in Nat /\ Len(stream') >= Len(stream)
      /\ pages[u].seen \in 0 .. Len(stream)
  <2>1. Len(stream) \in Nat /\ Len(stream') \in Nat /\ Len(stream') >= Len(stream)
    BY Entries, Elements DEF Extended
  <2>2. pages[u].seen \in 0 .. Len(stream)
    BY Parts
  <2> QED
    BY <2>1, <2>2
<1>3. \A i \in 1 .. Len(stream) : stream'[i].op = stream[i].op
  BY SubjectKept
<1>4. Behind(u, n)' => Behind(u, n)
  BY <1>2, <1>3 DEF Behind
<1>5. Ahead(u, n) => Ahead(u, n)'
  BY <1>2, <1>3 DEF Ahead
<1> QED
  BY <1>1, <1>4, <1>5 DEF Explains

\* A page of which nothing has changed but what it awaits no longer needs.
LEMMA ExplainedKept ==
  ASSUME SInv, Extended, NEW u \in Pages, NEW b \in Blocks, refused \subseteq refused',
         pages'[u].seen = pages[u].seen,
         pages'[u].blocks[b].present = pages[u].blocks[b].present,
         pages[u].blocks[b].present => pages'[u].blocks[b].val = pages[u].blocks[b].val,
         <<u, b>> \notin refused' =>
           \A n \in 1 .. Len(ops) : ops[n].block = b /\ Pending(u, n) /\ ~Behind(u, n)
                                    => Pending(u, n)' \/ Ahead(u, n)
  PROVE  Explained(u, b)'
<1>1. TypeOK /\ Explained(u, b)
  BY DEF SInv, AllExplained
<1>2. CASE <<u, b>> \in refused'
  BY <1>2 DEF Explained
<1>3. CASE <<u, b>> \notin refused' /\ Shows(pages[u].blocks[b], b, pages[u].seen)
  <2>1. Shows(pages'[u].blocks[b], b, pages[u].seen)
    BY <1>3 DEF Shows, Is
  <2>2. pages[u].seen \in 0 .. Len(stream)
    BY <1>1, Parts
  <2>3. Shows(pages[u].blocks[b], b, pages[u].seen)'
    BY <1>1, <2>1, <2>2, ShowsKept
  <2> QED
    BY <2>3 DEF Explained
<1>4. ASSUME <<u, b>> \notin refused', NEW n \in 1 .. Len(ops), Explains(u, b, n)
      PROVE  Explained(u, b)'
  <2>1. Pending(u, n) => Pending(u, n)' \/ Ahead(u, n)
    BY <1>4 DEF Explains
  <2>2. n \in 1 .. Len(ops') /\ Explains(u, b, n)'
    BY <1>1, <1>4, <2>1, ExplainsKept
  <2> QED
    BY <2>2 DEF Explained
<1> QED
  BY <1>1, <1>2, <1>3, <1>4 DEF Explained

-----------------------------------------------------------------------------
(* The steps.                                                              *)

LEMMA EditStep ==
  ASSUME SInv, NEW u \in Pages, User(u)
  PROVE  SInv'
<1>1. TypeOK /\ AllExplained
  BY DEF SInv
<1>2. PICK new \in Seq(Op) : Edit(u, new) /\ \A i \in 1 .. Len(new) : Sound(u, new[i])
  BY <1>1, UserEdits
<1>3. /\ Made(u, new) /\ frames' = frames (+) Flush(pages[u], pages'[u])
      /\ UNCHANGED <<rows, stream, answers, refused, faults>>
  BY <1>1, <1>2, EditMakes
<1>4. /\ Extended /\ Len(ops) \in Nat /\ Len(new) \in Nat /\ Len(ops') = Len(ops) + Len(new)
      /\ pages \in [Pages -> Page] /\ pages' = [pages EXCEPT ![u] = pages'[u]]
      /\ pages'[u] \in Page'
  BY <1>1, <1>3, Entries DEF Made, TypeOK
<1>5. pages' \in [Pages -> Page'] /\ \A v \in Pages \ {u} : pages'[v] = pages[v]
  BY <1>1, <1>4, Kept
<1>6. Len(pages[u].pending) \in Nat /\ \A k \in 1 .. Len(pages[u].pending) :
        pages[u].pending[k] \in 1 .. Len(ops)
  <2>1. pages[u].pending \in Seq(Numbers)
    BY <1>1, Parts
  <2> QED
    BY <2>1, Elements DEF Numbers
<1>7. \A v \in Pages : IsInjective(pages'[v].pending)
  <2>1. \A v \in Pages : IsInjective(pages[v].pending)
    BY <1>1, Parts
  <2> DEFINE old == pages[u].pending
             now == pages'[u].pending
  <2>2. /\ Len(now) = Len(old) + Len(new) /\ DOMAIN now = 1 .. Len(now) /\ DOMAIN old = 1 .. Len(old)
        /\ \A k \in 1 .. Len(old) : now[k] = old[k]
        /\ \A i \in 1 .. Len(new) : now[Len(old) + i] = Len(ops) + i
    <3>1. old \in Seq(Numbers) /\ now \in Seq(1 .. Len(ops'))
      BY <1>1, <1>3, Parts DEF Made
    <3>2. DOMAIN now = 1 .. Len(now) /\ DOMAIN old = 1 .. Len(old)
      BY <3>1
    <3> QED
      BY <3>2, <1>3 DEF Made
  <2>3. \A a, b \in 1 .. Len(old) : old[a] = old[b] => a = b
    BY <2>1, <2>2 DEF IsInjective
  <2>4. Len(old) \in Nat /\ \A k \in 1 .. Len(old) : old[k] \in 1 .. Len(ops)
    BY <1>6
  <2> HIDE DEF old, now
  <2>5. \A k \in 1 .. Len(now) : k > Len(old) => now[k] = Len(ops) + (k - Len(old))
    <3> SUFFICES ASSUME NEW k \in 1 .. Len(now), k > Len(old)
                 PROVE  now[k] = Len(ops) + (k - Len(old))
      OBVIOUS
    <3>1. (k - Len(old)) \in 1 .. Len(new) /\ Len(old) + (k - Len(old)) = k
      BY <1>4, <2>2, <2>4
    <3> QED
      BY <3>1, <2>2
  <2>6. \A k \in 1 .. Len(now) : k <= Len(old) => now[k] = old[k] /\ now[k] \in 1 .. Len(ops)
    BY <2>2, <2>4
  <2>7. ASSUME NEW a \in 1 .. Len(now), NEW b \in 1 .. Len(now), now[a] = now[b] PROVE a = b
    <3>1. Len(now) \in Nat /\ Len(ops) \in Nat
      BY <1>4, <2>2, <2>4
    <3>2. CASE a <= Len(old) /\ b <= Len(old)
      BY <2>2, <2>3, <2>4, <2>7, <3>1, <3>2
    <3>3. CASE a > Len(old) /\ b > Len(old)
      BY <2>4, <2>5, <2>7, <3>1, <3>3
    <3>4. CASE ~(a > Len(old) <=> b > Len(old))
      BY <2>4, <2>5, <2>6, <2>7, <3>1, <3>4
    <3> QED
      BY <3>1, <3>2, <3>3, <3>4, <2>4
  <2>8. IsInjective(now)
    BY <2>2, <2>7 DEF IsInjective
  <2> QED
    BY <1>5, <2>1, <2>8 DEF now
<1>8. Bagged(frames', Frame')
  <2>1. pages'[u].pending \in Seq(Numbers')
    BY <1>3 DEF Made, Numbers
  <2>2. Bagged(Flush(pages[u], pages'[u]), Frame')
    <3>1. Frame' = [op : Numbers', live : BOOLEAN]
      BY DEF Frame
    <3>2. Bagged(Flush(pages[u], pages'[u]), [op : Numbers', live : BOOLEAN])
      BY <2>1, Sent
    <3> QED
      BY <3>1, <3>2
  <2> QED
    BY <1>1, <1>3, <1>4, <2>2, BagsKept, BagJoined
<1>9. TypeOK'
  <2>1. Bagged(answers', Answer')
    BY <1>1, <1>3, <1>4, BagsKept
  <2>2. rows' \in [Blocks -> Block] /\ refused' \subseteq Pages \X Blocks /\ faults' \in 0 .. MaxFaults
    BY <1>1, <1>3 DEF TypeOK
  <2> QED
    BY <1>1, <1>4, <1>5, <1>7, <1>8, <2>1, <2>2, TypeNext
<1>10. ASSUME NEW v \in Pages, NEW b \in Blocks PROVE Explained(v, b)'
  <2>1. CASE v # u
    <3>1. pages'[v] = pages[v]
      BY <1>5, <2>1
    <3>2. \A n : Pending(v, n) => Pending(v, n)'
      BY <3>1 DEF Pending
    <3> QED
      BY <1>3, <1>4, <3>1, <3>2, ExplainedKept
  <2>2. CASE v = u /\ pages'[u].blocks[b] = pages[u].blocks[b]
    <3>1. \A n : Pending(u, n) => Pending(u, n)'
      <4>1. \A k \in 1 .. Len(pages[u].pending) :
              k \in 1 .. Len(pages'[u].pending) /\ pages'[u].pending[k] = pages[u].pending[k]
        BY <1>3, <1>4, <1>6 DEF Made
      <4> QED
        BY <4>1 DEF Pending, Has
    <3>2. pages'[u].seen = pages[u].seen
      BY <1>3 DEF Made
    <3> QED
      BY <1>3, <1>4, <2>2, <3>1, <3>2, ExplainedKept
  <2>3. CASE v = u /\ pages'[u].blocks[b] # pages[u].blocks[b]
    <3>1. PICK i \in 1 .. Len(new) :
            /\ new[i].block = b
            /\ pages'[u].blocks[b] = Local(pages[u].blocks[b], new[i], Len(ops) + i)
      BY <1>3, <2>3 DEF Made
    <3>0. PICK n \in Nat : n = Len(ops) + i
      BY <1>4
    <3>2. n \in 1 .. Len(ops') /\ ops'[n] = new[i]
      BY <3>0, <1>3, <1>4 DEF Made
    <3>3. ops'[n].kind = "attrs" => pages'[u].blocks[b].present
      <4>1. pages[u].blocks[b] \in Block
        BY <1>1, Parts
      <4>2. new[i].kind = "attrs" => pages[u].blocks[b].present
        BY <1>2, <3>1 DEF Sound
      <4> QED
        BY <3>1, <3>2, <4>1, <4>2 DEF Local, Block
    <3>4. ~Behind(u, n)'
      <4>0. stream' = stream /\ Len(ops) \in Nat
        BY <1>3, <1>4
      <4>1. pages'[u].seen \in 0 .. Len(stream) /\ Len(stream) \in Nat
        BY <1>1, <1>3, Entries, Parts DEF Made
      <4>2. \A j \in 1 .. Len(stream) : stream[j].op \in 1 .. Len(ops)
        BY <1>1, Entries
      <4>3. n > Len(ops)
        BY <3>0, <1>4
      <4> QED
        BY <4>0, <4>1, <4>2, <4>3 DEF Behind
    <3>5. Pending(u, n)'
      <4>1. /\ Len(pages[u].pending) + i \in 1 .. Len(pages'[u].pending)
            /\ pages'[u].pending[Len(pages[u].pending) + i] = n
        BY <3>0, <1>3, <1>4, <1>6 DEF Made
      <4> QED
        BY <4>1 DEF Pending, Has
    <3>6. Explains(u, b, n)'
      BY <3>1, <3>2, <3>3, <3>4, <3>5 DEF Explains
    <3> QED
      BY <2>3, <3>2, <3>6 DEF Explained
  <2> QED
    BY <2>1, <2>2, <2>3
<1> QED
  BY <1>3, <1>4, <1>9, <1>10, ServerKept DEF SInv, AllExplained

LEMMA Replied ==
  ASSUME TypeOK, Extended, ops' = ops, NEW f \in BagToSet(frames), NEW kind \in {"ack", "nack"},
         NEW ver \in Nat, Reply(f, kind, ver)
  PROVE  Bagged(answers', Answer')
<1>1. f.op \in Numbers /\ ops[f.op].by \in Pages
  BY Parts DEF Op
<1> DEFINE a == [page |-> ops[f.op].by, op |-> f.op, kind |-> kind, ver |-> ver]
<1>2. a \in Answer
  BY <1>1 DEF Answer
<1>3. answers' = answers (+) SetToBag({a}) \/ answers' = answers
  BY DEF Reply
<1> HIDE DEF a
<1>4. a \in Answer' /\ Bagged(answers, Answer')
  BY <1>2, Kept, BagsKept
<1>5. {a} \subseteq Answer'
  BY <1>4
<1>6. Bagged(SetToBag({a}), Answer')
  BY <1>5, BagOfSet
<1> QED
  BY <1>3, <1>4, <1>6, BagJoined

LEMMA FrameTaken ==
  ASSUME TypeOK, Extended, NEW f
  PROVE  Bagged(frames (-) SetToBag({f}), Frame')
<1>1. IsABag(SetToBag({f}))
  BY BagOfSet DEF Bagged
<1> QED
  BY <1>1, BagsKept, BagLeft

LEMMA ApplyStep ==
  ASSUME SInv, NEW f \in BagToSet(frames), Apply(f), NEW kind \in {"ack", "nack"}, NEW ver \in Nat, Reply(f, kind, ver),
         faults' \in 0 .. MaxFaults
  PROVE  SInv'
<1>1. TypeOK
  BY DEF SInv
<1>L. PICK L \in Nat : L = Len(stream)
  BY <1>1, Entries
<1>op. PICK op \in Op : op = ops[f.op]
  BY <1>1, Parts
<1>2. /\ f.op \in 1 .. Len(ops) /\ op.block \in Blocks
      /\ rows \in [Blocks -> Block]
  BY <1>1, Parts DEF Numbers, Op, TypeOK
<1>3. /\ Applies(op) /\ frames' = frames (-) SetToBag({f})
      /\ stream' = Append(stream, [op |-> f.op, ver |-> NewVersion(op)])
      /\ ops' = ops /\ pages' = pages /\ refused' = refused
      /\ rows' = [rows EXCEPT ![op.block] =
                    IF op.kind = "delete" THEN Gone
                    ELSE [present |-> TRUE, val |-> f.op, ver |-> NewVersion(op)]]
  BY <1>op DEF Apply
<1>4. Row(op) = rows[op.block] /\ Row(op) \in Block /\ NewVersion(op) \in Nat
  BY <1>2 DEF Row, NewVersion, Block
<1>5. /\ Len(stream') = L + 1 /\ \A i \in 1 .. L : stream'[i] = stream[i]
      /\ stream'[L + 1] = [op |-> f.op, ver |-> NewVersion(op)]
      /\ stream' \in Seq([op : 1 .. Len(ops'), ver : Nat])
  <2>1. stream \in Seq([op : 1 .. Len(ops), ver : Nat])
    BY <1>1 DEF TypeOK, Numbers
  <2>2. [op |-> f.op, ver |-> NewVersion(op)] \in [op : 1 .. Len(ops), ver : Nat]
    BY <1>2, <1>4
  <2> QED
    BY <1>3, <2>1, <2>2, Appended, <1>L
<1>6. Extended
  <2>1. ops \in Seq(Op) /\ Len(ops) \in Nat
    BY <1>1, Entries DEF TypeOK
  <2> QED
    BY <2>1, <1>2, <1>3, <1>5, <1>L DEF Extended
<1>7. Subject(L + 1)' = op /\ stream'[L + 1].op = f.op
  BY <1>3, <1>5, <1>op DEF Subject
<1>8. \A b \in Blocks \ {op.block} : rows'[b] = rows[b]
  BY <1>2, <1>3
<1>9. /\ op.kind = "delete" => rows'[op.block] = Gone
      /\ op.kind # "delete" => rows'[op.block] = [present |-> TRUE, val |-> f.op, ver |-> NewVersion(op)]
  BY <1>2, <1>3
<1>10. TypeOK'
  <2>1. rows' \in [Blocks -> Block]
    <3>1. rows'[op.block] \in Block
      <4>1. CASE op.kind = "delete"
        <5>1. rows'[op.block] = Gone
          BY <1>9, <4>1
        <5> QED
          BY <5>1 DEF Gone, Block
      <4>2. CASE op.kind # "delete"
        <5>1. rows'[op.block] = [present |-> TRUE, val |-> f.op, ver |-> NewVersion(op)]
          BY <1>9, <4>2
        <5>2. f.op \in Nat /\ NewVersion(op) \in Nat
          BY <1>2, <1>4
        <5> QED
          BY <5>1, <5>2 DEF Block
      <4> QED
        BY <4>1, <4>2
    <3> QED
      BY <1>2, <1>3, <3>1
  <2>2. Bagged(frames', Frame') /\ Bagged(answers', Answer')
    BY <1>1, <1>3, <1>6, FrameTaken, Replied
  <2>3. pages' \in [Pages -> Page'] /\ \A u \in Pages : IsInjective(pages'[u].pending)
    BY <1>1, <1>3, <1>6, Kept, Parts DEF TypeOK
  <2>4. refused' \subseteq Pages \X Blocks
    BY <1>1, <1>3 DEF TypeOK
  <2> QED
    BY <1>1, <1>6, <2>1, <2>2, <2>3, <2>4, TypeNext
<1>11. /\ \A b, i : i \in 1 .. L => Subject(i)' = Subject(i) /\ (On(b, i)' <=> On(b, i))
       /\ \A r, b, k : k \in 0 .. L => (Shows(r, b, k)' <=> Shows(r, b, k))
  BY <1>1, <1>6, SubjectKept, ShowsKept, <1>L
<1>12. \A b : On(b, L + 1)' <=> b = op.block
  BY <1>7 DEF On
<1>13. RowsShow'
  <2> SUFFICES ASSUME NEW b \in Blocks PROVE Shows(rows[b], b, L + 1)'
    BY <1>5 DEF RowsShow
  <2>1. CASE b # op.block
    <3>1. Shows(rows[b], b, L)
      BY <1>L DEF SInv, RowsShow
    <3>2. Shows(rows'[b], b, L)
      BY <1>8, <2>1, <3>1
    <3>3. Shows(rows[b], b, L)'
      BY <1>2, <1>11, <3>2
    <3> QED
      BY <1>2, <1>12, <2>1, <3>3, ShowsNext
  <2>2. CASE b = op.block
    <3>1. Is(rows'[b], op.kind # "delete", f.op)
      <4>1. CASE op.kind = "delete"
        <5>1. rows'[b] = Gone
          BY <1>9, <2>2, <4>1
        <5>2. rows'[b].present = FALSE
          BY <5>1 DEF Gone
        <5> QED
          BY <4>1, <5>2 DEF Is
      <4>2. CASE op.kind # "delete"
        <5>1. rows'[b] = [present |-> TRUE, val |-> f.op, ver |-> NewVersion(op)]
          BY <1>9, <2>2, <4>2
        <5>2. rows'[b].present = TRUE /\ rows'[b].val = f.op
          BY <5>1
        <5> QED
          BY <4>2, <5>2 DEF Is
      <4> QED
        BY <4>1, <4>2
    <3> QED
      BY <1>2, <1>7, <1>12, <2>2, <3>1, ShowsNext
  <2> QED
    BY <2>1, <2>2
<1>14. rows[op.block] \in Block
  BY <1>2
<1>15. AttrsHaveBlock'
  <2> SUFFICES ASSUME NEW i \in 1 .. L + 1, Subject(i)'.kind = "attrs",
                      NEW r \in Block, Shows(r, Subject(i).block, i - 1)'
               PROVE  r.present
    BY <1>5 DEF AttrsHaveBlock
  <2>1. CASE i <= L
    <3>1. i \in 1 .. L /\ i - 1 \in 0 .. L
      BY <1>L, <2>1
    <3>2. Subject(i)' = Subject(i)
      BY <1>11, <3>1
    <3>3. Shows(r, Subject(i).block, i - 1)
      BY <1>11, <3>1, <3>2
    <3> QED
      BY <1>L, <3>1, <3>2, <3>3 DEF SInv, AttrsHaveBlock
  <2>2. CASE i = L + 1
    <3>1. Subject(i)' = op /\ i - 1 = L /\ L \in 0 .. L
      BY <1>7, <1>L, <2>2
    <3>2. Shows(r, op.block, L) /\ Shows(rows[op.block], op.block, L)
      <4>1. Shows(r, op.block, L)'
        BY <3>1
      <4> QED
        BY <1>2, <1>11, <1>L, <3>1, <4>1 DEF SInv, RowsShow
    <3>3. rows[op.block].present
      BY <1>3, <1>4, <3>1 DEF Applies
    <3> QED
      BY <1>1, <1>14, <1>L, <3>1, <3>2, <3>3, ShowsOne DEF Block
  <2> QED
    BY <1>L, <2>1, <2>2
\* What the new entry does to those before: that of a delete ends them, others are
\* on other blocks or raise the version.
<1>16. ASSUME NEW i \in 1 .. L
       PROVE  Superseded(i)'
  <2>1. Superseded(i) /\ Subject(i)' = Subject(i) /\ Subject(i).block \in Blocks
    BY <1>1, <1>11, <1>L, Entries DEF SInv, AllSuperseded, Op
  <2>b. PICK b \in Blocks : b = Subject(i).block
    BY <2>1
  <2>2. CASE DeletedAfter(i, b)
    <3>1. DeletedAfter(i, b)'
      <4>1. PICK k \in 1 .. L : i < k /\ Subject(k).kind = "delete" /\ On(b, k)
        BY <1>L, <2>2 DEF DeletedAfter
      <4>2. k \in 1 .. Len(stream') /\ Subject(k)'.kind = "delete" /\ On(b, k)'
        <5>1. k \in 1 .. Len(stream')
          BY <1>5
        <5>2. Subject(k)' = Subject(k) /\ (On(b, k)' <=> On(b, k))
          BY <1>11
        <5> QED
          BY <4>1, <5>1, <5>2
      <4> QED
        BY <4>1, <4>2 DEF DeletedAfter
    <3> QED
      BY <2>1, <2>b, <3>1 DEF Superseded
  <2>3. CASE Subject(i).kind = "delete"
    BY <2>1, <2>3 DEF Superseded
  <2>4. CASE rows[b].present /\ (Subject(i).kind = "attrs" => rows[b].ver > Subject(i).ver)
    <3>1. CASE b # op.block
      <4>1. rows'[b] = rows[b]
        BY <1>8, <3>1
      <4> QED
        BY <2>1, <2>b, <2>4, <4>1 DEF Superseded
    <3>2. CASE b = op.block /\ op.kind = "delete"
      <4>1. L + 1 \in 1 .. Len(stream') /\ i < L + 1 /\ Subject(L + 1)'.kind = "delete"
        BY <1>5, <1>7, <3>2
      <4>2. On(b, L + 1)'
        BY <1>12, <3>2
      <4>3. DeletedAfter(i, b)'
        BY <4>1, <4>2 DEF DeletedAfter
      <4> QED
        BY <2>1, <2>b, <4>3 DEF Superseded
    <3>3. CASE b = op.block /\ op.kind # "delete"
      <4>1. op.kind = "attrs"
        BY <1>3, <1>4, <2>4, <3>3 DEF Applies, Op
      <4>2. NewVersion(op) = rows[b].ver + 1
        BY <1>4, <2>4, <3>3, <4>1 DEF NewVersion
      <4>3. rows[b].ver \in Nat /\ Subject(i).ver \in Nat
        BY <1>1, <1>14, <1>L, <3>3, Entries DEF Block, Op
      <4>4. rows'[b].present /\ rows'[b].ver = rows[b].ver + 1
        BY <1>9, <3>3, <4>2
      <4>5. Subject(i).kind = "attrs" => rows'[b].ver > Subject(i).ver
        BY <2>4, <4>3, <4>4
      <4> QED
        BY <2>1, <2>b, <4>4, <4>5 DEF Superseded
    <3> QED
      BY <3>1, <3>2, <3>3
  <2> QED
    BY <2>1, <2>b, <2>2, <2>3, <2>4 DEF Superseded
<1>17. Superseded(L + 1)'
  <2>1. CASE op.kind = "delete"
    BY <1>7, <2>1 DEF Superseded
  <2>2. CASE op.kind = "insert"
    <3>1. rows'[op.block].present
      BY <1>9, <2>2
    <3> QED
      BY <1>7, <2>2, <3>1 DEF Superseded
  <2>3. CASE op.kind = "attrs"
    <3>1. rows[op.block].present /\ rows[op.block].ver = op.ver /\ op.ver \in Nat
      BY <1>3, <1>4, <2>3 DEF Applies, Op
    <3>2. rows'[op.block].present /\ rows'[op.block].ver = op.ver + 1
      BY <1>4, <1>9, <2>3, <3>1 DEF NewVersion
    <3>3. rows'[op.block].ver > op.ver
      BY <3>1, <3>2
    <3> QED
      BY <1>7, <3>2, <3>3 DEF Superseded
  <2> QED
    BY <2>1, <2>2, <2>3 DEF Op
<1>18. AllSuperseded'
  <2>1. \A i \in 1 .. L + 1 : Superseded(i)'
    BY <1>L, <1>16, <1>17
  <2> QED
    BY <1>5, <2>1 DEF AllSuperseded
<1>19. ASSUME NEW i \in 1 .. L + 1, NEW j \in 1 .. L + 1, i < j, stream'[i].op = stream'[j].op
       PROVE  \E k \in i .. j : Subject(k)'.kind = "delete" /\ Subject(k)'.block = Subject(i)'.block
  <2>0. i \in 1 .. L /\ Subject(i)' = Subject(i) /\ stream'[i] = stream[i]
    <3>1. i \in 1 .. L
      BY <1>19
    <3> QED
      BY <1>5, <1>11, <3>1
  <2>1. CASE j <= L
    <3>1. j \in 1 .. L /\ stream'[j] = stream[j] /\ DOMAIN stream = 1 .. L
      BY <1>1, <1>5, <1>L, <2>1 DEF TypeOK
    <3>2. PICK k \in i .. j : Subject(k).kind = "delete" /\ Subject(k).block = Subject(i).block
      BY <1>19, <2>0, <3>1 DEF SInv, RepeatsNeedDelete, Subject
    <3>3. k \in 1 .. L
      BY <2>0, <3>1
    <3> QED
      BY <1>11, <2>0, <3>2, <3>3
  <2>2. CASE j = L + 1
    <3>1. stream[i].op = f.op /\ Subject(i) = op
      BY <1>7, <1>19, <1>op, <2>0, <2>2 DEF Subject
    <3>2. Superseded(i)
      BY <1>L, <2>0 DEF SInv, AllSuperseded
    <3>3. CASE op.kind = "delete"
      BY <2>0, <2>2, <3>1, <3>3
    <3>4. CASE DeletedAfter(i, op.block)
      <4>1. PICK k \in 1 .. L : i < k /\ Subject(k).kind = "delete" /\ Subject(k).block = op.block
        BY <1>L, <3>4 DEF DeletedAfter, On
      <4>2. k \in i .. j
        BY <2>2, <4>1
      <4> QED
        BY <1>11, <2>0, <3>1, <4>1, <4>2
    <3>5. ASSUME op.kind # "delete", rows[op.block].present,
                 op.kind = "attrs" => rows[op.block].ver > op.ver
          PROVE  FALSE
      <4>1. op.kind = "attrs" /\ rows[op.block].ver = op.ver
        BY <1>3, <1>4, <3>5 DEF Applies, Op
      <4>2. op.ver \in Nat
        BY DEF Op
      <4> QED
        BY <3>5, <4>1, <4>2
    <3> QED
      BY <3>1, <3>2, <3>3, <3>4, <3>5 DEF Superseded
  <2> QED
    BY <1>L, <2>1, <2>2
<1>20. RepeatsNeedDelete'
  <2>1. DOMAIN stream' = 1 .. L + 1
    BY <1>5
  <2> QED
    BY <2>1, <1>19 DEF RepeatsNeedDelete, Subject
<1>21. AllExplained'
  <2> SUFFICES ASSUME NEW u \in Pages, NEW b \in Blocks PROVE Explained(u, b)'
    BY DEF AllExplained
  <2>1. \A n : Pending(u, n) => Pending(u, n)'
    BY <1>3 DEF Pending
  <2> QED
    BY <1>3, <1>6, <2>1, ExplainedKept
<1> QED
  BY <1>10, <1>13, <1>15, <1>18, <1>20, <1>21 DEF SInv

\* Steps of one page that make and apply no operation.
LEMMA PageStep ==
  ASSUME SInv, UNCHANGED <<ops, rows, stream>>, NEW u \in Pages, NEW page \in Page,
         IsInjective(page.pending), pages' = [pages EXCEPT ![u] = page],
         Bagged(frames', Frame), Bagged(answers', Answer),
         refused \subseteq refused', refused' \subseteq Pages \X Blocks,
         faults' \in 0 .. MaxFaults,
         \A b \in Blocks : Explained(u, b)'
  PROVE  SInv'
<1>1. TypeOK /\ Extended /\ Page' = Page /\ Frame' = Frame /\ Answer' = Answer
  BY Unextended DEF SInv
<1>2. pages' \in [Pages -> Page] /\ pages'[u] = page /\ \A v \in Pages \ {u} : pages'[v] = pages[v]
  BY <1>1 DEF TypeOK
<1>3. TypeOK'
  <2>1. \A v \in Pages : IsInjective(pages'[v].pending)
    BY <1>1, <1>2, Parts
  <2>2. rows' \in [Blocks -> Block]
    BY <1>1 DEF TypeOK
  <2> QED
    BY <1>1, <1>2, <2>1, <2>2, TypeNext
<1>4. ASSUME NEW v \in Pages \ {u}, NEW b \in Blocks PROVE Explained(v, b)'
  <2>1. pages'[v] = pages[v]
    BY <1>2
  <2>2. \A n : Pending(v, n) => Pending(v, n)'
    BY <2>1 DEF Pending
  <2> QED
    BY <1>1, <2>1, <2>2, ExplainedKept
<1>5. AllExplained'
  BY <1>4 DEF AllExplained
<1> QED
  BY <1>1, <1>3, <1>5, ServerKept DEF SInv

LEMMA SeenPage ==
  ASSUME NEW page \in Page, NEW seen \in 0 .. Len(stream), NEW b \in Blocks, NEW block \in Block
  PROVE  [page EXCEPT !.seen = seen, !.blocks[b] = block] \in Page
  BY DEF Page

LEMMA RevisedBlock ==
  ASSUME NEW block \in Block, NEW val \in Nat, NEW ver \in Nat
  PROVE  [block EXCEPT !.val = val, !.ver = ver] \in Block
  BY DEF Block

LEMMA ReceiveStep ==
  ASSUME SInv, NEW u \in Pages, Receive(u)
  PROVE  SInv'
<1>1. TypeOK /\ pages[u] \in Page /\ UNCHANGED <<ops, rows, stream, frames, answers, refused, faults>>
  BY DEF SInv, TypeOK, Receive, server
<1>2. PICK k \in Nat : k = pages[u].seen
  <2>1. pages[u].seen \in 0 .. Len(stream) /\ Len(stream) \in Nat
    BY <1>1, Entries, Parts
  <2>2. pages[u].seen \in Nat
    BY <2>1
  <2> QED
    BY <2>2
<1>3. k + 1 \in 1 .. Len(stream) /\ k \in 0 .. Len(stream)
  <2>1. k \in 0 .. Len(stream) /\ k < Len(stream)
    BY <1>1, <1>2, Parts DEF Receive
  <2> QED
    BY <2>1, <1>1, Entries
<1>4. PICK c \in [op : Numbers, ver : Nat] : c = stream[k + 1]
  <2>1. stream \in Seq([op : Numbers, ver : Nat])
    BY <1>1 DEF TypeOK
  <2>2. stream[k + 1] \in [op : Numbers, ver : Nat]
    BY <1>3, <2>1, Elements
  <2> QED
    BY <2>2
<1>5. PICK b0 \in Blocks : b0 = ops[c.op].block
  BY <1>1, <1>3, <1>4, Entries DEF Subject, Op
<1> DEFINE block == Remote(pages[u].blocks[b0], c.op, c.ver)
           page == [pages[u] EXCEPT !.seen = k + 1, !.blocks[b0] = block]
<1>6. pages' = [pages EXCEPT ![u] = page]
  <2>1. pages' = [pages EXCEPT ![u].seen = @ + 1,
                    ![u].blocks[ops[stream[pages[u].seen + 1].op].block] =
                       Remote(@, stream[pages[u].seen + 1].op, stream[pages[u].seen + 1].ver)]
    BY DEF Receive
  <2> QED
    BY <2>1, <1>1, <1>2, <1>4, <1>5 DEF Page, TypeOK
<1>7. pages[u].blocks \in [Blocks -> Block] /\ pages[u].blocks[b0] \in Block
  BY <1>1, Parts
<1>8. Subject(k + 1) = ops[c.op] /\ ops[c.op] \in Op /\ c.op \in Nat /\ c.ver \in Nat
  BY <1>1, <1>3, <1>4, Entries DEF Subject, Numbers
<1>9. block \in Block
  <2>1. CASE ops[c.op].kind = "insert"
    BY <1>7, <1>8, <2>1 DEF Remote, Block
  <2>2. CASE ops[c.op].kind = "delete"
    BY <2>2 DEF Remote, Gone, Block
  <2>3. CASE ops[c.op].kind = "attrs" /\ pages[u].blocks[b0].present
    <3>1. block = [pages[u].blocks[b0] EXCEPT !.val = c.op, !.ver = c.ver + 1]
      BY <2>3 DEF Remote
    <3>2. c.ver + 1 \in Nat /\ c.op \in Nat /\ pages[u].blocks[b0] \in Block
      BY <1>7, <1>8
    <3> HIDE DEF block
    <3>3. [pages[u].blocks[b0] EXCEPT !.val = c.op, !.ver = c.ver + 1] \in Block
      BY <3>2, RevisedBlock
    <3> QED
      BY <3>1, <3>3
  <2>4. CASE ops[c.op].kind = "attrs" /\ ~pages[u].blocks[b0].present
    BY <1>7, <1>8, <2>4 DEF Remote, Block
  <2> QED
    BY <1>8, <2>1, <2>2, <2>3, <2>4 DEF Op
<1>10. block.present => block.val = c.op
  BY <1>7, <1>8 DEF Remote, Gone, Block, Op
<1>11. ops[c.op].kind # "attrs" \/ pages[u].blocks[b0].present
         => block.present = (ops[c.op].kind # "delete")
  BY <1>7, <1>8 DEF Remote, Gone, Block, Op
<1>12. ops[c.op].kind = "attrs" /\ ~pages[u].blocks[b0].present => block = pages[u].blocks[b0]
  BY <1>8 DEF Remote
<1> HIDE DEF block
<1>13. /\ page.seen = k + 1 /\ page.pending = pages[u].pending /\ page.open = pages[u].open
       /\ page.blocks = [pages[u].blocks EXCEPT ![b0] = block]
  BY <1>1 DEF Page
<1>14. page \in Page
  <2>1. k + 1 \in 0 .. Len(stream)
    BY <1>3
  <2> QED
    BY <1>1, <1>9, <2>1, SeenPage DEF page
<1> HIDE DEF page
<1>15. /\ pages'[u].seen = k + 1 /\ pages'[u].pending = pages[u].pending
       /\ pages'[u].blocks[b0] = block
       /\ \A b \in Blocks \ {b0} : pages'[u].blocks[b] = pages[u].blocks[b]
  <2>1. pages'[u] = page
    BY <1>1, <1>6 DEF TypeOK
  <2> QED
    BY <2>1, <1>7, <1>13
<1>16. Extended /\ Subject(k + 1)' = Subject(k + 1) /\ stream'[k + 1].op = c.op
  BY <1>1, <1>3, <1>4, Unextended, SubjectKept
<1>17. \A n : n # c.op /\ (Pending(u, n) \/ Ahead(u, n)) => Pending(u, n)' \/ Ahead(u, n)'
  <2>1. \A n : Pending(u, n) => Pending(u, n)'
    BY <1>15 DEF Pending
  <2>2. ASSUME NEW n, n # c.op, Ahead(u, n) PROVE Ahead(u, n)'
    <3>1. PICK i \in 1 .. Len(stream) : i > k /\ stream[i].op = n
      BY <1>2, <2>2 DEF Ahead
    <3>2. i # k + 1
      BY <1>4, <2>2, <3>1
    <3>3. i > k + 1 /\ i \in 1 .. Len(stream') /\ stream'[i].op = n
      BY <1>1, <3>1, <3>2
    <3> QED
      BY <1>15, <3>3 DEF Ahead
  <2> QED
    BY <2>1, <2>2
<1>18. \A n : n # c.op /\ ~Behind(u, n) => ~Behind(u, n)'
  <2> SUFFICES ASSUME NEW n, n # c.op, Behind(u, n)' PROVE Behind(u, n)
    OBVIOUS
  <2>1. PICK i \in 1 .. k + 1 : stream[i].op = n
    BY <1>1, <1>15 DEF Behind
  <2>2. i # k + 1
    BY <1>4, <2>1
  <2>3. i \in 1 .. k
    BY <2>1, <2>2
  <2> QED
    BY <1>2, <2>1, <2>3 DEF Behind
<1>19. ASSUME NEW b \in Blocks, NEW n \in 1 .. Len(ops), n # c.op, Explains(u, b, n),
              pages[u].blocks[b].present => pages'[u].blocks[b].present
       PROVE  Explained(u, b)'
  <2>1. Explains(u, b, n)'
    BY <1>1, <1>17, <1>18, <1>19 DEF Explains
  <2> QED
    BY <1>1, <1>19, <2>1 DEF Explained
<1>20. ASSUME NEW b \in Blocks PROVE Explained(u, b)'
  <2>1. Explained(u, b)
    BY DEF SInv, AllExplained
  <2>2. CASE <<u, b>> \in refused
    BY <1>1, <2>2 DEF Explained
  <2>3. CASE b # b0
    <3>1. ~On(b, k + 1)'
      BY <1>5, <1>8, <1>16, <2>3 DEF On
    <3>2. ASSUME Shows(pages[u].blocks[b], b, k) PROVE Explained(u, b)'
      <4>1. Shows(pages'[u].blocks[b], b, k)
        BY <1>15, <2>3, <3>2
      <4>2. Shows(pages[u].blocks[b], b, k)'
        BY <1>1, <1>3, <1>16, <4>1, ShowsKept
      <4>3. Shows(pages[u].blocks[b], b, k + 1)'
        BY <3>1, <4>2, ShowsNext
      <4> QED
        BY <1>15, <4>3 DEF Explained
    <3>3. ASSUME NEW n \in 1 .. Len(ops), Explains(u, b, n) PROVE Explained(u, b)'
      <4>1. n # c.op
        BY <1>5, <2>3, <3>3 DEF Explains
      <4> QED
        BY <1>15, <1>19, <2>3, <3>3, <4>1
    <3> QED
      BY <1>2, <2>1, <2>2, <3>2, <3>3 DEF Explained
  <2>4. CASE b = b0 /\ (ops[c.op].kind # "attrs" \/ pages[u].blocks[b0].present)
    <3>1. On(b, k + 1)'
      BY <1>5, <1>8, <1>16, <2>4 DEF On
    <3>2. Is(pages'[u].blocks[b], Subject(k + 1)'.kind # "delete", stream'[k + 1].op)
      BY <1>8, <1>10, <1>11, <1>15, <1>16, <2>4 DEF Is
    <3>3. Shows(pages[u].blocks[b], b, k + 1)'
      BY <3>1, <3>2, ShowsNext
    <3> QED
      BY <1>15, <3>3 DEF Explained
  \* Attrs of a block that the page no longer has, but the rows had: it was not
  \* these attrs that explained it.
  <2>5. CASE b = b0 /\ ops[c.op].kind = "attrs" /\ ~pages[u].blocks[b0].present
    <3>1. ~Shows(pages[u].blocks[b0], b0, k)
      <4>1. \A r \in Block : Shows(r, Subject(k + 1).block, k + 1 - 1) => r.present
        BY <1>3, <1>8, <2>5 DEF SInv, AttrsHaveBlock
      <4>2. k + 1 - 1 = k
        OBVIOUS
      <4> QED
        BY <1>5, <1>7, <1>8, <2>5, <4>1, <4>2
    <3>2. CASE <<u, b>> \notin refused
      <4>1. PICK n \in 1 .. Len(ops) : Explains(u, b, n)
        BY <1>2, <2>1, <2>5, <3>1, <3>2 DEF Explained
      <4>2. n # c.op
        BY <2>5, <4>1 DEF Explains
      <4>3. pages'[u].blocks[b] = pages[u].blocks[b]
        BY <1>12, <1>15, <2>5
      <4> QED
        BY <1>19, <4>1, <4>2, <4>3
    <3> QED
      BY <2>2, <3>2
  <2> QED
    BY <2>3, <2>4, <2>5
<1>21. IsInjective(page.pending)
  BY <1>1, <1>13, Parts
<1>22. /\ Bagged(frames', Frame) /\ Bagged(answers', Answer)
       /\ refused' \subseteq Pages \X Blocks /\ faults' \in 0 .. MaxFaults
  BY <1>1, <1>16, BagsKept DEF TypeOK
<1> QED
  BY <1>1, <1>6, <1>14, <1>20, <1>21, <1>22, PageStep

Settled(page, pending, b, block) == [page EXCEPT !.pending = pending, !.blocks[b] = block]

LEMMA SettledPage ==
  ASSUME NEW page \in Page, NEW pending \in Seq(Numbers), NEW b \in Blocks, NEW block \in Block
  PROVE  /\ Settled(page, pending, b, block) \in Page
         /\ Settled(page, pending, b, block).pending = pending
         /\ Settled(page, pending, b, block).seen = page.seen
         /\ Settled(page, pending, b, block).blocks = [page.blocks EXCEPT ![b] = block]
  BY DEF Page, Settled

LEMMA AnsweredStep ==
  ASSUME SInv, NEW a \in BagToSet(answers), Answered(a)
  PROVE  SInv'
<1>1. /\ TypeOK /\ UNCHANGED <<ops, rows, stream, faults>>
      /\ answers' = answers (-) SetToBag({a})
  BY DEF SInv, Answered, server
<1>2. PICK u \in Pages : u = a.page
  BY <1>1, Parts
<1>3. PICK b0 \in Blocks : b0 = ops[a.op].block
  BY <1>1, Parts DEF Op
<1>4. /\ pages[u] \in Page /\ pages[u].blocks[b0] \in Block /\ pages[u].pending \in Seq(Numbers)
      /\ IsInjective(pages[u].pending) /\ a.ver \in Nat /\ a.op \in Numbers /\ a.kind \in {"ack", "nack"}
  BY <1>1, Parts DEF TypeOK
<1> DEFINE old == pages[u].blocks[b0]
           block == IF a.kind = "nack" THEN Gone
                    ELSE IF old.present THEN [old EXCEPT !.ver = a.ver] ELSE old
           pending == Unanswered(pages[u].pending, a.op)
           page == [pages[u] EXCEPT !.pending = pending, !.blocks[b0] = block]
<1>5. Settle(pages[u], a) = page
  BY <1>3 DEF Settle
<1>6. block \in Block /\ (a.kind = "ack" => block.present = old.present /\ block.val = old.val)
  <2>1. Gone \in Block
    BY DEF Gone, Block
  <2>2. [old EXCEPT !.ver = a.ver] \in Block /\ [old EXCEPT !.ver = a.ver].present = old.present
        /\ [old EXCEPT !.ver = a.ver].val = old.val
    BY <1>4 DEF Block
  <2> QED
    BY <1>4, <2>1, <2>2
<1>7. /\ pending \in Seq(Numbers) /\ IsInjective(pending)
      /\ \A n : Has(pending, n) <=> n # a.op /\ Has(pages[u].pending, n)
  <2>1. PICK q \in Seq(Numbers) : q = pages[u].pending /\ IsInjective(q)
    BY <1>4
  <2>2. /\ Unanswered(q, a.op) \in Seq(Numbers) /\ IsInjective(Unanswered(q, a.op))
        /\ \A n : Has(Unanswered(q, a.op), n) <=> n # a.op /\ Has(q, n)
    BY <2>1, WithoutOne
  <2> QED
    BY <2>1, <2>2
<1> HIDE DEF block, pending
<1>8. /\ page \in Page /\ page.pending = pending /\ page.seen = pages[u].seen
      /\ page.blocks = [pages[u].blocks EXCEPT ![b0] = block]
  <2>1. PICK p \in Page : p = pages[u]
    BY <1>4
  <2>2. page = Settled(p, pending, b0, block)
    BY <2>1 DEF Settled
  <2> HIDE DEF page
  <2>3. /\ Settled(p, pending, b0, block) \in Page
        /\ Settled(p, pending, b0, block).pending = pending
        /\ Settled(p, pending, b0, block).seen = p.seen
        /\ Settled(p, pending, b0, block).blocks = [p.blocks EXCEPT ![b0] = block]
    BY <1>6, <1>7, SettledPage
  <2> QED
    BY <2>1, <2>2, <2>3
<1> HIDE DEF page
<1>9. /\ pages' = [pages EXCEPT ![u] = page] /\ frames' = frames (+) Flush(pages[u], page)
      /\ refused' = IF a.kind = "nack" \/ \A s \in ToSet(stream) : s.op # a.op
                    THEN refused \cup {<<u, b0>>} ELSE refused
  BY <1>2, <1>3, <1>5 DEF Answered
<1>10. /\ pages'[u] = page /\ pages'[u].blocks[b0] = block
       /\ \A b \in Blocks \ {b0} : pages'[u].blocks[b] = pages[u].blocks[b]
  BY <1>1, <1>4, <1>8, <1>9, Parts DEF TypeOK
<1>11. \A n : n # a.op /\ Pending(u, n) => Pending(u, n)'
  BY <1>7, <1>8, <1>10 DEF Pending
<1>12. /\ refused \subseteq refused' /\ refused' \subseteq Pages \X Blocks
  BY <1>1, <1>9 DEF TypeOK
<1>13. Extended
  BY <1>1, Unextended
<1>14. ASSUME NEW b \in Blocks PROVE Explained(u, b)'
  <2>1. CASE b # b0
    <3>1. \A n \in 1 .. Len(ops) : ops[n].block = b /\ Pending(u, n) => Pending(u, n)'
      BY <1>3, <1>11, <2>1
    <3> QED
      BY <1>8, <1>10, <1>12, <1>13, <2>1, <3>1, ExplainedKept
  <2>2. CASE b = b0 /\ <<u, b0>> \in refused'
    BY <2>2 DEF Explained
  <2>3. CASE b = b0 /\ <<u, b0>> \notin refused'
    <3>1. a.kind = "ack" /\ \E s \in ToSet(stream) : s.op = a.op
      BY <1>4, <1>9, <2>3
    <3>2. PICK i \in 1 .. Len(stream) : stream[i].op = a.op
      <4>1. DOMAIN stream = 1 .. Len(stream)
        BY <1>1 DEF TypeOK
      <4> QED
        BY <3>1, <4>1 DEF ToSet
    <3>3. ~Behind(u, a.op) => Ahead(u, a.op)
      <4>1. pages[u].seen \in 0 .. Len(stream) /\ Len(stream) \in Nat
        BY <1>1, Entries, Parts
      <4> QED
        BY <3>2, <4>1 DEF Behind, Ahead
    <3>4. \A n \in 1 .. Len(ops) : Pending(u, n) /\ ~Behind(u, n) => Pending(u, n)' \/ Ahead(u, n)
      BY <1>11, <3>3
    <3>5. pages'[u].blocks[b].present = pages[u].blocks[b].present
          /\ pages'[u].blocks[b].val = pages[u].blocks[b].val
      BY <1>6, <1>10, <2>3, <3>1
    <3> QED
      BY <1>8, <1>10, <1>12, <1>13, <3>4, <3>5, ExplainedKept
  <2> QED
    BY <2>1, <2>2, <2>3
<1>15. Bagged(frames', Frame) /\ Bagged(answers', Answer)
  <2>1. Bagged(Flush(pages[u], page), Frame)
    BY <1>7, <1>8, Sent DEF Frame
  <2>2. IsABag(SetToBag({a}))
    BY BagOfSet DEF Bagged
  <2>3. Bagged(frames, Frame) /\ Bagged(answers, Answer)
    BY <1>1, <1>13, BagsKept
  <2> QED
    BY <1>1, <1>9, <2>1, <2>2, <2>3, BagJoined, BagLeft
<1>16. IsInjective(page.pending) /\ faults' \in 0 .. MaxFaults
  BY <1>1, <1>7, <1>8 DEF TypeOK
<1> QED
  BY <1>1, <1>8, <1>9, <1>12, <1>14, <1>15, <1>16, PageStep

\* A socket opens or is lost, or the api refuses a request: the store stays.
LEMMA StorePageKept ==
  ASSUME SInv, UNCHANGED <<ops, rows, stream>>, NEW u \in Pages, NEW open \in BOOLEAN,
         pages' = [pages EXCEPT ![u].open = open],
         Bagged(frames', Frame), Bagged(answers', Answer), refused' = refused,
         faults' \in 0 .. MaxFaults
  PROVE  SInv'
<1> DEFINE page == [pages[u] EXCEPT !.open = open]
<1>1. TypeOK /\ Extended /\ pages[u] \in Page /\ IsInjective(pages[u].pending)
  BY Unextended, Parts DEF SInv, TypeOK
<1>2. /\ page \in Page /\ page.pending = pages[u].pending /\ page.seen = pages[u].seen
      /\ page.blocks = pages[u].blocks
  BY <1>1 DEF Page
<1>3. pages' = [pages EXCEPT ![u] = page] /\ pages'[u] = page
  BY <1>1 DEF TypeOK
<1> HIDE DEF page
<1>4. ASSUME NEW b \in Blocks PROVE Explained(u, b)'
  <2>1. \A n : Pending(u, n) => Pending(u, n)'
    BY <1>2, <1>3 DEF Pending
  <2> QED
    BY <1>1, <1>2, <1>3, <2>1, ExplainedKept
<1>5. refused \subseteq refused' /\ refused' \subseteq Pages \X Blocks /\ IsInjective(page.pending)
  BY <1>1, <1>2 DEF TypeOK
<1> QED
  BY <1>2, <1>3, <1>4, <1>5, PageStep

LEMMA OpenStep ==
  ASSUME SInv, NEW u \in Pages, Open(u)
  PROVE  SInv'
<1>1. /\ TypeOK /\ Extended /\ UNCHANGED <<ops, rows, stream, answers, refused, faults>>
      /\ pages' = [pages EXCEPT ![u].open = TRUE] /\ frames' = frames (+) Drain(pages[u])
  BY Unextended DEF SInv, Open, server
<1>2. pages[u].pending \in Seq(Numbers)
  BY <1>1, Parts
<1>3. Bagged(frames', Frame) /\ Bagged(answers', Answer)
  <2>1. Bagged(Drain(pages[u]), Frame)
    BY <1>2, Sent DEF Frame
  <2> QED
    BY <1>1, <2>1, BagsKept, BagJoined
<1> QED
  BY <1>1, <1>3, StorePageKept DEF TypeOK

LEMMA DropStep ==
  ASSUME SInv, NEW u \in Pages, Drop(u)
  PROVE  SInv'
<1> DEFINE sent == {f \in BagToSet(frames) : f.live /\ ops[f.op].by = u}
           orphans == {[f EXCEPT !.live = FALSE] : f \in sent}
           lost == {a \in BagToSet(answers) : a.page = u}
           taken == [f \in sent |-> frames[f]]
           left == [f \in orphans |-> frames[[f EXCEPT !.live = TRUE]]]
           gone == [a \in lost |-> answers[a]]
<1>1. /\ TypeOK /\ Extended /\ UNCHANGED <<ops, rows, stream, refused>>
      /\ pages' = [pages EXCEPT ![u].open = FALSE]
      /\ frames' = (frames (-) taken) (+) left /\ answers' = answers (-) gone
  BY Unextended DEF SInv, Drop, server
<1>2. Bagged(frames, Frame) /\ Bagged(answers, Answer)
  BY <1>1, BagsKept
<1>3. IsABag(taken) /\ IsABag(gone)
  BY <1>2 DEF Bagged, IsABag, BagToSet
<1>4. Bagged(left, Frame)
  <2>1. ASSUME NEW f \in orphans
        PROVE  f \in Frame /\ [f EXCEPT !.live = TRUE] \in DOMAIN frames
    <3>1. PICK g \in sent : f = [g EXCEPT !.live = FALSE]
      OBVIOUS
    <3>2. g \in DOMAIN frames /\ g \in Frame /\ g.live
      BY <1>2, <3>1 DEF Bagged, BagToSet
    <3>3. f \in Frame /\ [f EXCEPT !.live = TRUE] = g
      BY <3>1, <3>2 DEF Frame
    <3> QED
      BY <3>2, <3>3
  <2>2. \A f \in orphans : frames[[f EXCEPT !.live = TRUE]] \in {n \in Nat : n > 0}
    BY <1>2, <2>1 DEF Bagged, IsABag
  <2> HIDE DEF orphans
  <2>3. left \in [orphans -> {n \in Nat : n > 0}]
    BY <2>2
  <2> QED
    BY <2>1, <2>3 DEF Bagged, IsABag, BagToSet
<1> HIDE DEF taken, left, gone
<1>5. Bagged(frames', Frame) /\ Bagged(answers', Answer)
  BY <1>1, <1>2, <1>3, <1>4, BagJoined, BagLeft
<1>6. faults' \in 0 .. MaxFaults
  BY <1>1, StoreAssumption DEF Drop, Fault, TypeOK
<1> QED
  BY <1>1, <1>5, <1>6, StorePageKept

\* A request that is answered, and comes to nothing.
LEMMA NothingStep ==
  ASSUME SInv, NEW f \in BagToSet(frames), UNCHANGED <<ops, pages, rows, stream, refused>>,
         frames' = frames (-) SetToBag({f}), NEW kind \in {"ack", "nack"}, Reply(f, kind, 0),
         faults' \in 0 .. MaxFaults
  PROVE  SInv'
<1>1. TypeOK /\ Extended /\ Frame' = Frame /\ Answer' = Answer
  BY Unextended DEF SInv
<1>2. PICK u \in Pages : u = ops[f.op].by
  BY <1>1, Parts DEF Op
<1>3. pages[u].open \in BOOLEAN /\ pages' = [pages EXCEPT ![u].open = pages[u].open]
  <2>1. pages \in [Pages -> Page] /\ pages[u] \in Page
    BY <1>1 DEF TypeOK
  <2>2. [pages[u] EXCEPT !.open = pages[u].open] = pages[u] /\ pages[u].open \in BOOLEAN
    BY <2>1 DEF Page
  <2> QED
    BY <2>1, <2>2
<1>4. Bagged(frames', Frame) /\ Bagged(answers', Answer)
  BY <1>1, FrameTaken, Replied
<1> QED
  BY <1>3, <1>4, StorePageKept

-----------------------------------------------------------------------------
(* The theorems.                                                           *)

LEMMA InvInit == Init => SInv
<1> SUFFICES ASSUME Init PROVE SInv
  OBVIOUS
<1> USE DEF Init
<1>1. Len(ops) = 0 /\ Len(stream) = 0 /\ 0 \in 0 .. 0
  OBVIOUS
<1>2. Snapshot \in [Blocks -> Block]
  BY DEF Snapshot, Gone, Block
<1>3. Bagged(EmptyBag, Frame) /\ Bagged(EmptyBag, Answer)
  BY BagOfSet
<1>4. TypeOK
  <2>1. ops \in Seq(Op) /\ stream \in Seq([op : Numbers, ver : Nat]) /\ rows \in [Blocks -> Block]
    BY <1>2
  <2>2. pages \in [Pages -> Page]
    BY <1>1, <1>2 DEF Page
  <2>3. \A u \in Pages : IsInjective(pages[u].pending)
    BY DEF IsInjective
  <2>4. refused \subseteq Pages \X Blocks /\ faults \in 0 .. MaxFaults
    BY StoreAssumption
  <2>5. IsABag(frames) /\ BagToSet(frames) \subseteq Frame
    BY <1>3 DEF Bagged
  <2>6. IsABag(answers) /\ BagToSet(answers) \subseteq Answer
    BY <1>3 DEF Bagged
  <2>7. rows \in [Blocks -> Block]
    BY <1>2
  <2> QED
    BY <2>1, <2>2, <2>3, <2>4, <2>5, <2>6, <2>7 DEF TypeOK
<1>5. \A b \in Blocks : Shows(Snapshot[b], b, 0)
  <2> SUFFICES ASSUME NEW b \in Blocks PROVE Untouched(b, 0) /\ Is(Snapshot[b], b \in Original, 0)
    BY DEF Shows
  <2>1. 1 .. 0 = {}
    OBVIOUS
  <2>2. Untouched(b, 0)
    BY <2>1 DEF Untouched
  <2>3. CASE b \in Original
    <3>1. Snapshot[b].present = TRUE /\ Snapshot[b].val = 0
      BY <2>3 DEF Snapshot
    <3> QED
      BY <2>2, <2>3, <3>1 DEF Is
  <2>4. CASE b \notin Original
    <3>1. Snapshot[b].present = FALSE
      BY <2>4 DEF Snapshot, Gone
    <3>2. (b \in Original) = FALSE
      BY <2>4
    <3> QED
      BY <2>2, <2>4, <3>1, <3>2, Zenon DEF Is
  <2> QED
    BY <2>3, <2>4
<1>6. RowsShow /\ AllExplained
  BY <1>1, <1>5 DEF RowsShow, AllExplained, Explained
<1>7. AttrsHaveBlock /\ AllSuperseded /\ RepeatsNeedDelete
  BY <1>1 DEF AttrsHaveBlock, AllSuperseded, RepeatsNeedDelete
<1> QED
  BY <1>4, <1>6, <1>7 DEF SInv

LEMMA InvNext == SInv /\ [Next]_vars => SInv'
<1> SUFFICES ASSUME SInv, [Next]_vars PROVE SInv'
  OBVIOUS
<1>1. TypeOK /\ MaxFaults \in Nat /\ faults \in 0 .. MaxFaults
  BY StoreAssumption DEF SInv, TypeOK
<1>2. Fault => faults' \in 0 .. MaxFaults
  BY <1>1 DEF Fault
<1>3. ASSUME NEW u \in Pages, User(u) \/ Receive(u) \/ Open(u) \/ Drop(u) PROVE SInv'
  BY <1>3, EditStep, ReceiveStep, OpenStep, DropStep
<1>4. ASSUME NEW f \in BagToSet(frames), Handle(f) \/ RequestFails(f) \/ ResponseFails(f)
      PROVE  SInv'
  <2>1. NewVersion(ops[f.op]) \in Nat
    <3>1. ops[f.op].block \in Blocks
      BY <1>1, Parts DEF Op
    <3>2. Row(ops[f.op]).ver \in Nat
      BY <1>1, <3>1 DEF TypeOK, Row, Block
    <3> QED
      BY <3>2 DEF NewVersion
  <2>2. CASE Commit(f)
    BY <1>1, <2>1, <2>2, ApplyStep DEF Commit
  <2>3. CASE Conflict(f)
    BY <1>1, <2>3, NothingStep DEF Conflict, server
  <2>4. CASE RequestFails(f)
    BY <1>2, <2>4, NothingStep DEF RequestFails, server
  <2>5. CASE ResponseFails(f)
    BY <1>2, <2>5, ApplyStep DEF ResponseFails
  <2> QED
    BY <1>4, <2>2, <2>3, <2>4, <2>5 DEF Handle
<1>5. ASSUME NEW a \in BagToSet(answers), Answered(a) PROVE SInv'
  BY <1>5, AnsweredStep
<1>6. CASE UNCHANGED vars
  <2>1. Extended /\ Frame' = Frame /\ Answer' = Answer /\ Page' = Page
    BY <1>1, <1>6, Unextended DEF vars
  <2>2. TypeOK'
    <3>1. Bagged(frames', Frame') /\ Bagged(answers', Answer')
      BY <1>1, <1>6, <2>1, BagsKept DEF vars
    <3> QED
      BY <1>1, <1>6, <2>1, <3>1, TypeNext DEF vars, TypeOK
  <2>3. RowsShow' /\ AttrsHaveBlock' /\ AllSuperseded' /\ RepeatsNeedDelete'
    BY <1>6, <2>1, ServerKept DEF vars
  <2>4. ASSUME NEW u \in Pages, NEW b \in Blocks PROVE Explained(u, b)'
    <3>1. pages' = pages /\ refused' = refused
      BY <1>6 DEF vars
    <3>2. \A n : Pending(u, n) => Pending(u, n)'
      BY <3>1 DEF Pending
    <3> QED
      BY <2>1, <3>1, <3>2, ExplainedKept
  <2> QED
    BY <2>2, <2>3, <2>4 DEF SInv, AllExplained
<1> QED
  BY <1>3, <1>4, <1>5, <1>6 DEF Next

\* Every step of the pages, the api and the sockets keeps the invariant.
THEOREM StoreHolds == Spec => []SInv
  BY InvInit, InvNext, PTL DEF Spec

\* The store, the frames, the rows and the stream are what their types say.
THEOREM TypeCorrect == Spec => []TypeOK
<1>1. SInv => TypeOK
  BY DEF SInv
<1> QED
  BY <1>1, StoreHolds, PTL

\* However often operations are sent again, an insert or an update takes effect a
\* second time only after its block has been deleted.
THEOREM RetriesHarmless == Spec => []RepeatsNeedDelete
<1>1. SInv => RepeatsNeedDelete
  BY DEF SInv
<1> QED
  BY <1>1, StoreHolds, PTL

\* A page that awaits nothing shows what the server has, but for the blocks of
\* which it was refused an operation.
THEOREM Converges == Spec => []ConvergesUnlessRefused
<1>1. SInv => ConvergesUnlessRefused
  <2> SUFFICES ASSUME SInv, NEW u \in Pages, Quiet(u), NEW b \in Blocks, <<u, b>> \notin refused
               PROVE  /\ pages[u].blocks[b].present = rows[b].present
                      /\ pages[u].blocks[b].present => pages[u].blocks[b].val = rows[b].val
    BY DEF ConvergesUnlessRefused
  <2>1. TypeOK /\ Explained(u, b) /\ Shows(rows[b], b, Len(stream))
    BY DEF SInv, AllExplained, RowsShow
  <2>2. /\ Len(stream) \in Nat /\ pages[u].seen = Len(stream) /\ pages[u].pending = <<>>
        /\ pages[u].blocks[b] \in Block /\ rows[b] \in Block
    BY <2>1, Entries, Parts DEF Quiet, TypeOK
  <2>3. \A n : ~Pending(u, n) /\ ~Ahead(u, n)
    BY <2>2 DEF Pending, Has, Ahead
  <2>4. Shows(pages[u].blocks[b], b, Len(stream))
    BY <2>1, <2>2, <2>3 DEF Explained, Explains
  <2>5. Len(stream) \in 0 .. Len(stream)
    BY <2>2
  <2> QED
    BY <2>1, <2>2, <2>4, <2>5, ShowsOne DEF Block
<1> QED
  BY <1>1, StoreHolds, PTL

=============================================================================
