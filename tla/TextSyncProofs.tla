---------------------------- MODULE TextSyncProofs ----------------------------
(***************************************************************************)
(* Of any number of pages, updates, loads, connections and failures: where *)
(* the updates of a text are, who has got them, and what is on the screen. *)
(***************************************************************************)
EXTENDS TextSync, FiniteSetTheorems, SequenceTheorems, TLAPS

-----------------------------------------------------------------------------
(* The invariant. What is said of a page is said of its record, p, with the *)
(* updates, all, and the entries, log, there are.                           *)

\* Update e is in the first n entries; they delete the block.
Sent(log, n, e) == \E k \in 1 .. n : log[k].kind = "crdt" /\ log[k].edit = e
Deleted(log, n) == \E k \in 1 .. n : log[k].kind = "delete"
Got(p) == p.has \cup p.fresh \cup p.stale

\* Without a Y.Doc there is nothing in it, with one nothing is buffered. A block
\* in the store has one; an IME is at work in a mounted editor; a page that has not
\* been opened is not connected.
Buffered(p) ==
  /\ p.doc = 0 => p.has = {} /\ ~p.shown
  /\ p.doc # 0 => p.fresh = {} /\ p.stale = {}
  /\ p.composing => Mounted(p)
  /\ p.status = "away" => ~p.up

\* What a page has got, it has made itself or got out of the stream.
Sourced(u, p, all, log) == \A e \in Got(p) : all[e].by[1] = u \/ Sent(log, Len(log), e)

\* Of the first n entries the page has every update, or has let it pass, or it
\* has no Y.Doc for what has been deleted.
Covered(p, log, n) ==
  \/ \A e : Sent(log, n, e) => e \in Got(p) \cup p.missed
  \/ p.doc = 0 /\ Deleted(log, n)

\* That is so of what its connection has sent, and of what another would skip. A
\* cursor ahead of the connection is one that the page was opened with.
Caught(p, log) ==
  /\ p.up => Covered(p, log, p.at)
  /\ Covered(p, log, p.cursor)
  /\ p.cursor <= p.at \/ \A e : Sent(log, p.cursor, e) => e \in p.missed

\* A mounted editor shows of its Y.Doc what is visible, or was when an IME began.
Shown(u, p, all) == {e \in Integrated(all, <<u, p.doc>>, p.has) : all[e].erases = {}}
Faithful(u, p, all) ==
  Mounted(p) /\ ~p.remade =>
    /\ p.dom \subseteq Shown(u, p, all)
    /\ ~p.composing => p.dom = Text(u, p, all)

PageInv(u, p, all, log) ==
  Buffered(p) /\ Sourced(u, p, all, log) /\ Caught(p, log) /\ Faithful(u, p, all)

\* The block is inserted once at most, and after it was deleted never.
BlockLives ==
  /\ op = "insert" => row = "no"
  /\ op = "delete" => row = "there"
  /\ Deleted(stream, Len(stream)) => row = "gone"
  /\ \A k \in 1 .. Len(stream) : stream[k].kind = "insert" => ~Deleted(stream, k - 1)

\* No update is in two places, or in one of them twice.
Has(q, e) == \E k \in 1 .. Len(q) : q[k] = e
Once(q) == \A k, m \in 1 .. Len(q) : q[k] = q[m] => k = m
Waits(p, e) == Has(p.queue, e) \/ Has(p.out, e)
InStream(e) == Sent(stream, Len(stream), e)
Apart ==
  /\ \A k, m \in 1 .. Len(stream) :
       stream[k].kind = "crdt" /\ stream[m].kind = "crdt" /\ stream[k].edit = stream[m].edit => k = m
  /\ \A e \in lost : ~InStream(e)
  /\ \A u \in Pages :
       /\ Once(pages[u].queue) /\ Once(pages[u].out)
       /\ \A e : ~(Has(pages[u].queue, e) /\ Has(pages[u].out, e))
       /\ \A e : Waits(pages[u], e) => edits[e].by[1] = u /\ ~InStream(e) /\ e \notin lost

\* Every update is in one.
Somewhere ==
  \A e \in Numbers : InStream(e) \/ e \in lost \/ Waits(pages[edits[e].by[1]], e)

TInv ==
  /\ TypeOK /\ BlockLives /\ Apart /\ Somewhere
  /\ \A u \in Pages : PageInv(u, pages[u], edits, stream)

-----------------------------------------------------------------------------
(* Sequences.                                                              *)

LEMMA Elements ==
  ASSUME NEW S, NEW q \in Seq(S)
  PROVE  Len(q) \in Nat /\ \A k \in 1 .. Len(q) : q[k] \in S
  OBVIOUS

LEMMA Widened ==
  ASSUME NEW S, NEW T, S \subseteq T, NEW q \in Seq(S)
  PROVE  q \in Seq(T)
  OBVIOUS

LEMMA Appended ==
  ASSUME NEW S, NEW q \in Seq(S), NEW e \in S
  PROVE  /\ Append(q, e) \in Seq(S) /\ Len(Append(q, e)) = Len(q) + 1
         /\ \A k \in 1 .. Len(q) : Append(q, e)[k] = q[k]
         /\ Append(q, e)[Len(q) + 1] = e
  OBVIOUS

LEMMA Joint ==
  ASSUME NEW S, NEW q \in Seq(S), NEW r \in Seq(S)
  PROVE  /\ q \o r \in Seq(S) /\ Len(q \o r) = Len(q) + Len(r)
         /\ \A k \in 1 .. Len(q) : (q \o r)[k] = q[k]
         /\ \A k \in 1 .. Len(r) : (q \o r)[Len(q) + k] = r[k]
  OBVIOUS

\* A part of a sequence.
LEMMA Parted ==
  ASSUME NEW S, NEW q \in Seq(S), NEW n \in 0 .. Len(q), NEW m \in 1 .. Len(q) + 1
  PROVE  /\ SubSeq(q, 1, n) \in Seq(S) /\ Len(SubSeq(q, 1, n)) = n
         /\ \A k \in 1 .. n : SubSeq(q, 1, n)[k] = q[k]
         /\ SubSeq(q, m, Len(q)) \in Seq(S) /\ Len(SubSeq(q, m, Len(q))) = Len(q) + 1 - m
         /\ \A k \in 1 .. Len(q) + 1 - m : SubSeq(q, m, Len(q))[k] = q[m - 1 + k]
  OBVIOUS

LEMMA Without ==
  ASSUME NEW S, NEW q \in Seq(S), NEW k \in 1 .. Len(q)
  PROVE  RemoveAt(q, k) \in Seq(S)
<1>1. /\ SubSeq(q, 1, k - 1) \in Seq(S)
      /\ SubSeq(q, k + 1, Len(q)) \in Seq(S)
  BY Elements, Parted
<1> QED
  BY <1>1 DEF RemoveAt

LEMMA Rest ==
  ASSUME NEW S, NEW q \in Seq(S), q # <<>>
  PROVE  /\ Head(q) \in S /\ Head(q) = q[1] /\ Len(q) >= 1
         /\ Tail(q) \in Seq(S) /\ Len(Tail(q)) = Len(q) - 1
         /\ \A k \in 1 .. Len(q) - 1 : Tail(q)[k] = q[k + 1]
  OBVIOUS

LEMMA InSet ==
  ASSUME NEW S, NEW q \in Seq(S)
  PROVE  ToSet(q) \subseteq S /\ \A e : e \in ToSet(q) <=> Has(q, e)
  BY DEF ToSet, Has

\* What waits is handed over, but for the first k.
Ahead(queue, k) == SubSeq(queue, 1, k)
Behind(queue, out, k) == out \o SubSeq(queue, k + 1, Len(queue))
Twice(queue, out) == \E e : Has(queue, e) /\ Has(out, e)

LEMMA Handed ==
  ASSUME NEW S, NEW queue \in Seq(S), NEW out \in Seq(S), NEW k \in 0 .. Len(queue),
         Once(queue), Once(out), ~Twice(queue, out),
         NEW first, first = Ahead(queue, k), NEW rest, rest = Behind(queue, out, k)
  PROVE  /\ rest \in Seq(S) /\ Once(rest)
         /\ \A e : Has(queue, e) \/ Has(out, e) <=> Has(rest, e) \/ e \in ToSet(first)
         /\ \A e \in ToSet(first) : ~Has(rest, e)
<1>0. /\ first = SubSeq(queue, 1, k) /\ rest = out \o SubSeq(queue, k + 1, Len(queue))
      /\ \A e : ~(Has(queue, e) /\ Has(out, e))
  BY DEF Ahead, Behind, Twice
<1>1. k \in Nat /\ k <= Len(queue) /\ Len(queue) \in Nat /\ Len(out) \in Nat
  OBVIOUS
<1>2. PICK tail : tail = SubSeq(queue, k + 1, Len(queue))
  OBVIOUS
<1>3. /\ first \in Seq(S) /\ Len(first) = k /\ \A i \in 1 .. k : first[i] = queue[i]
      /\ tail \in Seq(S) /\ Len(tail) = Len(queue) - k
      /\ \A i \in 1 .. Len(queue) - k : tail[i] = queue[k + i]
  <2>1. PICK m \in 1 .. Len(queue) + 1 : m = k + 1
    BY <1>1
  <2>2. /\ first \in Seq(S) /\ Len(first) = k /\ \A i \in 1 .. k : first[i] = queue[i]
    BY <1>0, Parted
  <2>3. tail \in Seq(S) /\ Len(tail) = Len(queue) + 1 - m /\ \A i \in 1 .. Len(queue) + 1 - m : tail[i] = queue[m - 1 + i]
    BY <1>2, <2>1, Parted
  <2> QED
    BY <1>1, <2>1, <2>2, <2>3
<1>4. /\ rest \in Seq(S) /\ Len(rest) = Len(out) + Len(tail)
      /\ \A i \in 1 .. Len(out) : rest[i] = out[i]
      /\ \A i \in 1 .. Len(tail) : rest[Len(out) + i] = tail[i]
  BY <1>0, <1>2, <1>3, Joint
<1>5. ASSUME NEW e
      PROVE  e \in ToSet(first) <=> \E i \in 1 .. k : queue[i] = e
  <2>1. e \in ToSet(first) <=> Has(first, e)
    BY <1>3, InSet
  <2> QED
    BY <1>3, <2>1 DEF Has
<1>6. PICK a \in Nat, b \in Nat, c \in Nat : a = Len(out) /\ b = Len(tail) /\ c = Len(queue) /\ c = k + b
  <2>1. Len(tail) \in Nat
    BY <1>3, Elements
  <2>2. Len(queue) = k + Len(tail)
    BY <1>1, <1>3, <2>1
  <2> QED
    BY <1>1, <2>1, <2>2
<1>16. \A i \in 1 .. a : rest[i] = out[i]
  BY <1>4, <1>6
<1>17. \A j \in 1 .. b : rest[a + j] = tail[j] /\ tail[j] = queue[k + j]
  <2>1. \A j \in 1 .. b : rest[a + j] = tail[j]
    BY <1>4, <1>6
  <2>2. Len(queue) - k = b
    BY <1>1, <1>6
  <2>3. \A j \in 1 .. b : tail[j] = queue[k + j]
    BY <1>3, <2>2
  <2> QED
    BY <2>1, <2>3
<1>7. \A i \in 1 .. a + b :
        \/ /\ i \in 1 .. a
           /\ rest[i] = out[i]
        \/ /\ i - a \in 1 .. b /\ k + (i - a) \in 1 .. c
           /\ rest[i] = queue[k + (i - a)]
  <2> TAKE i \in 1 .. a + b
  <2>1. CASE i <= a
    <3>1. i \in 1 .. a
      BY <2>1
    <3> QED
      BY <1>16, <3>1
  <2>2. CASE ~(i <= a)
    <3>1. PICK j \in 1 .. b : j = i - a
      BY <2>2
    <3>2. rest[a + j] = tail[j] /\ tail[j] = queue[k + j]
      BY <1>17, <3>1
    <3>3. a + j = i /\ k + j \in 1 .. c
      BY <1>1, <1>6, <3>1
    <3>4. rest[i] = queue[k + j]
      BY <3>2, <3>3
    <3>5. i - a \in 1 .. b /\ k + (i - a) \in 1 .. c /\ rest[i] = queue[k + (i - a)]
      BY <3>1, <3>3, <3>4
    <3> QED
      BY <3>5
  <2> QED
    BY <2>1, <2>2
<1>8. Len(rest) = a + b
  BY <1>4, <1>6
<1>9. Once(rest)
  <2>1. ASSUME NEW i \in 1 .. a + b, NEW j \in 1 .. a + b, rest[i] = rest[j]
        PROVE  i = j
    <3>1. CASE i \in 1 .. a /\ rest[i] = out[i] /\ j \in 1 .. a /\ rest[j] = out[j]
      BY <1>6, <2>1, <3>1 DEF Once
    <3>2. CASE /\ k + (i - a) \in 1 .. c /\ rest[i] = queue[k + (i - a)]
               /\ k + (j - a) \in 1 .. c /\ rest[j] = queue[k + (j - a)]
      <4>1. k + (i - a) = k + (j - a)
        BY <1>6, <2>1, <3>2 DEF Once
      <4> QED
        BY <1>1, <4>1
    <3>3. CASE /\ i \in 1 .. a /\ rest[i] = out[i]
               /\ k + (j - a) \in 1 .. c /\ rest[j] = queue[k + (j - a)]
      <4>1. Has(out, rest[i]) /\ Has(queue, rest[i])
        BY <1>6, <2>1, <3>3 DEF Has
      <4> QED
        BY <1>0, <4>1
    <3>4. CASE /\ j \in 1 .. a /\ rest[j] = out[j]
               /\ k + (i - a) \in 1 .. c /\ rest[i] = queue[k + (i - a)]
      <4>1. Has(out, rest[i]) /\ Has(queue, rest[i])
        BY <1>6, <2>1, <3>4 DEF Has
      <4> QED
        BY <1>0, <4>1
    <3> QED
      BY <1>7, <3>1, <3>2, <3>3, <3>4
  <2> QED
    BY <1>8, <2>1 DEF Once
<1>10. \A m \in k + 1 .. c : Has(rest, queue[m])
  <2> TAKE m \in k + 1 .. c
  <2>1. PICK j \in 1 .. b : j = m - k
    BY <1>1, <1>6
  <2>2. tail[j] = queue[k + j] /\ k + j = m
    BY <1>1, <1>3, <1>6, <2>1
  <2>3. rest[a + j] = queue[m]
    BY <1>17, <2>1, <2>2
  <2>4. a + j \in 1 .. a + b
    BY <1>6, <2>1
  <2> QED
    BY <1>8, <2>3, <2>4 DEF Has
<1>11. ASSUME NEW e, Has(rest, e)
       PROVE  Has(out, e) \/ \E m \in k + 1 .. c : queue[m] = e
  <2>1. PICK i \in 1 .. a + b : rest[i] = e
    BY <1>8, <1>11 DEF Has
  <2>2. CASE i \in 1 .. a /\ rest[i] = out[i]
    BY <1>6, <2>1, <2>2 DEF Has
  <2>3. CASE i - a \in 1 .. b /\ rest[i] = queue[k + (i - a)]
    <3>1. PICK m \in k + 1 .. c : m = k + (i - a)
      BY <1>1, <1>6, <2>3
    <3> QED
      BY <2>1, <2>3, <3>1
  <2> QED
    BY <1>7, <2>2, <2>3
<1>12. \A e : Has(out, e) => Has(rest, e)
  <2>1. \A i \in 1 .. a : i \in 1 .. a + b
    OBVIOUS
  <2> QED
    BY <1>4, <1>6, <1>8, <2>1 DEF Has
<1>13. /\ \A m \in 1 .. c : m \in 1 .. k \/ m \in k + 1 .. c
       /\ \A m \in 1 .. k : m \in 1 .. c
       /\ \A m \in k + 1 .. c : m \in 1 .. c /\ m \notin 1 .. k
  BY <1>1, <1>6
<1>14. ASSUME NEW e
       PROVE  Has(queue, e) \/ Has(out, e) <=> Has(rest, e) \/ e \in ToSet(first)
  <2>1. Has(queue, e) => Has(rest, e) \/ e \in ToSet(first)
    BY <1>5, <1>6, <1>10, <1>13 DEF Has
  <2>2. Has(rest, e) => Has(queue, e) \/ Has(out, e)
    BY <1>6, <1>11, <1>13 DEF Has
  <2>3. e \in ToSet(first) => Has(queue, e)
    BY <1>5, <1>6, <1>13 DEF Has
  <2> QED
    BY <1>12, <2>1, <2>2, <2>3
<1>15. ASSUME NEW e \in ToSet(first), Has(rest, e)
       PROVE  FALSE
  <2>1. PICK i \in 1 .. k : queue[i] = e
    BY <1>5
  <2>2. Has(queue, e)
    BY <1>6, <1>13, <2>1 DEF Has
  <2>3. PICK j \in k + 1 .. c : queue[j] = e
    BY <1>0, <1>11, <1>15, <2>2
  <2>4. i \in 1 .. c /\ j \in 1 .. c /\ j \notin 1 .. k
    BY <1>13, <2>1, <2>3
  <2>5. i = j
    BY <1>6, <2>1, <2>3, <2>4 DEF Once
  <2> QED
    BY <2>4, <2>5
<1> QED
  BY <1>4, <1>9, <1>14, <1>15

\* The first that waits is taken away.
LEMMA FirstTaken ==
  ASSUME NEW S, NEW q \in Seq(S), q # <<>>, Once(q), NEW rest, rest = Tail(q)
  PROVE  /\ rest \in Seq(S) /\ Once(rest) /\ Head(q) \in S
         /\ \A e : Has(q, e) <=> Has(rest, e) \/ e = Head(q)
         /\ ~Has(rest, Head(q))
<1>1. /\ Head(q) \in S /\ Head(q) = q[1] /\ Len(q) >= 1 /\ Len(q) \in Nat
      /\ rest \in Seq(S) /\ Len(rest) = Len(q) - 1
      /\ \A k \in 1 .. Len(q) - 1 : rest[k] = q[k + 1]
  BY Rest, Elements
<1>2. \A k \in 1 .. Len(rest) : k + 1 \in 1 .. Len(q) /\ rest[k] = q[k + 1] /\ k + 1 # 1
  BY <1>1
<1>3. Once(rest)
  <2>1. ASSUME NEW k \in 1 .. Len(rest), NEW m \in 1 .. Len(rest), rest[k] = rest[m]
        PROVE  k = m
    <3>1. k + 1 = m + 1
      BY <1>2, <2>1 DEF Once
    <3> QED
      BY <1>1, <3>1
  <2> QED
    BY <2>1 DEF Once
<1>4. \A e : Has(rest, e) => Has(q, e)
  BY <1>2 DEF Has
<1>5. Has(q, Head(q))
  BY <1>1 DEF Has
<1>6. ~Has(rest, Head(q))
  <2>1. 1 \in 1 .. Len(q)
    BY <1>1
  <2> QED
    BY <1>1, <1>2, <2>1 DEF Has, Once
<1>7. ASSUME NEW e, Has(q, e), e # Head(q)
      PROVE  Has(rest, e)
  <2>1. PICK k \in 1 .. Len(q) : q[k] = e
    BY <1>7 DEF Has
  <2>2. PICK m \in 1 .. Len(rest) : m + 1 = k
    <3>1. k - 1 \in 1 .. Len(rest) /\ (k - 1) + 1 = k
      BY <1>1, <1>7, <2>1
    <3> QED
      BY <3>1
  <2>3. rest[m] = e
    BY <1>2, <2>1, <2>2
  <2> QED
    BY <2>3 DEF Has
<1> QED
  BY <1>1, <1>3, <1>4, <1>5, <1>6, <1>7

-----------------------------------------------------------------------------
(* Texts.                                                                  *)

\* Updates that come later change nothing of a text.
LEMMA TextExtended ==
  ASSUME NEW all, NEW more, NEW doc, NEW has, \A e \in has : more[e] = all[e]
  PROVE  /\ Integrated(more, doc, has) = Integrated(all, doc, has)
         /\ Visible(more, doc, has) = Visible(all, doc, has)
<1>1. \A e \in has : more[e] = all[e]
  OBVIOUS
<1>2. ASSUME NEW e \in has
      PROVE  e \in Integrated(more, doc, has) <=> e \in Integrated(all, doc, has)
  <2>1. CASE all[e].needs \subseteq has
    <3>1. \A d \in {e} \cup all[e].needs : more[d] = all[d]
      BY <1>1, <2>1
    <3> QED
      BY <1>1, <2>1, <3>1 DEF Integrated
  <2>2. CASE ~(all[e].needs \subseteq has)
    BY <1>1, <2>2 DEF Integrated
  <2> QED
    BY <2>1, <2>2
<1>3. Integrated(more, doc, has) \subseteq has /\ Integrated(all, doc, has) \subseteq has
  BY DEF Integrated
<1>4. Integrated(more, doc, has) = Integrated(all, doc, has)
  BY <1>2, <1>3
<1> DEFINE taken == Integrated(all, doc, has)
<1>5. \A e \in taken : more[e] = all[e]
  BY <1>1, <1>3
<1>6. Visible(more, doc, has) = {e \in taken : more[e].erases = {} /\ \A d \in taken : e \notin more[d].erases}
  BY <1>4 DEF Visible
<1>7. Visible(all, doc, has) = {e \in taken : all[e].erases = {} /\ \A d \in taken : e \notin all[d].erases}
  BY DEF Visible
<1> HIDE DEF taken
<1> QED
  BY <1>4, <1>5, <1>6, <1>7

\* What a Y.Doc has been given more of, it takes in more of.
LEMMA TextGrows ==
  ASSUME NEW all, NEW doc, NEW has, NEW more, has \subseteq more
  PROVE  Integrated(all, doc, has) \subseteq Integrated(all, doc, more)
  BY DEF Integrated

LEMMA VisibleIsShown ==
  ASSUME NEW u, NEW p, NEW all
  PROVE  /\ Text(u, p, all) \subseteq Shown(u, p, all)
         /\ Shown(u, p, all) \subseteq p.has
         /\ \A e \in Shown(u, p, all) \ Text(u, p, all) : \E d \in p.has : e \in all[d].erases
  BY DEF Text, Visible, Shown, Integrated

-----------------------------------------------------------------------------
(* Pages.                                                                  *)

\* The type of a page when there are n updates and l entries.
PageAt(n, l) == [
  status : {"away", "loading", "ready", "error"},
  gets : Seq({"sent", "no", "there", "gone"}),
  shown : BOOLEAN, doc : Nat, made : Nat, has : SUBSET (1 .. n),
  fresh : SUBSET (1 .. n), stale : SUBSET (1 .. n), dom : SUBSET (1 .. n),
  composing : BOOLEAN, remade : BOOLEAN, up : BOOLEAN, socket : Nat,
  cursor : {NoCursor} \cup 0 .. l, at : 0 .. l,
  queue : Seq(1 .. n), out : Seq(1 .. n), missed : SUBSET (1 .. n)]

LEMMA PageIs == Page = PageAt(Len(edits), Len(stream))
  BY DEF Page, PageAt, Numbers

LEMMA PageGrows ==
  ASSUME NEW n \in Nat, NEW l \in Nat, NEW n2 \in Nat, NEW l2 \in Nat, n <= n2, l <= l2,
         NEW p \in PageAt(n, l)
  PROVE  p \in PageAt(n2, l2)
<1>1. 1 .. n \subseteq 1 .. n2 /\ 0 .. l \subseteq 0 .. l2
  OBVIOUS
<1>2. p.queue \in Seq(1 .. n2) /\ p.out \in Seq(1 .. n2)
  BY <1>1, Widened DEF PageAt
<1>3. p.cursor \in {NoCursor} \cup 0 .. l2 /\ p.at \in 0 .. l2
  BY <1>1 DEF PageAt
<1> QED
  BY <1>1, <1>2, <1>3 DEF PageAt

LEMMA RenderedIs ==
  ASSUME NEW n \in Nat, NEW l \in Nat, NEW p \in PageAt(n, l), NEW u, NEW all
  PROVE  /\ Rendered(u, p, all) \in PageAt(n, l)
         /\ \E dom : Rendered(u, p, all) = [p EXCEPT !.dom = dom]
         /\ Faithful(u, Rendered(u, p, all), all)
<1> DEFINE dom == IF Mounted(p) THEN Text(u, p, all) ELSE {}
           q == [p EXCEPT !.dom = dom]
<1>1. dom \subseteq 1 .. n
  BY VisibleIsShown DEF PageAt
<1>2. Rendered(u, p, all) = q
  BY DEF Rendered
<1> HIDE DEF dom
<1>3. q \in PageAt(n, l)
  BY <1>1 DEF PageAt
<1>4. q.status = p.status /\ q.shown = p.shown /\ q.doc = p.doc /\ q.has = p.has /\ q.dom = dom
  BY DEF PageAt
<1>5. (Mounted(q) <=> Mounted(p)) /\ Text(u, q, all) = Text(u, p, all)
  BY <1>4 DEF Mounted, Text
<1>6. Mounted(q) => q.dom = Text(u, q, all)
  BY <1>4, <1>5 DEF dom
<1> HIDE DEF q
<1>7. Faithful(u, q, all)
  BY <1>6, VisibleIsShown DEF Faithful
<1> QED
  BY <1>2, <1>3, <1>7 DEF q

\* A page with another screen.
LEMMA Redrawn ==
  ASSUME NEW p, NEW dom, NEW q, q = [p EXCEPT !.dom = dom], NEW n \in Nat, NEW l \in Nat, p \in PageAt(n, l)
  PROVE  /\ q.status = p.status /\ q.gets = p.gets /\ q.shown = p.shown /\ q.doc = p.doc
         /\ q.has = p.has /\ q.fresh = p.fresh /\ q.stale = p.stale /\ q.composing = p.composing
         /\ q.remade = p.remade /\ q.up = p.up /\ q.socket = p.socket /\ q.cursor = p.cursor
         /\ q.at = p.at /\ q.queue = p.queue /\ q.out = p.out /\ q.missed = p.missed
  BY DEF PageAt

LEMMA RenderedInv ==
  ASSUME NEW n \in Nat, NEW l \in Nat, NEW p \in PageAt(n, l), NEW u, NEW all, NEW log,
         Buffered(p), Sourced(u, p, all, log), Caught(p, log)
  PROVE  LET q == Rendered(u, p, all) IN
         /\ q \in PageAt(n, l) /\ PageInv(u, q, all, log)
         /\ q.queue = p.queue /\ q.out = p.out
<1> DEFINE q == Rendered(u, p, all)
<1>1. PICK dom : q = [p EXCEPT !.dom = dom]
  BY RenderedIs
<1>2. q \in PageAt(n, l) /\ Faithful(u, q, all)
  BY RenderedIs
<1> HIDE DEF q
<1>3. /\ q.status = p.status /\ q.shown = p.shown /\ q.doc = p.doc
      /\ q.has = p.has /\ q.fresh = p.fresh /\ q.stale = p.stale /\ q.composing = p.composing
      /\ q.up = p.up /\ q.cursor = p.cursor
      /\ q.at = p.at /\ q.queue = p.queue /\ q.out = p.out /\ q.missed = p.missed
  BY <1>1, Redrawn
<1>4. Buffered(q)
  BY <1>3 DEF Buffered, Mounted
<1>5. Sourced(u, q, all, log)
  BY <1>3 DEF Sourced, Got
<1>6. Caught(q, log)
  BY <1>3 DEF Caught, Covered, Got
<1> QED
  BY <1>2, <1>3, <1>4, <1>5, <1>6 DEF PageInv, q

\* The Y.Doc of a page that may have none yet.
LEMMA EnsureIs ==
  ASSUME NEW n \in Nat, NEW l \in Nat, NEW p \in PageAt(n, l),
         p.doc = 0 => p.has = {}, p.doc # 0 => p.fresh = {} /\ p.stale = {}
  PROVE  LET q == Ensure(p) IN
         /\ q \in PageAt(n, l)
         /\ q.doc # 0 /\ q.fresh = {} /\ q.stale = {}
         /\ Got(q) \subseteq Got(p) /\ Got(p) \cup p.missed \subseteq Got(q) \cup q.missed
         /\ p.missed \subseteq q.missed
         /\ q.status = p.status /\ q.shown = p.shown /\ q.composing = p.composing
         /\ q.remade = p.remade /\ q.dom = p.dom /\ q.gets = p.gets
         /\ q.up = p.up /\ q.socket = p.socket /\ q.cursor = p.cursor
         /\ q.at = p.at /\ q.queue = p.queue /\ q.out = p.out
<1> DEFINE Is(q) ==
      /\ q \in PageAt(n, l)
      /\ q.doc # 0 /\ q.fresh = {} /\ q.stale = {}
      /\ Got(q) \subseteq Got(p) /\ Got(p) \cup p.missed \subseteq Got(q) \cup q.missed
      /\ p.missed \subseteq q.missed
      /\ q.status = p.status /\ q.shown = p.shown /\ q.composing = p.composing
      /\ q.remade = p.remade /\ q.dom = p.dom /\ q.gets = p.gets
      /\ q.up = p.up /\ q.socket = p.socket /\ q.cursor = p.cursor
      /\ q.at = p.at /\ q.queue = p.queue /\ q.out = p.out
<1>1. Is(Ensure(p))
  <2>1. CASE p.doc # 0
    <3>1. Ensure(p) = p
      BY <2>1 DEF Ensure
    <3>2. Is(p)
      BY <2>1
    <3> HIDE DEF Is
    <3> QED
      BY <3>1, <3>2
  <2>2. CASE p.doc = 0
    <3> DEFINE q == [p EXCEPT !.made = @ + 1, !.doc = p.made + 1, !.has = p.fresh,
                       !.fresh = {}, !.stale = {}, !.missed = @ \cup p.stale]
    <3>1. Ensure(p) = q
      BY <2>2 DEF Ensure
    <3>2. q \in PageAt(n, l)
      <4>1. p.made + 1 \in Nat /\ p.fresh \in SUBSET (1 .. n) /\ p.missed \cup p.stale \in SUBSET (1 .. n)
        BY DEF PageAt
      <4> QED
        BY <4>1 DEF PageAt
    <3>3. /\ q.doc = p.made + 1 /\ q.has = p.fresh /\ q.fresh = {} /\ q.stale = {}
          /\ q.missed = p.missed \cup p.stale
          /\ q.status = p.status /\ q.shown = p.shown /\ q.composing = p.composing
          /\ q.remade = p.remade /\ q.dom = p.dom /\ q.gets = p.gets
          /\ q.up = p.up /\ q.socket = p.socket /\ q.cursor = p.cursor
          /\ q.at = p.at /\ q.queue = p.queue /\ q.out = p.out
      BY DEF PageAt
    <3>4. p.made \in Nat
      BY DEF PageAt
    <3> HIDE DEF q
    <3>5. q.doc # 0
      BY <3>3, <3>4
    <3>6. Got(q) \subseteq Got(p) /\ Got(p) \cup p.missed \subseteq Got(q) \cup q.missed
      BY <3>3, <2>2 DEF Got
    <3>7. Is(q)
      BY <3>2, <3>3, <3>5, <3>6
    <3> HIDE DEF Is
    <3> QED
      BY <3>1, <3>7
  <2> QED
    BY <2>1, <2>2
<1> QED
  BY <1>1

-----------------------------------------------------------------------------
(* What a page has been sent.                                              *)

LEMMA CoveredKept ==
  ASSUME NEW p, NEW q, NEW log, NEW n,
         Got(p) \cup p.missed \subseteq Got(q) \cup q.missed,
         p.doc = 0 => q.doc = 0 \/ ~Deleted(log, n),
         Covered(p, log, n)
  PROVE  Covered(q, log, n)
  BY DEF Covered

\* Nothing that it has or has let pass is gone, and the deletion of the block has
\* come before nothing.
LEMMA CaughtKept ==
  ASSUME NEW p, NEW q, NEW log,
         q.cursor = p.cursor, q.at = p.at, q.up => p.up,
         Got(p) \cup p.missed \subseteq Got(q) \cup q.missed, p.missed \subseteq q.missed,
         p.doc = 0 => q.doc = 0 \/ (~Deleted(log, p.at) /\ ~Deleted(log, p.cursor)),
         Caught(p, log)
  PROVE  Caught(q, log)
<1>1. q.up => Covered(q, log, p.at)
  BY CoveredKept DEF Caught
<1>2. Covered(q, log, p.cursor)
  BY CoveredKept DEF Caught
<1> QED
  BY <1>1, <1>2 DEF Caught

\* It has let pass everything.
LEMMA CaughtWiped ==
  ASSUME NEW p, NEW q, NEW log, p.at \in Nat, p.cursor \in Int,
         q.cursor = p.cursor, q.at = p.at, p.missed \subseteq q.missed,
         \A e : Sent(log, p.at, e) => e \in q.missed,
         Caught(p, log)
  PROVE  Caught(q, log)
<1>1. \A e : Sent(log, p.cursor, e) => e \in q.missed
  <2>1. CASE p.cursor <= p.at
    BY <2>1 DEF Sent
  <2>2. CASE ~(p.cursor <= p.at)
    BY <2>2 DEF Caught
  <2> QED
    BY <2>1, <2>2
<1> QED
  BY <1>1 DEF Caught, Covered

\* With more updates and more entries everything is still so.
LEMMA PageKept ==
  ASSUME NEW n \in Nat, NEW l \in Nat, NEW p \in PageAt(n, l), NEW u,
         NEW all, NEW more, \A e \in 1 .. n : more[e] = all[e],
         NEW log, NEW longer, Len(log) = l, Len(longer) \in Nat, l <= Len(longer),
         \A k \in 1 .. l : longer[k] = log[k],
         PageInv(u, p, all, log)
  PROVE  PageInv(u, p, more, longer)
<1>1. ASSUME NEW m, m \in {NoCursor} \cup 0 .. l
      PROVE  /\ \A e : Sent(longer, m, e) <=> Sent(log, m, e)
             /\ Deleted(longer, m) <=> Deleted(log, m)
  <2>1. \A k \in 1 .. m : longer[k] = log[k]
    BY <1>1 DEF NoCursor
  <2>2. ASSUME NEW e
        PROVE  Sent(longer, m, e) <=> Sent(log, m, e)
    BY <2>1 DEF Sent
  <2>3. Deleted(longer, m) <=> Deleted(log, m)
    BY <2>1 DEF Deleted
  <2> QED
    BY <2>2, <2>3
<1>2. \A e : Sent(log, l, e) => Sent(longer, Len(longer), e)
  BY DEF Sent
<1>3. Got(p) \subseteq 1 .. n /\ p.has \subseteq 1 .. n
  BY DEF Got, PageAt
<1>4. Sourced(u, p, more, longer)
  BY <1>2, <1>3 DEF Sourced, PageInv
<1>5. p.at \in 0 .. l /\ p.cursor \in {NoCursor} \cup 0 .. l
  BY DEF PageAt
<1>6. Caught(p, longer)
  <2>1. Covered(p, longer, p.at) <=> Covered(p, log, p.at)
    BY <1>1, <1>5 DEF Covered
  <2>2. Covered(p, longer, p.cursor) <=> Covered(p, log, p.cursor)
    BY <1>1, <1>5 DEF Covered
  <2>3. \A e : Sent(longer, p.cursor, e) <=> Sent(log, p.cursor, e)
    BY <1>1, <1>5
  <2>4. Caught(p, log)
    BY DEF PageInv
  <2>5. p.up => Covered(p, longer, p.at)
    BY <2>1, <2>4 DEF Caught
  <2>6. Covered(p, longer, p.cursor)
    BY <2>2, <2>4 DEF Caught
  <2>7. p.cursor <= p.at \/ \A e : Sent(longer, p.cursor, e) => e \in p.missed
    BY <2>3, <2>4 DEF Caught
  <2> QED
    BY <2>5, <2>6, <2>7 DEF Caught
<1>7. Faithful(u, p, more)
  <2>1. /\ Integrated(more, <<u, p.doc>>, p.has) = Integrated(all, <<u, p.doc>>, p.has)
        /\ Text(u, p, more) = Text(u, p, all)
    <3> DEFINE doc == <<u, p.doc>>
               has == p.has
    <3>1. \A e \in has : more[e] = all[e]
      BY <1>3
    <3> HIDE DEF doc, has
    <3>2. /\ Integrated(more, doc, has) = Integrated(all, doc, has)
          /\ Visible(more, doc, has) = Visible(all, doc, has)
      BY <3>1, TextExtended
    <3> QED
      BY <3>2 DEF doc, has, Text
  <2>2. Integrated(all, <<u, p.doc>>, p.has) \subseteq p.has
    BY DEF Integrated
  <2>3. Shown(u, p, more) = Shown(u, p, all)
    BY <1>3, <2>1, <2>2 DEF Shown
  <2> QED
    BY <2>1, <2>3 DEF Faithful, PageInv
<1> QED
  BY <1>4, <1>6, <1>7 DEF PageInv

-----------------------------------------------------------------------------
(* The steps of one page.                                                  *)

LEMMA ComposingStarts ==
  ASSUME NEW n \in Nat, NEW l \in Nat, NEW p \in PageAt(n, l), NEW u, NEW all, NEW log,
         PageInv(u, p, all, log), Mounted(p),
         NEW q, q = [p EXCEPT !.composing = TRUE]
  PROVE  /\ q \in PageAt(n, l) /\ PageInv(u, q, all, log)
         /\ q.queue = p.queue /\ q.out = p.out
<1>1. q \in PageAt(n, l)
  BY DEF PageAt
<1>2. /\ q.status = p.status /\ q.shown = p.shown /\ q.doc = p.doc /\ q.dom = p.dom
      /\ q.has = p.has /\ q.fresh = p.fresh /\ q.stale = p.stale /\ q.composing = TRUE
      /\ q.remade = p.remade /\ q.up = p.up /\ q.cursor = p.cursor
      /\ q.at = p.at /\ q.queue = p.queue /\ q.out = p.out /\ q.missed = p.missed
  BY DEF PageAt
<1>3. Buffered(q)
  BY <1>2 DEF PageInv, Buffered, Mounted
<1>4. Sourced(u, q, all, log)
  BY <1>2 DEF PageInv, Sourced, Got
<1>5. Caught(q, log)
  BY <1>2 DEF PageInv, Caught, Covered, Got
<1>6. Faithful(u, q, all)
  BY <1>2 DEF PageInv, Faithful, Mounted, Shown
<1> QED
  BY <1>1, <1>2, <1>3, <1>4, <1>5, <1>6 DEF PageInv

\* What the other end of a composition leaves to be rendered.
LEMMA ComposingEnds ==
  ASSUME NEW n \in Nat, NEW l \in Nat, NEW p \in PageAt(n, l), NEW u, NEW all, NEW log,
         Buffered(p), Sourced(u, p, all, log), Caught(p, log),
         NEW q, q = [p EXCEPT !.composing = FALSE]
  PROVE  /\ q \in PageAt(n, l)
         /\ Buffered(q) /\ Sourced(u, q, all, log) /\ Caught(q, log)
         /\ q.queue = p.queue /\ q.out = p.out
         /\ q.doc = p.doc /\ q.status = p.status /\ q.shown = p.shown
<1>1. q \in PageAt(n, l)
  BY DEF PageAt
<1>2. /\ q.status = p.status /\ q.shown = p.shown /\ q.doc = p.doc
      /\ q.has = p.has /\ q.fresh = p.fresh /\ q.stale = p.stale /\ q.composing = FALSE
      /\ q.up = p.up /\ q.cursor = p.cursor
      /\ q.at = p.at /\ q.queue = p.queue /\ q.out = p.out /\ q.missed = p.missed
  BY DEF PageAt
<1>3. Buffered(q)
  BY <1>2 DEF Buffered, Mounted
<1>4. Sourced(u, q, all, log)
  BY <1>2 DEF Sourced, Got
<1>5. Caught(q, log)
  BY <1>2 DEF Caught, Covered, Got
<1> QED
  BY <1>1, <1>2, <1>3, <1>4, <1>5

\* The block comes into the store, by an operation of the page or by a frame of
\* one: nothing that the page has been sent had deleted it.
LEMMA BlockComes ==
  ASSUME NEW n \in Nat, NEW l \in Nat, NEW p \in PageAt(n, l), NEW u, NEW all, NEW log,
         p.doc = 0 => p.has = {}, p.doc # 0 => p.fresh = {} /\ p.stale = {},
         p.composing => Mounted(p), p.status = "away" => ~p.up,
         Sourced(u, p, all, log), Caught(p, log),
         ~Deleted(log, p.at), ~Deleted(log, p.cursor),
         NEW q, q = Rendered(u, Ensure([p EXCEPT !.shown = TRUE]), all)
  PROVE  /\ q \in PageAt(n, l) /\ PageInv(u, q, all, log)
         /\ q.queue = p.queue /\ q.out = p.out
<1>1. PICK p1 : p1 = [p EXCEPT !.shown = TRUE]
  OBVIOUS
<1>2. p1 \in PageAt(n, l)
  BY <1>1 DEF PageAt
<1>3. /\ p1.status = p.status /\ p1.shown = TRUE /\ p1.doc = p.doc
      /\ p1.has = p.has /\ p1.fresh = p.fresh /\ p1.stale = p.stale /\ p1.composing = p.composing
      /\ p1.up = p.up /\ p1.cursor = p.cursor
      /\ p1.at = p.at /\ p1.queue = p.queue /\ p1.out = p.out /\ p1.missed = p.missed
  BY <1>1 DEF PageAt
<1>4. PICK p2 : p2 = Ensure(p1)
  OBVIOUS
<1>5. /\ p2 \in PageAt(n, l)
      /\ p2.doc # 0 /\ p2.fresh = {} /\ p2.stale = {}
      /\ Got(p2) \subseteq Got(p1) /\ Got(p1) \cup p1.missed \subseteq Got(p2) \cup p2.missed
      /\ p1.missed \subseteq p2.missed
      /\ p2.status = p1.status /\ p2.shown = p1.shown /\ p2.composing = p1.composing
      /\ p2.up = p1.up /\ p2.cursor = p1.cursor
      /\ p2.at = p1.at /\ p2.queue = p1.queue /\ p2.out = p1.out
  BY <1>2, <1>3, <1>4, EnsureIs
<1>6. Got(p1) = Got(p)
  BY <1>3 DEF Got
<1>7. Buffered(p2)
  BY <1>3, <1>5 DEF Buffered, Mounted
<1>8. Sourced(u, p2, all, log)
  BY <1>5, <1>6 DEF Sourced
<1>9. Caught(p2, log)
  BY <1>3, <1>5, <1>6, CaughtKept
<1> QED
  BY <1>1, <1>3, <1>4, <1>5, <1>7, <1>8, <1>9, RenderedInv

\* And out of it, by an operation of the page.
BlockOff(p) == [p EXCEPT !.shown = FALSE, !.dom = {}, !.composing = FALSE, !.remade = FALSE]

LEMMA BlockGoes ==
  ASSUME NEW n \in Nat, NEW l \in Nat, NEW p \in PageAt(n, l), NEW u, NEW all, NEW log,
         PageInv(u, p, all, log),
         NEW q, q = BlockOff(p)
  PROVE  /\ q \in PageAt(n, l) /\ PageInv(u, q, all, log)
         /\ q.queue = p.queue /\ q.out = p.out
<1>1. q \in PageAt(n, l)
  BY DEF PageAt, BlockOff
<1>2. /\ q.status = p.status /\ q.shown = FALSE /\ q.doc = p.doc
      /\ q.has = p.has /\ q.fresh = p.fresh /\ q.stale = p.stale /\ q.composing = FALSE
      /\ q.up = p.up /\ q.cursor = p.cursor
      /\ q.at = p.at /\ q.queue = p.queue /\ q.out = p.out /\ q.missed = p.missed
  BY DEF PageAt, BlockOff
<1>3. Buffered(q)
  BY <1>2 DEF PageInv, Buffered
<1>4. Sourced(u, q, all, log)
  BY <1>2 DEF PageInv, Sourced, Got
<1>5. Caught(q, log)
  BY <1>2 DEF PageInv, Caught, Covered, Got
<1>6. Faithful(u, q, all)
  BY <1>2 DEF Faithful, Mounted
<1> QED
  BY <1>1, <1>2, <1>3, <1>4, <1>5, <1>6 DEF PageInv

\* An answer is read, a connection ends, a frame arrives at the server.
LEMMA Elsewhere ==
  ASSUME NEW p, NEW q, NEW u, NEW all, NEW log, PageInv(u, p, all, log),
         q.status = p.status, q.shown = p.shown, q.doc = p.doc, q.dom = p.dom,
         q.has = p.has, q.fresh = p.fresh, q.stale = p.stale, q.composing = p.composing,
         q.remade = p.remade, q.up => p.up, q.cursor = p.cursor, q.at = p.at, q.missed = p.missed
  PROVE  PageInv(u, q, all, log)
<1>1. Buffered(q)
  BY DEF PageInv, Buffered, Mounted
<1>2. Sourced(u, q, all, log)
  BY DEF PageInv, Sourced, Got
<1>3. Caught(q, log)
  BY DEF PageInv, Caught, Covered, Got
<1>4. Faithful(u, q, all)
  BY DEF PageInv, Faithful, Mounted, Shown, Text
<1> QED
  BY <1>1, <1>2, <1>3, <1>4 DEF PageInv

LEMMA AnswerRead ==
  ASSUME NEW n \in Nat, NEW l \in Nat, NEW p \in PageAt(n, l), NEW u, NEW all, NEW log,
         PageInv(u, p, all, log), NEW gets \in Seq({"sent", "no", "there", "gone"}),
         NEW q, q = [p EXCEPT !.gets = gets]
  PROVE  /\ q \in PageAt(n, l) /\ PageInv(u, q, all, log)
         /\ q.queue = p.queue /\ q.out = p.out
<1>1. q \in PageAt(n, l)
  BY DEF PageAt
<1>2. /\ q.status = p.status /\ q.shown = p.shown /\ q.doc = p.doc /\ q.dom = p.dom
      /\ q.has = p.has /\ q.fresh = p.fresh /\ q.stale = p.stale /\ q.composing = p.composing
      /\ q.remade = p.remade /\ q.up = p.up /\ q.cursor = p.cursor
      /\ q.at = p.at /\ q.queue = p.queue /\ q.out = p.out /\ q.missed = p.missed
  BY DEF PageAt
<1> QED
  BY <1>1, <1>2, Elsewhere

\* What it has sent has come to the server, in part or not at all.
Sending(p, out) == [p EXCEPT !.out = out]
Offline(p, out) == [[p EXCEPT !.up = FALSE] EXCEPT !.out = out]

LEMMA FramesGo ==
  ASSUME NEW n \in Nat, NEW l \in Nat, NEW p \in PageAt(n, l), NEW u, NEW all, NEW log,
         PageInv(u, p, all, log), NEW out \in Seq(1 .. n),
         NEW q, q = Sending(p, out) \/ q = Offline(p, out)
  PROVE  /\ q \in PageAt(n, l) /\ PageInv(u, q, all, log)
         /\ q.queue = p.queue /\ q.out = out
<1> DEFINE Fits(r) ==
      /\ r \in PageAt(n, l)
      /\ r.status = p.status /\ r.shown = p.shown /\ r.doc = p.doc /\ r.dom = p.dom
      /\ r.has = p.has /\ r.fresh = p.fresh /\ r.stale = p.stale /\ r.composing = p.composing
      /\ r.remade = p.remade /\ (r.up => p.up) /\ r.cursor = p.cursor
      /\ r.at = p.at /\ r.queue = p.queue /\ r.out = out /\ r.missed = p.missed
<1>1. Fits(Sending(p, out))
  BY DEF PageAt, Sending
<1>2. Fits(Offline(p, out))
  BY DEF PageAt, Offline
<1>3. Fits(q)
  <2> HIDE DEF Fits
  <2> QED
    BY <1>1, <1>2
<1> QED
  BY <1>3, Elsewhere

\* A second goes by.
Aged(p) == [p EXCEPT !.fresh = {}, !.stale = @ \cup p.fresh]

LEMMA BufferAges ==
  ASSUME NEW n \in Nat, NEW l \in Nat, NEW p \in PageAt(n, l), NEW u, NEW all, NEW log,
         PageInv(u, p, all, log), p.fresh # {},
         NEW q, q = Aged(p)
  PROVE  /\ q \in PageAt(n, l) /\ PageInv(u, q, all, log)
         /\ q.queue = p.queue /\ q.out = p.out
<1>1. q \in PageAt(n, l)
  <2>1. p.stale \cup p.fresh \in SUBSET (1 .. n)
    BY DEF PageAt
  <2> QED
    BY <2>1 DEF PageAt, Aged
<1>2. /\ q.status = p.status /\ q.shown = p.shown /\ q.doc = p.doc /\ q.dom = p.dom
      /\ q.has = p.has /\ q.fresh = {} /\ q.stale = p.stale \cup p.fresh /\ q.composing = p.composing
      /\ q.remade = p.remade /\ q.up = p.up /\ q.cursor = p.cursor
      /\ q.at = p.at /\ q.queue = p.queue /\ q.out = p.out /\ q.missed = p.missed
  BY DEF PageAt, Aged
<1>3. Got(q) = Got(p)
  BY <1>2 DEF Got
<1>4. Buffered(q)
  BY <1>2 DEF PageInv, Buffered, Mounted
<1>5. Sourced(u, q, all, log)
  BY <1>3 DEF PageInv, Sourced
<1>6. Caught(q, log)
  BY <1>2, <1>3 DEF PageInv, Caught, Covered
<1>7. Faithful(u, q, all)
  BY <1>2 DEF PageInv, Faithful, Mounted, Shown, Text
<1> QED
  BY <1>1, <1>2, <1>4, <1>5, <1>6, <1>7 DEF PageInv

\* A page is opened, with a cursor c of an earlier visit: all before it has passed.
Opened(p, c, passed) ==
  [p EXCEPT !.status = "loading", !.gets = <<"sent">>, !.cursor = c, !.missed = passed]

LEMMA PageOpens ==
  ASSUME NEW n \in Nat, NEW l \in Nat, NEW p \in PageAt(n, l), NEW u, NEW all, NEW log,
         PageInv(u, p, all, log), p.status = "away",
         NEW c \in {NoCursor} \cup 0 .. l, NEW passed \in SUBSET (1 .. n),
         \A e : Sent(log, c, e) => e \in passed,
         NEW q, q = Opened(p, c, passed)
  PROVE  /\ q \in PageAt(n, l) /\ PageInv(u, q, all, log)
         /\ q.queue = p.queue /\ q.out = p.out
<1>1. q \in PageAt(n, l)
  <2>1. <<"sent">> \in Seq({"sent", "no", "there", "gone"})
    OBVIOUS
  <2>2. PICK gets : gets = <<"sent">>
    OBVIOUS
  <2>3. PICK p1 : p1 = [p EXCEPT !.status = "loading", !.gets = gets]
    OBVIOUS
  <2>4. p1 \in PageAt(n, l)
    BY <2>1, <2>2, <2>3 DEF PageAt
  <2>5. q = [p1 EXCEPT !.cursor = c, !.missed = passed]
    BY <2>2, <2>3 DEF PageAt, Opened
  <2> QED
    BY <2>4, <2>5 DEF PageAt
<1>2. /\ q.status = "loading" /\ q.shown = p.shown /\ q.doc = p.doc
      /\ q.has = p.has /\ q.fresh = p.fresh /\ q.stale = p.stale /\ q.composing = p.composing
      /\ q.up = p.up /\ q.cursor = c
      /\ q.at = p.at /\ q.queue = p.queue /\ q.out = p.out /\ q.missed = passed
  BY DEF PageAt, Opened
<1>3. ~p.up /\ ~p.composing
  BY DEF PageInv, Buffered, Mounted
<1>4. Buffered(q)
  BY <1>2, <1>3 DEF PageInv, Buffered
<1>5. Sourced(u, q, all, log)
  BY <1>2 DEF PageInv, Sourced, Got
<1>6. Caught(q, log)
  BY <1>2, <1>3 DEF Caught, Covered
<1>7. Faithful(u, q, all)
  BY <1>2 DEF Faithful, Mounted
<1> QED
  BY <1>1, <1>2, <1>4, <1>5, <1>6, <1>7 DEF PageInv

\* A load fails, and the editor is off the screen.
Failing(p, gets) ==
  [p EXCEPT !.gets = gets, !.status = "error", !.dom = {}, !.composing = FALSE, !.remade = FALSE]

LEMMA PageFails ==
  ASSUME NEW n \in Nat, NEW l \in Nat, NEW p \in PageAt(n, l), NEW u, NEW all, NEW log,
         PageInv(u, p, all, log), NEW gets \in Seq({"sent", "no", "there", "gone"}),
         NEW q, q = Failing(p, gets)
  PROVE  /\ q \in PageAt(n, l) /\ PageInv(u, q, all, log)
         /\ q.queue = p.queue /\ q.out = p.out
<1> DEFINE p1 == [p EXCEPT !.gets = gets, !.dom = {}]
           p2 == [p1 EXCEPT !.status = "error", !.composing = FALSE, !.remade = FALSE]
<1>7. p1 \in PageAt(n, l)
  BY DEF PageAt
<1>8. q = p2
  BY DEF PageAt, Failing
<1>9. /\ p1.shown = p.shown /\ p1.doc = p.doc
      /\ p1.has = p.has /\ p1.fresh = p.fresh /\ p1.stale = p.stale
      /\ p1.up = p.up /\ p1.cursor = p.cursor
      /\ p1.at = p.at /\ p1.queue = p.queue /\ p1.out = p.out /\ p1.missed = p.missed
  BY DEF PageAt
<1> HIDE DEF p1
<1>10. p2 \in PageAt(n, l)
  BY <1>7 DEF PageAt
<1>11. /\ p2.status = "error" /\ p2.shown = p1.shown /\ p2.doc = p1.doc
       /\ p2.has = p1.has /\ p2.fresh = p1.fresh /\ p2.stale = p1.stale /\ p2.composing = FALSE
       /\ p2.up = p1.up /\ p2.cursor = p1.cursor
       /\ p2.at = p1.at /\ p2.queue = p1.queue /\ p2.out = p1.out /\ p2.missed = p1.missed
  BY <1>7 DEF PageAt
<1> HIDE DEF p2
<1>1. q \in PageAt(n, l)
  BY <1>8, <1>10
<1>2. /\ q.status = "error" /\ q.shown = p.shown /\ q.doc = p.doc
      /\ q.has = p.has /\ q.fresh = p.fresh /\ q.stale = p.stale /\ q.composing = FALSE
      /\ q.up = p.up /\ q.cursor = p.cursor
      /\ q.at = p.at /\ q.queue = p.queue /\ q.out = p.out /\ q.missed = p.missed
  BY <1>8, <1>9, <1>11
<1>3. Buffered(q)
  BY <1>2 DEF PageInv, Buffered
<1>4. Sourced(u, q, all, log)
  BY <1>2 DEF PageInv, Sourced, Got
<1>5. Caught(q, log)
  BY <1>2 DEF PageInv, Caught, Covered, Got
<1>6. Faithful(u, q, all)
  BY <1>2 DEF Faithful, Mounted
<1> QED
  BY <1>1, <1>2, <1>3, <1>4, <1>5, <1>6 DEF PageInv

\* The types of what follows.
LEMMA SocketFields ==
  ASSUME NEW n \in Nat, NEW l \in Nat, NEW p \in PageAt(n, l)
  PROVE  /\ p.socket + 1 \in Nat /\ p.socket \in Nat /\ p.missed \in SUBSET (1 .. n) /\ p.has \in SUBSET (1 .. n)
         /\ p.fresh \in SUBSET (1 .. n)
         /\ p.at \in 0 .. l /\ p.cursor \in {NoCursor} \cup 0 .. l /\ p.up \in BOOLEAN
         /\ p.queue \in Seq(1 .. n) /\ p.out \in Seq(1 .. n)
         /\ p.gets \in Seq({"sent", "no", "there", "gone"}) /\ p.doc \in Nat
  BY DEF PageAt

LEMMA GivenSet ==
  ASSUME NEW n \in Nat, NEW l \in Nat, NEW p \in PageAt(n, l), NEW some \in SUBSET (1 .. n)
  PROVE  [p EXCEPT !.fresh = some] \in PageAt(n, l) /\ [p EXCEPT !.has = some] \in PageAt(n, l)
  BY DEF PageAt

LEMMA FreshIs ==
  ASSUME NEW n \in Nat, NEW l \in Nat, NEW p \in PageAt(n, l), NEW some,
         NEW q, q = [p EXCEPT !.fresh = some]
  PROVE  /\ q.status = p.status /\ q.shown = p.shown /\ q.doc = p.doc /\ q.has = p.has
         /\ q.fresh = some /\ q.stale = p.stale /\ q.composing = p.composing
         /\ q.up = p.up /\ q.queue = p.queue /\ q.out = p.out /\ q.missed = p.missed
         /\ q.at = p.at /\ q.cursor = p.cursor
  BY DEF PageAt

LEMMA HasIs ==
  ASSUME NEW n \in Nat, NEW l \in Nat, NEW p \in PageAt(n, l), NEW some,
         NEW q, q = [p EXCEPT !.has = some]
  PROVE  /\ q.status = p.status /\ q.shown = p.shown /\ q.doc = p.doc /\ q.has = some
         /\ q.fresh = p.fresh /\ q.stale = p.stale /\ q.composing = p.composing
         /\ q.up = p.up /\ q.queue = p.queue /\ q.out = p.out /\ q.missed = p.missed
         /\ q.at = p.at /\ q.cursor = p.cursor /\ q.dom = p.dom /\ q.remade = p.remade
  BY DEF PageAt

\* A connection begins, at a cursor, or after entries that it lets pass.
Joins(p, at, passed, cursor) ==
  [p EXCEPT !.up = TRUE, !.socket = @ + 1, !.at = at, !.missed = @ \cup passed, !.cursor = cursor]

Flushing(p, out, queue) == [p EXCEPT !.out = out, !.queue = queue]

LEMMA JoinsSet ==
  ASSUME NEW n \in Nat, NEW l \in Nat, NEW p \in PageAt(n, l), NEW at \in 0 .. l,
         NEW cursor \in 0 .. l, NEW passed \in SUBSET (1 .. n)
  PROVE  Joins(p, at, passed, cursor) \in PageAt(n, l)
<1>1. PICK socket \in Nat, missed \in SUBSET (1 .. n) : socket = p.socket + 1 /\ missed = p.missed \cup passed
  BY SocketFields
<1>2. Joins(p, at, passed, cursor)
      = [p EXCEPT !.up = TRUE, !.socket = socket, !.at = at, !.missed = missed, !.cursor = cursor]
  BY <1>1 DEF Joins
<1>3. PICK up \in BOOLEAN : up = TRUE
  OBVIOUS
<1>4. [p EXCEPT !.up = up, !.socket = socket, !.at = at, !.missed = missed, !.cursor = cursor] \in PageAt(n, l)
  BY DEF PageAt
<1> QED
  BY <1>2, <1>3, <1>4

LEMMA SocketOpens ==
  ASSUME NEW n \in Nat, NEW l \in Nat, NEW p \in PageAt(n, l), NEW u, NEW all, NEW log,
         PageInv(u, p, all, log), p.status # "away",
         NEW at \in 0 .. l, NEW cursor \in 0 .. l, NEW passed \in SUBSET (1 .. n),
         NEW queue \in Seq(1 .. n), NEW out \in Seq(1 .. n),
         \/ cursor = 0 /\ \A e : Sent(log, at, e) => e \in p.has \cup passed
         \/ cursor = p.cursor /\ at = cursor,
         NEW p1, p1 = Flushing(p, out, queue),
         NEW q, q = Joins(p1, at, passed, cursor)
  PROVE  /\ q \in PageAt(n, l) /\ PageInv(u, q, all, log)
         /\ q.queue = queue /\ q.out = out
<1>1. p1 \in PageAt(n, l)
  BY DEF PageAt, Flushing
<1>2. q \in PageAt(n, l)
  BY <1>1, JoinsSet
<1>3. /\ q.status = p.status /\ q.shown = p.shown /\ q.doc = p.doc /\ q.dom = p.dom
      /\ q.has = p.has /\ q.fresh = p.fresh /\ q.stale = p.stale /\ q.composing = p.composing
      /\ q.remade = p.remade /\ q.up = TRUE /\ q.cursor = cursor
      /\ q.at = at /\ q.queue = queue /\ q.out = out /\ q.missed = p.missed \cup passed
  BY DEF PageAt, Joins, Flushing
<1>4. Buffered(q)
  BY <1>3 DEF PageInv, Buffered, Mounted
<1>5. Sourced(u, q, all, log)
  BY <1>3 DEF PageInv, Sourced, Got
<1>6. Caught(q, log)
  <2>1. CASE cursor = 0 /\ \A e : Sent(log, at, e) => e \in p.has \cup passed
    <3>1. Covered(q, log, at)
      BY <1>3, <2>1 DEF Covered, Got
    <3>2. \A e : ~Sent(log, 0, e)
      BY DEF Sent
    <3> QED
      BY <1>3, <2>1, <3>1, <3>2 DEF Caught, Covered
  <2>2. CASE cursor = p.cursor /\ at = cursor
    <3>1. Covered(p, log, cursor)
      BY <2>2 DEF PageInv, Caught
    <3>2. Covered(q, log, cursor)
      BY <1>3, <3>1 DEF Covered, Got
    <3> QED
      BY <1>3, <2>2, <3>2 DEF Caught
  <2> QED
    BY <2>1, <2>2
<1>7. Faithful(u, q, all)
  BY <1>3 DEF PageInv, Faithful, Mounted, Shown, Text
<1> QED
  BY <1>2, <1>3, <1>4, <1>5, <1>6, <1>7 DEF PageInv

\* reload_required: the page begins again, without a cursor.
Wiped(p) == [Destroyed(p) EXCEPT !.status = "loading", !.shown = FALSE, !.dom = {}]
Again(p, gets) == [p EXCEPT !.composing = FALSE, !.remade = FALSE, !.gets = gets]
Anew(p, queue) == [p EXCEPT !.cursor = NoCursor, !.queue = queue, !.socket = @ + 1]

LEMMA AgainSet ==
  ASSUME NEW n \in Nat, NEW l \in Nat, NEW p \in PageAt(n, l),
         NEW gets \in Seq({"sent", "no", "there", "gone"})
  PROVE  Again(p, gets) \in PageAt(n, l)
  BY DEF PageAt, Again

LEMMA AnewSet ==
  ASSUME NEW n \in Nat, NEW l \in Nat, NEW p \in PageAt(n, l), NEW queue \in Seq(1 .. n)
  PROVE  Anew(p, queue) \in PageAt(n, l)
<1>1. PICK socket \in Nat, cursor \in {NoCursor} \cup 0 .. l : socket = p.socket + 1 /\ cursor = NoCursor
  BY SocketFields
<1>2. [p EXCEPT !.cursor = cursor, !.queue = queue, !.socket = socket] \in PageAt(n, l)
  BY DEF PageAt
<1> QED
  BY <1>1, <1>2 DEF Anew

LEMMA PageReloads ==
  ASSUME NEW n \in Nat, NEW l \in Nat, NEW p \in PageAt(n, l), NEW u, NEW all, NEW log,
         PageInv(u, p, all, log), ~p.up,
         NEW gets \in Seq({"sent", "no", "there", "gone"}), NEW queue \in Seq(1 .. n),
         NEW p1, p1 = Wiped(p), NEW p2, p2 = Again(p1, gets), NEW q, q = Anew(p2, queue)
  PROVE  /\ q \in PageAt(n, l) /\ PageInv(u, q, all, log)
         /\ q.queue = queue /\ q.out = p.out
<1>1. p1 \in PageAt(n, l)
  <2>1. Destroyed(p) \in PageAt(n, l)
    BY DEF PageAt, Destroyed
  <2> HIDE DEF Destroyed
  <2> QED
    BY <2>1 DEF PageAt, Wiped
<1>2. p2 \in PageAt(n, l)
  BY <1>1, AgainSet
<1>3. q \in PageAt(n, l)
  BY <1>2, AnewSet
<1>4. /\ p1.doc = 0 /\ p1.has = {} /\ p1.fresh = {} /\ p1.stale = {} /\ p1.status = "loading"
      /\ p1.shown = FALSE /\ p1.up = p.up /\ p1.out = p.out /\ p1.at = p.at
  BY DEF PageAt, Destroyed, Wiped
<1>5. /\ q.doc = 0 /\ q.has = {} /\ q.fresh = {} /\ q.stale = {} /\ q.status = "loading"
      /\ q.shown = FALSE /\ q.up = p.up /\ q.out = p.out /\ q.queue = queue /\ q.at = p.at
      /\ q.composing = FALSE /\ q.cursor = NoCursor
  BY <1>1, <1>4 DEF PageAt, Again, Anew, NoCursor
<1>6. Buffered(q)
  BY <1>5 DEF Buffered
<1>7. Sourced(u, q, all, log)
  BY <1>5 DEF Sourced, Got
<1>8. Caught(q, log)
  <2>1. \A e : ~Sent(log, NoCursor, e)
    BY DEF Sent, NoCursor
  <2> QED
    BY <1>5, <2>1 DEF Caught, Covered
<1>9. Faithful(u, q, all)
  BY <1>5 DEF Faithful, Mounted
<1> QED
  BY <1>3, <1>5, <1>6, <1>7, <1>8, <1>9 DEF PageInv

\* One entry more.
LEMMA SentNext ==
  ASSUME NEW log, NEW m \in Nat
  PROVE  /\ \A e : Sent(log, m + 1, e) <=>
              Sent(log, m, e) \/ (log[m + 1].kind = "crdt" /\ log[m + 1].edit = e)
         /\ Deleted(log, m + 1) <=> Deleted(log, m) \/ log[m + 1].kind = "delete"
<1>1. \A k : k \in 1 .. m + 1 <=> k \in 1 .. m \/ k = m + 1
  OBVIOUS
<1>2. ASSUME NEW e
      PROVE  Sent(log, m + 1, e) <=>
               Sent(log, m, e) \/ (log[m + 1].kind = "crdt" /\ log[m + 1].edit = e)
  BY <1>1 DEF Sent
<1>3. Deleted(log, m + 1) <=> Deleted(log, m) \/ log[m + 1].kind = "delete"
  BY <1>1 DEF Deleted
<1> QED
  BY <1>2, <1>3

\* The frame of its own update: the connection that it came by gets none.
Passed(p, e) == [p EXCEPT !.at = @ + 1, !.missed = @ \cup ({e} \ p.has)]

LEMMA OwnPasses ==
  ASSUME NEW n \in Nat, NEW l \in Nat, NEW p \in PageAt(n, l), NEW u, NEW all, NEW log,
         PageInv(u, p, all, log), p.up, p.at < l,
         log[p.at + 1].kind = "crdt", NEW e \in 1 .. n, log[p.at + 1].edit = e,
         NEW q, q = Passed(p, e)
  PROVE  /\ q \in PageAt(n, l) /\ PageInv(u, q, all, log)
         /\ q.queue = p.queue /\ q.out = p.out
<1>1. p.at \in Nat /\ p.cursor \in Int /\ p.at + 1 \in 0 .. l /\ p.missed \cup ({e} \ p.has) \in SUBSET (1 .. n)
  BY SocketFields DEF NoCursor
<1>2. q \in PageAt(n, l)
  <2>1. q = [p EXCEPT !.at = p.at + 1, !.missed = p.missed \cup ({e} \ p.has)]
    BY DEF Passed
  <2>2. PICK at \in 0 .. l, missed \in SUBSET (1 .. n) :
           at = p.at + 1 /\ missed = p.missed \cup ({e} \ p.has)
    BY <1>1
  <2>3. q = [p EXCEPT !.at = at, !.missed = missed]
    BY <2>1, <2>2
  <2> QED
    BY <2>3 DEF PageAt
<1>3. /\ q.status = p.status /\ q.shown = p.shown /\ q.doc = p.doc /\ q.dom = p.dom
      /\ q.has = p.has /\ q.fresh = p.fresh /\ q.stale = p.stale /\ q.composing = p.composing
      /\ q.remade = p.remade /\ q.up = p.up /\ q.cursor = p.cursor
      /\ q.at = p.at + 1 /\ q.queue = p.queue /\ q.out = p.out /\ q.missed = p.missed \cup ({e} \ p.has)
  BY DEF PageAt, Passed
<1>4. Buffered(q)
  BY <1>3 DEF PageInv, Buffered, Mounted
<1>5. Sourced(u, q, all, log)
  BY <1>3 DEF PageInv, Sourced, Got
<1>6. Caught(q, log)
  <2>1. Covered(p, log, p.at) /\ Covered(p, log, p.cursor)
    BY DEF PageInv, Caught
  <2>2. Got(q) = Got(p) /\ e \in Got(q) \cup q.missed
    BY <1>3 DEF Got
  <2>3. Covered(q, log, p.at + 1)
    <3>1. CASE \A d : Sent(log, p.at, d) => d \in Got(p) \cup p.missed
      <4>1. \A d : Sent(log, p.at + 1, d) => d \in Got(q) \cup q.missed
        BY <1>1, <1>3, <2>2, <3>1, SentNext
      <4> QED
        BY <4>1 DEF Covered
    <3>2. CASE p.doc = 0 /\ Deleted(log, p.at)
      <4>1. Deleted(log, p.at + 1)
        BY <1>1, <3>2, SentNext
      <4> QED
        BY <1>3, <3>2, <4>1 DEF Covered
    <3> QED
      BY <2>1, <3>1, <3>2 DEF Covered
  <2>4. Covered(q, log, p.cursor)
    BY <1>3, <2>1, <2>2 DEF Covered
  <2>5. p.cursor <= p.at \/ \A d : Sent(log, p.cursor, d) => d \in p.missed
    BY DEF PageInv, Caught
  <2> QED
    BY <1>1, <1>3, <2>3, <2>4, <2>5 DEF Caught
<1>7. Faithful(u, q, all)
  BY <1>3 DEF PageInv, Faithful, Mounted, Shown, Text
<1> QED
  BY <1>2, <1>3, <1>4, <1>5, <1>6, <1>7 DEF PageInv

\* A page that is at the next entry, and takes that for its cursor.
Advanced(p) == [[p EXCEPT !.at = @ + 1] EXCEPT !.cursor = p.at + 1]
\* And one that the block has been deleted of.
Removed(p) == BlockOff(Destroyed(p))

LEMMA NextFrame ==
  ASSUME NEW n \in Nat, NEW l \in Nat, NEW p \in PageAt(n, l), p.at < l
  PROVE  LET q == Advanced(p) IN
         /\ q \in PageAt(n, l) /\ p.at \in Nat /\ q.cursor = p.at + 1 /\ q.at = p.at + 1
         /\ q.status = p.status /\ q.shown = p.shown /\ q.doc = p.doc /\ q.dom = p.dom
         /\ q.has = p.has /\ q.fresh = p.fresh /\ q.stale = p.stale /\ q.composing = p.composing
         /\ q.remade = p.remade /\ q.up = p.up
         /\ q.queue = p.queue /\ q.out = p.out /\ q.missed = p.missed
<1>1. PICK at \in 0 .. l : at = p.at + 1
  BY SocketFields
<1>2. p.at \in Nat
  BY SocketFields
<1>3. Advanced(p) = [[p EXCEPT !.at = at] EXCEPT !.cursor = at]
  BY <1>1 DEF Advanced
<1> DEFINE q == [[p EXCEPT !.at = at] EXCEPT !.cursor = at]
<1>4. q \in PageAt(n, l)
  BY DEF PageAt
<1>5. /\ q.cursor = at /\ q.at = at
      /\ q.status = p.status /\ q.shown = p.shown /\ q.doc = p.doc /\ q.dom = p.dom
      /\ q.has = p.has /\ q.fresh = p.fresh /\ q.stale = p.stale /\ q.composing = p.composing
      /\ q.remade = p.remade /\ q.up = p.up
      /\ q.queue = p.queue /\ q.out = p.out /\ q.missed = p.missed
  BY DEF PageAt
<1> HIDE DEF q
<1> QED
  BY <1>1, <1>2, <1>3, <1>4, <1>5 DEF q

LEMMA RemovedIs ==
  ASSUME NEW n \in Nat, NEW l \in Nat, NEW p \in PageAt(n, l)
  PROVE  LET q == Removed(p) IN
         /\ q \in PageAt(n, l)
         /\ q.has = {} /\ q.fresh = {} /\ q.stale = {} /\ q.status = p.status
         /\ q.shown = FALSE /\ q.composing = FALSE /\ q.up = p.up
         /\ q.at = p.at /\ q.cursor = p.cursor /\ q.queue = p.queue /\ q.out = p.out
<1>1. PICK r : r = Destroyed(p)
  OBVIOUS
<1>2. r \in PageAt(n, l)
  BY <1>1 DEF PageAt, Destroyed
<1>3. /\ r.doc = 0 /\ r.has = {} /\ r.fresh = {} /\ r.stale = {} /\ r.status = p.status
      /\ r.up = p.up /\ r.at = p.at /\ r.cursor = p.cursor /\ r.queue = p.queue /\ r.out = p.out
  BY <1>1 DEF PageAt, Destroyed
<1> DEFINE q == [r EXCEPT !.shown = FALSE, !.dom = {}, !.composing = FALSE, !.remade = FALSE]
<1>4. Removed(p) = q
  BY <1>1 DEF Removed, BlockOff
<1>5. q \in PageAt(n, l)
  BY <1>2 DEF PageAt
<1>6. /\ q.doc = r.doc /\ q.has = r.has /\ q.fresh = r.fresh /\ q.stale = r.stale /\ q.status = r.status
      /\ q.shown = FALSE /\ q.composing = FALSE /\ q.up = r.up
      /\ q.at = r.at /\ q.cursor = r.cursor /\ q.queue = r.queue /\ q.out = r.out
  BY <1>2 DEF PageAt
<1> HIDE DEF q
<1> QED
  BY <1>3, <1>4, <1>5, <1>6

LEMMA RemovedNoDoc ==
  ASSUME NEW n \in Nat, NEW l \in Nat, NEW p \in PageAt(n, l)
  PROVE  Removed(p).doc = 0
  BY DEF PageAt, Removed, BlockOff, Destroyed

LEMMA InsertArrives ==
  ASSUME NEW n \in Nat, NEW l \in Nat, NEW p \in PageAt(n, l), NEW u, NEW all, NEW log,
         PageInv(u, p, all, log), p.up, p.at < l,
         log[p.at + 1].kind = "insert", ~Deleted(log, p.at),
         NEW q, q = Rendered(u, Ensure([Advanced(p) EXCEPT !.shown = TRUE]), all)
  PROVE  /\ q \in PageAt(n, l) /\ PageInv(u, q, all, log)
         /\ q.queue = p.queue /\ q.out = p.out
<1> DEFINE p1 == Advanced(p)
<1> HIDE DEF p1
<1>1. /\ p1 \in PageAt(n, l) /\ p.at \in Nat /\ p1.cursor = p.at + 1 /\ p1.at = p.at + 1
      /\ p1.status = p.status /\ p1.shown = p.shown /\ p1.doc = p.doc
      /\ p1.has = p.has /\ p1.fresh = p.fresh /\ p1.stale = p.stale /\ p1.composing = p.composing
      /\ p1.up = p.up /\ p1.queue = p.queue /\ p1.out = p.out /\ p1.missed = p.missed
  <2>1. p1 \in PageAt(n, l) /\ p.at \in Nat /\ p1.cursor = p.at + 1 /\ p1.at = p.at + 1
    BY NextFrame DEF p1
  <2>2. p1.status = p.status /\ p1.shown = p.shown /\ p1.doc = p.doc /\ p1.has = p.has
    BY NextFrame DEF p1
  <2>3. p1.fresh = p.fresh /\ p1.stale = p.stale /\ p1.composing = p.composing
    BY NextFrame DEF p1
  <2>4. p1.up = p.up /\ p1.queue = p.queue /\ p1.out = p.out /\ p1.missed = p.missed
    BY NextFrame DEF p1
  <2> QED
    BY <2>1, <2>2, <2>3, <2>4
<1>2. /\ p1.doc = 0 => p1.has = {}
      /\ p1.doc # 0 => p1.fresh = {} /\ p1.stale = {}
      /\ p1.composing => Mounted(p1)
      /\ p1.status = "away" => ~p1.up
  <2>1. Buffered(p)
    BY DEF PageInv
  <2> QED
    BY <1>1, <2>1 DEF Buffered, Mounted
<1>3. Sourced(u, p1, all, log)
  BY <1>1 DEF PageInv, Sourced, Got
<1>4. Covered(p, log, p.at)
  BY DEF PageInv, Caught
<1>5. ~Deleted(log, p.at + 1)
  BY <1>1, SentNext
<1>6. Covered(p1, log, p.at + 1)
  <2>1. \A e : Sent(log, p.at, e) => e \in Got(p) \cup p.missed
    BY <1>4 DEF Covered
  <2>2. \A e : Sent(log, p.at + 1, e) => Sent(log, p.at, e)
    BY <1>1, SentNext
  <2>3. Got(p1) = Got(p)
    BY <1>1 DEF Got
  <2> QED
    BY <1>1, <2>1, <2>2, <2>3 DEF Covered
<1>7. Caught(p1, log)
  BY <1>1, <1>6 DEF Caught
<1>8. ~Deleted(log, p1.at) /\ ~Deleted(log, p1.cursor)
  BY <1>1, <1>5
<1>9. /\ q \in PageAt(n, l) /\ PageInv(u, q, all, log)
      /\ q.queue = p1.queue /\ q.out = p1.out
  BY <1>1, <1>2, <1>3, <1>7, <1>8, BlockComes DEF p1
<1> QED
  BY <1>1, <1>9

LEMMA DeleteArrives ==
  ASSUME NEW n \in Nat, NEW l \in Nat, NEW p \in PageAt(n, l), NEW u, NEW all, NEW log,
         PageInv(u, p, all, log), p.up, p.at < l,
         log[p.at + 1].kind = "delete",
         NEW q, q = Removed(Advanced(p))
  PROVE  /\ q \in PageAt(n, l) /\ PageInv(u, q, all, log)
         /\ q.queue = p.queue /\ q.out = p.out
<1> DEFINE p1 == Advanced(p)
<1> HIDE DEF p1
<1>1. /\ p1 \in PageAt(n, l) /\ p.at \in Nat /\ p1.cursor = p.at + 1 /\ p1.at = p.at + 1
      /\ p1.status = p.status /\ p1.up = p.up /\ p1.queue = p.queue /\ p1.out = p.out
  BY NextFrame DEF p1
<1>2. /\ q \in PageAt(n, l)
      /\ q.doc = 0 /\ q.has = {} /\ q.fresh = {} /\ q.stale = {} /\ q.status = p.status
      /\ q.shown = FALSE /\ q.composing = FALSE /\ q.up = p.up
      /\ q.at = p.at + 1 /\ q.cursor = p.at + 1 /\ q.queue = p.queue /\ q.out = p.out
  <2>1. PICK r \in PageAt(n, l) : r = p1
    BY <1>1
  <2>2. q = Removed(r)
    BY <2>1 DEF p1
  <2>3. Removed(r) \in PageAt(n, l) /\ Removed(r).status = r.status
    BY RemovedIs
  <2>4. Removed(r).has = {} /\ Removed(r).fresh = {} /\ Removed(r).stale = {}
    BY DEF PageAt, Removed, BlockOff, Destroyed
  <2>5. Removed(r).shown = FALSE /\ Removed(r).composing = FALSE /\ Removed(r).up = r.up
    BY DEF PageAt, Removed, BlockOff, Destroyed
  <2>6. Removed(r).at = r.at /\ Removed(r).cursor = r.cursor
    BY DEF PageAt, Removed, BlockOff, Destroyed
  <2>7. Removed(r).queue = r.queue /\ Removed(r).out = r.out
    BY DEF PageAt, Removed, BlockOff, Destroyed
  <2>8. Removed(r).doc = 0
    BY RemovedNoDoc
  <2> QED
    BY <1>1, <2>1, <2>2, <2>3, <2>4, <2>5, <2>6, <2>7, <2>8
<1>3. Buffered(q)
  BY <1>2 DEF PageInv, Buffered
<1>4. Sourced(u, q, all, log)
  BY <1>2 DEF Sourced, Got
<1>5. Caught(q, log)
  <2>1. Covered(p, log, p.at)
    BY DEF PageInv, Caught
  <2>2. Deleted(log, p.at + 1)
    BY <1>1, SentNext
  <2> QED
    BY <1>1, <1>2, <2>2 DEF Caught, Covered
<1>6. Faithful(u, q, all)
  BY <1>2 DEF Faithful, Mounted
<1> QED
  BY <1>2, <1>3, <1>4, <1>5, <1>6 DEF PageInv

\* A Y.Doc is given an update: what it has taken in before it has still.
LEMMA GivenShown ==
  ASSUME NEW u, NEW p, NEW q, NEW all, q.doc = p.doc, p.has \subseteq q.has
  PROVE  Shown(u, p, all) \subseteq Shown(u, q, all)
<1>1. <<u, q.doc>> = <<u, p.doc>>
  OBVIOUS
<1>2. Integrated(all, <<u, p.doc>>, p.has) \subseteq Integrated(all, <<u, p.doc>>, q.has)
  BY TextGrows
<1> QED
  BY <1>1, <1>2 DEF Shown

\* A page at the next entry, which is a delta, but for what it does with it.
LEMMA DeltaCaught ==
  ASSUME NEW p, NEW q, NEW log, NEW m \in Nat, Covered(p, log, m), log[m + 1].kind = "crdt",
         Got(p) \cup {log[m + 1].edit} \subseteq Got(q), q.missed = p.missed, q.doc = p.doc,
         q.at = m + 1, q.cursor = m + 1
  PROVE  Caught(q, log)
<1>1. Covered(q, log, m + 1)
  <2>1. CASE \A e : Sent(log, m, e) => e \in Got(p) \cup p.missed
    <3>1. \A e : Sent(log, m + 1, e) => e \in Got(q) \cup q.missed
      BY <2>1, SentNext
    <3> QED
      BY <3>1 DEF Covered
  <2>2. CASE p.doc = 0 /\ Deleted(log, m)
    <3>1. Deleted(log, m + 1)
      BY <2>2, SentNext
    <3> QED
      BY <2>2, <3>1 DEF Covered
  <2> QED
    BY <2>1, <2>2 DEF Covered
<1> QED
  BY <1>1 DEF Caught

LEMMA DeltaArrives ==
  ASSUME NEW n \in Nat, NEW l \in Nat, NEW p \in PageAt(n, l), NEW u, NEW log, Len(log) = l,
         PageInv(u, p, edits, log), p.up, p.at < l,
         log[p.at + 1].kind = "crdt", NEW e \in 1 .. n, log[p.at + 1].edit = e,
         NEW q, q = Given(u, Advanced(p), e)
  PROVE  /\ q \in PageAt(n, l) /\ PageInv(u, q, edits, log)
         /\ q.queue = p.queue /\ q.out = p.out
<1> DEFINE r == Advanced(p)
<1> HIDE DEF r
<1>1. r \in PageAt(n, l) /\ p.at \in Nat /\ r.cursor = p.at + 1 /\ r.at = p.at + 1
  BY NextFrame DEF r
<1>2. r.status = p.status /\ r.shown = p.shown /\ r.doc = p.doc /\ r.has = p.has
  BY NextFrame DEF r
<1>3. r.fresh = p.fresh /\ r.stale = p.stale /\ r.composing = p.composing
  BY NextFrame DEF r
<1>4. r.up = p.up /\ r.queue = p.queue /\ r.out = p.out /\ r.missed = p.missed
  <2>1. r.up = p.up
    BY NextFrame DEF r
  <2>2. r.queue = p.queue
    BY NextFrame DEF r
  <2>3. r.out = p.out
    BY NextFrame DEF r
  <2>4. r.missed = p.missed
    BY NextFrame DEF r
  <2> QED
    BY <2>1, <2>2, <2>3, <2>4
<1>5. r.dom = p.dom /\ r.remade = p.remade
  BY NextFrame DEF r
<1>6. q = Given(u, r, e)
  BY DEF r
<1>7. Buffered(p) /\ Sourced(u, p, edits, log) /\ Faithful(u, p, edits) /\ Covered(p, log, p.at)
  BY DEF PageInv, Caught
<1>8. Sent(log, l, e)
  BY <1>1 DEF Sent
<1>9. CASE r.doc = 0
  <2>1. q = [r EXCEPT !.fresh = @ \cup {e}]
    BY <1>6, <1>9 DEF Given
  <2>2. PICK fresh \in SUBSET (1 .. n) : fresh = r.fresh \cup {e}
    BY <1>1, SocketFields
  <2>3. q = [r EXCEPT !.fresh = fresh]
    BY <2>1, <2>2
  <2>4. q \in PageAt(n, l)
    <3>1. [r EXCEPT !.fresh = fresh] \in PageAt(n, l)
      BY <1>1, GivenSet
    <3> QED
      BY <2>3, <3>1
  <2>5. /\ q.status = r.status /\ q.shown = r.shown /\ q.doc = r.doc /\ q.has = r.has
        /\ q.fresh = fresh /\ q.stale = r.stale /\ q.composing = r.composing
        /\ q.up = r.up /\ q.queue = r.queue /\ q.out = r.out /\ q.missed = r.missed
        /\ q.at = r.at /\ q.cursor = r.cursor
    BY <1>1, <2>3, FreshIs
  <2>6. Got(q) = Got(p) \cup {e}
    BY <1>2, <1>3, <2>2, <2>5 DEF Got
  <2>7. Buffered(q) /\ ~q.shown
    BY <1>2, <1>3, <1>4, <1>7, <1>9, <2>5 DEF Buffered, Mounted
  <2>8. Sourced(u, q, edits, log)
    BY <1>7, <1>8, <2>6 DEF Sourced
  <2>9. q.missed = p.missed /\ q.doc = p.doc /\ q.at = p.at + 1 /\ q.cursor = p.at + 1
    BY <1>1, <1>2, <1>4, <2>5
  <2>10. Caught(q, log)
    BY <1>1, <1>7, <2>6, <2>9, DeltaCaught
  <2>11. Faithful(u, q, edits)
    BY <2>7 DEF Faithful, Mounted
  <2> QED
    BY <1>4, <2>4, <2>5, <2>7, <2>8, <2>10, <2>11 DEF PageInv
<1>10. CASE r.doc # 0
  <2>1. PICK has \in SUBSET (1 .. n) : has = r.has \cup {e}
    BY <1>1, SocketFields
  <2>2. PICK g : g = [r EXCEPT !.has = has]
    OBVIOUS
  <2>3. q = IF Heard(r) THEN Rendered(u, g, edits) ELSE g
    BY <1>6, <1>10, <2>1, <2>2 DEF Given
  <2>4. g \in PageAt(n, l)
    <3>1. [r EXCEPT !.has = has] \in PageAt(n, l)
      BY <1>1, GivenSet
    <3> QED
      BY <2>2, <3>1
  <2>5. /\ g.status = r.status /\ g.shown = r.shown /\ g.doc = r.doc /\ g.has = has
        /\ g.fresh = r.fresh /\ g.stale = r.stale /\ g.composing = r.composing
        /\ g.up = r.up /\ g.queue = r.queue /\ g.out = r.out /\ g.missed = r.missed
        /\ g.at = r.at /\ g.cursor = r.cursor /\ g.dom = r.dom /\ g.remade = r.remade
    BY <1>1, <2>2, HasIs
  <2>6. Got(g) = Got(p) \cup {e}
    BY <1>2, <1>3, <2>1, <2>5 DEF Got
  <2>7. Buffered(g)
    BY <1>2, <1>3, <1>4, <1>7, <1>10, <2>5 DEF Buffered, Mounted
  <2>8. Sourced(u, g, edits, log)
    BY <1>7, <1>8, <2>6 DEF Sourced
  <2>9. g.missed = p.missed /\ g.doc = p.doc /\ g.at = p.at + 1 /\ g.cursor = p.at + 1
    BY <1>1, <1>2, <1>4, <2>5
  <2>10. Caught(g, log)
    BY <1>1, <1>7, <2>6, <2>9, DeltaCaught
  <2>11. CASE Heard(r)
    <3>1. q = Rendered(u, g, edits)
      BY <2>3, <2>11
    <3> QED
      BY <1>4, <2>4, <2>5, <2>7, <2>8, <2>10, <3>1, RenderedInv
  <2>12. CASE ~Heard(r)
    <3>1. q = g
      BY <2>3, <2>12
    <3>2. g.composing \/ g.remade
      BY <2>5, <2>12 DEF Heard
    <3>3. Shown(u, p, edits) \subseteq Shown(u, g, edits)
      BY <1>2, <2>1, <2>5, GivenShown
    <3>4. Faithful(u, g, edits)
      BY <1>2, <1>3, <1>5, <1>7, <2>5, <3>2, <3>3 DEF Faithful, Mounted
    <3> QED
      BY <1>4, <2>4, <2>5, <2>7, <2>8, <2>10, <3>1, <3>4 DEF PageInv
  <2> QED
    BY <2>11, <2>12
<1> QED
  BY <1>9, <1>10

\* A page that has an answer, there or not, and has no Y.Doc yet for it.
Cleared(p, gets, there, passed) ==
  [Destroyed(p) EXCEPT !.gets = gets, !.status = "ready",
     !.shown = there, !.missed = @ \cup passed, !.remade = Mounted(p) /\ there,
     !.composing = p.composing /\ (Mounted(p) /\ there)]

LEMMA ClearedIs ==
  ASSUME NEW n \in Nat, NEW l \in Nat, NEW p \in PageAt(n, l),
         NEW gets \in Seq({"sent", "no", "there", "gone"}), NEW there \in BOOLEAN,
         NEW passed \in SUBSET (1 .. n), NEW q, q = Cleared(p, gets, there, passed)
  PROVE  /\ q \in PageAt(n, l)
         /\ q.doc = 0 /\ q.has = {} /\ q.fresh = {} /\ q.stale = {} /\ q.status = "ready"
         /\ q.shown = there /\ q.up = p.up /\ q.missed = p.missed \cup passed
         /\ (q.remade <=> Mounted(p) /\ there) /\ (q.composing => Mounted(p) /\ there)
         /\ q.at = p.at /\ q.cursor = p.cursor /\ q.queue = p.queue /\ q.out = p.out
         /\ q.dom = p.dom
<1>1. PICK r : r = Destroyed(p)
  OBVIOUS
<1>2. r \in PageAt(n, l)
  BY <1>1 DEF PageAt, Destroyed
<1>3. /\ r.doc = 0 /\ r.has = {} /\ r.fresh = {} /\ r.stale = {}
      /\ r.up = p.up /\ r.missed = p.missed
      /\ r.at = p.at /\ r.cursor = p.cursor /\ r.queue = p.queue /\ r.out = p.out
      /\ r.dom = p.dom
  BY <1>1 DEF PageAt, Destroyed
<1>4. PICK missed \in SUBSET (1 .. n) : missed = r.missed \cup passed
  BY <1>2, SocketFields
<1>5. PICK remade \in BOOLEAN : remade = (Mounted(p) /\ there)
  OBVIOUS
<1>6. PICK composing \in BOOLEAN : composing = (p.composing /\ Mounted(p) /\ there)
  OBVIOUS
<1> DEFINE s == [r EXCEPT !.gets = gets, !.status = "ready", !.shown = there, !.missed = missed]
           t == [s EXCEPT !.remade = remade, !.composing = composing]
<1>7. q = t
  BY <1>1, <1>4, <1>5, <1>6 DEF Cleared
<1>8. s \in PageAt(n, l)
  BY <1>2 DEF PageAt
<1>9. /\ s.doc = r.doc /\ s.has = r.has /\ s.fresh = r.fresh /\ s.stale = r.stale /\ s.status = "ready"
      /\ s.shown = there /\ s.up = r.up /\ s.missed = missed
      /\ s.at = r.at /\ s.cursor = r.cursor /\ s.queue = r.queue /\ s.out = r.out
      /\ s.dom = r.dom
  BY <1>2 DEF PageAt
<1> HIDE DEF s
<1>10. t \in PageAt(n, l)
  BY <1>8 DEF PageAt
<1>11. /\ t.doc = s.doc /\ t.has = s.has /\ t.fresh = s.fresh /\ t.stale = s.stale /\ t.status = s.status
       /\ t.shown = s.shown /\ t.up = s.up /\ t.missed = s.missed
       /\ t.remade = remade /\ t.composing = composing
       /\ t.at = s.at /\ t.cursor = s.cursor /\ t.queue = s.queue /\ t.out = s.out
       /\ t.dom = s.dom
  BY <1>8 DEF PageAt
<1> HIDE DEF t
<1>12. (t.remade <=> Mounted(p) /\ there) /\ (t.composing => Mounted(p) /\ there)
  BY <1>5, <1>6, <1>11
<1> QED
  BY <1>3, <1>4, <1>7, <1>9, <1>10, <1>11, <1>12

\* The answer to GET /blocks.
LEMMA PageLoads ==
  ASSUME NEW n \in Nat, NEW l \in Nat, NEW p \in PageAt(n, l), NEW u, NEW all, NEW log,
         PageInv(u, p, all, log),
         NEW gets \in Seq({"sent", "no", "there", "gone"}), NEW there \in BOOLEAN,
         NEW passed \in SUBSET (1 .. n), \A e : Sent(log, p.at, e) => e \in passed,
         NEW c, c = Cleared(p, gets, there, passed),
         NEW loaded, loaded = (IF there THEN Ensure(c) ELSE c),
         NEW q, q = (IF Mounted(p) /\ there THEN loaded ELSE Rendered(u, loaded, all))
  PROVE  /\ q \in PageAt(n, l) /\ PageInv(u, q, all, log)
         /\ q.queue = p.queue /\ q.out = p.out
<1>1. /\ c \in PageAt(n, l)
      /\ c.doc = 0 /\ c.has = {} /\ c.fresh = {} /\ c.stale = {} /\ c.status = "ready"
      /\ c.shown = there /\ c.up = p.up /\ c.missed = p.missed \cup passed
      /\ (c.remade <=> Mounted(p) /\ there) /\ (c.composing => Mounted(p) /\ there)
      /\ c.at = p.at /\ c.cursor = p.cursor /\ c.queue = p.queue /\ c.out = p.out
  BY ClearedIs
<1>2. /\ loaded \in PageAt(n, l)
      /\ there => loaded.doc # 0
      /\ loaded.has = {} /\ loaded.fresh = {} /\ loaded.stale = {}
      /\ loaded.status = "ready" /\ loaded.shown = there /\ loaded.up = p.up
      /\ (loaded.remade <=> Mounted(p) /\ there) /\ (loaded.composing => Mounted(p) /\ there)
      /\ p.missed \cup passed \subseteq loaded.missed
      /\ loaded.at = p.at /\ loaded.cursor = p.cursor
      /\ loaded.queue = p.queue /\ loaded.out = p.out
  <2>1. CASE ~there
    BY <1>1, <2>1
  <2>2. CASE there
    <3>1. loaded = Ensure(c)
      BY <2>2
    <3>2. /\ loaded \in PageAt(n, l)
          /\ loaded.doc # 0 /\ loaded.fresh = {} /\ loaded.stale = {}
          /\ Got(loaded) \subseteq Got(c) /\ c.missed \subseteq loaded.missed
          /\ loaded.status = c.status /\ loaded.shown = c.shown /\ loaded.composing = c.composing
          /\ loaded.remade = c.remade
          /\ loaded.up = c.up /\ loaded.cursor = c.cursor
          /\ loaded.at = c.at /\ loaded.queue = c.queue /\ loaded.out = c.out
      BY <1>1, <3>1, EnsureIs
    <3>3. loaded.has = {}
      BY <1>1, <3>2 DEF Got
    <3> QED
      BY <1>1, <2>2, <3>2, <3>3
  <2> QED
    BY <2>1, <2>2
<1>3. Buffered(loaded)
  BY <1>2 DEF Buffered, Mounted
<1>4. Sourced(u, loaded, all, log)
  BY <1>2 DEF Sourced, Got
<1>5. Caught(loaded, log)
  <2>1. p.at \in Nat /\ p.cursor \in Int
    BY SocketFields DEF NoCursor
  <2>2. \A e : Sent(log, p.at, e) => e \in loaded.missed
    BY <1>2
  <2>3. Caught(p, log)
    BY DEF PageInv
  <2> QED
    BY <1>2, <2>1, <2>2, <2>3, CaughtWiped
<1>6. CASE Mounted(p) /\ there
  <2>1. q = loaded
    BY <1>6
  <2>2. Faithful(u, loaded, all)
    BY <1>2, <1>6 DEF Faithful
  <2> QED
    BY <1>2, <1>3, <1>4, <1>5, <2>1, <2>2 DEF PageInv
<1>7. CASE ~(Mounted(p) /\ there)
  <2>1. q = Rendered(u, loaded, all)
    BY <1>7
  <2> QED
    BY <1>2, <1>3, <1>4, <1>5, <2>1, RenderedInv
<1> QED
  BY <1>6, <1>7

\* The Y.Doc of the page makes updates.
Grown(g, p, n, l, made) ==
  /\ g \in PageAt(n, l) /\ g.has = p.has \cup made
  /\ g.status = p.status /\ g.shown = p.shown /\ g.doc = p.doc
  /\ g.fresh = p.fresh /\ g.stale = p.stale /\ g.composing = p.composing
  /\ g.up = p.up /\ g.cursor = p.cursor /\ g.at = p.at /\ g.missed = p.missed

LEMMA Typed ==
  ASSUME NEW n \in Nat, NEW l \in Nat, NEW p \in PageAt(n, l), NEW u, NEW all, NEW log,
         Buffered(p), Sourced(u, p, all, log), Caught(p, log), p.doc # 0,
         NEW made, \A e \in made : all[e].by[1] = u,
         NEW g, Grown(g, p, n, l, made)
  PROVE  LET q == Rendered(u, g, all) IN
         /\ q \in PageAt(n, l) /\ PageInv(u, q, all, log)
         /\ q.queue = g.queue /\ q.out = g.out
<1>0. /\ g \in PageAt(n, l) /\ g.has = p.has \cup made
      /\ g.status = p.status /\ g.shown = p.shown /\ g.doc = p.doc
      /\ g.fresh = p.fresh /\ g.stale = p.stale /\ g.composing = p.composing
      /\ g.up = p.up /\ g.cursor = p.cursor /\ g.at = p.at /\ g.missed = p.missed
  BY DEF Grown
<1>1. Got(g) = Got(p) \cup made
  BY <1>0 DEF Got
<1>2. Buffered(g)
  BY <1>0 DEF Buffered, Mounted
<1>3. Sourced(u, g, all, log)
  BY <1>1 DEF Sourced
<1>4. Caught(g, log)
  BY <1>0, <1>1, CaughtKept
<1> QED
  BY <1>0, <1>2, <1>3, <1>4, RenderedInv

Typing(p, made, queue, out) == [p EXCEPT !.has = @ \cup made, !.queue = queue, !.out = out]

Numbered(n, made, queue, out) == made \subseteq 1 .. n /\ queue \in Seq(1 .. n) /\ out \in Seq(1 .. n)

LEMMA TypedFields ==
  ASSUME NEW n \in Nat, NEW l \in Nat, NEW p \in PageAt(n, l),
         NEW made, NEW queue, NEW out, Numbered(n, made, queue, out), NEW g, g = Typing(p, made, queue, out)
  PROVE  Grown(g, p, n, l, made) /\ g.queue = queue /\ g.out = out
<1>0. made \in SUBSET (1 .. n) /\ queue \in Seq(1 .. n) /\ out \in Seq(1 .. n)
  BY DEF Numbered
<1>1. PICK has \in SUBSET (1 .. n) : has = p.has \cup made
  BY <1>0, SocketFields
<1>2. PICK h : h = [p EXCEPT !.has = has, !.queue = queue, !.out = out]
  OBVIOUS
<1>3. h \in PageAt(n, l)
  BY <1>0, <1>2 DEF PageAt
<1>4. /\ h.status = p.status /\ h.shown = p.shown /\ h.doc = p.doc
      /\ h.has = has /\ h.fresh = p.fresh /\ h.stale = p.stale /\ h.composing = p.composing
      /\ h.up = p.up /\ h.cursor = p.cursor
      /\ h.at = p.at /\ h.queue = queue /\ h.out = out /\ h.missed = p.missed
  BY <1>2 DEF PageAt
<1>5. g = h
  BY <1>1, <1>2 DEF Typing
<1> QED
  BY <1>1, <1>3, <1>4, <1>5 DEF Grown

-----------------------------------------------------------------------------
(* Steps.                                                                  *)

LEMMA ContentStays ==
  ASSUME content' = content, NEW u, NEW p, NEW all, NEW log
  PROVE  PageInv(u, p, all, log)' <=> PageInv(u, p, all, log)
  BY DEF PageInv, Buffered, Sourced, Caught, Covered, Faithful, Shown, Text, Visible, Integrated,
         Mounted, Got, Sent, Deleted

\* All that a page has of its type.
LEMMA PageTypes ==
  ASSUME TInv, NEW u \in Pages
  PROVE  /\ Len(edits) \in Nat /\ Len(stream) \in Nat
         /\ pages[u] \in PageAt(Len(edits), Len(stream))
         /\ PageInv(u, pages[u], edits, stream)
<1>1. edits \in Seq(EditRecord) /\ stream \in Seq(Entry) /\ pages \in [Pages -> Page]
  BY DEF TInv, TypeOK
<1>2. Len(edits) \in Nat /\ Len(stream) \in Nat
  BY <1>1
<1>3. pages[u] \in PageAt(Len(edits), Len(stream))
  BY <1>1, PageIs
<1> QED
  BY <1>2, <1>3 DEF TInv

\* A step of one page, with more updates or entries than there were.
LEMMA Stepped ==
  ASSUME TInv, NEW u \in Pages, NEW q, NEW all, NEW log,
         content' = content, edits' = all, stream' = log, pages' = [pages EXCEPT ![u] = q],
         Len(all) \in Nat, Len(edits) <= Len(all), \A e \in 1 .. Len(edits) : all[e] = edits[e],
         Len(log) \in Nat, Len(stream) <= Len(log), \A k \in 1 .. Len(stream) : log[k] = stream[k],
         q \in PageAt(Len(all), Len(log)), PageInv(u, q, all, log)
  PROVE  /\ pages' \in [Pages -> Page']
         /\ \A v \in Pages : PageInv(v, pages[v], edits, stream)'
<1>1. ASSUME NEW v \in Pages
      PROVE  pages'[v] \in PageAt(Len(all), Len(log)) /\ PageInv(v, pages'[v], all, log)
  <2>1. pages \in [Pages -> Page]
    BY DEF TInv, TypeOK
  <2>2. CASE v = u
    BY <2>1, <2>2
  <2>3. CASE v # u
    <3>1. pages'[v] = pages[v]
      BY <2>1, <2>3
    <3>2. PICK p : p = pages[v]
      OBVIOUS
    <3>3. PICK old : old = edits
      OBVIOUS
    <3>4. PICK shorter : shorter = stream
      OBVIOUS
    <3>5. /\ Len(old) \in Nat /\ Len(shorter) \in Nat
          /\ p \in PageAt(Len(old), Len(shorter)) /\ PageInv(v, p, old, shorter)
      BY <3>2, <3>3, <3>4, PageTypes
    <3>6. p \in PageAt(Len(all), Len(log))
      BY <3>3, <3>4, <3>5, PageGrows
    <3>7. PageInv(v, p, all, log)
      BY <3>3, <3>4, <3>5, PageKept
    <3> QED
      BY <3>1, <3>2, <3>6, <3>7
  <2> QED
    BY <2>2, <2>3
<1>2. pages' \in [Pages -> Page']
  <2>1. Page' = PageAt(Len(all), Len(log))
    BY DEF Page, PageAt, Numbers
  <2>2. pages' = [v \in Pages |-> pages'[v]]
    BY DEF TInv, TypeOK
  <2> QED
    BY <1>1, <2>1, <2>2
<1>3. ASSUME NEW v \in Pages
      PROVE  PageInv(v, pages[v], edits, stream)'
  <2>1. PICK p : p = pages'[v]
    OBVIOUS
  <2>2. PageInv(v, p, all, log)
    BY <1>1, <2>1
  <2>3. PageInv(v, p, all, log)'
    BY <2>2, ContentStays
  <2> QED
    BY <2>1, <2>3
<1> QED
  BY <1>2, <1>3

LEMMA Makers ==
  ASSUME TInv, NEW e \in Numbers
  PROVE  edits[e] \in EditRecord /\ edits[e].by[1] \in Pages
<1>1. edits[e] \in EditRecord
  BY Elements DEF TInv, TypeOK, Numbers
<1>2. edits[e].by \in Pages \X Nat
  BY <1>1 DEF EditRecord, Docs
<1> QED
  BY <1>1, <1>2

\* A step of one page, in which updates part are lost.
LEMMA Parting ==
  ASSUME TInv, NEW u \in Pages, NEW q, NEW part,
         UNCHANGED <<content, row, edits, stream, gone>>, pages' = [pages EXCEPT ![u] = q],
         lost' = lost \cup part, faults' \in 0 .. MaxFaults,
         op' \in {"none", "insert", "delete"}, op' = "insert" => row = "no", op' = "delete" => row = "there",
         q \in PageAt(Len(edits), Len(stream)), PageInv(u, q, edits, stream),
         Once(q.queue), Once(q.out), \A e : ~(Has(q.queue, e) /\ Has(q.out, e)),
         \A e : Waits(pages[u], e) <=> Waits(q, e) \/ e \in part,
         \A e \in part : ~Waits(q, e)
  PROVE  TInv'
<1>1. /\ content \in Contents /\ row \in {"no", "there", "gone"}
      /\ edits \in Seq(EditRecord) /\ stream \in Seq(Entry) /\ gone \in 0 .. Len(stream)
      /\ pages \in [Pages -> Page] /\ lost \subseteq Numbers
  BY DEF TInv, TypeOK
<1>2. Len(edits) \in Nat /\ Len(stream) \in Nat /\ pages[u] \in PageAt(Len(edits), Len(stream))
  BY PageTypes
<1>3. /\ pages' \in [Pages -> Page']
      /\ \A v \in Pages : PageInv(v, pages[v], edits, stream)'
  <2>1. PICK all : all = edits
    OBVIOUS
  <2>2. PICK log : log = stream
    OBVIOUS
  <2>3. Len(all) \in Nat /\ Len(log) \in Nat /\ Len(edits) <= Len(all) /\ Len(stream) <= Len(log)
    BY <1>2, <2>1, <2>2
  <2>4. q \in PageAt(Len(all), Len(log)) /\ PageInv(u, q, all, log)
    BY <2>1, <2>2
  <2>5. (\A e \in 1 .. Len(edits) : all[e] = edits[e]) /\ \A k \in 1 .. Len(stream) : log[k] = stream[k]
    BY <2>1, <2>2
  <2>6. content' = content /\ edits' = all /\ stream' = log
    BY <2>1, <2>2
  <2> QED
    BY <2>3, <2>4, <2>5, <2>6, Stepped
<1>4. \A e : Waits(pages[u], e) => e \in Numbers
  <2>1. pages[u].queue \in Seq(Numbers) /\ pages[u].out \in Seq(Numbers)
    BY <1>2, SocketFields DEF Numbers
  <2>2. \A e : Has(pages[u].queue, e) => e \in Numbers
    BY <2>1, Elements DEF Has
  <2>3. \A e : Has(pages[u].out, e) => e \in Numbers
    BY <2>1, Elements DEF Has
  <2> QED
    BY <2>2, <2>3 DEF Waits
<1>5. TypeOK'
  <2>1. lost' \subseteq Numbers
    BY <1>1, <1>4
  <2>2. /\ content' \in Contents /\ row' \in {"no", "there", "gone"} /\ op' \in {"none", "insert", "delete"}
        /\ gone' \in 0 .. Len(stream') /\ lost' \subseteq Numbers' /\ faults' \in 0 .. MaxFaults
    BY <1>1, <2>1 DEF Numbers
  <2>3. edits' \in Seq(EditRecord) /\ stream' \in Seq(Entry')
    BY <1>1 DEF Entry, Numbers, EditRecord
  <2>4. (\A e \in Numbers : /\ edits[e].erases \subseteq edits[e].needs
                            /\ edits[e].needs \subseteq 1 .. e - 1
                            /\ \A d \in edits[e].needs : edits[d].needs \subseteq edits[e].needs)'
    BY DEF TInv, TypeOK, Numbers
  <2> QED
    BY <1>3, <2>2, <2>3, <2>4 DEF TypeOK, EditRecord
<1>6. BlockLives'
  BY DEF TInv, BlockLives, Deleted
<1>7. \A v \in Pages : v # u => pages'[v] = pages[v]
  BY <1>1
<1>8. pages'[u] = q
  BY <1>1
<1>9. \A e : InStream(e)' <=> InStream(e)
  BY DEF InStream, Sent
<1>10. \A e \in part : Waits(pages[u], e) /\ ~InStream(e) /\ edits[e].by[1] = u
  BY DEF TInv, Apart
<1>11. Apart'
  <2>1. \A e \in lost' : ~InStream(e)'
    BY <1>9, <1>10 DEF TInv, Apart
  <2>2. ASSUME NEW v \in Pages
        PROVE  /\ Once(pages'[v].queue) /\ Once(pages'[v].out)
               /\ \A e : ~(Has(pages'[v].queue, e) /\ Has(pages'[v].out, e))
               /\ \A e : Waits(pages'[v], e) => edits'[e].by[1] = v /\ ~InStream(e)' /\ e \notin lost'
    <3>1. CASE v = u
      <4>1. \A e : Waits(q, e) => edits[e].by[1] = u /\ ~InStream(e) /\ e \notin lost
        BY DEF TInv, Apart
      <4>2. \A e : Waits(q, e) => e \notin lost'
        BY <4>1
      <4> QED
        BY <1>8, <1>9, <3>1, <4>1, <4>2
    <3>2. CASE v # u
      <4>1. /\ Once(pages[v].queue) /\ Once(pages[v].out)
            /\ \A e : ~(Has(pages[v].queue, e) /\ Has(pages[v].out, e))
            /\ \A e : Waits(pages[v], e) => edits[e].by[1] = v /\ ~InStream(e) /\ e \notin lost
        BY DEF TInv, Apart
      <4>2. \A e : Waits(pages[v], e) => e \notin part
        BY <1>10, <3>2, <4>1
      <4> QED
        BY <1>7, <1>9, <3>2, <4>1, <4>2
    <3> QED
      BY <3>1, <3>2
  <2>3. (\A k, m \in 1 .. Len(stream) :
         stream[k].kind = "crdt" /\ stream[m].kind = "crdt" /\ stream[k].edit = stream[m].edit => k = m)'
    BY DEF TInv, Apart
  <2> QED
    BY <2>1, <2>2, <2>3 DEF Apart, Once, Has, Waits
<1>12. Somewhere'
  <2>1. ASSUME NEW e \in Numbers
        PROVE  InStream(e)' \/ e \in lost' \/ Waits(pages'[edits'[e].by[1]], e)
    <3>1. InStream(e) \/ e \in lost \/ Waits(pages[edits[e].by[1]], e)
      BY DEF TInv, Somewhere
    <3>2. edits[e].by[1] \in Pages
      BY Makers
    <3>3. CASE edits[e].by[1] = u
      <4>1. pages'[edits'[e].by[1]] = q
        BY <1>8, <3>3
      <4> QED
        BY <1>9, <3>1, <3>3, <4>1
    <3>4. CASE edits[e].by[1] # u
      <4>1. pages'[edits'[e].by[1]] = pages[edits[e].by[1]]
        BY <1>7, <3>2, <3>4
      <4> QED
        BY <1>9, <3>1, <4>1
    <3> QED
      BY <3>3, <3>4
  <2>2. Numbers' = Numbers
    BY DEF Numbers
  <2> QED
    BY <2>1, <2>2 DEF Somewhere, Waits, Has
<1> QED
  BY <1>3, <1>5, <1>6, <1>11, <1>12 DEF TInv

\* A step of one page that sends nothing and loses nothing.
LEMMA Alone ==
  ASSUME TInv, NEW u \in Pages, NEW q,
         UNCHANGED <<content, row, edits, stream, gone, lost>>, pages' = [pages EXCEPT ![u] = q],
         faults' \in 0 .. MaxFaults,
         op' \in {"none", "insert", "delete"}, op' = "insert" => row = "no", op' = "delete" => row = "there",
         q \in PageAt(Len(edits), Len(stream)), PageInv(u, q, edits, stream),
         q.queue = pages[u].queue, q.out = pages[u].out
  PROVE  TInv'
<1>1. Once(q.queue) /\ Once(q.out) /\ \A e : ~(Has(q.queue, e) /\ Has(q.out, e))
  BY DEF TInv, Apart
<1>2. PICK part : part = {}
  OBVIOUS
<1>3. \A e : Waits(pages[u], e) <=> Waits(q, e) \/ e \in part
  BY <1>2 DEF Waits
<1>4. \A e \in part : ~Waits(q, e)
  BY <1>2
<1>5. lost' = lost \cup part
  BY <1>2
<1> QED
  BY <1>1, <1>3, <1>4, <1>5, Parting

\* Such a step that is not about the block either.
LEMMA AloneThere ==
  ASSUME TInv, NEW u \in Pages, NEW q,
         UNCHANGED <<content, row, op, edits, stream, gone, lost>>, pages' = [pages EXCEPT ![u] = q],
         faults' \in 0 .. MaxFaults,
         q \in PageAt(Len(edits), Len(stream)), PageInv(u, q, edits, stream),
         q.queue = pages[u].queue, q.out = pages[u].out
  PROVE  TInv'
<1>1. op' \in {"none", "insert", "delete"} /\ (op' = "insert" => row = "no") /\ (op' = "delete" => row = "there")
  BY DEF TInv, TypeOK, BlockLives
<1> QED
  BY <1>1, Alone

LEMMA StartComposingStep ==
  ASSUME TInv, NEW u \in Pages, StartComposing(u)
  PROVE  TInv'
<1>1. PICK p : p = pages[u]
  OBVIOUS
<1>2. PICK q : q = [p EXCEPT !.composing = TRUE]
  OBVIOUS
<1>3. /\ Len(edits) \in Nat /\ Len(stream) \in Nat
      /\ p \in PageAt(Len(edits), Len(stream)) /\ PageInv(u, p, edits, stream)
  BY <1>1, PageTypes
<1>4. Mounted(p) /\ pages' = [pages EXCEPT ![u] = q]
  BY <1>1, <1>2 DEF StartComposing
<1>5. /\ q \in PageAt(Len(edits), Len(stream)) /\ PageInv(u, q, edits, stream)
      /\ q.queue = p.queue /\ q.out = p.out
  BY <1>2, <1>3, <1>4, ComposingStarts
<1>6. UNCHANGED <<content, row, op, edits, stream, gone, lost, faults>> /\ faults' \in 0 .. MaxFaults
  BY DEF StartComposing, TInv, TypeOK
<1> QED
  BY <1>1, <1>4, <1>5, <1>6, AloneThere

\* What is said of the stream by the block that there is.
LEMMA NotDeleted ==
  ASSUME TInv, NEW n \in Int, n <= Len(stream), row # "gone"
  PROVE  ~Deleted(stream, n)
<1>1. Len(stream) \in Nat /\ ~Deleted(stream, Len(stream))
  BY DEF TInv, TypeOK, BlockLives
<1> QED
  BY <1>1 DEF Deleted

LEMMA InsertBlockStep ==
  ASSUME TInv, NEW u \in Pages, InsertBlock(u)
  PROVE  TInv'
<1>1. PICK p : p = pages[u]
  OBVIOUS
<1>2. PICK q : q = Rendered(u, Ensure([p EXCEPT !.shown = TRUE]), edits)
  OBVIOUS
<1>3. /\ Len(edits) \in Nat /\ Len(stream) \in Nat
      /\ p \in PageAt(Len(edits), Len(stream)) /\ PageInv(u, p, edits, stream)
  BY <1>1, PageTypes
<1>4. pages' = [pages EXCEPT ![u] = q]
  BY <1>1, <1>2 DEF InsertBlock
<1>5. /\ p.doc = 0 => p.has = {}
      /\ p.doc # 0 => p.fresh = {} /\ p.stale = {}
      /\ p.composing => Mounted(p)
      /\ p.status = "away" => ~p.up
  BY <1>3 DEF PageInv, Buffered
<1>6. Sourced(u, p, edits, stream) /\ Caught(p, stream)
  BY <1>3 DEF PageInv
<1>7. ~Deleted(stream, p.at) /\ ~Deleted(stream, p.cursor)
  <2>1. p.at \in Int /\ p.at <= Len(stream) /\ p.cursor \in Int /\ p.cursor <= Len(stream)
    BY <1>3, SocketFields DEF NoCursor
  <2>2. row # "gone"
    BY DEF InsertBlock
  <2> QED
    BY <2>1, <2>2, NotDeleted
<1>8. /\ q \in PageAt(Len(edits), Len(stream)) /\ PageInv(u, q, edits, stream)
      /\ q.queue = p.queue /\ q.out = p.out
  BY <1>2, <1>3, <1>5, <1>6, <1>7, BlockComes
<1>9. /\ UNCHANGED <<content, row, edits, stream, gone, lost, faults>> /\ faults' \in 0 .. MaxFaults
      /\ op' = "insert" /\ row = "no"
  BY DEF InsertBlock, TInv, TypeOK
<1> QED
  BY <1>1, <1>4, <1>8, <1>9, Alone

LEMMA DeleteBlockStep ==
  ASSUME TInv, NEW u \in Pages, DeleteBlock(u)
  PROVE  TInv'
<1>1. PICK p : p = pages[u]
  OBVIOUS
<1>2. PICK q : q = BlockOff(p)
  OBVIOUS
<1>3. /\ Len(edits) \in Nat /\ Len(stream) \in Nat
      /\ p \in PageAt(Len(edits), Len(stream)) /\ PageInv(u, p, edits, stream)
  BY <1>1, PageTypes
<1>4. pages' = [pages EXCEPT ![u] = q]
  BY <1>1, <1>2 DEF DeleteBlock, BlockOff
<1>5. /\ q \in PageAt(Len(edits), Len(stream)) /\ PageInv(u, q, edits, stream)
      /\ q.queue = p.queue /\ q.out = p.out
  BY <1>2, <1>3, BlockGoes
<1>6. /\ UNCHANGED <<content, row, edits, stream, gone, lost, faults>> /\ faults' \in 0 .. MaxFaults
      /\ op' = "delete" /\ row = "there"
  BY DEF DeleteBlock, TInv, TypeOK
<1> QED
  BY <1>1, <1>4, <1>5, <1>6, Alone

\* The first n entries, as the steps and as the invariant say it.
LEMMA PastIs ==
  ASSUME NEW n
  PROVE  \A e : e \in Past(n) <=> Sent(stream, n, e)
  BY DEF Past, Sent

LEMMA PastTyped ==
  ASSUME TInv, NEW n \in Int, n <= Len(stream)
  PROVE  Past(n) \in SUBSET (1 .. Len(edits))
<1>1. stream \in Seq(Entry) /\ Len(stream) \in Nat
  BY DEF TInv, TypeOK
<1>2. ASSUME NEW k \in 1 .. Len(stream), stream[k].kind = "crdt"
      PROVE  stream[k].edit \in 1 .. Len(edits)
  <2>1. stream[k] \in Entry
    BY <1>1, Elements
  <2>2. \A x \in [kind : {"insert", "delete"}] : x.kind # "crdt"
    OBVIOUS
  <2>3. \A x \in [kind : {"crdt"}, edit : Numbers, socket : Pages \X Nat] : x.edit \in Numbers
    OBVIOUS
  <2> QED
    BY <1>2, <2>1, <2>2, <2>3 DEF Entry, Numbers
<1>3. \A e : Sent(stream, n, e) => e \in 1 .. Len(edits)
  BY <1>1, <1>2 DEF Sent
<1> QED
  BY <1>3, PastIs

\* What opening it makes of the page.
LEMMA VisitOpens ==
  ASSUME TInv, NEW u \in Pages, Visit(u)
  PROVE  \E c \in {NoCursor} \cup 0 .. Len(stream) :
           pages' = [pages EXCEPT ![u] = Opened(pages[u], c, IF c = NoCursor THEN {} ELSE Past(c))]
<1>1. PICK c \in {NoCursor} \cup 0 .. Len(stream) :
        pages' = [pages EXCEPT ![u] = [@ EXCEPT !.status = "loading", !.gets = <<"sent">>,
                    !.cursor = c, !.missed = IF c = NoCursor THEN {} ELSE Past(c)]]
  BY ZenonT(60) DEF Visit
<1>2. PICK passed : passed = IF c = NoCursor THEN {} ELSE Past(c)
  OBVIOUS
<1>3. PICK q : q = Opened(pages[u], c, passed)
  OBVIOUS
<1>4. pages' = [pages EXCEPT ![u] = q]
  BY <1>1, <1>2, <1>3 DEF Opened
<1> QED
  BY <1>2, <1>3, <1>4

LEMMA VisitStep ==
  ASSUME TInv, NEW u \in Pages, Visit(u)
  PROVE  TInv'
<1>1. PICK p : p = pages[u]
  OBVIOUS
<1>2. PICK c \in {NoCursor} \cup 0 .. Len(stream) :
        pages' = [pages EXCEPT ![u] = Opened(p, c, IF c = NoCursor THEN {} ELSE Past(c))]
  BY <1>1, VisitOpens
<1>3. PICK passed : passed = IF c = NoCursor THEN {} ELSE Past(c)
  OBVIOUS
<1>4. PICK q : q = Opened(p, c, passed)
  OBVIOUS
<1>5. /\ Len(edits) \in Nat /\ Len(stream) \in Nat
      /\ p \in PageAt(Len(edits), Len(stream)) /\ PageInv(u, p, edits, stream)
  BY <1>1, PageTypes
<1>6. pages' = [pages EXCEPT ![u] = q] /\ p.status = "away"
  BY <1>1, <1>2, <1>3, <1>4 DEF Visit
<1>7. c \in Int /\ c <= Len(stream)
  BY <1>5 DEF NoCursor
<1>8. passed \in SUBSET (1 .. Len(edits)) /\ \A e : Sent(stream, c, e) => e \in passed
  <2>1. CASE c = NoCursor
    BY <1>3, <2>1 DEF Sent, NoCursor
  <2>2. CASE c # NoCursor
    BY <1>3, <1>7, <2>2, PastTyped, PastIs
  <2> QED
    BY <2>1, <2>2
<1>9. /\ q \in PageAt(Len(edits), Len(stream)) /\ PageInv(u, q, edits, stream)
      /\ q.queue = p.queue /\ q.out = p.out
  BY <1>4, <1>5, <1>6, <1>8, PageOpens
<1>10. UNCHANGED <<content, row, op, edits, stream, gone, lost, faults>> /\ faults' \in 0 .. MaxFaults
  BY DEF Visit, TInv, TypeOK
<1> QED
  BY <1>1, <1>6, <1>9, <1>10, AloneThere

\* What the steps make of the page that set two of its fields.
LEMMA AgesTo ==
  ASSUME TInv, NEW u \in Pages, Expire(u), NEW p, p = pages[u]
  PROVE  pages' = [pages EXCEPT ![u] = Aged(p)]
<1>1. pages \in [Pages -> Page]
  BY DEF TInv, TypeOK
<1>2. PICK a : a = [pages EXCEPT ![u].fresh = {}]
  OBVIOUS
<1>3. a = [pages EXCEPT ![u] = [p EXCEPT !.fresh = {}]]
  BY <1>2
<1>4. pages' = [a EXCEPT ![u].stale = @ \cup p.fresh]
  BY <1>2 DEF Expire
<1>5. a[u] = [p EXCEPT !.fresh = {}]
  BY <1>1, <1>3
<1>6. pages' = [a EXCEPT ![u] = [a[u] EXCEPT !.stale = @ \cup p.fresh]]
  BY <1>4
<1>7. PICK q : q = Aged(p)
  OBVIOUS
<1>8. pages' = [a EXCEPT ![u] = q]
  BY <1>5, <1>6, <1>7 DEF Aged
<1>9. [a EXCEPT ![u] = q] = [pages EXCEPT ![u] = q]
  BY <1>1, <1>3
<1> QED
  BY <1>7, <1>8, <1>9

LEMMA GoesOffline ==
  ASSUME TInv, NEW u \in Pages, Drop(u), NEW p, p = pages[u], NEW out, out = <<>>
  PROVE  pages' = [pages EXCEPT ![u] = Offline(p, out)]
<1>1. pages \in [Pages -> Page]
  BY DEF TInv, TypeOK
<1>2. PICK a : a = [pages EXCEPT ![u].up = FALSE]
  OBVIOUS
<1>3. a = [pages EXCEPT ![u] = [p EXCEPT !.up = FALSE]]
  BY <1>2
<1>4. pages' = [a EXCEPT ![u].out = <<>>]
  BY <1>2 DEF Drop
<1>5. a[u] = [p EXCEPT !.up = FALSE]
  BY <1>1, <1>3
<1>6. pages' = [a EXCEPT ![u] = [a[u] EXCEPT !.out = <<>>]]
  BY <1>4
<1>7. PICK q : q = Offline(p, out)
  OBVIOUS
<1>8. pages' = [a EXCEPT ![u] = q]
  BY <1>5, <1>6, <1>7 DEF Offline
<1>9. [a EXCEPT ![u] = q] = [pages EXCEPT ![u] = q]
  BY <1>1, <1>3
<1> QED
  BY <1>7, <1>8, <1>9

LEMMA ExpireStep ==
  ASSUME TInv, NEW u \in Pages, Expire(u)
  PROVE  TInv'
<1>1. PICK p : p = pages[u]
  OBVIOUS
<1>2. PICK q : q = Aged(p)
  OBVIOUS
<1>3. /\ Len(edits) \in Nat /\ Len(stream) \in Nat
      /\ p \in PageAt(Len(edits), Len(stream)) /\ PageInv(u, p, edits, stream)
  BY <1>1, PageTypes
<1>4. pages' = [pages EXCEPT ![u] = q] /\ p.fresh # {}
  BY <1>1, <1>2, AgesTo DEF Expire
<1>5. /\ q \in PageAt(Len(edits), Len(stream)) /\ PageInv(u, q, edits, stream)
      /\ q.queue = p.queue /\ q.out = p.out
  BY <1>2, <1>3, <1>4, BufferAges
<1>6. UNCHANGED <<content, row, op, edits, stream, gone, lost, faults>> /\ faults' \in 0 .. MaxFaults
  BY DEF Expire, TInv, TypeOK
<1> QED
  BY <1>1, <1>4, <1>5, <1>6, AloneThere

LEMMA ReadRowsStep ==
  ASSUME TInv, NEW u \in Pages, ReadRows(u)
  PROVE  TInv'
<1>1. PICK p : p = pages[u]
  OBVIOUS
<1>2. PICK k \in DOMAIN p.gets :
        /\ pages' = [pages EXCEPT ![u].gets[k] = row]
        /\ UNCHANGED <<content, row, op, edits, stream, gone, lost, faults>>
  BY <1>1 DEF ReadRows
<1>3. /\ Len(edits) \in Nat /\ Len(stream) \in Nat
      /\ p \in PageAt(Len(edits), Len(stream)) /\ PageInv(u, p, edits, stream)
  BY <1>1, PageTypes
<1>4. PICK gets : gets = [p.gets EXCEPT ![k] = row]
  OBVIOUS
<1>5. gets \in Seq({"sent", "no", "there", "gone"})
  <2>1. p.gets \in Seq({"sent", "no", "there", "gone"})
    BY <1>3, SocketFields
  <2>2. row \in {"sent", "no", "there", "gone"}
    BY DEF TInv, TypeOK
  <2> QED
    BY <1>2, <1>4, <2>1, <2>2
<1>6. PICK q : q = [p EXCEPT !.gets = gets]
  OBVIOUS
<1>7. pages' = [pages EXCEPT ![u] = q]
  BY <1>1, <1>2, <1>4, <1>6
<1>8. /\ q \in PageAt(Len(edits), Len(stream)) /\ PageInv(u, q, edits, stream)
      /\ q.queue = p.queue /\ q.out = p.out
  BY <1>3, <1>5, <1>6, AnswerRead
<1>9. faults' \in 0 .. MaxFaults
  BY <1>2 DEF TInv, TypeOK
<1> QED
  BY <1>1, <1>2, <1>7, <1>8, <1>9, AloneThere

\* A failure counts as one.
LEMMA FaultTyped ==
  ASSUME TInv, Fault
  PROVE  faults' \in 0 .. MaxFaults
  BY TextAssumption DEF Fault, TInv, TypeOK

LEMMA LoadFailsStep ==
  ASSUME TInv, NEW u \in Pages, LoadFails(u)
  PROVE  TInv'
<1>1. PICK p : p = pages[u]
  OBVIOUS
<1>2. PICK k \in DOMAIN p.gets : pages' = [pages EXCEPT ![u] = Failing(pages[u], RemoveAt(pages[u].gets, k))]
  BY <1>1, ZenonT(60) DEF LoadFails, Failing
<1>3. /\ Len(edits) \in Nat /\ Len(stream) \in Nat
      /\ p \in PageAt(Len(edits), Len(stream)) /\ PageInv(u, p, edits, stream)
  BY <1>1, PageTypes
<1>4. PICK gets : gets = RemoveAt(p.gets, k)
  OBVIOUS
<1>5. gets \in Seq({"sent", "no", "there", "gone"})
  <2>1. p.gets \in Seq({"sent", "no", "there", "gone"})
    BY <1>3, SocketFields
  <2>2. k \in 1 .. Len(p.gets)
    BY <1>2, <2>1
  <2> QED
    BY <1>4, <2>1, <2>2, Without
<1>6. PICK q : q = Failing(p, gets)
  OBVIOUS
<1>7. pages' = [pages EXCEPT ![u] = q]
  BY <1>1, <1>2, <1>4, <1>6
<1>8. /\ q \in PageAt(Len(edits), Len(stream)) /\ PageInv(u, q, edits, stream)
      /\ q.queue = p.queue /\ q.out = p.out
  BY <1>3, <1>5, <1>6, PageFails
<1>9. UNCHANGED <<content, row, op, edits, stream, gone, lost>> /\ faults' \in 0 .. MaxFaults
  BY FaultTyped DEF LoadFails
<1> QED
  BY <1>1, <1>7, <1>8, <1>9, AloneThere

\* What the answer makes of the page.
LEMMA AnswerTaken ==
  ASSUME NEW u \in Pages, Loaded(u), NEW p, p = pages[u]
  PROVE  \E k \in DOMAIN p.gets :
           LET there == p.gets[k] = "there"
               c == Cleared(p, RemoveAt(p.gets, k), there, Past(p.at))
               loaded == IF there THEN Ensure(c) ELSE c
           IN  pages' = [pages EXCEPT ![u] = IF Mounted(p) /\ there THEN loaded ELSE Rendered(u, loaded, edits)]
  BY ZenonT(60) DEF Loaded, Cleared

LEMMA LoadedStep ==
  ASSUME TInv, NEW u \in Pages, Loaded(u)
  PROVE  TInv'
<1>1. PICK p : p = pages[u]
  OBVIOUS
<1>2. /\ Len(edits) \in Nat /\ Len(stream) \in Nat
      /\ p \in PageAt(Len(edits), Len(stream)) /\ PageInv(u, p, edits, stream)
  BY <1>1, PageTypes
<1>3. PICK k \in DOMAIN p.gets :
        LET there == p.gets[k] = "there"
            c == Cleared(p, RemoveAt(p.gets, k), there, Past(p.at))
            loaded == IF there THEN Ensure(c) ELSE c
        IN  pages' = [pages EXCEPT ![u] = IF Mounted(p) /\ there THEN loaded ELSE Rendered(u, loaded, edits)]
  BY <1>1, AnswerTaken
<1>4. PICK there \in BOOLEAN : there = (p.gets[k] = "there")
  OBVIOUS
<1>5. PICK gets : gets = RemoveAt(p.gets, k)
  OBVIOUS
<1>6. PICK passed : passed = Past(p.at)
  OBVIOUS
<1>7. PICK c : c = Cleared(p, gets, there, passed)
  OBVIOUS
<1>8. PICK loaded : loaded = IF there THEN Ensure(c) ELSE c
  OBVIOUS
<1>9. PICK q : q = IF Mounted(p) /\ there THEN loaded ELSE Rendered(u, loaded, edits)
  OBVIOUS
<1>10. pages' = [pages EXCEPT ![u] = q]
  BY <1>3, <1>4, <1>5, <1>6, <1>7, <1>8, <1>9
<1>11. gets \in Seq({"sent", "no", "there", "gone"})
  <2>1. p.gets \in Seq({"sent", "no", "there", "gone"})
    BY <1>2, SocketFields
  <2>2. k \in 1 .. Len(p.gets)
    BY <1>3, <2>1
  <2> QED
    BY <1>5, <2>1, <2>2, Without
<1>12. passed \in SUBSET (1 .. Len(edits)) /\ \A e : Sent(stream, p.at, e) => e \in passed
  <2>1. p.at \in Int /\ p.at <= Len(stream)
    BY <1>2, SocketFields
  <2> QED
    BY <1>6, <2>1, PastTyped, PastIs
<1>13. /\ q \in PageAt(Len(edits), Len(stream)) /\ PageInv(u, q, edits, stream)
       /\ q.queue = p.queue /\ q.out = p.out
  BY <1>2, <1>7, <1>8, <1>9, <1>11, <1>12, PageLoads
<1>14. UNCHANGED <<content, row, op, edits, stream, gone, lost, faults>> /\ faults' \in 0 .. MaxFaults
  BY DEF Loaded, TInv, TypeOK
<1> QED
  BY <1>1, <1>10, <1>13, <1>14, AloneThere

\* What the next entry may be.
LEMMA Entries ==
  ASSUME TInv, NEW k \in 1 .. Len(stream)
  PROVE  /\ stream[k].kind \in {"insert", "delete", "crdt"}
         /\ stream[k].kind = "crdt" => stream[k].edit \in 1 .. Len(edits)
<1>1. stream[k] \in Entry
  BY Elements DEF TInv, TypeOK
<1>2. \A x \in [kind : {"insert", "delete"}] : x.kind \in {"insert", "delete"}
  OBVIOUS
<1>3. \A x \in [kind : {"crdt"}, edit : Numbers, socket : Pages \X Nat] : x.kind = "crdt" /\ x.edit \in Numbers
  OBVIOUS
<1> QED
  BY <1>1, <1>2, <1>3 DEF Entry, Numbers

\* What an entry makes of the page.
LEMMA FrameTaken ==
  ASSUME TInv, NEW u \in Pages, Receive(u), NEW p, p = pages[u], NEW entry, entry = stream[p.at + 1]
  PROVE  \/ /\ entry.kind = "crdt"
            /\ pages' = [pages EXCEPT ![u] = Passed(p, entry.edit)]
         \/ pages' = [pages EXCEPT ![u] = Frame(u, Advanced(p), entry)]
<1>1. p \in PageAt(Len(edits), Len(stream))
  BY PageTypes
<1>2. PICK p1 : p1 = [p EXCEPT !.at = @ + 1]
  OBVIOUS
<1>3. /\ p1.at = p.at + 1 /\ p1.has = p.has
      /\ [p1 EXCEPT !.missed = @ \cup ({entry.edit} \ p1.has)] = Passed(p, entry.edit)
  BY <1>1, <1>2 DEF PageAt, Passed
<1>4. \/ /\ entry.kind = "crdt"
         /\ pages' = [pages EXCEPT ![u] = [p1 EXCEPT !.missed = @ \cup ({entry.edit} \ p1.has)]]
      \/ pages' = [pages EXCEPT ![u] = Frame(u, [p1 EXCEPT !.cursor = p1.at], entry)]
  BY <1>2, <1>3 DEF Receive
<1>5. [p1 EXCEPT !.cursor = p1.at] = Advanced(p)
  BY <1>2, <1>3 DEF Advanced
<1> QED
  BY <1>3, <1>4, <1>5

LEMMA ReceiveStep ==
  ASSUME TInv, NEW u \in Pages, Receive(u)
  PROVE  TInv'
<1>1. PICK p : p = pages[u]
  OBVIOUS
<1>2. /\ Len(edits) \in Nat /\ Len(stream) \in Nat
      /\ p \in PageAt(Len(edits), Len(stream)) /\ PageInv(u, p, edits, stream)
  BY <1>1, PageTypes
<1>3. p.up /\ p.at < Len(stream)
  BY <1>1 DEF Receive
<1>4. p.at \in Nat /\ p.at + 1 \in 1 .. Len(stream) /\ p.at \in Int
  BY <1>2, <1>3, SocketFields
<1>5. PICK entry : entry = stream[p.at + 1]
  OBVIOUS
<1>7. \/ /\ entry.kind = "crdt"
         /\ pages' = [pages EXCEPT ![u] = Passed(p, entry.edit)]
      \/ pages' = [pages EXCEPT ![u] = Frame(u, Advanced(p), entry)]
  BY <1>1, <1>5, FrameTaken
<1>8. entry.kind \in {"insert", "delete", "crdt"} /\ (entry.kind = "crdt" => entry.edit \in 1 .. Len(edits))
  BY <1>4, <1>5, Entries
<1>9. PICK q : /\ pages' = [pages EXCEPT ![u] = q]
               /\ q \in PageAt(Len(edits), Len(stream)) /\ PageInv(u, q, edits, stream)
               /\ q.queue = p.queue /\ q.out = p.out
  <2>1. CASE /\ entry.kind = "crdt"
             /\ pages' = [pages EXCEPT ![u] = Passed(p, entry.edit)]
    <3>1. PICK e \in 1 .. Len(edits) : e = entry.edit
      BY <1>8, <2>1
    <3>2. PICK q : q = Passed(p, e)
      OBVIOUS
    <3>3. stream[p.at + 1].kind = "crdt" /\ stream[p.at + 1].edit = e
      BY <1>5, <2>1, <3>1
    <3>4. /\ q \in PageAt(Len(edits), Len(stream)) /\ PageInv(u, q, edits, stream)
          /\ q.queue = p.queue /\ q.out = p.out
      BY <1>2, <1>3, <3>2, <3>3, OwnPasses
    <3>5. pages' = [pages EXCEPT ![u] = q]
      BY <2>1, <3>1, <3>2
    <3> QED
      BY <3>4, <3>5
  <2>2. CASE entry.kind = "insert" /\ pages' = [pages EXCEPT ![u] = Frame(u, Advanced(p), entry)]
    <3>1. PICK q : q = Rendered(u, Ensure([Advanced(p) EXCEPT !.shown = TRUE]), edits)
      OBVIOUS
    <3>2. pages' = [pages EXCEPT ![u] = q]
      BY <2>2, <3>1 DEF Frame
    <3>3. stream[p.at + 1].kind = "insert" /\ ~Deleted(stream, p.at)
      BY <1>4, <1>5, <2>2 DEF TInv, BlockLives
    <3>4. /\ q \in PageAt(Len(edits), Len(stream)) /\ PageInv(u, q, edits, stream)
          /\ q.queue = p.queue /\ q.out = p.out
      BY <1>2, <1>3, <3>1, <3>3, InsertArrives
    <3> QED
      BY <3>2, <3>4
  <2>3. CASE entry.kind = "delete" /\ pages' = [pages EXCEPT ![u] = Frame(u, Advanced(p), entry)]
    <3>1. PICK q : q = Removed(Advanced(p))
      OBVIOUS
    <3>2. pages' = [pages EXCEPT ![u] = q]
      BY <2>3, <3>1 DEF Frame, Removed, BlockOff
    <3>3. stream[p.at + 1].kind = "delete"
      BY <1>5, <2>3
    <3>4. /\ q \in PageAt(Len(edits), Len(stream)) /\ PageInv(u, q, edits, stream)
          /\ q.queue = p.queue /\ q.out = p.out
      BY <1>2, <1>3, <3>1, <3>3, DeleteArrives
    <3> QED
      BY <3>2, <3>4
  <2>4. CASE entry.kind = "crdt" /\ pages' = [pages EXCEPT ![u] = Frame(u, Advanced(p), entry)]
    <3>1. PICK e \in 1 .. Len(edits) : e = entry.edit
      BY <1>8, <2>4
    <3>2. PICK q : q = Given(u, Advanced(p), e)
      OBVIOUS
    <3>3. pages' = [pages EXCEPT ![u] = q]
      BY <2>4, <3>1, <3>2 DEF Frame
    <3>4. stream[p.at + 1].kind = "crdt" /\ stream[p.at + 1].edit = e
      BY <1>5, <2>4, <3>1
    <3>5. /\ q \in PageAt(Len(edits), Len(stream)) /\ PageInv(u, q, edits, stream)
          /\ q.queue = p.queue /\ q.out = p.out
      BY <1>2, <1>3, <3>2, <3>4, DeltaArrives
    <3> QED
      BY <3>3, <3>5
  <2> QED
    BY <1>7, <1>8, <2>1, <2>2, <2>3, <2>4
<1>10. UNCHANGED <<content, row, op, edits, stream, gone, lost, faults>> /\ faults' \in 0 .. MaxFaults
  BY DEF Receive, TInv, TypeOK
<1> QED
  BY <1>1, <1>9, <1>10, AloneThere

Restarted(p) == Anew(Again(Wiped(p), Append(p.gets, "sent")), <<>>)

LEMMA StartsAgain ==
  ASSUME TInv, NEW u \in Pages, ReloadRequired(u), NEW p, p = pages[u]
  PROVE  pages' = [pages EXCEPT ![u] = Restarted(p)]
<1>1. PICK p1 : p1 = Wiped(p)
  OBVIOUS
<1>2. PICK r : r = [p1 EXCEPT !.composing = FALSE, !.remade = FALSE]
  OBVIOUS
<1>3. r.gets = p.gets
  <2>1. p \in PageAt(Len(edits), Len(stream))
    BY PageTypes
  <2> QED
    BY <1>1, <1>2, <2>1 DEF PageAt, Destroyed, Wiped
<1>4. PICK t : t = [r EXCEPT !.gets = Append(@, "sent")]
  OBVIOUS
<1>5. pages' = [pages EXCEPT ![u] = [t EXCEPT !.cursor = NoCursor, !.queue = <<>>, !.socket = @ + 1]]
  BY <1>1, <1>2, <1>4 DEF ReloadRequired, Wiped
<1>6. t = Again(p1, Append(p.gets, "sent"))
  BY <1>2, <1>3, <1>4 DEF Again
<1>7. [t EXCEPT !.cursor = NoCursor, !.queue = <<>>, !.socket = @ + 1] = Anew(t, <<>>)
  BY DEF Anew
<1> QED
  BY <1>1, <1>5, <1>6, <1>7 DEF Restarted

LEMMA ReloadRequiredStep ==
  ASSUME TInv, NEW u \in Pages, ReloadRequired(u)
  PROVE  TInv'
<1>1. PICK p : p = pages[u]
  OBVIOUS
<1>2. /\ Len(edits) \in Nat /\ Len(stream) \in Nat
      /\ p \in PageAt(Len(edits), Len(stream)) /\ PageInv(u, p, edits, stream)
  BY <1>1, PageTypes
<1>3. p.queue \in Seq(Numbers) /\ p.gets \in Seq({"sent", "no", "there", "gone"})
  BY <1>2, SocketFields DEF Numbers
<1>4. PICK queue \in Seq(1 .. Len(edits)) : queue = <<>>
  <2>1. <<>> \in Seq(1 .. Len(edits))
    OBVIOUS
  <2> QED
    BY <2>1
<1>5. PICK gets \in Seq({"sent", "no", "there", "gone"}) : gets = Append(p.gets, "sent")
  <2>1. Append(p.gets, "sent") \in Seq({"sent", "no", "there", "gone"})
    BY <1>3
  <2> QED
    BY <2>1
<1>6. PICK p1 : p1 = Wiped(p)
  OBVIOUS
<1>7. PICK p2 : p2 = Again(p1, gets)
  OBVIOUS
<1>8. PICK q : q = Anew(p2, queue)
  OBVIOUS
<1>9. pages' = [pages EXCEPT ![u] = q]
  <2>1. q = Restarted(p)
    BY <1>4, <1>5, <1>6, <1>7, <1>8 DEF Restarted
  <2> QED
    BY <1>1, <2>1, StartsAgain
<1>10. /\ q \in PageAt(Len(edits), Len(stream)) /\ PageInv(u, q, edits, stream)
       /\ q.queue = queue /\ q.out = p.out
  <2>1. ~p.up
    BY <1>1 DEF ReloadRequired
  <2> QED
    BY <1>2, <1>6, <1>7, <1>8, <2>1, PageReloads
<1>11. PICK part : part = ToSet(p.queue)
  OBVIOUS
<1>12. /\ Once(p.queue) /\ Once(p.out) /\ \A e : ~(Has(p.queue, e) /\ Has(p.out, e))
  BY <1>1 DEF TInv, Apart
<1>13. \A e : ~Has(queue, e)
  BY <1>4 DEF Has
<1>14. Once(queue)
  BY <1>4 DEF Once
<1>15. \A e : e \in part <=> Has(p.queue, e)
  BY <1>3, <1>11, InSet
<1>16. \A e : Waits(p, e) <=> Waits(q, e) \/ e \in part
  BY <1>10, <1>13, <1>15 DEF Waits
<1>17. \A e \in part : ~Waits(q, e)
  BY <1>10, <1>12, <1>13, <1>15 DEF Waits
<1>18. /\ UNCHANGED <<content, row, op, edits, stream, gone, faults>> /\ faults' \in 0 .. MaxFaults
       /\ lost' = lost \cup part
  BY <1>1, <1>11 DEF ReloadRequired, TInv, TypeOK
<1>19. op' \in {"none", "insert", "delete"} /\ (op' = "insert" => row = "no") /\ (op' = "delete" => row = "there")
  BY <1>18 DEF TInv, TypeOK, BlockLives
<1> QED
  BY <1>1, <1>9, <1>10, <1>12, <1>13, <1>14, <1>16, <1>17, <1>18, <1>19, Parting

LEMMA DropStep ==
  ASSUME TInv, NEW u \in Pages, Drop(u)
  PROVE  TInv'
<1>1. PICK p : p = pages[u]
  OBVIOUS
<1>2. /\ Len(edits) \in Nat /\ Len(stream) \in Nat
      /\ p \in PageAt(Len(edits), Len(stream)) /\ PageInv(u, p, edits, stream)
  BY <1>1, PageTypes
<1>3. p.out \in Seq(Numbers)
  BY <1>2, SocketFields DEF Numbers
<1>4. PICK out \in Seq(1 .. Len(edits)) : out = <<>>
  <2>1. <<>> \in Seq(1 .. Len(edits))
    OBVIOUS
  <2> QED
    BY <2>1
<1>5. PICK q : q = Offline(p, out)
  OBVIOUS
<1>6. pages' = [pages EXCEPT ![u] = q]
  BY <1>1, <1>4, <1>5, GoesOffline
<1>7. /\ q \in PageAt(Len(edits), Len(stream)) /\ PageInv(u, q, edits, stream)
      /\ q.queue = p.queue /\ q.out = out
  <2>1. PICK n \in Nat, l \in Nat : n = Len(edits) /\ l = Len(stream)
    BY <1>2
  <2>2. p \in PageAt(n, l) /\ out \in Seq(1 .. n)
    BY <1>2, <2>1
  <2>3. /\ q \in PageAt(n, l) /\ PageInv(u, q, edits, stream)
        /\ q.queue = p.queue /\ q.out = out
    BY <1>2, <1>5, <2>2, FramesGo
  <2> QED
    BY <2>1, <2>3
<1>8. PICK part : part = ToSet(p.out)
  OBVIOUS
<1>9. /\ Once(p.queue) /\ Once(p.out) /\ \A e : ~(Has(p.queue, e) /\ Has(p.out, e))
  BY <1>1 DEF TInv, Apart
<1>10. \A e : ~Has(out, e)
  BY <1>4 DEF Has
<1>11. Once(out)
  BY <1>4 DEF Once
<1>12. \A e : e \in part <=> Has(p.out, e)
  BY <1>3, <1>8, InSet
<1>13. \A e : Waits(p, e) <=> Waits(q, e) \/ e \in part
  BY <1>7, <1>10, <1>12 DEF Waits
<1>14. \A e \in part : ~Waits(q, e)
  BY <1>7, <1>9, <1>10, <1>12 DEF Waits
<1>15. /\ UNCHANGED <<content, row, op, edits, stream, gone>> /\ faults' \in 0 .. MaxFaults
       /\ lost' = lost \cup part
  BY <1>1, <1>8, FaultTyped DEF Drop
<1>16. op' \in {"none", "insert", "delete"} /\ (op' = "insert" => row = "no") /\ (op' = "delete" => row = "there")
  BY <1>15 DEF TInv, TypeOK, BlockLives
<1> QED
  BY <1>1, <1>6, <1>7, <1>9, <1>10, <1>11, <1>13, <1>14, <1>15, <1>16, Parting

LEMMA XaddFailsStep ==
  ASSUME TInv, NEW u \in Pages, XaddFails(u)
  PROVE  TInv'
<1>1. PICK p : p = pages[u]
  OBVIOUS
<1>2. /\ Len(edits) \in Nat /\ Len(stream) \in Nat
      /\ p \in PageAt(Len(edits), Len(stream)) /\ PageInv(u, p, edits, stream)
  BY <1>1, PageTypes
<1>3. p.out \in Seq(1 .. Len(edits)) /\ p.out # <<>>
  BY <1>1, <1>2, SocketFields DEF XaddFails
<1>4. PICK first : first = Head(p.out)
  OBVIOUS
<1>5. PICK out : out = Tail(p.out)
  OBVIOUS
<1>6. PICK q : q = Sending(p, out)
  OBVIOUS
<1>7. /\ Once(p.queue) /\ Once(p.out) /\ \A e : ~(Has(p.queue, e) /\ Has(p.out, e))
  BY <1>1 DEF TInv, Apart
<1>8. /\ out \in Seq(1 .. Len(edits)) /\ Once(out)
      /\ \A e : Has(p.out, e) <=> Has(out, e) \/ e = first
      /\ ~Has(out, first)
  BY <1>3, <1>4, <1>5, <1>7, FirstTaken
<1>9. pages' = [pages EXCEPT ![u] = q]
  BY <1>1, <1>5, <1>6 DEF XaddFails, Sending
<1>10. /\ q \in PageAt(Len(edits), Len(stream)) /\ PageInv(u, q, edits, stream)
       /\ q.queue = p.queue /\ q.out = out
  BY <1>2, <1>6, <1>8, FramesGo
<1>11. PICK part : part = {first}
  OBVIOUS
<1>12. \A e : Waits(p, e) <=> Waits(q, e) \/ e \in part
  BY <1>8, <1>10, <1>11 DEF Waits
<1>13. \A e \in part : ~Waits(q, e)
  BY <1>7, <1>8, <1>10, <1>11 DEF Waits
<1>14. /\ UNCHANGED <<content, row, op, edits, stream, gone>> /\ faults' \in 0 .. MaxFaults
       /\ lost' = lost \cup part
  BY <1>1, <1>4, <1>11, FaultTyped DEF XaddFails
<1>15. op' \in {"none", "insert", "delete"} /\ (op' = "insert" => row = "no") /\ (op' = "delete" => row = "there")
  BY <1>14 DEF TInv, TypeOK, BlockLives
<1>16. \A e : ~(Has(q.queue, e) /\ Has(q.out, e))
  BY <1>7, <1>8, <1>10
<1> QED
  BY <1>1, <1>7, <1>8, <1>9, <1>10, <1>12, <1>13, <1>14, <1>15, <1>16, Parting

LEMMA ConnectStep ==
  ASSUME TInv, NEW u \in Pages, Connect(u)
  PROVE  TInv'
<1>1. PICK p : p = pages[u]
  OBVIOUS
<1>2. PICK n \in Nat, l \in Nat : n = Len(edits) /\ l = Len(stream)
  BY PageTypes
<1>3. p \in PageAt(n, l) /\ PageInv(u, p, edits, stream)
  BY <1>1, <1>2, PageTypes
<1>4. p.status # "away" /\ ~(p.cursor \in 1 .. gone)
  BY <1>1 DEF Connect, Trimmed
<1>5. PICK at : at = Start(p)
  OBVIOUS
<1>6. PICK passed : passed = IF p.cursor \in {NoCursor, 0} THEN Past(at) \ p.has ELSE {}
  OBVIOUS
<1>7. PICK cursor : cursor = IF p.cursor = NoCursor THEN 0 ELSE p.cursor
  OBVIOUS
<1>8. PICK k \in 0 .. Len(p.queue) :
        /\ lost' = lost \cup ToSet(SubSeq(p.queue, 1, k))
        /\ pages' = [pages EXCEPT ![u] = Joined(Flushed(p, k), at, passed)]
  BY <1>1, <1>5, <1>6 DEF Connect
<1>9. PICK out : out = p.out \o SubSeq(p.queue, k + 1, Len(p.queue))
  OBVIOUS
<1>10. PICK first : first = SubSeq(p.queue, 1, k)
  OBVIOUS
<1>11. PICK queue : queue = <<>>
  OBVIOUS
<1>12. PICK p1 : p1 = Flushing(p, out, queue)
  OBVIOUS
<1>13. PICK q : q = Joins(p1, at, passed, cursor)
  OBVIOUS
<1>14. pages' = [pages EXCEPT ![u] = q]
  <2>1. Flushed(p, k) = p1
    BY <1>9, <1>11, <1>12 DEF Flushed, Flushing
  <2>2. p1.cursor = p.cursor
    BY <1>3, <1>12 DEF PageAt, Flushing
  <2>3. Joined(p1, at, passed) = q
    BY <1>7, <1>13, <2>2 DEF Joined, Joins
  <2> QED
    BY <1>8, <2>1, <2>3
<1>15. /\ p.queue \in Seq(1 .. n) /\ p.out \in Seq(1 .. n) /\ p.has \in SUBSET (1 .. n)
       /\ p.at \in 0 .. l /\ p.cursor \in {NoCursor} \cup 0 .. l
  BY <1>3, SocketFields
<1>16. /\ Once(p.queue) /\ Once(p.out) /\ \A e : ~(Has(p.queue, e) /\ Has(p.out, e))
  BY <1>1 DEF TInv, Apart
<1>17. /\ out \in Seq(1 .. n) /\ Once(out)
       /\ \A e : Has(p.queue, e) \/ Has(p.out, e) <=> Has(out, e) \/ e \in ToSet(first)
       /\ \A e \in ToSet(first) : ~Has(out, e)
  <2>1. PICK S : S = 1 .. n
    OBVIOUS
  <2>2. p.queue \in Seq(S) /\ p.out \in Seq(S)
    BY <1>15, <2>1
  <2>3. PICK queue0 \in Seq(S), out0 \in Seq(S) : queue0 = p.queue /\ out0 = p.out
    BY <2>2
  <2>4. Once(queue0) /\ Once(out0) /\ ~Twice(queue0, out0) /\ k \in 0 .. Len(queue0)
    BY <1>8, <1>16, <2>3 DEF Twice
  <2>5. first = Ahead(queue0, k) /\ out = Behind(queue0, out0, k)
    BY <1>9, <1>10, <2>3 DEF Ahead, Behind
  <2>6. /\ out \in Seq(S) /\ Once(out)
        /\ \A e : Has(queue0, e) \/ Has(out0, e) <=> Has(out, e) \/ e \in ToSet(first)
        /\ \A e \in ToSet(first) : ~Has(out, e)
    BY <2>4, <2>5, Handed
  <2> QED
    BY <2>1, <2>3, <2>6
<1>18. gone \in 0 .. l
  BY <1>2 DEF TInv, TypeOK
<1>19. /\ at \in 0 .. l /\ cursor \in 0 .. l
       /\ \/ p.cursor \in {NoCursor, 0} /\ cursor = 0
          \/ p.cursor \notin {NoCursor, 0} /\ cursor = p.cursor /\ at = cursor
  <2>1. CASE p.cursor = NoCursor
    BY <1>2, <1>5, <1>7, <2>1 DEF Start, NoCursor
  <2>2. CASE p.cursor = 0
    <3>1. at = gone /\ cursor = 0
      BY <1>5, <1>7, <1>18, <2>2 DEF Start, NoCursor
    <3> QED
      BY <1>18, <2>2, <3>1
  <2>3. CASE p.cursor # NoCursor /\ p.cursor # 0
    <3>1. p.cursor \in 0 .. l /\ p.cursor \notin 0 .. gone
      BY <1>4, <1>15, <1>18, <2>3
    <3>2. at = p.cursor /\ cursor = p.cursor
      BY <1>5, <1>7, <2>3, <3>1 DEF Start
    <3> QED
      BY <2>3, <3>1, <3>2
  <2> QED
    BY <2>1, <2>2, <2>3
<1>20. Past(at) \in SUBSET (1 .. n) /\ \A e : Sent(stream, at, e) => e \in Past(at)
  BY <1>2, <1>19, PastTyped, PastIs
<1>21. /\ passed \in SUBSET (1 .. n)
       /\ \/ cursor = 0 /\ \A e : Sent(stream, at, e) => e \in p.has \cup passed
          \/ cursor = p.cursor /\ at = cursor
  BY <1>6, <1>19, <1>20
<1>22. /\ q \in PageAt(n, l) /\ PageInv(u, q, edits, stream)
       /\ q.queue = queue /\ q.out = out
  <2>1. queue \in Seq(1 .. n)
    BY <1>11
  <2> QED
    BY <1>3, <1>4, <1>12, <1>13, <1>17, <1>19, <1>21, <2>1, SocketOpens
<1>23. PICK part : part = ToSet(first)
  OBVIOUS
<1>24. (\A e : ~Has(queue, e)) /\ Once(queue)
  BY <1>11 DEF Has, Once
<1>25. \A e : Waits(p, e) <=> Waits(q, e) \/ e \in part
  BY <1>17, <1>22, <1>23, <1>24 DEF Waits
<1>26. \A e \in part : ~Waits(q, e)
  BY <1>17, <1>22, <1>23, <1>24 DEF Waits
<1>27. /\ UNCHANGED <<content, row, op, edits, stream, gone, faults>> /\ faults' \in 0 .. MaxFaults
       /\ lost' = lost \cup part
  BY <1>8, <1>10, <1>23 DEF Connect, TInv, TypeOK
<1>28. op' \in {"none", "insert", "delete"} /\ (op' = "insert" => row = "no") /\ (op' = "delete" => row = "there")
  BY <1>27 DEF TInv, TypeOK, BlockLives
<1>29. q \in PageAt(Len(edits), Len(stream))
  BY <1>2, <1>22
<1>30. Once(q.queue) /\ Once(q.out) /\ \A e : ~(Has(q.queue, e) /\ Has(q.out, e))
  BY <1>17, <1>22, <1>24
<1> QED
  BY <1>1, <1>14, <1>22, <1>25, <1>26, <1>27, <1>28, <1>29, <1>30, Parting

\* The stream with one entry more.
LongerBy(x, log) ==
  /\ log \in Seq(Entry) /\ Len(log) = Len(stream) + 1 /\ Len(stream) \in Nat
  /\ \A k \in 1 .. Len(stream) : log[k] = stream[k]
  /\ log[Len(stream) + 1] = x
  /\ \A e : Sent(log, Len(log), e) <=> InStream(e) \/ (x.kind = "crdt" /\ x.edit = e)
  /\ Deleted(log, Len(log)) <=> Deleted(stream, Len(stream)) \/ x.kind = "delete"
  /\ \A k \in 0 .. Len(stream) : Deleted(log, k) <=> Deleted(stream, k)

LEMMA Posted ==
  ASSUME TInv, NEW x \in Entry, NEW log, log = Append(stream, x)
  PROVE  LongerBy(x, log)
<1>1. /\ log \in Seq(Entry) /\ Len(log) = Len(stream) + 1 /\ Len(stream) \in Nat
      /\ \A k \in 1 .. Len(stream) : log[k] = stream[k]
      /\ log[Len(stream) + 1] = x
  <2>1. stream \in Seq(Entry)
    BY DEF TInv, TypeOK
  <2> QED
    BY <2>1, Appended, Elements
<1>2. PICK l \in Nat : l = Len(stream)
  BY <1>1
<1>3. \A k \in 1 .. l : log[k] = stream[k]
  BY <1>1, <1>2
<1>4. \A e : Sent(log, l, e) <=> Sent(stream, l, e)
  BY <1>3 DEF Sent
<1>5. ASSUME NEW k \in 0 .. l
      PROVE  Deleted(log, k) <=> Deleted(stream, k)
  BY <1>2, <1>3 DEF Deleted
<1>6. /\ \A e : Sent(log, l + 1, e) <=> Sent(log, l, e) \/ (log[l + 1].kind = "crdt" /\ log[l + 1].edit = e)
      /\ Deleted(log, l + 1) <=> Deleted(log, l) \/ log[l + 1].kind = "delete"
  BY <1>2, SentNext
<1>7. log[l + 1] = x /\ Len(log) = l + 1
  BY <1>1, <1>2
<1>8. \A e : Sent(log, Len(log), e) <=> InStream(e) \/ (x.kind = "crdt" /\ x.edit = e)
  BY <1>2, <1>4, <1>6, <1>7 DEF InStream
<1>9. Deleted(log, Len(log)) <=> Deleted(stream, Len(stream)) \/ x.kind = "delete"
  BY <1>2, <1>5, <1>6, <1>7
<1> QED
  BY <1>1, <1>2, <1>5, <1>8, <1>9 DEF LongerBy

LEMMA TrimStep ==
  ASSUME TInv, Trim
  PROVE  TInv'
<1>1. /\ UNCHANGED <<content, row, op, edits, stream, pages, lost>> /\ faults' \in 0 .. MaxFaults
      /\ gone' \in gone + 1 .. Len(stream)
  BY FaultTyped DEF Trim
<1>2. gone' \in 0 .. Len(stream)
  BY <1>1 DEF TInv, TypeOK
<1>3. TypeOK'
  BY <1>1, <1>2 DEF TInv, TypeOK, Entry, Page, Numbers
<1>4. BlockLives' /\ Apart' /\ Somewhere'
  BY <1>1 DEF TInv, BlockLives, Deleted, Apart, Somewhere, Waits, Has, Once, InStream, Sent, Numbers
<1>5. ASSUME NEW v \in Pages
      PROVE  PageInv(v, pages[v], edits, stream)'
  <2>1. PICK p : p = pages[v]
    OBVIOUS
  <2>2. PICK all : all = edits
    OBVIOUS
  <2>3. PICK log : log = stream
    OBVIOUS
  <2>4. PageInv(v, p, all, log)
    BY <2>1, <2>2, <2>3 DEF TInv
  <2>5. PageInv(v, p, all, log)'
    BY <1>1, <2>4, ContentStays
  <2> QED
    BY <1>1, <2>1, <2>2, <2>3, <2>5
<1> QED
  BY <1>3, <1>4, <1>5 DEF TInv

LEMMA PublishStep ==
  ASSUME TInv, NEW u \in Pages, Publish(u)
  PROVE  TInv'
<1>1. PICK p : p = pages[u]
  OBVIOUS
<1>2. PICK n \in Nat, l \in Nat : n = Len(edits) /\ l = Len(stream)
  BY PageTypes
<1>3. p \in PageAt(n, l) /\ PageInv(u, p, edits, stream)
  BY <1>1, <1>2, PageTypes
<1>4. p.out \in Seq(1 .. n) /\ p.out # <<>> /\ p.socket \in Nat
  BY <1>1, <1>3, SocketFields DEF Publish
<1>5. PICK first : first = Head(p.out)
  OBVIOUS
<1>6. PICK out : out = Tail(p.out)
  OBVIOUS
<1>7. PICK q : q = Sending(p, out)
  OBVIOUS
<1>8. /\ Once(p.queue) /\ Once(p.out) /\ \A e : ~(Has(p.queue, e) /\ Has(p.out, e))
      /\ \A e : Waits(p, e) => edits[e].by[1] = u /\ ~InStream(e) /\ e \notin lost
  BY <1>1 DEF TInv, Apart
<1>9. /\ out \in Seq(1 .. n) /\ Once(out) /\ first \in 1 .. n
      /\ \A e : Has(p.out, e) <=> Has(out, e) \/ e = first
      /\ ~Has(out, first)
  BY <1>4, <1>5, <1>6, <1>8, FirstTaken
<1>10. /\ q \in PageAt(n, l) /\ PageInv(u, q, edits, stream)
       /\ q.queue = p.queue /\ q.out = out
  BY <1>3, <1>7, <1>9, FramesGo
<1>11. PICK x : x = [kind |-> "crdt", edit |-> first, socket |-> <<u, p.socket>>]
  OBVIOUS
<1>12. x \in Entry /\ x.kind = "crdt" /\ x.edit = first
  BY <1>2, <1>4, <1>9, <1>11 DEF Entry, Numbers
<1>13. PICK log : log = Append(stream, x)
  OBVIOUS
<1>14. /\ log \in Seq(Entry) /\ Len(log) = l + 1
       /\ \A k \in 1 .. l : log[k] = stream[k]
       /\ log[l + 1] = x
       /\ \A e : Sent(log, Len(log), e) <=> InStream(e) \/ e = first
       /\ Deleted(log, Len(log)) <=> Deleted(stream, Len(stream))
       /\ \A k \in 0 .. l : Deleted(log, k) <=> Deleted(stream, k)
  <2>1. /\ log \in Seq(Entry) /\ Len(log) = Len(stream) + 1 /\ Len(stream) \in Nat
        /\ \A k \in 1 .. Len(stream) : log[k] = stream[k]
        /\ log[Len(stream) + 1] = x
        /\ \A e : Sent(log, Len(log), e) <=> InStream(e) \/ (x.kind = "crdt" /\ x.edit = e)
        /\ Deleted(log, Len(log)) <=> Deleted(stream, Len(stream)) \/ x.kind = "delete"
        /\ \A k \in 0 .. Len(stream) : Deleted(log, k) <=> Deleted(stream, k)
    <3>1. LongerBy(x, log)
      BY <1>12, <1>13, Posted
    <3> QED
      BY <3>1 DEF LongerBy
  <2>2. \A e : Sent(log, Len(log), e) <=> InStream(e) \/ e = first
    BY <1>12, <2>1
  <2>3. Deleted(log, Len(log)) <=> Deleted(stream, Len(stream))
    BY <1>12, <2>1
  <2>4. \A k \in 0 .. l : Deleted(log, k) <=> Deleted(stream, k)
    BY <1>2, <2>1
  <2> QED
    BY <1>2, <2>1, <2>2, <2>3, <2>4
<1>15. /\ UNCHANGED <<content, row, op, edits, gone, lost, faults>>
       /\ stream' = log /\ pages' = [pages EXCEPT ![u] = q]
  BY <1>1, <1>5, <1>6, <1>7, <1>11, <1>13 DEF Publish, Sending
<1>16. q \in PageAt(n, l + 1) /\ PageInv(u, q, edits, log)
  <2>1. q \in PageAt(n, l + 1)
    BY <1>10, PageGrows
  <2>2. Len(log) \in Nat /\ l <= Len(log) /\ Len(stream) = l
    BY <1>2, <1>14
  <2>3. PICK all : all = edits
    OBVIOUS
  <2>4. PICK shorter : shorter = stream
    OBVIOUS
  <2>5. PageInv(u, q, all, log)
    BY <1>10, <1>14, <2>2, <2>3, <2>4, PageKept
  <2> QED
    BY <2>1, <2>3, <2>5
<1>17. /\ pages' \in [Pages -> Page']
       /\ \A v \in Pages : PageInv(v, pages[v], edits, stream)'
  <2>1. PICK all : all = edits
    OBVIOUS
  <2>2. Len(all) = n /\ Len(log) = l + 1 /\ Len(edits) <= Len(all) /\ Len(stream) <= Len(log)
    BY <1>2, <1>14, <2>1
  <2>3. q \in PageAt(Len(all), Len(log)) /\ PageInv(u, q, all, log)
    BY <1>16, <2>1, <2>2
  <2>4. (\A e \in 1 .. Len(edits) : all[e] = edits[e]) /\ \A k \in 1 .. Len(stream) : log[k] = stream[k]
    BY <1>2, <1>14, <2>1
  <2>5. content' = content /\ edits' = all /\ stream' = log /\ Len(all) \in Nat /\ Len(log) \in Nat
    BY <1>2, <1>15, <2>1, <2>2
  <2> QED
    BY <1>15, <2>2, <2>3, <2>4, <2>5, Stepped
<1>18. /\ content \in Contents /\ row \in {"no", "there", "gone"} /\ op \in {"none", "insert", "delete"}
       /\ edits \in Seq(EditRecord) /\ gone \in 0 .. l
       /\ pages \in [Pages -> Page] /\ lost \subseteq Numbers /\ faults \in 0 .. MaxFaults
  BY <1>2 DEF TInv, TypeOK
<1>19. TypeOK'
  <2>1. stream' \in Seq(Entry')
    BY <1>14, <1>15 DEF Entry, Numbers
  <2>2. gone' \in 0 .. Len(stream')
    BY <1>14, <1>15, <1>18
  <2>3. /\ content' \in Contents /\ row' \in {"no", "there", "gone"} /\ op' \in {"none", "insert", "delete"}
        /\ lost' \subseteq Numbers' /\ faults' \in 0 .. MaxFaults /\ edits' \in Seq(EditRecord)
    BY <1>15, <1>18 DEF Numbers
  <2>4. (\A e \in Numbers : /\ edits[e].erases \subseteq edits[e].needs
                            /\ edits[e].needs \subseteq 1 .. e - 1
                            /\ \A d \in edits[e].needs : edits[d].needs \subseteq edits[e].needs)'
    BY <1>15 DEF TInv, TypeOK, Numbers
  <2> QED
    BY <1>17, <2>1, <2>2, <2>3, <2>4 DEF TypeOK, EditRecord
<1>20. BlockLives'
  <2>1. /\ op = "insert" => row = "no"
        /\ op = "delete" => row = "there"
        /\ Deleted(stream, Len(stream)) => row = "gone"
        /\ \A k \in 1 .. Len(stream) : stream[k].kind = "insert" => ~Deleted(stream, k - 1)
    BY DEF TInv, BlockLives
  <2>2. ASSUME NEW k \in 1 .. l + 1, log[k].kind = "insert"
        PROVE  ~Deleted(log, k - 1)
    <3>1. k # l + 1
      BY <1>12, <1>14, <2>2
    <3>2. k \in 1 .. l /\ k - 1 \in 0 .. l
      BY <2>2, <3>1
    <3> QED
      BY <1>2, <1>14, <2>1, <2>2, <3>2
  <2>3. \A k \in 1 .. Len(log) : log[k].kind = "insert" => ~Deleted(log, k - 1)
    BY <1>14, <2>2
  <2>4. (op = "insert" => row = "no") /\ (op = "delete" => row = "there") /\ (Deleted(log, Len(log)) => row = "gone")
    BY <1>14, <2>1
  <2> QED
    BY <1>15, <2>3, <2>4 DEF BlockLives, Deleted
<1>21. \A e : InStream(e)' <=> InStream(e) \/ e = first
  <2>1. \A e : InStream(e)' <=> Sent(log, Len(log), e)
    BY <1>15 DEF InStream, Sent
  <2> QED
    BY <1>14, <2>1
<1>22. Waits(p, first) /\ edits[first].by[1] = u /\ ~InStream(first) /\ first \notin lost
  <2>1. Waits(p, first)
    BY <1>9 DEF Waits
  <2> QED
    BY <1>8, <2>1
<1>23. \A e : Waits(p, e) <=> Waits(q, e) \/ e = first
  BY <1>9, <1>10 DEF Waits
<1>24. ~Waits(q, first)
  BY <1>8, <1>9, <1>10 DEF Waits
<1>25. pages'[u] = q /\ \A v \in Pages : v # u => pages'[v] = pages[v]
  BY <1>15, <1>18
<1>26. Apart'
  <2>1. ASSUME NEW k \in 1 .. l + 1, NEW m \in 1 .. l + 1,
               log[k].kind = "crdt", log[m].kind = "crdt", log[k].edit = log[m].edit
        PROVE  k = m
    <3>1. ASSUME NEW i \in 1 .. l, log[i].kind = "crdt", log[i].edit = first
          PROVE  FALSE
      <4>1. InStream(first)
        BY <1>2, <1>14, <3>1 DEF InStream, Sent
      <4> QED
        BY <1>22, <4>1
    <3>2. CASE k \in 1 .. l /\ m \in 1 .. l
      BY <1>2, <1>14, <2>1, <3>2 DEF TInv, Apart
    <3>3. CASE k = l + 1 /\ m \in 1 .. l
      BY <1>12, <1>14, <2>1, <3>1, <3>3
    <3>4. CASE m = l + 1 /\ k \in 1 .. l
      BY <1>12, <1>14, <2>1, <3>1, <3>4
    <3> QED
      BY <3>2, <3>3, <3>4
  <2>2. (\A k, m \in 1 .. Len(stream) :
         stream[k].kind = "crdt" /\ stream[m].kind = "crdt" /\ stream[k].edit = stream[m].edit => k = m)'
    BY <1>14, <1>15, <2>1
  <2>3. \A e \in lost' : ~InStream(e)'
    BY <1>15, <1>21, <1>22 DEF TInv, Apart
  <2>4. ASSUME NEW v \in Pages
        PROVE  /\ Once(pages'[v].queue) /\ Once(pages'[v].out)
               /\ \A e : ~(Has(pages'[v].queue, e) /\ Has(pages'[v].out, e))
               /\ \A e : Waits(pages'[v], e) => edits'[e].by[1] = v /\ ~InStream(e)' /\ e \notin lost'
    <3>1. CASE v = u
      <4>1. \A e : Waits(q, e) => edits[e].by[1] = u /\ ~InStream(e) /\ e \notin lost /\ e # first
        BY <1>8, <1>23, <1>24
      <4>2. Once(q.queue) /\ Once(q.out) /\ \A e : ~(Has(q.queue, e) /\ Has(q.out, e))
        BY <1>8, <1>9, <1>10
      <4> QED
        BY <1>15, <1>21, <1>25, <3>1, <4>1, <4>2
    <3>2. CASE v # u
      <4>1. /\ Once(pages[v].queue) /\ Once(pages[v].out)
            /\ \A e : ~(Has(pages[v].queue, e) /\ Has(pages[v].out, e))
            /\ \A e : Waits(pages[v], e) => edits[e].by[1] = v /\ ~InStream(e) /\ e \notin lost
        BY DEF TInv, Apart
      <4>2. \A e : Waits(pages[v], e) => e # first
        BY <1>22, <3>2, <4>1
      <4> QED
        BY <1>15, <1>21, <1>25, <3>2, <4>1, <4>2
    <3> QED
      BY <3>1, <3>2
  <2> QED
    BY <2>2, <2>3, <2>4 DEF Apart, Once, Has, Waits
<1>27. Somewhere'
  <2>1. ASSUME NEW e \in Numbers
        PROVE  InStream(e)' \/ e \in lost' \/ Waits(pages'[edits'[e].by[1]], e)
    <3>1. InStream(e) \/ e \in lost \/ Waits(pages[edits[e].by[1]], e)
      BY DEF TInv, Somewhere
    <3>2. edits[e].by[1] \in Pages
      BY Makers
    <3>3. CASE edits[e].by[1] = u
      <4>1. pages'[edits'[e].by[1]] = q
        BY <1>15, <1>25, <3>3
      <4> QED
        BY <1>1, <1>15, <1>21, <1>23, <3>1, <3>3, <4>1
    <3>4. CASE edits[e].by[1] # u
      <4>1. pages'[edits'[e].by[1]] = pages[edits[e].by[1]]
        BY <1>15, <1>25, <3>2, <3>4
      <4> QED
        BY <1>15, <1>21, <3>1, <4>1
    <3> QED
      BY <3>3, <3>4
  <2>2. Numbers' = Numbers
    BY <1>15 DEF Numbers
  <2> QED
    BY <2>1, <2>2 DEF Somewhere, Waits, Has
<1> QED
  BY <1>17, <1>19, <1>20, <1>26, <1>27 DEF TInv

LEMMA CommitOpStep ==
  ASSUME TInv, CommitOp
  PROVE  TInv'
<1>1. PICK n \in Nat, l \in Nat : n = Len(edits) /\ l = Len(stream)
  BY Elements DEF TInv, TypeOK
<1>2. op \in {"insert", "delete"}
  BY DEF CommitOp, TInv, TypeOK
<1>3. PICK x : x = [kind |-> op]
  OBVIOUS
<1>4. x \in Entry /\ x.kind = op
  BY <1>2, <1>3 DEF Entry
<1>5. PICK log : log = Append(stream, x)
  OBVIOUS
<1>6. /\ log \in Seq(Entry) /\ Len(log) = Len(stream) + 1 /\ Len(stream) \in Nat
      /\ \A k \in 1 .. Len(stream) : log[k] = stream[k]
      /\ log[Len(stream) + 1] = x
      /\ \A e : Sent(log, Len(log), e) <=> InStream(e) \/ (x.kind = "crdt" /\ x.edit = e)
      /\ Deleted(log, Len(log)) <=> Deleted(stream, Len(stream)) \/ x.kind = "delete"
      /\ \A k \in 0 .. Len(stream) : Deleted(log, k) <=> Deleted(stream, k)
  <2>1. LongerBy(x, log)
    BY <1>4, <1>5, Posted
  <2> QED
    BY <2>1 DEF LongerBy
<1>7. /\ Len(log) = l + 1 /\ log[l + 1] = x /\ \A k \in 1 .. l : log[k] = stream[k]
  BY <1>1, <1>6
<1>8. /\ UNCHANGED <<content, edits, gone, pages, lost, faults>> /\ op' = "none"
      /\ row' = (IF op = "insert" THEN "there" ELSE "gone") /\ stream' = log
  BY <1>3, <1>5 DEF CommitOp
<1>9. /\ content \in Contents /\ edits \in Seq(EditRecord) /\ gone \in 0 .. l
      /\ pages \in [Pages -> Page] /\ lost \subseteq Numbers /\ faults \in 0 .. MaxFaults
  BY <1>1 DEF TInv, TypeOK
<1>10. ASSUME NEW v \in Pages
       PROVE  pages[v] \in PageAt(n, l + 1) /\ PageInv(v, pages[v], edits, stream)'
  <2>1. PICK p : p = pages[v]
    OBVIOUS
  <2>2. PICK all : all = edits
    OBVIOUS
  <2>3. PICK shorter : shorter = stream
    OBVIOUS
  <2>4. p \in PageAt(n, l) /\ PageInv(v, p, all, shorter)
    BY <1>1, <2>1, <2>2, <2>3, PageTypes
  <2>5. p \in PageAt(n, l + 1)
    BY <2>4, PageGrows
  <2>6. Len(log) \in Nat /\ l <= Len(log) /\ Len(shorter) = l /\ \A k \in 1 .. l : log[k] = shorter[k]
    BY <1>1, <1>7, <2>3
  <2>7. PageInv(v, p, all, log)
    BY <2>4, <2>6, PageKept
  <2>8. PageInv(v, p, all, log)'
    BY <1>8, <2>7, ContentStays
  <2> QED
    BY <1>8, <2>1, <2>2, <2>5, <2>8
<1>11. TypeOK'
  <2>1. stream' \in Seq(Entry')
    BY <1>6, <1>8 DEF Entry, Numbers
  <2>2. gone' \in 0 .. Len(stream')
    BY <1>7, <1>8, <1>9
  <2>3. Page' = PageAt(n, l + 1)
    BY <1>1, <1>7, <1>8 DEF Page, PageAt, Numbers
  <2>4. pages' \in [Pages -> Page']
    BY <1>8, <1>9, <1>10, <2>3
  <2>5. /\ content' \in Contents /\ row' \in {"no", "there", "gone"} /\ op' \in {"none", "insert", "delete"}
        /\ lost' \subseteq Numbers' /\ faults' \in 0 .. MaxFaults /\ edits' \in Seq(EditRecord)
    BY <1>8, <1>9 DEF Numbers
  <2>6. (\A e \in Numbers : /\ edits[e].erases \subseteq edits[e].needs
                            /\ edits[e].needs \subseteq 1 .. e - 1
                            /\ \A d \in edits[e].needs : edits[d].needs \subseteq edits[e].needs)'
    BY <1>8 DEF TInv, TypeOK, Numbers
  <2> QED
    BY <2>1, <2>2, <2>4, <2>5, <2>6 DEF TypeOK, EditRecord
<1>12. BlockLives'
  <2>1. /\ op = "insert" => row = "no"
        /\ op = "delete" => row = "there"
        /\ Deleted(stream, l) => row = "gone"
        /\ \A k \in 1 .. l : stream[k].kind = "insert" => ~Deleted(stream, k - 1)
    BY <1>1 DEF TInv, BlockLives
  <2>2. ~Deleted(stream, l)
    BY <1>2, <2>1
  <2>3. Deleted(log, l + 1) => row' = "gone"
    BY <1>1, <1>2, <1>4, <1>6, <1>7, <1>8, <2>2
  <2>4. ASSUME NEW k \in 1 .. l + 1, log[k].kind = "insert"
        PROVE  ~Deleted(log, k - 1)
    <3>1. CASE k = l + 1
      <4>1. ~Deleted(log, l)
        BY <1>1, <1>6, <2>2
      <4> QED
        BY <1>1, <3>1, <4>1
    <3>2. CASE k # l + 1
      <4>1. k \in 1 .. l /\ k - 1 \in 0 .. l
        BY <2>4, <3>2
      <4> QED
        BY <1>1, <1>6, <1>7, <2>1, <2>4, <4>1
    <3> QED
      BY <3>1, <3>2
  <2> QED
    BY <1>7, <1>8, <2>3, <2>4 DEF BlockLives, Deleted
<1>13. \A e : InStream(e)' <=> InStream(e)
  <2>1. \A e : InStream(e)' <=> Sent(log, Len(log), e)
    BY <1>8 DEF InStream, Sent
  <2> QED
    BY <1>2, <1>4, <1>6, <2>1
<1>14. Apart'
  <2>1. ASSUME NEW k \in 1 .. l + 1, NEW m \in 1 .. l + 1,
               log[k].kind = "crdt", log[m].kind = "crdt", log[k].edit = log[m].edit
        PROVE  k = m
    <3>1. k \in 1 .. l /\ m \in 1 .. l
      BY <1>2, <1>4, <1>7, <2>1
    <3> QED
      BY <1>1, <1>7, <2>1, <3>1 DEF TInv, Apart
  <2>2. (\A k, m \in 1 .. Len(stream) :
         stream[k].kind = "crdt" /\ stream[m].kind = "crdt" /\ stream[k].edit = stream[m].edit => k = m)'
    BY <1>7, <1>8, <2>1
  <2>3. \A e \in lost' : ~InStream(e)'
    BY <1>8, <1>13 DEF TInv, Apart
  <2>4. ASSUME NEW v \in Pages
        PROVE  /\ Once(pages'[v].queue) /\ Once(pages'[v].out)
               /\ \A e : ~(Has(pages'[v].queue, e) /\ Has(pages'[v].out, e))
               /\ \A e : Waits(pages'[v], e) => edits'[e].by[1] = v /\ ~InStream(e)' /\ e \notin lost'
    BY <1>8, <1>13 DEF TInv, Apart
  <2> QED
    BY <2>2, <2>3, <2>4 DEF Apart, Once, Has, Waits
<1>15. Somewhere'
  <2>1. \A e \in Numbers : InStream(e)' \/ e \in lost' \/ Waits(pages'[edits'[e].by[1]], e)
    BY <1>8, <1>13 DEF TInv, Somewhere
  <2> QED
    BY <1>8, <2>1 DEF Somewhere, Waits, Has, Numbers
<1> QED
  BY <1>10, <1>11, <1>12, <1>14, <1>15 DEF TInv

-----------------------------------------------------------------------------
(* Editing.                                                                *)

\* What an update builds on is closed: it has the grounds of all that is in it.
LEMMA GroundsIs ==
  ASSUME TInv, NEW direct \in SUBSET Numbers
  PROVE  /\ Grounds(direct) \in SUBSET Numbers /\ direct \subseteq Grounds(direct)
         /\ \A d \in Grounds(direct) : edits[d].needs \subseteq Grounds(direct)
<1>1. \A e \in Numbers : /\ edits[e].needs \subseteq 1 .. e - 1
                         /\ \A d \in edits[e].needs : edits[d].needs \subseteq edits[e].needs
  BY DEF TInv, TypeOK
<1>2. Len(edits) \in Nat
  BY DEF TInv, TypeOK
<1>3. \A e \in Numbers : edits[e].needs \subseteq Numbers
  BY <1>1, <1>2 DEF Numbers
<1>4. \A d : d \in Grounds(direct) <=> d \in direct \/ \E e \in direct : d \in edits[e].needs
  BY DEF Grounds
<1>5. ASSUME NEW d \in Grounds(direct)
      PROVE  edits[d].needs \subseteq Grounds(direct)
  <2>1. CASE d \in direct
    BY <1>4, <2>1
  <2>2. CASE d \notin direct
    <3>1. PICK e \in direct : d \in edits[e].needs
      BY <1>4, <2>2
    <3>2. edits[d].needs \subseteq edits[e].needs
      BY <1>1, <3>1
    <3> QED
      BY <1>4, <3>1, <3>2
  <2> QED
    BY <2>1, <2>2
<1> QED
  BY <1>3, <1>4, <1>5

\* An update that a Y.Doc of page u may make.
Makes(u, x) ==
  /\ x \in EditRecord /\ x.by[1] = u
  /\ x.needs \subseteq Numbers /\ x.erases \subseteq x.needs
  /\ \A d \in x.needs : edits[d].needs \subseteq x.needs

LEMMA InsertMade ==
  ASSUME TInv, NEW u \in Pages, NEW near \in SUBSET Items(u)
  PROVE  Makes(u, Insert(u, near))
<1>1. pages[u].doc \in Nat /\ pages[u].has \in SUBSET Numbers
  BY PageTypes, SocketFields DEF Numbers
<1>2. InText(u) \subseteq pages[u].has
  BY DEF InText, Integrated
<1>3. Mine(u) \cup near \in SUBSET Numbers
  BY <1>1, <1>2 DEF Mine, Items
<1>4. PICK needs : needs = Grounds(Mine(u) \cup near)
  OBVIOUS
<1>5. needs \in SUBSET Numbers /\ \A d \in needs : edits[d].needs \subseteq needs
  BY <1>3, <1>4, GroundsIs
<1>6. needs \in SUBSET Nat
  BY <1>5 DEF Numbers
<1>7. PICK x : x = [by |-> <<u, pages[u].doc>>, needs |-> needs, erases |-> {}]
  OBVIOUS
<1>8. x = Insert(u, near)
  BY <1>4, <1>7 DEF Insert
<1>9. x \in EditRecord /\ x.by[1] = u /\ x.needs = needs /\ x.erases = {}
  BY <1>1, <1>6, <1>7 DEF EditRecord, Docs
<1> QED
  BY <1>5, <1>8, <1>9 DEF Makes

LEMMA EraseMade ==
  ASSUME TInv, NEW u \in Pages, NEW what \in SUBSET Text(u, pages[u], edits)
  PROVE  Makes(u, Erase(u, what))
<1>1. pages[u].doc \in Nat /\ pages[u].has \in SUBSET Numbers
  BY PageTypes, SocketFields DEF Numbers
<1>2. what \in SUBSET Numbers
  BY <1>1, VisibleIsShown
<1>3. PICK needs : needs = Grounds(what)
  OBVIOUS
<1>4. needs \in SUBSET Numbers /\ what \subseteq needs /\ \A d \in needs : edits[d].needs \subseteq needs
  BY <1>2, <1>3, GroundsIs
<1>5. needs \in SUBSET Nat /\ what \in SUBSET Nat
  BY <1>2, <1>4 DEF Numbers
<1>6. PICK x : x = [by |-> <<u, pages[u].doc>>, needs |-> needs, erases |-> what]
  OBVIOUS
<1>7. x = Erase(u, what)
  BY <1>3, <1>6 DEF Erase
<1>8. x \in EditRecord /\ x.by[1] = u /\ x.needs = needs /\ x.erases = what
  BY <1>1, <1>5, <1>6 DEF EditRecord, Docs
<1> QED
  BY <1>4, <1>7, <1>8 DEF Makes

\* New updates wait behind the old.
Counted(n, m) == [k \in 1 .. m |-> n + k]

LEMMA CountedIs ==
  ASSUME NEW n \in Nat, NEW m \in Nat
  PROVE  /\ Counted(n, m) \in Seq(n + 1 .. n + m) /\ Counted(n, m) \in Seq(1 .. n + m)
         /\ Len(Counted(n, m)) = m
         /\ \A k \in 1 .. m : Counted(n, m)[k] = n + k
         /\ ToSet(Counted(n, m)) = n + 1 .. n + m
<1> DEFINE c == Counted(n, m)
<1>1. \A k \in 1 .. m : n + k \in n + 1 .. n + m /\ n + k \in 1 .. n + m
  OBVIOUS
<1>2. c \in [1 .. m -> n + 1 .. n + m] /\ c \in [1 .. m -> 1 .. n + m] /\ DOMAIN c = 1 .. m
      /\ \A k \in 1 .. m : c[k] = n + k
  BY <1>1 DEF Counted
<1> HIDE DEF c
<1>3. c \in Seq(n + 1 .. n + m) /\ c \in Seq(1 .. n + m) /\ Len(c) = m
  BY <1>2
<1>4. \A e \in n + 1 .. n + m : e - n \in 1 .. m /\ n + (e - n) = e
  OBVIOUS
<1>5. \A e \in n + 1 .. n + m : \E k \in 1 .. m : c[k] = e
  BY <1>2, <1>4
<1>6. ToSet(c) = n + 1 .. n + m
  BY <1>1, <1>2, <1>5 DEF ToSet
<1> QED
  BY <1>2, <1>3, <1>6 DEF c

Lengthened(q, n, m) == q \o Counted(n, m)

LEMMA Queued ==
  ASSUME NEW n \in Nat, NEW m \in Nat, NEW q \in Seq(1 .. n), Once(q),
         NEW longer, longer = Lengthened(q, n, m)
  PROVE  /\ longer \in Seq(1 .. n + m) /\ Once(longer)
         /\ \A e : Has(longer, e) <=> Has(q, e) \/ e \in n + 1 .. n + m
<1>1. PICK c : c = Counted(n, m)
  OBVIOUS
<1>2. c \in Seq(1 .. n + m) /\ Len(c) = m /\ \A k \in 1 .. m : c[k] = n + k
  BY <1>1, CountedIs
<1>3. q \in Seq(1 .. n + m)
  <2>1. 1 .. n \subseteq 1 .. n + m
    OBVIOUS
  <2> QED
    BY <2>1, Widened
<1>4. PICK a \in Nat : a = Len(q)
  BY <1>3
<1>5. /\ longer \in Seq(1 .. n + m) /\ Len(longer) = a + m
      /\ \A k \in 1 .. a : longer[k] = q[k]
      /\ \A k \in 1 .. m : longer[a + k] = n + k
  <2>0. longer = q \o c
    BY <1>1 DEF Lengthened
  <2>1. /\ longer \in Seq(1 .. n + m) /\ Len(longer) = Len(q) + Len(c)
        /\ \A k \in 1 .. Len(q) : longer[k] = q[k]
        /\ \A k \in 1 .. Len(c) : longer[Len(q) + k] = c[k]
    <3>1. PICK S : S = 1 .. n + m
      OBVIOUS
    <3>2. q \in Seq(S) /\ c \in Seq(S)
      BY <1>2, <1>3, <3>1
    <3>3. /\ q \o c \in Seq(S) /\ Len(q \o c) = Len(q) + Len(c)
          /\ \A k \in 1 .. Len(q) : (q \o c)[k] = q[k]
          /\ \A k \in 1 .. Len(c) : (q \o c)[Len(q) + k] = c[k]
      BY <3>2, Joint
    <3> QED
      BY <2>0, <3>1, <3>3
  <2> QED
    BY <1>2, <1>4, <2>1
<1>11. \A k \in 1 .. m : longer[a + k] = n + k
  BY <1>5
<1>6. \A k \in 1 .. a : q[k] \in 1 .. n
  BY <1>4, Elements
<1>7. ASSUME NEW i \in 1 .. a + m
      PROVE  \/ /\ i \in 1 .. a
                /\ longer[i] = q[i] /\ longer[i] <= n
             \/ /\ i > a
                /\ longer[i] = n + (i - a) /\ longer[i] > n
  <2>1. CASE i <= a
    BY <1>5, <1>6, <2>1
  <2>2. CASE i > a
    <3>1. PICK k \in 1 .. m : k = i - a
      BY <2>2
    <3>2. a + k = i
      BY <3>1
    <3>3. longer[a + k] = n + k
      BY <1>11
    <3>4. longer[i] = n + k
      BY <3>2, <3>3
    <3> QED
      BY <2>2, <3>1, <3>4
  <2> QED
    BY <2>1, <2>2
<1>8. \A i \in 1 .. a + m : longer[i] \in Int
  BY <1>5, Elements
<1>9. Once(longer)
  <2>1. ASSUME NEW i \in 1 .. a + m, NEW j \in 1 .. a + m, longer[i] = longer[j]
        PROVE  i = j
    <3>1. CASE i \in 1 .. a /\ longer[i] = q[i] /\ j \in 1 .. a /\ longer[j] = q[j]
      BY <1>4, <2>1, <3>1 DEF Once
    <3>2. CASE longer[i] = n + (i - a) /\ longer[j] = n + (j - a)
      <4>1. n + (i - a) = n + (j - a)
        BY <2>1, <3>2
      <4> QED
        BY <4>1
    <3>3. ~(longer[i] <= n /\ longer[j] > n) /\ ~(longer[j] <= n /\ longer[i] > n)
      BY <1>8, <2>1
    <3> QED
      BY <1>7, <3>1, <3>2, <3>3
  <2> QED
    BY <1>5, <2>1 DEF Once
<1>10. ASSUME NEW e
       PROVE  Has(longer, e) <=> Has(q, e) \/ e \in n + 1 .. n + m
  <2>1. ASSUME Has(q, e)
        PROVE  Has(longer, e)
    <3>1. PICK k \in 1 .. a : q[k] = e
      BY <1>4, <2>1 DEF Has
    <3> QED
      BY <1>5, <3>1 DEF Has
  <2>2. ASSUME e \in n + 1 .. n + m
        PROVE  Has(longer, e)
    <3>1. PICK k \in 1 .. m : e = n + k
      <4>1. e - n \in 1 .. m /\ e = n + (e - n)
        BY <2>2
      <4> QED
        BY <4>1
    <3>2. longer[a + k] = e /\ a + k \in 1 .. a + m
      BY <1>5, <3>1
    <3> QED
      BY <1>5, <3>2 DEF Has
  <2>3. ASSUME Has(longer, e)
        PROVE  Has(q, e) \/ e \in n + 1 .. n + m
    <3>1. PICK i \in 1 .. a + m : longer[i] = e
      BY <1>5, <2>3 DEF Has
    <3>2. CASE i \in 1 .. a /\ longer[i] = q[i]
      BY <1>4, <3>1, <3>2 DEF Has
    <3>3. CASE i > a /\ longer[i] = n + (i - a)
      BY <3>1, <3>3
    <3> QED
      BY <1>7, <3>2, <3>3
  <2> QED
    BY <2>1, <2>2, <2>3
<1> QED
  BY <1>5, <1>9, <1>10

\* What a page sends, or queues until it is connected.
GivenTo(page, c) ==
  [page EXCEPT !.has = @ \cup ToSet(c), !.queue = IF page.up THEN @ ELSE @ \o c,
               !.out = IF page.up THEN @ \o c ELSE @]

LEMMA GivenIs ==
  ASSUME NEW n \in Nat, NEW m \in Nat, NEW l \in Nat, NEW p \in PageAt(n, l),
         Once(p.queue), Once(p.out), ~Twice(p.queue, p.out),
         NEW c, c = Counted(n, m), NEW g, g = GivenTo(p, c)
  PROVE  /\ Grown(g, p, n + m, l, n + 1 .. n + m)
         /\ Once(g.queue) /\ Once(g.out) /\ ~Twice(g.queue, g.out)
         /\ \A e : Waits(g, e) <=> Waits(p, e) \/ e \in n + 1 .. n + m
<1>1. PICK made \in SUBSET (1 .. n + m) : made = ToSet(c) /\ made = n + 1 .. n + m
  <2>1. ToSet(c) = n + 1 .. n + m
    BY CountedIs
  <2>2. n + 1 .. n + m \subseteq 1 .. n + m
    OBVIOUS
  <2> QED
    BY <2>1, <2>2
<1>2. p.queue \in Seq(1 .. n) /\ p.out \in Seq(1 .. n) /\ p.up \in BOOLEAN
  BY SocketFields
<1>3. PICK queue : queue = IF p.up THEN p.queue ELSE Lengthened(p.queue, n, m)
  OBVIOUS
<1>4. PICK out : out = IF p.up THEN Lengthened(p.out, n, m) ELSE p.out
  OBVIOUS
<1>5. g = Typing(p, made, queue, out)
  BY <1>1, <1>3, <1>4 DEF GivenTo, Lengthened, Typing
<1>6. 1 .. n \subseteq 1 .. n + m
  OBVIOUS
<1>7. \A e : Has(p.queue, e) \/ Has(p.out, e) => e \in 1 .. n
  BY <1>2, Elements DEF Has
<1>8. /\ queue \in Seq(1 .. n + m) /\ Once(queue) /\ out \in Seq(1 .. n + m) /\ Once(out)
      /\ ~Twice(queue, out)
      /\ \A e : Has(queue, e) \/ Has(out, e) <=> Waits(p, e) \/ e \in n + 1 .. n + m
  <2>1. CASE p.up
    <3>1. queue = p.queue /\ out = Lengthened(p.out, n, m)
      BY <1>3, <1>4, <2>1
    <3>2. /\ out \in Seq(1 .. n + m) /\ Once(out)
          /\ \A e : Has(out, e) <=> Has(p.out, e) \/ e \in n + 1 .. n + m
      BY <1>2, <3>1, Queued
    <3>3. queue \in Seq(1 .. n + m) /\ Once(queue)
      BY <1>2, <1>6, <3>1, Widened
    <3>4. ~Twice(queue, out)
      BY <1>7, <3>1, <3>2 DEF Twice
    <3> QED
      BY <3>1, <3>2, <3>3, <3>4 DEF Waits
  <2>2. CASE ~p.up
    <3>1. queue = Lengthened(p.queue, n, m) /\ out = p.out
      BY <1>3, <1>4, <2>2
    <3>2. /\ queue \in Seq(1 .. n + m) /\ Once(queue)
          /\ \A e : Has(queue, e) <=> Has(p.queue, e) \/ e \in n + 1 .. n + m
      BY <1>2, <3>1, Queued
    <3>3. out \in Seq(1 .. n + m) /\ Once(out)
      BY <1>2, <1>6, <3>1, Widened
    <3>4. ~Twice(queue, out)
      BY <1>7, <3>1, <3>2 DEF Twice
    <3> QED
      BY <3>1, <3>2, <3>3, <3>4 DEF Waits
  <2> QED
    BY <2>1, <2>2
<1>9. PICK k \in Nat : k = n + m
  OBVIOUS
<1>10. /\ p \in PageAt(k, l) /\ made \in SUBSET (1 .. k)
       /\ Numbered(k, made, queue, out)
  BY <1>8, <1>9, PageGrows DEF Numbered
<1>11. Grown(g, p, k, l, made) /\ g.queue = queue /\ g.out = out
  BY <1>5, <1>10, TypedFields
<1> QED
  BY <1>1, <1>8, <1>9, <1>11 DEF Waits

\* What is new of a page is put together out of what is new of it.
Makings(u, new) == new \in Seq(EditRecord) /\ \A k \in 1 .. Len(new) : Makes(u, new[k])

LEMMA UpdateStep ==
  ASSUME TInv, NEW u \in Pages, NEW page, NEW new, Makings(u, new), Update(u, page, new),
         page \in PageAt(Len(edits), Len(stream)), page.doc # 0,
         Buffered(page), Sourced(u, page, edits, stream), Caught(page, stream),
         page.queue = pages[u].queue, page.out = pages[u].out
  PROVE  TInv'
<1>1. PICK n \in Nat, l \in Nat : n = Len(edits) /\ l = Len(stream)
  BY PageTypes
<1>2. PICK m \in Nat : m = Len(new)
  BY Elements DEF Makings
<1>3. PICK all : all = edits \o new
  OBVIOUS
<1>4. /\ content \in Contents /\ row \in {"no", "there", "gone"} /\ op \in {"none", "insert", "delete"}
      /\ edits \in Seq(EditRecord) /\ stream \in Seq(Entry) /\ gone \in 0 .. l
      /\ pages \in [Pages -> Page] /\ lost \subseteq 1 .. n /\ faults \in 0 .. MaxFaults
  BY <1>1 DEF TInv, TypeOK, Numbers
<1>5. /\ all \in Seq(EditRecord) /\ Len(all) = n + m
      /\ \A e \in 1 .. n : all[e] = edits[e]
      /\ \A k \in 1 .. m : all[n + k] = new[k]
  <2>1. PICK S : S = EditRecord
    OBVIOUS
  <2>2. edits \in Seq(S) /\ new \in Seq(S)
    BY <1>4, <2>1 DEF Makings
  <2>3. /\ edits \o new \in Seq(S) /\ Len(edits \o new) = Len(edits) + Len(new)
        /\ \A k \in 1 .. Len(edits) : (edits \o new)[k] = edits[k]
        /\ \A k \in 1 .. Len(new) : (edits \o new)[Len(edits) + k] = new[k]
    BY <2>2, Joint
  <2> QED
    BY <1>1, <1>2, <1>3, <2>1, <2>3
<1>6. \A e \in n + 1 .. n + m : Makes(u, all[e])
  <2> TAKE e \in n + 1 .. n + m
  <2>1. e - n \in 1 .. m /\ n + (e - n) = e
    OBVIOUS
  <2>2. all[e] = new[e - n]
    BY <1>5, <2>1
  <2> QED
    BY <1>2, <2>1, <2>2 DEF Makings
<1>7. PICK c : c = Counted(n, m)
  OBVIOUS
<1>8. PICK g : g = GivenTo(page, c)
  OBVIOUS
<1>9. PICK q : q = Rendered(u, g, all)
  OBVIOUS
<1>10. /\ UNCHANGED <<content, row, op, stream, gone, lost, faults>>
       /\ edits' = all /\ pages' = [pages EXCEPT ![u] = q]
  BY <1>1, <1>2, <1>3, <1>7, <1>8, <1>9 DEF Update, Counted, GivenTo
<1>11. page \in PageAt(n, l)
  BY <1>1
<1>12. /\ Once(page.queue) /\ Once(page.out) /\ ~Twice(page.queue, page.out)
       /\ \A e : Waits(page, e) => edits[e].by[1] = u /\ ~InStream(e) /\ e \notin lost
  BY DEF TInv, Apart, Twice, Waits
<1>13. /\ Grown(g, page, n + m, l, n + 1 .. n + m)
       /\ Once(g.queue) /\ Once(g.out) /\ ~Twice(g.queue, g.out)
       /\ \A e : Waits(g, e) <=> Waits(page, e) \/ e \in n + 1 .. n + m
  BY <1>7, <1>8, <1>11, <1>12, GivenIs
<1>14. Got(page) \subseteq 1 .. n
  BY <1>11 DEF Got, PageAt
<1>15. PICK log : log = stream
  OBVIOUS
<1>16. PICK k \in Nat : k = n + m
  OBVIOUS
<1>17. PICK made : made = n + 1 .. n + m
  OBVIOUS
<1>18. /\ q \in PageAt(k, l) /\ PageInv(u, q, all, log)
       /\ q.queue = g.queue /\ q.out = g.out
  <2>1. Sourced(u, page, all, log)
    BY <1>5, <1>14, <1>15 DEF Sourced
  <2>2. \A e \in made : all[e].by[1] = u
    BY <1>6, <1>17 DEF Makes
  <2>3. page \in PageAt(k, l) /\ Caught(page, log)
    BY <1>11, <1>15, <1>16, PageGrows
  <2>4. Grown(g, page, k, l, made)
    BY <1>13, <1>16, <1>17
  <2> QED
    BY <1>9, <2>1, <2>2, <2>3, <2>4, Typed
<1>19. /\ pages' \in [Pages -> Page']
       /\ \A v \in Pages : PageInv(v, pages[v], edits, stream)'
  <2>1. Len(all) = k /\ Len(log) = l /\ Len(edits) <= Len(all) /\ Len(stream) <= Len(log)
    BY <1>1, <1>5, <1>15, <1>16
  <2>2. q \in PageAt(Len(all), Len(log)) /\ PageInv(u, q, all, log)
    BY <1>18, <2>1
  <2>3. (\A e \in 1 .. Len(edits) : all[e] = edits[e]) /\ \A i \in 1 .. Len(stream) : log[i] = stream[i]
    BY <1>1, <1>5, <1>15
  <2>4. content' = content /\ edits' = all /\ stream' = log /\ Len(all) \in Nat /\ Len(log) \in Nat
    BY <1>10, <1>15, <2>1
  <2> QED
    BY <1>10, <2>1, <2>2, <2>3, <2>4, Stepped
<1>20. ASSUME NEW e \in 1 .. n + m
       PROVE  /\ all[e].erases \subseteq all[e].needs
              /\ all[e].needs \subseteq 1 .. e - 1
              /\ \A d \in all[e].needs : all[d].needs \subseteq all[e].needs
  <2>1. CASE e \in 1 .. n
    <3>1. /\ edits[e].erases \subseteq edits[e].needs
          /\ edits[e].needs \subseteq 1 .. e - 1
          /\ \A d \in edits[e].needs : edits[d].needs \subseteq edits[e].needs
      BY <1>1, <2>1 DEF TInv, TypeOK, Numbers
    <3>2. all[e] = edits[e] /\ \A d \in 1 .. e - 1 : all[d] = edits[d]
      BY <1>5, <2>1
    <3> QED
      BY <3>1, <3>2
  <2>2. CASE e \in n + 1 .. n + m
    <3>1. /\ all[e].needs \subseteq 1 .. n /\ all[e].erases \subseteq all[e].needs
          /\ \A d \in all[e].needs : edits[d].needs \subseteq all[e].needs
      BY <1>1, <1>6, <2>2 DEF Makes, Numbers
    <3>2. 1 .. n \subseteq 1 .. e - 1
      BY <2>2
    <3> QED
      BY <1>5, <3>1, <3>2
  <2> QED
    BY <2>1, <2>2
<1>21. TypeOK'
  <2>1. stream' \in Seq(Entry')
    <3>1. Entry \subseteq Entry'
      <4>1. Numbers \subseteq Numbers'
        BY <1>1, <1>5, <1>10 DEF Numbers
      <4> QED
        BY <1>10, <4>1 DEF Entry
    <3> QED
      BY <1>4, <1>10, <3>1, Widened
  <2>2. lost' \subseteq Numbers' /\ gone' \in 0 .. Len(stream')
    BY <1>1, <1>4, <1>5, <1>10 DEF Numbers
  <2>3. /\ content' \in Contents /\ row' \in {"no", "there", "gone"} /\ op' \in {"none", "insert", "delete"}
        /\ faults' \in 0 .. MaxFaults /\ edits' \in Seq(EditRecord)
    BY <1>4, <1>5, <1>10
  <2>4. (\A e \in Numbers : /\ edits[e].erases \subseteq edits[e].needs
                            /\ edits[e].needs \subseteq 1 .. e - 1
                            /\ \A d \in edits[e].needs : edits[d].needs \subseteq edits[e].needs)'
    BY <1>5, <1>10, <1>20 DEF Numbers
  <2> QED
    BY <1>19, <2>1, <2>2, <2>3, <2>4 DEF TypeOK, EditRecord
<1>22. BlockLives'
  BY <1>10 DEF TInv, BlockLives, Deleted
<1>23. \A e : InStream(e)' <=> InStream(e)
  BY <1>10 DEF InStream, Sent
<1>24. \A e : InStream(e) => e \in 1 .. n
  <2>1. Past(l) \in SUBSET (1 .. Len(edits))
    BY <1>1, PastTyped
  <2> QED
    BY <1>1, <2>1, PastIs DEF InStream
<1>25. pages'[u] = q /\ \A v \in Pages : v # u => pages'[v] = pages[v]
  BY <1>4, <1>10
<1>26. \A e : Waits(q, e) <=> Waits(pages[u], e) \/ e \in n + 1 .. n + m
  <2>1. \A e : Waits(q, e) <=> Waits(g, e)
    BY <1>18 DEF Waits
  <2>2. \A e : Waits(page, e) <=> Waits(pages[u], e)
    BY DEF Waits
  <2> QED
    BY <1>13, <2>1, <2>2
<1>27. ASSUME NEW v \in Pages, NEW e, Waits(pages[v], e)
       PROVE  e \in 1 .. n
  <2>1. pages[v].queue \in Seq(1 .. n) /\ pages[v].out \in Seq(1 .. n)
    BY <1>1, PageTypes, SocketFields
  <2> QED
    BY <1>27, <2>1, Elements DEF Waits, Has
<1>28. Apart'
  <2>1. (\A i, j \in 1 .. Len(stream) :
         stream[i].kind = "crdt" /\ stream[j].kind = "crdt" /\ stream[i].edit = stream[j].edit => i = j)'
    BY <1>10 DEF TInv, Apart
  <2>2. \A e \in lost' : ~InStream(e)'
    BY <1>10, <1>23 DEF TInv, Apart
  <2>3. ASSUME NEW v \in Pages
        PROVE  /\ Once(pages'[v].queue) /\ Once(pages'[v].out)
               /\ \A e : ~(Has(pages'[v].queue, e) /\ Has(pages'[v].out, e))
               /\ \A e : Waits(pages'[v], e) => edits'[e].by[1] = v /\ ~InStream(e)' /\ e \notin lost'
    <3>1. CASE v = u
      <4>1. Once(q.queue) /\ Once(q.out) /\ \A e : ~(Has(q.queue, e) /\ Has(q.out, e))
        BY <1>13, <1>18 DEF Twice
      <4>2. ASSUME NEW e, Waits(q, e)
            PROVE  all[e].by[1] = u /\ ~InStream(e) /\ e \notin lost
        <5>1. CASE Waits(pages[u], e)
          <6>1. edits[e].by[1] = u /\ ~InStream(e) /\ e \notin lost
            BY <5>1 DEF TInv, Apart
          <6> QED
            BY <1>5, <1>27, <5>1, <6>1
        <5>2. CASE e \in n + 1 .. n + m
          <6>1. e \notin 1 .. n
            BY <5>2
          <6> QED
            BY <1>4, <1>6, <1>24, <5>2, <6>1 DEF Makes
        <5> QED
          BY <1>26, <4>2, <5>1, <5>2
      <4> QED
        BY <1>10, <1>23, <1>25, <3>1, <4>1, <4>2
    <3>2. CASE v # u
      <4>1. /\ Once(pages[v].queue) /\ Once(pages[v].out)
            /\ \A e : ~(Has(pages[v].queue, e) /\ Has(pages[v].out, e))
            /\ \A e : Waits(pages[v], e) => edits[e].by[1] = v /\ ~InStream(e) /\ e \notin lost
        BY DEF TInv, Apart
      <4>2. \A e : Waits(pages[v], e) => all[e] = edits[e]
        BY <1>5, <1>27
      <4> QED
        BY <1>10, <1>23, <1>25, <3>2, <4>1, <4>2
    <3> QED
      BY <3>1, <3>2
  <2> QED
    BY <2>1, <2>2, <2>3 DEF Apart, Once, Has, Waits
<1>29. Somewhere'
  <2>1. ASSUME NEW e \in 1 .. n + m
        PROVE  InStream(e)' \/ e \in lost' \/ Waits(pages'[all[e].by[1]], e)
    <3>1. CASE e \in 1 .. n
      <4>1. all[e] = edits[e] /\ e \in Numbers
        BY <1>1, <1>5, <3>1 DEF Numbers
      <4>2. InStream(e) \/ e \in lost \/ Waits(pages[edits[e].by[1]], e)
        BY <4>1 DEF TInv, Somewhere
      <4>3. edits[e].by[1] \in Pages
        BY <4>1, Makers
      <4>4. CASE edits[e].by[1] = u
        BY <1>10, <1>23, <1>25, <1>26, <4>1, <4>2, <4>4
      <4>5. CASE edits[e].by[1] # u
        <5>1. pages'[all[e].by[1]] = pages[edits[e].by[1]]
          BY <1>25, <4>1, <4>3, <4>5
        <5> QED
          BY <1>10, <1>23, <4>2, <5>1
      <4> QED
        BY <4>4, <4>5
    <3>2. CASE e \in n + 1 .. n + m
      <4>1. all[e].by[1] = u
        BY <1>6, <3>2 DEF Makes
      <4>2. Waits(q, e)
        BY <1>26, <3>2
      <4> QED
        BY <1>25, <4>1, <4>2
    <3> QED
      BY <3>1, <3>2
  <2>2. Numbers' = 1 .. n + m
    BY <1>5, <1>10 DEF Numbers
  <2> QED
    BY <1>10, <2>1, <2>2 DEF Somewhere, Waits, Has
<1> QED
  BY <1>19, <1>21, <1>22, <1>28, <1>29 DEF TInv

LEMMA OneMade ==
  ASSUME NEW u, NEW x, Makes(u, x), NEW new, new = <<x>>
  PROVE  Makings(u, new)
<1>1. x \in EditRecord
  BY DEF Makes
<1>2. new \in Seq(EditRecord) /\ Len(new) = 1 /\ new[1] = x
  BY <1>1
<1> QED
  BY <1>2 DEF Makings

LEMMA TwoMade ==
  ASSUME NEW u, NEW x, NEW y, Makes(u, x), Makes(u, y), NEW new, new = Append(<<x>>, y)
  PROVE  Makings(u, new)
<1>1. x \in EditRecord /\ y \in EditRecord
  BY DEF Makes
<1>4. PICK S : S = EditRecord
  OBVIOUS
<1>5. PICK one : one = <<x>>
  OBVIOUS
<1>6. one \in Seq(S) /\ Len(one) = 1 /\ one[1] = x
  BY <1>1, <1>4, <1>5
<1>2. new \in Seq(EditRecord) /\ Len(new) = 2 /\ new[1] = x /\ new[2] = y
  BY <1>1, <1>4, <1>5, <1>6, Appended
<1>3. 1 .. 2 = {1, 2}
  OBVIOUS
<1> QED
  BY <1>2, <1>3 DEF Makings

\* A mounted editor has a Y.Doc, and the page is what the invariant says of it.
LEMMA EditorHas ==
  ASSUME TInv, NEW u \in Pages, NEW p, p = pages[u], Mounted(p)
  PROVE  /\ p \in PageAt(Len(edits), Len(stream)) /\ p.doc # 0
         /\ Buffered(p) /\ Sourced(u, p, edits, stream) /\ Caught(p, stream)
<1>1. p \in PageAt(Len(edits), Len(stream)) /\ PageInv(u, p, edits, stream)
  BY PageTypes
<1> QED
  BY <1>1 DEF PageInv, Buffered, Mounted

\* What typing, a replacement and a deletion make of the page.
LEMMA ReplaceUpdates ==
  ASSUME TInv, NEW u \in Pages, NEW p, p = pages[u],
         NEW what \in SUBSET Text(u, pages[u], edits), Replace(u, what)
  PROVE  \E new : Makings(u, new) /\ Update(u, p, new)
<1>1. PICK near \in Neighbours(u) :
        Update(u, pages[u], Append(IF what = {} THEN <<>> ELSE <<Erase(u, what)>>, Insert(u, near)))
  BY DEF Replace
<1>2. near \in SUBSET Items(u)
  BY <1>1 DEF Neighbours
<1>3. PICK x : x = Erase(u, what) /\ Makes(u, x)
  BY EraseMade
<1>4. PICK y : y = Insert(u, near) /\ Makes(u, y)
  BY <1>2, InsertMade
<1>5. CASE what = {}
  <2>1. PICK new : new = <<y>>
    OBVIOUS
  <2>2. Append(<<>>, y) = new
    BY <2>1
  <2>3. Update(u, p, new)
    BY <1>1, <1>4, <1>5, <2>2
  <2> QED
    BY <1>4, <2>1, <2>3, OneMade
<1>6. CASE what # {}
  <2>1. PICK new : new = Append(<<x>>, y)
    OBVIOUS
  <2>2. Update(u, p, new)
    BY <1>1, <1>3, <1>4, <1>6, <2>1
  <2> QED
    BY <1>3, <1>4, <2>1, <2>2, TwoMade
<1> QED
  BY <1>5, <1>6

LEMMA DeleteUpdates ==
  ASSUME TInv, NEW u \in Pages, NEW p, p = pages[u], Delete(u)
  PROVE  \E new : Makings(u, new) /\ Update(u, p, new)
<1>1. PICK what \in SUBSET Text(u, pages[u], edits) : Update(u, pages[u], <<Erase(u, what)>>)
  BY DEF Delete, Selections
<1>2. PICK x : x = Erase(u, what) /\ Makes(u, x)
  BY EraseMade
<1>3. PICK new : new = <<x>>
  OBVIOUS
<1> QED
  BY <1>1, <1>2, <1>3, OneMade

LEMMA ReplaceStep ==
  ASSUME TInv, NEW u \in Pages, Mounted(pages[u]),
         NEW what \in SUBSET Text(u, pages[u], edits), Replace(u, what)
  PROVE  TInv'
<1>1. PICK p : p = pages[u]
  OBVIOUS
<1>2. PICK new : Makings(u, new) /\ Update(u, p, new)
  BY <1>1, ReplaceUpdates
<1>3. /\ p \in PageAt(Len(edits), Len(stream)) /\ p.doc # 0
      /\ Buffered(p) /\ Sourced(u, p, edits, stream) /\ Caught(p, stream)
  BY <1>1, EditorHas
<1> QED
  BY <1>1, <1>2, <1>3, UpdateStep

LEMMA TypeStep ==
  ASSUME TInv, NEW u \in Pages, Type(u)
  PROVE  TInv'
<1>1. Mounted(pages[u]) /\ \E what \in SUBSET Text(u, pages[u], edits) : Replace(u, what)
  BY DEF Type, Selections
<1> QED
  BY <1>1, ReplaceStep

LEMMA ReconcileStep ==
  ASSUME TInv, NEW u \in Pages, Reconcile(u)
  PROVE  TInv'
<1>1. Mounted(pages[u]) /\ Replace(u, Text(u, pages[u], edits))
  BY DEF Reconcile
<1> QED
  BY <1>1, ReplaceStep

LEMMA DeleteStep ==
  ASSUME TInv, NEW u \in Pages, Delete(u)
  PROVE  TInv'
<1>1. PICK p : p = pages[u]
  OBVIOUS
<1>2. PICK new : Makings(u, new) /\ Update(u, p, new)
  BY <1>1, DeleteUpdates
<1>3. /\ p \in PageAt(Len(edits), Len(stream)) /\ p.doc # 0
      /\ Buffered(p) /\ Sourced(u, p, edits, stream) /\ Caught(p, stream)
  BY <1>1, EditorHas DEF Delete
<1> QED
  BY <1>1, <1>2, <1>3, UpdateStep

LEMMA EndComposingStep ==
  ASSUME TInv, NEW u \in Pages, EndComposing(u)
  PROVE  TInv'
<1>1. PICK p : p = pages[u]
  OBVIOUS
<1>2. PICK page : page = [p EXCEPT !.composing = FALSE]
  OBVIOUS
<1>3. /\ p.composing
      /\ \/ \E near \in Neighbours(u) : Update(u, page, <<Insert(u, near)>>)
         \/ /\ pages' = [pages EXCEPT ![u] = Rendered(u, page, edits)]
            /\ UNCHANGED <<content, row, op, edits, stream, gone, lost, faults>>
  BY <1>1, <1>2 DEF EndComposing
<1>4. PICK n \in Nat, l \in Nat : n = Len(edits) /\ l = Len(stream)
  BY PageTypes
<1>5. p \in PageAt(n, l) /\ PageInv(u, p, edits, stream)
  BY <1>1, <1>4, PageTypes
<1>6. Buffered(p) /\ Sourced(u, p, edits, stream) /\ Caught(p, stream) /\ p.doc # 0
  BY <1>3, <1>5 DEF PageInv, Buffered, Mounted
<1>7. /\ page \in PageAt(n, l) /\ Buffered(page) /\ Sourced(u, page, edits, stream) /\ Caught(page, stream)
      /\ page.queue = p.queue /\ page.out = p.out /\ page.doc # 0
  BY <1>2, <1>5, <1>6, ComposingEnds
<1>8. page \in PageAt(Len(edits), Len(stream)) /\ page.queue = pages[u].queue /\ page.out = pages[u].out
  BY <1>1, <1>4, <1>7
<1>9. CASE \E near \in Neighbours(u) : Update(u, page, <<Insert(u, near)>>)
  <2>1. PICK near \in Neighbours(u) : Update(u, page, <<Insert(u, near)>>)
    BY <1>9
  <2>2. near \in SUBSET Items(u)
    BY <2>1 DEF Neighbours
  <2>3. PICK y : y = Insert(u, near) /\ Makes(u, y)
    BY <2>2, InsertMade
  <2>4. PICK new : new = <<y>>
    OBVIOUS
  <2>5. Makings(u, new) /\ Update(u, page, new)
    BY <2>1, <2>3, <2>4, OneMade
  <2> QED
    BY <1>7, <1>8, <2>5, UpdateStep
<1>10. CASE /\ pages' = [pages EXCEPT ![u] = Rendered(u, page, edits)]
            /\ UNCHANGED <<content, row, op, edits, stream, gone, lost, faults>>
  <2>1. PICK q : q = Rendered(u, page, edits)
    OBVIOUS
  <2>2. /\ q \in PageAt(n, l) /\ PageInv(u, q, edits, stream)
        /\ q.queue = page.queue /\ q.out = page.out
    BY <1>7, <2>1, RenderedInv
  <2>3. q \in PageAt(Len(edits), Len(stream)) /\ q.queue = pages[u].queue /\ q.out = pages[u].out
    BY <1>4, <1>8, <2>2
  <2>4. pages' = [pages EXCEPT ![u] = q] /\ faults' \in 0 .. MaxFaults
    BY <1>10, <2>1 DEF TInv, TypeOK
  <2> QED
    BY <1>10, <2>2, <2>3, <2>4, AloneThere
<1> QED
  BY <1>3, <1>9, <1>10

-----------------------------------------------------------------------------
(* The invariant holds.                                                    *)

LEMMA TextStarts == Init => TInv
<1> SUFFICES ASSUME Init
             PROVE  TInv
  OBVIOUS
<1>1. Len(edits) = 0 /\ Len(stream) = 0 /\ edits \in Seq(EditRecord) /\ stream \in Seq(Entry)
  BY DEF Init
<1>2. Absent \in PageAt(0, 0)
  BY DEF Absent, PageAt, NoCursor
<1>3. \A u \in Pages : pages[u] = Absent
  BY DEF Init
<1>4. TypeOK
  <2>1. pages \in [Pages -> Page]
    BY <1>1, <1>2, PageIs DEF Init
  <2>2. Numbers = {}
    BY <1>1 DEF Numbers
  <2>3. 0 \in 0 .. MaxFaults
    BY TextAssumption
  <2> QED
    BY <1>1, <2>1, <2>2, <2>3 DEF TypeOK, Init
<1>5. BlockLives
  BY <1>1 DEF BlockLives, Deleted, Init
<1>6. /\ Absent.queue = <<>> /\ Absent.out = <<>> /\ Absent.doc = 0 /\ Absent.has = {} /\ Absent.fresh = {}
      /\ Absent.stale = {} /\ Absent.shown = FALSE /\ Absent.composing = FALSE /\ Absent.up = FALSE
      /\ Absent.status = "away" /\ Absent.cursor = NoCursor /\ Absent.at = 0
  BY DEF Absent
<1>7. Apart
  <2>1. \A e : ~Has(Absent.queue, e) /\ ~Has(Absent.out, e)
    BY <1>6 DEF Has
  <2>2. Once(Absent.queue) /\ Once(Absent.out)
    BY <1>6 DEF Once
  <2> QED
    BY <1>1, <1>3, <2>1, <2>2 DEF Apart, Waits, InStream, Sent, Init
<1>8. Somewhere
  BY <1>1 DEF Somewhere, Numbers
<1>9. ASSUME NEW u \in Pages
      PROVE  PageInv(u, pages[u], edits, stream)
  <2>1. Buffered(Absent) /\ Faithful(u, Absent, edits)
    BY <1>6 DEF Buffered, Faithful, Mounted
  <2>2. Sourced(u, Absent, edits, stream)
    BY <1>6 DEF Sourced, Got
  <2>3. Caught(Absent, stream)
    BY <1>6 DEF Caught, Covered, Sent, NoCursor
  <2> QED
    BY <1>3, <2>1, <2>2, <2>3 DEF PageInv
<1> QED
  BY <1>4, <1>5, <1>7, <1>8, <1>9 DEF TInv

LEMMA TextStutters ==
  ASSUME TInv, UNCHANGED vars
  PROVE  TInv'
<1>1. UNCHANGED <<content, row, op, edits, stream, gone, pages, lost, faults>>
  BY DEF vars
<1>2. TypeOK'
  BY <1>1 DEF TInv, TypeOK, Entry, Page, Numbers
<1>3. BlockLives' /\ Apart' /\ Somewhere'
  BY <1>1 DEF TInv, BlockLives, Deleted, Apart, Somewhere, Waits, Has, Once, InStream, Sent, Numbers
<1>4. ASSUME NEW v \in Pages
      PROVE  PageInv(v, pages[v], edits, stream)'
  <2>1. PICK p : p = pages[v]
    OBVIOUS
  <2>2. PICK all : all = edits
    OBVIOUS
  <2>3. PICK log : log = stream
    OBVIOUS
  <2>4. PageInv(v, p, all, log)
    BY <2>1, <2>2, <2>3 DEF TInv
  <2>5. PageInv(v, p, all, log)'
    BY <1>1, <2>4, ContentStays
  <2> QED
    BY <1>1, <2>1, <2>2, <2>3, <2>5
<1> QED
  BY <1>2, <1>3, <1>4 DEF TInv

LEMMA TextSteps == TInv /\ [Next]_vars => TInv'
<1> SUFFICES ASSUME TInv, [Next]_vars
             PROVE  TInv'
  OBVIOUS
<1>1. ASSUME NEW u \in Pages, Editor(u)
      PROVE  TInv'
  BY <1>1, ReconcileStep, TypeStep, DeleteStep, StartComposingStep, EndComposingStep,
     InsertBlockStep, DeleteBlockStep DEF Editor
<1>2. ASSUME NEW u \in Pages, Visit(u)
      PROVE  TInv'
  BY <1>2, VisitStep
<1>3. ASSUME NEW u \in Pages, Loading(u)
      PROVE  TInv'
  BY <1>3, ReadRowsStep, LoadedStep DEF Loading
<1>4. ASSUME NEW u \in Pages, Socket(u)
      PROVE  TInv'
  BY <1>4, ConnectStep, ReloadRequiredStep, PublishStep, ReceiveStep DEF Socket
<1>5. ASSUME NEW u \in Pages, Failure(u)
      PROVE  TInv'
  BY <1>5, DropStep, XaddFailsStep, LoadFailsStep, ExpireStep DEF Failure
<1>6. CASE CommitOp
  BY <1>6, CommitOpStep
<1>7. CASE Trim
  BY <1>7, TrimStep
<1>8. CASE UNCHANGED vars
  BY <1>8, TextStutters
<1> QED
  BY <1>1, <1>2, <1>3, <1>4, <1>5, <1>6, <1>7, <1>8 DEF Next

\* The invariant of a text.
THEOREM TextHolds == Spec => []TInv
<1>1. Init => TInv
  BY TextStarts
<1>2. TInv /\ [Next]_vars => TInv'
  BY TextSteps
<1> QED
  BY <1>1, <1>2, PTL DEF Spec

\* Every page has what its type says, whatever comes and goes.
THEOREM TypeCorrect == Spec => []TypeOK
<1>1. TInv => TypeOK
  BY DEF TInv
<1> QED
  BY <1>1, TextHolds, PTL

-----------------------------------------------------------------------------
(* What has been sent has come.                                            *)

LEMMA SlipsNot ==
  ASSUME TInv
  PROVE  NothingSlips
<1> SUFFICES ASSUME NEW u \in Pages, NEW p, p = pages[u], p.up, p.at = Len(stream), p.doc # 0,
                    NEW e \in Published
             PROVE  e \in p.has \cup p.missed
  BY DEF NothingSlips
<1>1. PageInv(u, p, edits, stream)
  BY PageTypes
<1>2. Sent(stream, Len(stream), e)
  BY PastIs DEF Published
<1>3. e \in Got(p) \cup p.missed
  BY <1>1, <1>2 DEF PageInv, Caught, Covered
<1>4. p.fresh = {} /\ p.stale = {}
  BY <1>1 DEF PageInv, Buffered
<1> QED
  BY <1>3, <1>4 DEF Got

\* A page that has been sent the whole stream has every update of it that it did
\* not let pass: no order of loads, frames, drops and repeated inserts has the
\* registry, its buffer or the cursor (yjs.ts, ws.ts) lose another one.
THEOREM NothingSlipsBy == Spec => []NothingSlips
<1>1. TInv => NothingSlips
  BY SlipsNot
<1> QED
  BY <1>1, TextHolds, PTL

LEMMA Alike ==
  ASSUME TInv, content = "empty", NEW u \in Pages, Quiet(u)
  PROVE  /\ pages[u].has = Published
         /\ pages[u].dom = Text(u, pages[u], edits)
<1>1. PICK p : p = pages[u]
  OBVIOUS
<1>2. PageInv(u, p, edits, stream)
  BY <1>1, PageTypes
<1>3. /\ Mounted(p) /\ ~p.composing /\ ~p.remade /\ p.up /\ p.at = Len(stream)
      /\ p.doc # 0 /\ p.missed = {}
      /\ \A e \in p.has : edits[e].by[1] = u => e \in Published
  BY <1>1 DEF Quiet
<1>4. Published \subseteq p.has
  BY <1>1, <1>3, SlipsNot DEF NothingSlips
<1>5. ASSUME NEW e \in p.has
      PROVE  e \in Published
  <2>1. edits[e].by[1] = u \/ Sent(stream, Len(stream), e)
    BY <1>2 DEF PageInv, Sourced, Got
  <2> QED
    BY <1>3, <2>1, PastIs DEF Published
<1>6. p.dom = Text(u, p, edits)
  BY <1>2, <1>3 DEF PageInv, Faithful
<1> QED
  BY <1>1, <1>4, <1>5, <1>6

LEMMA TextsAlike ==
  ASSUME TInv
  PROVE  TextsAgree
<1> SUFFICES ASSUME content = "empty", NEW u \in Pages, Quiet(u), NEW v \in Pages, Quiet(v)
             PROVE  pages[u].dom = pages[v].dom
  BY DEF TextsAgree, QuietPagesAgree
<1>1. \A a, b : Integrated(edits, a, Published) = Integrated(edits, b, Published)
  BY DEF Integrated
<1>2. \A a, b : Visible(edits, a, Published) = Visible(edits, b, Published)
  BY <1>1 DEF Visible
<1>3. pages[u].has = Published /\ pages[u].dom = Text(u, pages[u], edits)
  BY Alike
<1>4. pages[v].has = Published /\ pages[v].dom = Text(v, pages[v], edits)
  BY Alike
<1> QED
  BY <1>2, <1>3, <1>4 DEF Text

\* Pages that are quiet show one text, whoever typed what at the same time ("Concurrent
\* text edits converge (CRDT semantics)", README.md:102), if the block had no content.
THEOREM TextsConverge == Spec => []TextsAgree
<1>1. TInv => TextsAgree
  BY TextsAlike
<1> QED
  BY <1>1, TextHolds, PTL

-----------------------------------------------------------------------------
(* Every update is somewhere, once.                                        *)

LEMMA OneOrNone ==
  ASSUME NEW S, \A k, m \in S : k = m
  PROVE  Cardinality(S) = IF S = {} THEN 0 ELSE 1
<1>1. CASE S = {}
  BY <1>1, FS_EmptySet
<1>2. CASE S # {}
  <2>1. PICK k : k \in S
    BY <1>2
  <2>2. S = {k}
    BY <2>1
  <2> QED
    BY <1>2, <2>2, FS_Singleton
<1> QED
  BY <1>1, <1>2

LEMMA WaitingIs ==
  ASSUME NEW q, Once(q), NEW e
  PROVE  Waiting(e, q) = IF Has(q, e) THEN 1 ELSE 0
<1> DEFINE S == {k \in 1 .. Len(q) : q[k] = e}
<1>1. \A k, m \in S : k = m
  BY DEF Once
<1>2. S = {} <=> ~Has(q, e)
  BY DEF Has
<1> HIDE DEF S
<1>3. Cardinality(S) = IF S = {} THEN 0 ELSE 1
  BY <1>1, OneOrNone
<1> QED
  BY <1>2, <1>3 DEF Waiting, S

LEMMA StreamedIs ==
  ASSUME TInv, NEW e
  PROVE  Streamed(e) = IF InStream(e) THEN 1 ELSE 0
<1> DEFINE S == {k \in 1 .. Len(stream) : stream[k].kind = "crdt" /\ stream[k].edit = e}
<1>1. \A k, m \in S : k = m
  BY DEF TInv, Apart
<1>2. S = {} <=> ~InStream(e)
  BY DEF InStream, Sent
<1> HIDE DEF S
<1>3. Cardinality(S) = IF S = {} THEN 0 ELSE 1
  BY <1>1, OneOrNone
<1> QED
  BY <1>2, <1>3 DEF Streamed, S

LEMMA OnceEach ==
  ASSUME TInv
  PROVE  EachEditOnce
<1> SUFFICES ASSUME NEW e \in Numbers, NEW p, p = pages[edits[e].by[1]]
             PROVE  Streamed(e) + Waiting(e, p.queue) + Waiting(e, p.out) + (IF e \in lost THEN 1 ELSE 0) = 1
  BY DEF EachEditOnce
<1>1. edits[e].by[1] \in Pages
  BY Makers
<1>2. /\ Once(p.queue) /\ Once(p.out) /\ ~(Has(p.queue, e) /\ Has(p.out, e))
      /\ Waits(p, e) => ~InStream(e) /\ e \notin lost
      /\ e \in lost => ~InStream(e)
  BY <1>1 DEF TInv, Apart
<1>3. InStream(e) \/ e \in lost \/ Waits(p, e)
  BY DEF TInv, Somewhere
<1>4. /\ Streamed(e) = IF InStream(e) THEN 1 ELSE 0
      /\ Waiting(e, p.queue) = IF Has(p.queue, e) THEN 1 ELSE 0
      /\ Waiting(e, p.out) = IF Has(p.out, e) THEN 1 ELSE 0
  BY <1>2, StreamedIs, WaitingIs
<1> QED
  BY <1>2, <1>3, <1>4 DEF Waits

\* "crdt deltas MUST NOT be dropped silently or we lose keystrokes" (ws.ts:66): every
\* update is in the stream, or waits at the page that made it, or was lost with a
\* connection or a refused XADD, and only one of these, once.
THEOREM EditsOnce == Spec => []EachEditOnce
<1>1. TInv => EachEditOnce
  BY OnceEach
<1> QED
  BY <1>1, TextHolds, PTL

-----------------------------------------------------------------------------
(* What is on the screen.                                                  *)

\* What a page shows it shows still, or its Y.Doc has been given more and the editor
\* shows the text of it, or it shows no editor.
Stays(u, p, q, all) ==
  \/ q.dom = p.dom
  \/ ~Mounted(q)
  \/ q.doc = p.doc /\ p.has \subseteq q.has /\ q.dom = Text(u, q, all)

LEMMA StaysErased ==
  ASSUME NEW n \in Nat, NEW m \in Nat, NEW l \in Nat, NEW p \in PageAt(n, l), NEW u,
         NEW all, NEW more, n <= m, Len(more) = m, \A e \in 1 .. n : more[e] = all[e],
         Faithful(u, p, all), Mounted(p), ~p.remade,
         NEW q, q.has \subseteq 1 .. m, Mounted(q), Stays(u, p, q, more)
  PROVE  Erased(more, p.dom \ q.dom)
<1> SUFFICES ASSUME NEW e \in p.dom, e \notin q.dom
             PROVE  \E d \in 1 .. m : e \in more[d].erases
  BY DEF Erased
<1>1. q.doc = p.doc /\ p.has \subseteq q.has /\ q.dom = Text(u, q, more)
  BY DEF Stays
<1>2. PICK doc : doc = <<u, p.doc>>
  OBVIOUS
<1>3. PICK has : has = p.has
  OBVIOUS
<1>4. PICK now : now = q.has
  OBVIOUS
<1>5. has \subseteq 1 .. n
  BY <1>3 DEF PageAt
<1>6. e \in Integrated(all, doc, has) /\ all[e].erases = {}
  BY <1>2, <1>3 DEF Faithful, Shown
<1>7. Integrated(more, doc, has) = Integrated(all, doc, has)
  <2>1. \A d \in has : more[d] = all[d]
    BY <1>5
  <2> QED
    BY <2>1, TextExtended
<1>8. e \in Integrated(more, doc, now)
  BY <1>1, <1>3, <1>4, <1>6, <1>7, TextGrows
<1>9. more[e].erases = {}
  <2>1. e \in has
    BY <1>6 DEF Integrated
  <2> QED
    BY <1>5, <1>6, <2>1
<1>10. e \in Shown(u, q, more)
  BY <1>1, <1>2, <1>4, <1>8, <1>9 DEF Shown
<1>11. \E d \in q.has : e \in more[d].erases
  BY <1>1, <1>10, VisibleIsShown
<1> QED
  BY <1>11

LEMMA RenderedStays ==
  ASSUME NEW n \in Nat, NEW l \in Nat, NEW g \in PageAt(n, l), NEW u, NEW all, NEW p,
         g.doc = p.doc, p.has \subseteq g.has, NEW q, q = Rendered(u, g, all)
  PROVE  Stays(u, p, q, all)
<1> DEFINE dom == IF Mounted(g) THEN Text(u, g, all) ELSE {}
<1>1. q = [g EXCEPT !.dom = dom]
  BY DEF Rendered
<1> HIDE DEF dom
<1>2. q.status = g.status /\ q.shown = g.shown /\ q.doc = g.doc /\ q.has = g.has /\ q.dom = dom
  BY <1>1 DEF PageAt
<1>3. (Mounted(q) <=> Mounted(g)) /\ Text(u, q, all) = Text(u, g, all)
  BY <1>2 DEF Mounted, Text
<1>4. Mounted(g) => q.dom = Text(u, q, all)
  BY <1>2, <1>3 DEF dom
<1> QED
  BY <1>2, <1>3, <1>4 DEF Stays

\* What changes nothing on the screen.
LEMMA ScreenKept ==
  ASSUME NEW n \in Nat, NEW l \in Nat, NEW p \in PageAt(n, l)
  PROVE  /\ [p EXCEPT !.composing = TRUE].dom = p.dom
         /\ \A gets : [p EXCEPT !.gets = gets].dom = p.dom
         /\ \A out : Sending(p, out).dom = p.dom /\ Offline(p, out).dom = p.dom
         /\ Aged(p).dom = p.dom
         /\ \A e : Passed(p, e).dom = p.dom
<1>1. [p EXCEPT !.composing = TRUE].dom = p.dom
  BY DEF PageAt
<1>2. ASSUME NEW gets
      PROVE  [p EXCEPT !.gets = gets].dom = p.dom
  BY DEF PageAt
<1>3. ASSUME NEW out
      PROVE  Sending(p, out).dom = p.dom /\ Offline(p, out).dom = p.dom
  BY DEF PageAt, Sending, Offline
<1>4. Aged(p).dom = p.dom
  BY DEF PageAt, Aged
<1>5. ASSUME NEW e
      PROVE  Passed(p, e).dom = p.dom
  BY DEF PageAt, Passed
<1> QED
  BY <1>1, <1>2, <1>3, <1>4, <1>5

LEMMA ScreenJoined ==
  ASSUME NEW n \in Nat, NEW l \in Nat, NEW p \in PageAt(n, l), NEW k, NEW at, NEW passed
  PROVE  Joined(Flushed(p, k), at, passed).dom = p.dom
  BY DEF PageAt, Flushed, Joined

\* What takes the editor away.
LEMMA ScreenLeft ==
  ASSUME NEW n \in Nat, NEW l \in Nat, NEW p \in PageAt(n, l)
  PROVE  /\ ~Mounted(BlockOff(p))
         /\ \A gets : ~Mounted(Failing(p, gets))
         /\ ~Mounted(Removed(Advanced(p)))
<1>1. BlockOff(p).shown = FALSE
  BY DEF PageAt, BlockOff
<1>2. ASSUME NEW gets
      PROVE  Failing(p, gets).status = "error"
  BY DEF PageAt, Failing
<1>3. Removed(Advanced(p)).shown = FALSE
  BY DEF PageAt, Removed, Advanced, Destroyed, BlockOff
<1> QED
  BY <1>1, <1>2, <1>3 DEF Mounted

\* What a step of a page leaves of its screen, with the updates there are then.
Screened(u, q, all) ==
  /\ Stays(u, pages[u], q, all)
  /\ Len(all) \in Nat /\ Len(edits) <= Len(all) /\ \A e \in 1 .. Len(edits) : all[e] = edits[e]

LEMMA ScreenedNow ==
  ASSUME TInv, NEW u \in Pages, NEW q, Stays(u, pages[u], q, edits),
         edits' = edits, pages' = [pages EXCEPT ![u] = q]
  PROVE  \E r, all : Screened(u, r, all) /\ edits' = all /\ pages' = [pages EXCEPT ![u] = r]
<1>1. PICK all : all = edits
  OBVIOUS
<1>2. Len(all) \in Nat
  BY <1>1, PageTypes
<1>3. Screened(u, q, all)
  BY <1>1, <1>2 DEF Screened
<1> QED
  BY <1>1, <1>3

LEMMA UpdateScreened ==
  ASSUME TInv, NEW u \in Pages, NEW page, NEW new, Makings(u, new), Update(u, page, new),
         page \in PageAt(Len(edits), Len(stream)), page.doc = pages[u].doc, page.has = pages[u].has,
         page.queue = pages[u].queue, page.out = pages[u].out
  PROVE  \E r, all : Screened(u, r, all) /\ edits' = all /\ pages' = [pages EXCEPT ![u] = r]
<1>1. PICK n \in Nat, l \in Nat : n = Len(edits) /\ l = Len(stream)
  BY PageTypes
<1>2. PICK m \in Nat : m = Len(new)
  BY Elements DEF Makings
<1>3. PICK all : all = edits \o new
  OBVIOUS
<1>4. Len(all) = n + m /\ \A e \in 1 .. n : all[e] = edits[e]
  <2>1. PICK S : S = EditRecord
    OBVIOUS
  <2>2. edits \in Seq(S) /\ new \in Seq(S)
    BY <2>1 DEF Makings, TInv, TypeOK
  <2>3. /\ Len(edits \o new) = Len(edits) + Len(new)
        /\ \A k \in 1 .. Len(edits) : (edits \o new)[k] = edits[k]
    BY <2>2, Joint
  <2> QED
    BY <1>1, <1>2, <1>3, <2>3
<1>5. PICK c : c = Counted(n, m)
  OBVIOUS
<1>6. PICK g : g = GivenTo(page, c)
  OBVIOUS
<1>7. PICK q : q = Rendered(u, g, all)
  OBVIOUS
<1>8. edits' = all /\ pages' = [pages EXCEPT ![u] = q]
  BY <1>1, <1>2, <1>3, <1>5, <1>6, <1>7 DEF Update, Counted, GivenTo
<1>9. page \in PageAt(n, l)
  BY <1>1
<1>10. Once(page.queue) /\ Once(page.out) /\ ~Twice(page.queue, page.out)
  BY DEF TInv, Apart, Twice
<1>11. Grown(g, page, n + m, l, n + 1 .. n + m)
  BY <1>5, <1>6, <1>9, <1>10, GivenIs
<1>12. PICK k \in Nat : k = n + m
  OBVIOUS
<1>13. g \in PageAt(k, l) /\ g.doc = page.doc /\ page.has \subseteq g.has
  BY <1>11, <1>12 DEF Grown
<1>14. PICK p : p = pages[u]
  OBVIOUS
<1>15. Stays(u, p, q, all)
  BY <1>7, <1>13, <1>14, RenderedStays
<1>16. Screened(u, q, all)
  BY <1>1, <1>4, <1>14, <1>15 DEF Screened
<1> QED
  BY <1>8, <1>16

LEMMA EditScreened ==
  ASSUME TInv, NEW u \in Pages, Mounted(pages[u]),
         Reconcile(u) \/ Type(u) \/ Delete(u)
  PROVE  \E r, all : Screened(u, r, all) /\ edits' = all /\ pages' = [pages EXCEPT ![u] = r]
<1>1. PICK p : p = pages[u]
  OBVIOUS
<1>2. p \in PageAt(Len(edits), Len(stream))
  BY <1>1, PageTypes
<1>3. PICK new : Makings(u, new) /\ Update(u, p, new)
  <2>1. ASSUME NEW what \in SUBSET Text(u, pages[u], edits), Replace(u, what)
        PROVE  \E new : Makings(u, new) /\ Update(u, p, new)
    BY <1>1, <2>1, ReplaceUpdates
  <2>2. CASE Reconcile(u)
    BY <2>1, <2>2 DEF Reconcile
  <2>3. CASE Type(u)
    BY <2>1, <2>3 DEF Type, Selections
  <2>4. CASE Delete(u)
    BY <1>1, <2>4, DeleteUpdates
  <2> QED
    BY <2>2, <2>3, <2>4
<1> QED
  BY <1>1, <1>2, <1>3, UpdateScreened

\* A step of a mounted page that makes no update.
StaysOn(u) == \E r : Stays(u, pages[u], r, edits) /\ edits' = edits /\ pages' = [pages EXCEPT ![u] = r]

LEMMA ComposingStaysOn ==
  ASSUME TInv, NEW u \in Pages, StartComposing(u)
  PROVE  StaysOn(u)
<1>1. PICK p : p = pages[u]
  OBVIOUS
<1>2. PICK q : q = [p EXCEPT !.composing = TRUE]
  OBVIOUS
<1>3. p \in PageAt(Len(edits), Len(stream)) /\ Len(edits) \in Nat /\ Len(stream) \in Nat
  BY <1>1, PageTypes
<1>4. pages' = [pages EXCEPT ![u] = q] /\ edits' = edits
  BY <1>1, <1>2 DEF StartComposing
<1>5. q.dom = p.dom
  BY <1>2, <1>3, ScreenKept
<1> QED
  BY <1>1, <1>4, <1>5 DEF Stays, StaysOn

LEMMA ComposedScreened ==
  ASSUME TInv, NEW u \in Pages, Mounted(pages[u]), EndComposing(u)
  PROVE  \E r, all : Screened(u, r, all) /\ edits' = all /\ pages' = [pages EXCEPT ![u] = r]
<1>1. PICK p : p = pages[u]
  OBVIOUS
<1>2. PICK page : page = [p EXCEPT !.composing = FALSE]
  OBVIOUS
<1>3. \/ \E near \in Neighbours(u) : Update(u, page, <<Insert(u, near)>>)
      \/ pages' = [pages EXCEPT ![u] = Rendered(u, page, edits)] /\ edits' = edits
  BY <1>1, <1>2 DEF EndComposing
<1>4. PICK n \in Nat, l \in Nat : n = Len(edits) /\ l = Len(stream)
  BY PageTypes
<1>5. p \in PageAt(n, l)
  BY <1>1, <1>4, PageTypes
<1>6. /\ page \in PageAt(n, l) /\ page.doc = p.doc /\ page.has = p.has
      /\ page.queue = p.queue /\ page.out = p.out
  BY <1>2, <1>5 DEF PageAt
<1>7. CASE \E near \in Neighbours(u) : Update(u, page, <<Insert(u, near)>>)
  <2>1. PICK near \in Neighbours(u) : Update(u, page, <<Insert(u, near)>>)
    BY <1>7
  <2>2. near \in SUBSET Items(u)
    BY <2>1 DEF Neighbours
  <2>3. PICK y : y = Insert(u, near) /\ Makes(u, y)
    BY <2>2, InsertMade
  <2>4. PICK new : new = <<y>>
    OBVIOUS
  <2>5. Makings(u, new) /\ Update(u, page, new)
    BY <2>1, <2>3, <2>4, OneMade
  <2>6. /\ page \in PageAt(Len(edits), Len(stream)) /\ page.doc = pages[u].doc
        /\ page.has = pages[u].has /\ page.queue = pages[u].queue /\ page.out = pages[u].out
    BY <1>1, <1>4, <1>6
  <2> QED
    BY <2>5, <2>6, UpdateScreened
<1>8. CASE pages' = [pages EXCEPT ![u] = Rendered(u, page, edits)] /\ edits' = edits
  <2>1. PICK q : q = Rendered(u, page, edits)
    OBVIOUS
  <2>2. Stays(u, p, q, edits)
    BY <1>6, <2>1, RenderedStays
  <2> QED
    BY <1>1, <1>8, <2>1, <2>2, ScreenedNow
<1> QED
  BY <1>3, <1>7, <1>8

\* The block of a mounted editor has its Y.Doc.
LEMMA InsertStaysOn ==
  ASSUME TInv, NEW u \in Pages, Mounted(pages[u]), InsertBlock(u)
  PROVE  StaysOn(u)
<1>1. PICK p : p = pages[u]
  OBVIOUS
<1>2. PICK n \in Nat, l \in Nat : n = Len(edits) /\ l = Len(stream)
  BY PageTypes
<1>3. p \in PageAt(n, l) /\ p.doc # 0
  BY <1>1, <1>2, EditorHas
<1>4. PICK g : g = [p EXCEPT !.shown = TRUE]
  OBVIOUS
<1>5. g \in PageAt(n, l) /\ g.doc = p.doc /\ g.has = p.has
  BY <1>3, <1>4 DEF PageAt
<1>6. Ensure(g) = g
  BY <1>3, <1>5 DEF Ensure
<1>7. PICK q : q = Rendered(u, g, edits)
  OBVIOUS
<1>8. pages' = [pages EXCEPT ![u] = q] /\ edits' = edits
  BY <1>1, <1>4, <1>6, <1>7 DEF InsertBlock
<1>9. Stays(u, p, q, edits)
  BY <1>5, <1>7, RenderedStays
<1> QED
  BY <1>1, <1>8, <1>9 DEF StaysOn

LEMMA DeleteStaysOn ==
  ASSUME TInv, NEW u \in Pages, DeleteBlock(u)
  PROVE  StaysOn(u)
<1>1. PICK p : p = pages[u]
  OBVIOUS
<1>2. PICK q : q = BlockOff(p)
  OBVIOUS
<1>3. p \in PageAt(Len(edits), Len(stream)) /\ Len(edits) \in Nat /\ Len(stream) \in Nat
  BY <1>1, PageTypes
<1>4. pages' = [pages EXCEPT ![u] = q] /\ edits' = edits
  BY <1>1, <1>2 DEF DeleteBlock, BlockOff
<1>5. ~Mounted(q)
  BY <1>2, <1>3, ScreenLeft
<1> QED
  BY <1>1, <1>4, <1>5 DEF Stays, StaysOn

LEMMA ReadStaysOn ==
  ASSUME TInv, NEW u \in Pages, ReadRows(u)
  PROVE  StaysOn(u)
<1>1. PICK p : p = pages[u]
  OBVIOUS
<1>2. PICK k \in DOMAIN p.gets : pages' = [pages EXCEPT ![u].gets[k] = row] /\ edits' = edits
  BY <1>1 DEF ReadRows
<1>3. PICK gets : gets = [p.gets EXCEPT ![k] = row]
  OBVIOUS
<1>4. PICK q : q = [p EXCEPT !.gets = gets]
  OBVIOUS
<1>5. pages' = [pages EXCEPT ![u] = q]
  BY <1>1, <1>2, <1>3, <1>4
<1>6. p \in PageAt(Len(edits), Len(stream)) /\ Len(edits) \in Nat /\ Len(stream) \in Nat
  BY <1>1, PageTypes
<1>7. q.dom = p.dom
  BY <1>4, <1>6, ScreenKept
<1> QED
  BY <1>1, <1>2, <1>5, <1>7 DEF Stays, StaysOn

\* An editor that is mounted for another answer shows what it did.
LEMMA LoadedStaysOn ==
  ASSUME TInv, NEW u \in Pages, Mounted(pages[u]), Loaded(u)
  PROVE  StaysOn(u)
<1>1. PICK p : p = pages[u]
  OBVIOUS
<1>2. /\ Len(edits) \in Nat /\ Len(stream) \in Nat
      /\ p \in PageAt(Len(edits), Len(stream)) /\ PageInv(u, p, edits, stream)
  BY <1>1, PageTypes
<1>3. PICK k \in DOMAIN p.gets :
        LET there == p.gets[k] = "there"
            c == Cleared(p, RemoveAt(p.gets, k), there, Past(p.at))
            loaded == IF there THEN Ensure(c) ELSE c
        IN  pages' = [pages EXCEPT ![u] = IF Mounted(p) /\ there THEN loaded ELSE Rendered(u, loaded, edits)]
  BY <1>1, AnswerTaken
<1>4. PICK there \in BOOLEAN : there = (p.gets[k] = "there")
  OBVIOUS
<1>5. PICK gets : gets = RemoveAt(p.gets, k)
  OBVIOUS
<1>6. PICK passed : passed = Past(p.at)
  OBVIOUS
<1>7. PICK c : c = Cleared(p, gets, there, passed)
  OBVIOUS
<1>8. PICK loaded : loaded = IF there THEN Ensure(c) ELSE c
  OBVIOUS
<1>9. PICK q : q = IF Mounted(p) /\ there THEN loaded ELSE Rendered(u, loaded, edits)
  OBVIOUS
<1>10. pages' = [pages EXCEPT ![u] = q] /\ edits' = edits
  <2>1. pages' = [pages EXCEPT ![u] = q]
    BY <1>3, <1>4, <1>5, <1>6, <1>7, <1>8, <1>9
  <2> QED
    BY <2>1 DEF Loaded
<1>11. gets \in Seq({"sent", "no", "there", "gone"})
  <2>1. p.gets \in Seq({"sent", "no", "there", "gone"})
    BY <1>2, SocketFields
  <2>2. k \in 1 .. Len(p.gets)
    BY <1>3, <2>1
  <2> QED
    BY <1>5, <2>1, <2>2, Without
<1>12. passed \in SUBSET (1 .. Len(edits))
  <2>1. p.at \in Int /\ p.at <= Len(stream)
    BY <1>2, SocketFields
  <2> QED
    BY <1>6, <2>1, PastTyped
<1>13. PICK n \in Nat, l \in Nat : n = Len(edits) /\ l = Len(stream)
  BY <1>2
<1>14. /\ c \in PageAt(n, l) /\ c.doc = 0 /\ c.has = {} /\ c.fresh = {} /\ c.stale = {}
       /\ c.shown = there /\ c.dom = p.dom
  BY <1>2, <1>7, <1>11, <1>12, <1>13, ClearedIs
<1>15. CASE there
  <2>1. q = Ensure(c)
    BY <1>1, <1>8, <1>9, <1>15
  <2>2. q.dom = c.dom
    BY <1>14, <2>1, EnsureIs
  <2>3. Stays(u, p, q, edits)
    BY <1>14, <2>2 DEF Stays
  <2> QED
    BY <1>1, <1>10, <2>3 DEF StaysOn
<1>16. CASE ~there
  <2>1. q = Rendered(u, c, edits)
    BY <1>8, <1>9, <1>16
  <2>2. PICK dom : q = [c EXCEPT !.dom = dom]
    BY <1>14, <2>1, RenderedIs
  <2>3. ~Mounted(q)
    BY <1>14, <1>16, <2>2, Redrawn DEF Mounted
  <2>4. Stays(u, p, q, edits)
    BY <2>3 DEF Stays
  <2> QED
    BY <1>1, <1>10, <2>4 DEF StaysOn
<1> QED
  BY <1>15, <1>16

LEMMA FailsStaysOn ==
  ASSUME TInv, NEW u \in Pages, LoadFails(u)
  PROVE  StaysOn(u)
<1>1. PICK p : p = pages[u]
  OBVIOUS
<1>2. PICK gets : pages' = [pages EXCEPT ![u] = Failing(p, gets)]
  <2>1. PICK k \in DOMAIN p.gets :
          pages' = [pages EXCEPT ![u] = Failing(pages[u], RemoveAt(pages[u].gets, k))]
    BY <1>1, ZenonT(60) DEF LoadFails, Failing
  <2> QED
    BY <1>1, <2>1
<1>3. PICK q : q = Failing(p, gets)
  OBVIOUS
<1>4. p \in PageAt(Len(edits), Len(stream)) /\ Len(edits) \in Nat /\ Len(stream) \in Nat
  BY <1>1, PageTypes
<1>5. ~Mounted(q)
  BY <1>3, <1>4, ScreenLeft
<1>6. Stays(u, p, q, edits) /\ edits' = edits
  BY <1>5 DEF Stays, LoadFails
<1> QED
  BY <1>1, <1>2, <1>3, <1>6 DEF StaysOn

LEMMA ConnectStaysOn ==
  ASSUME TInv, NEW u \in Pages, Connect(u)
  PROVE  StaysOn(u)
<1>1. PICK p : p = pages[u]
  OBVIOUS
<1>2. PICK at, passed, k : pages' = [pages EXCEPT ![u] = Joined(Flushed(p, k), at, passed)]
  <2>1. PICK at : at = Start(p)
    OBVIOUS
  <2>2. PICK passed : passed = IF p.cursor \in {NoCursor, 0} THEN Past(at) \ p.has ELSE {}
    OBVIOUS
  <2>3. PICK k \in 0 .. Len(p.queue) :
          pages' = [pages EXCEPT ![u] = Joined(Flushed(p, k), at, passed)]
    BY <1>1, <2>1, <2>2 DEF Connect
  <2> QED
    BY <2>3
<1>3. PICK q : q = Joined(Flushed(p, k), at, passed)
  OBVIOUS
<1>4. p \in PageAt(Len(edits), Len(stream)) /\ Len(edits) \in Nat /\ Len(stream) \in Nat
  BY <1>1, PageTypes
<1>5. q.dom = p.dom
  BY <1>3, <1>4, ScreenJoined
<1>6. edits' = edits
  BY DEF Connect
<1> QED
  BY <1>1, <1>2, <1>3, <1>5, <1>6 DEF Stays, StaysOn

LEMMA ReloadStaysOn ==
  ASSUME TInv, NEW u \in Pages, ReloadRequired(u)
  PROVE  StaysOn(u)
<1>1. PICK p : p = pages[u]
  OBVIOUS
<1>2. PICK gets : gets = Append(p.gets, "sent")
  OBVIOUS
<1>3. PICK queue : queue = <<>>
  OBVIOUS
<1>4. PICK p1 : p1 = Wiped(p)
  OBVIOUS
<1>5. PICK p2 : p2 = Again(p1, gets)
  OBVIOUS
<1>6. PICK q : q = Anew(p2, queue)
  OBVIOUS
<1>7. pages' = [pages EXCEPT ![u] = q]
  <2>1. q = Restarted(p)
    BY <1>2, <1>3, <1>4, <1>5, <1>6 DEF Restarted
  <2> QED
    BY <1>1, <2>1, StartsAgain
<1>8. PICK n \in Nat, l \in Nat : n = Len(edits) /\ l = Len(stream)
  BY PageTypes
<1>9. p \in PageAt(n, l)
  BY <1>1, <1>8, PageTypes
<1>10. p1 \in PageAt(n, l) /\ p1.shown = FALSE
  BY <1>4, <1>9 DEF PageAt, Destroyed, Wiped
<1>11. q.shown = FALSE
  BY <1>5, <1>6, <1>10 DEF PageAt, Again, Anew
<1>12. Stays(u, p, q, edits)
  BY <1>11 DEF Stays, Mounted
<1>13. edits' = edits
  BY DEF ReloadRequired
<1> QED
  BY <1>1, <1>7, <1>12, <1>13 DEF StaysOn

\* The frames of a page leave it, its connection ends, its buffer gets older.
LEMMA SocketStaysOn ==
  ASSUME TInv, NEW u \in Pages, Publish(u) \/ XaddFails(u) \/ Drop(u) \/ Expire(u)
  PROVE  StaysOn(u)
<1>1. PICK p : p = pages[u]
  OBVIOUS
<1>2. p \in PageAt(Len(edits), Len(stream)) /\ Len(edits) \in Nat /\ Len(stream) \in Nat
  BY <1>1, PageTypes
<1>3. edits' = edits
  BY DEF Publish, XaddFails, Drop, Expire
<1>4. PICK q : pages' = [pages EXCEPT ![u] = q] /\ q.dom = p.dom
  <2>1. CASE Publish(u) \/ XaddFails(u)
    <3>1. PICK out : out = Tail(p.out)
      OBVIOUS
    <3>2. pages' = [pages EXCEPT ![u] = Sending(p, out)]
      BY <1>1, <2>1, <3>1 DEF Publish, XaddFails, Sending
    <3>3. Sending(p, out).dom = p.dom
      BY <1>2, ScreenKept
    <3> QED
      BY <3>2, <3>3
  <2>2. CASE Drop(u)
    <3>1. PICK out : out = <<>>
      OBVIOUS
    <3>2. pages' = [pages EXCEPT ![u] = Offline(p, out)]
      BY <1>1, <2>2, <3>1, GoesOffline
    <3>3. Offline(p, out).dom = p.dom
      BY <1>2, ScreenKept
    <3> QED
      BY <3>2, <3>3
  <2>3. CASE Expire(u)
    <3>1. pages' = [pages EXCEPT ![u] = Aged(p)]
      BY <1>1, <2>3, AgesTo
    <3>2. Aged(p).dom = p.dom
      BY <1>2, ScreenKept
    <3> QED
      BY <3>1, <3>2
  <2> QED
    BY <2>1, <2>2, <2>3
<1> QED
  BY <1>1, <1>3, <1>4 DEF Stays, StaysOn

\* The Y.Doc of a mounted editor is given what comes, and keeps what it has.
LEMMA ReceiveStaysOn ==
  ASSUME TInv, NEW u \in Pages, Mounted(pages[u]), Receive(u)
  PROVE  StaysOn(u)
<1>1. PICK p : p = pages[u]
  OBVIOUS
<1>2. PICK n \in Nat, l \in Nat : n = Len(edits) /\ l = Len(stream)
  BY PageTypes
<1>3. p \in PageAt(n, l) /\ p.doc # 0
  BY <1>1, <1>2, EditorHas
<1>4. p.at < l /\ edits' = edits
  BY <1>1, <1>2 DEF Receive
<1>5. PICK entry : entry = stream[p.at + 1]
  OBVIOUS
<1>6. p.at + 1 \in 1 .. Len(stream)
  <2>1. p.at \in Nat
    BY <1>3, SocketFields
  <2> QED
    BY <1>2, <1>4, <2>1
<1>7. PICK r : r = Advanced(p)
  OBVIOUS
<1>8. r \in PageAt(n, l) /\ r.doc = p.doc /\ r.has = p.has /\ r.dom = p.dom
  <2>1. r \in PageAt(n, l)
    BY <1>3, <1>4, <1>7, NextFrame
  <2>2. r.doc = p.doc /\ r.has = p.has
    BY <1>3, <1>4, <1>7, NextFrame
  <2>3. r.dom = p.dom
    BY <1>3, <1>4, <1>7, NextFrame
  <2> QED
    BY <2>1, <2>2, <2>3
<1>9. PICK q : pages' = [pages EXCEPT ![u] = q] /\ Stays(u, p, q, edits)
  <2>1. CASE pages' = [pages EXCEPT ![u] = Passed(p, entry.edit)]
    <3>1. Passed(p, entry.edit).dom = p.dom
      BY <1>3, ScreenKept
    <3> QED
      BY <2>1, <3>1 DEF Stays
  <2>2. CASE entry.kind = "insert" /\ pages' = [pages EXCEPT ![u] = Frame(u, r, entry)]
    <3>1. PICK g : g = [r EXCEPT !.shown = TRUE]
      OBVIOUS
    <3>2. g \in PageAt(n, l) /\ g.doc = p.doc /\ g.has = p.has
      BY <1>8, <3>1 DEF PageAt
    <3>3. Ensure(g) = g
      BY <1>3, <3>2 DEF Ensure
    <3>4. PICK q : q = Rendered(u, g, edits)
      OBVIOUS
    <3>5. pages' = [pages EXCEPT ![u] = q]
      BY <2>2, <3>1, <3>3, <3>4 DEF Frame
    <3>6. Stays(u, p, q, edits)
      BY <3>2, <3>4, RenderedStays
    <3> QED
      BY <3>5, <3>6
  <2>3. CASE entry.kind = "delete" /\ pages' = [pages EXCEPT ![u] = Frame(u, r, entry)]
    <3>1. PICK q : q = Removed(r)
      OBVIOUS
    <3>2. pages' = [pages EXCEPT ![u] = q]
      BY <2>3, <3>1 DEF Frame, Removed, BlockOff
    <3>3. ~Mounted(q)
      BY <1>3, <1>7, <3>1, ScreenLeft
    <3> QED
      BY <3>2, <3>3 DEF Stays
  <2>4. CASE entry.kind = "crdt" /\ pages' = [pages EXCEPT ![u] = Frame(u, r, entry)]
    <3>1. PICK e \in 1 .. n : e = entry.edit
      BY <1>2, <1>5, <1>6, <2>4, Entries
    <3>2. PICK g : g = [r EXCEPT !.has = @ \cup {e}]
      OBVIOUS
    <3>3. g.has = r.has \cup {e} /\ g.doc = r.doc /\ g.dom = r.dom
      BY <1>8, <3>2 DEF PageAt
    <3>4. g \in PageAt(n, l)
      <4>1. PICK has \in SUBSET (1 .. n) : has = r.has \cup {e}
        BY <1>8, SocketFields
      <4>2. g = [r EXCEPT !.has = has]
        BY <3>2, <4>1
      <4> QED
        BY <1>8, <4>2 DEF PageAt
    <3>5. PICK q : q = IF Heard(r) THEN Rendered(u, g, edits) ELSE g
      OBVIOUS
    <3>6. pages' = [pages EXCEPT ![u] = q] 
      BY <1>3, <1>8, <2>4, <3>1, <3>2, <3>5 DEF Frame, Given
    <3>7. CASE Heard(r)
      <4>1. q = Rendered(u, g, edits) /\ g.doc = p.doc /\ p.has \subseteq g.has
        BY <1>8, <3>3, <3>5, <3>7
      <4> QED
        BY <3>4, <3>6, <4>1, RenderedStays
    <3>8. CASE ~Heard(r)
      <4>1. q.dom = p.dom
        BY <1>8, <3>3, <3>5, <3>8
      <4> QED
        BY <3>6, <4>1 DEF Stays
    <3> QED
      BY <3>7, <3>8
  <2> QED
    <3>1. entry.kind \in {"insert", "delete", "crdt"}
      BY <1>5, <1>6, Entries
    <3> QED
      BY <1>1, <1>5, <1>7, <2>1, <2>2, <2>3, <2>4, <3>1, FrameTaken
<1> QED
  BY <1>1, <1>4, <1>9 DEF StaysOn

\* A step of one page leaves the others as they are.
LEMMA OthersRest ==
  ASSUME TInv, NEW u \in Pages, NEW v \in Pages, v # u,
         Editor(u) \/ Visit(u) \/ Loading(u) \/ Socket(u) \/ Failure(u)
  PROVE  pages'[v] = pages[v]
<1>0. pages \in [Pages -> Page]
  BY DEF TInv, TypeOK
<1>1. ASSUME NEW q, pages' = [pages EXCEPT ![u] = q]
      PROVE  pages'[v] = pages[v]
  BY <1>0, <1>1
<1>2. ASSUME NEW page, NEW new, Update(u, page, new)
      PROVE  pages'[v] = pages[v]
  <2>1. PICK c : c = [k \in 1 .. Len(new) |-> Len(edits) + k]
    OBVIOUS
  <2>2. PICK q : q = Rendered(u, GivenTo(page, c), edits \o new)
    OBVIOUS
  <2>3. pages' = [pages EXCEPT ![u] = q]
    BY <1>2, <2>1, <2>2 DEF Update, GivenTo
  <2> QED
    BY <1>1, <2>3
<1>3. ASSUME NEW what, Replace(u, what)
      PROVE  pages'[v] = pages[v]
  BY <1>2, <1>3 DEF Replace
<1>4. CASE Editor(u)
  <2>1. CASE Reconcile(u)
    BY <1>3, <2>1 DEF Reconcile
  <2>2. CASE Type(u)
    BY <1>3, <2>2 DEF Type
  <2>3. CASE Delete(u)
    BY <1>2, <2>3 DEF Delete
  <2>4. CASE StartComposing(u)
    BY <1>0, <2>4 DEF StartComposing
  <2>5. CASE EndComposing(u)
    BY <1>1, <1>2, <2>5 DEF EndComposing
  <2>6. CASE InsertBlock(u)
    BY <1>0, <2>6 DEF InsertBlock
  <2>7. CASE DeleteBlock(u)
    BY <1>0, <2>7 DEF DeleteBlock
  <2> QED
    BY <1>4, <2>1, <2>2, <2>3, <2>4, <2>5, <2>6, <2>7 DEF Editor
<1>5. CASE Visit(u)
  <2>1. \E q : pages' = [pages EXCEPT ![u] = q]
    BY <1>5, VisitOpens
  <2> QED
    BY <1>1, <2>1
<1>6. CASE Loading(u)
  <2>1. CASE ReadRows(u)
    BY <1>0, <2>1 DEF ReadRows
  <2>2. CASE Loaded(u)
    BY <1>0, <2>2 DEF Loaded
  <2> QED
    BY <1>6, <2>1, <2>2 DEF Loading
<1>7. CASE Socket(u)
  <2>1. CASE Connect(u)
    BY <1>0, <2>1 DEF Connect
  <2>2. CASE ReloadRequired(u)
    BY <1>1, <2>2, StartsAgain
  <2>3. CASE Publish(u)
    BY <1>0, <2>3 DEF Publish
  <2>4. CASE Receive(u)
    BY <1>0, <2>4 DEF Receive
  <2> QED
    BY <1>7, <2>1, <2>2, <2>3, <2>4 DEF Socket
<1>8. CASE Failure(u)
  <2>1. CASE Drop(u)
    BY <1>0, <2>1 DEF Drop
  <2>2. CASE XaddFails(u)
    BY <1>0, <2>2 DEF XaddFails
  <2>3. CASE LoadFails(u)
    BY <1>0, <2>3 DEF LoadFails
  <2>4. CASE Expire(u)
    BY <1>1, <2>4, AgesTo
  <2> QED
    BY <1>8, <2>1, <2>2, <2>3, <2>4 DEF Failure
<1> QED
  BY <1>4, <1>5, <1>6, <1>7, <1>8

\* What a step leaves of a mounted editor's screen.
LEMMA StepScreened ==
  ASSUME TInv, [Next]_vars, NEW u \in Pages, Mounted(pages[u])
  PROVE  \/ pages'[u].dom = pages[u].dom
         \/ \E r, all : Screened(u, r, all) /\ edits' = all /\ pages' = [pages EXCEPT ![u] = r]
<1> DEFINE Done == \E r, all : Screened(u, r, all) /\ edits' = all /\ pages' = [pages EXCEPT ![u] = r]
<1>1. StaysOn(u) => Done
  BY ScreenedNow DEF StaysOn
<1>2. ASSUME Editor(u)
      PROVE  Done
  BY <1>1, <1>2, EditScreened, ComposingStaysOn, ComposedScreened, InsertStaysOn, DeleteStaysOn DEF Editor
<1>3. ASSUME Loading(u) \/ Socket(u) \/ Failure(u)
      PROVE  Done
  <2>1. StaysOn(u)
    BY <1>3, ReadStaysOn, LoadedStaysOn, ConnectStaysOn, ReloadStaysOn, SocketStaysOn, ReceiveStaysOn,
       FailsStaysOn DEF Loading, Socket, Failure
  <2> QED
    BY <1>1, <2>1
<1>4. ~Visit(u)
  BY DEF Visit, Mounted
<1>5. ASSUME NEW v \in Pages, Editor(v) \/ Visit(v) \/ Loading(v) \/ Socket(v) \/ Failure(v)
      PROVE  pages'[u].dom = pages[u].dom \/ Done
  <2>1. CASE v = u
    BY <1>2, <1>3, <1>4, <1>5, <2>1
  <2>2. CASE v # u
    BY <1>5, <2>2, OthersRest
  <2> QED
    BY <2>1, <2>2
<1>6. ASSUME CommitOp \/ Trim \/ UNCHANGED vars
      PROVE  pages'[u].dom = pages[u].dom
  BY <1>6 DEF CommitOp, Trim, vars
<1> HIDE DEF Done
<1>7. pages'[u].dom = pages[u].dom \/ Done
  BY <1>5, <1>6 DEF Next
<1> QED
  BY <1>7 DEF Done

LEMMA ScreenErased ==
  ASSUME TInv, TInv', [Next]_vars, NEW u \in Pages,
         Mounted(pages[u]), Mounted(pages'[u]), ~pages[u].remade
  PROVE  Erased(edits', pages[u].dom \ pages'[u].dom)
<1>1. PICK p : p = pages[u]
  OBVIOUS
<1>2. PICK q : q = pages'[u]
  OBVIOUS
<1>3. PICK n \in Nat, l \in Nat : n = Len(edits) /\ l = Len(stream)
  BY PageTypes
<1>4. p \in PageAt(n, l) /\ Faithful(u, p, edits)
  BY <1>1, <1>3, PageTypes DEF PageInv
<1>5. CASE q.dom = p.dom
  BY <1>1, <1>2, <1>5 DEF Erased
<1>6. CASE \E r, all : Screened(u, r, all) /\ edits' = all /\ pages' = [pages EXCEPT ![u] = r]
  <2>1. PICK r, all : Screened(u, r, all) /\ edits' = all /\ pages' = [pages EXCEPT ![u] = r]
    BY <1>6
  <2>2. q = r
    <3>1. pages \in [Pages -> Page]
      BY DEF TInv, TypeOK
    <3> QED
      BY <1>2, <2>1, <3>1
  <2>3. PICK m \in Nat : m = Len(all)
    BY <2>1 DEF Screened
  <2>4. Stays(u, p, q, all) /\ n <= m /\ \A e \in 1 .. n : all[e] = edits[e]
    BY <1>1, <1>3, <2>1, <2>2, <2>3 DEF Screened
  <2>5. q.has \subseteq 1 .. m
    <3>1. q.has \subseteq Numbers'
      BY <1>2 DEF TInv, TypeOK, Page
    <3> QED
      BY <2>1, <2>3, <3>1 DEF Numbers
  <2>6. PICK before : before = edits
    OBVIOUS
  <2>7. Erased(all, p.dom \ q.dom)
    BY <1>1, <1>2, <1>4, <2>3, <2>4, <2>5, <2>6, StaysErased
  <2> QED
    BY <1>1, <1>2, <2>1, <2>7
<1> QED
  BY <1>1, <1>2, <1>5, <1>6, StepScreened

\* Of a page that has an editor, whatever comes: what it shows goes away only when an
\* update erases it.
THEOREM TextStaysOn == Spec => TextStays
<1>1. TInv /\ TInv' /\ [Next]_vars =>
        [\A u \in Pages : Mounted(pages[u]) /\ Mounted(pages'[u]) /\ ~pages[u].remade
           => Erased(edits', pages[u].dom \ pages'[u].dom)]_vars
  BY ScreenErased
<1> QED
  BY <1>1, TextHolds, PTL DEF Spec, TextStays

=============================================================================
