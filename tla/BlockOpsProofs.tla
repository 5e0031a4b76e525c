--------------------------- MODULE BlockOpsProofs ---------------------------
(***************************************************************************)
(* Of any number of requests and operations on any number of blocks.       *)
(***************************************************************************)
EXTENDS BlockOps, SequenceTheorems, WellFoundedInduction, TLAPS

-----------------------------------------------------------------------------
(* Data.                                                                   *)

\* A set of naturals has a least member.
LEMMA LeastNatural ==
  ASSUME NEW T, T \subseteq Nat, T # {}
  PROVE  \E n \in T : \A m \in T : n <= m
  <1>1. IsWellFoundedOn({p \in Nat \X Nat : p[1] < p[2]}, Nat)
    BY NatLessThanWellFounded DEF OpToRel
  <1>2. PICK n \in T : \A m \in T : <<m, n>> \notin {p \in Nat \X Nat : p[1] < p[2]}
    BY <1>1, WFMin, Zenon
  <1>3. ASSUME NEW m \in T PROVE n <= m
    <2>1. m \in Nat /\ n \in Nat
      OBVIOUS
    <2>2. m < n => <<m, n>> \in {p \in Nat \X Nat : p[1] < p[2]}
      BY <2>1
    <2> QED
      BY <1>2, <2>1, <2>2
  <1> QED
    BY <1>3

\* A request that is at an operation is at one that it has.
LEMMA CurrentTyped ==
  ASSUME TypeOK, NEW r \in Requests, requests[r].pc \in {"op", "place", "write"}
  PROVE  /\ Current(r) \in Op
         /\ requests[r].at \in 1 .. Len(requests[r].ops)
         /\ requests[r] \in Request
  <1>1. requests[r] \in Request /\ requests[r].at \in 1 .. Len(requests[r].ops)
    BY DEF TypeOK
  <1>2. requests[r].ops \in Seq(Op)
    BY <1>1 DEF Request
  <1> QED
    BY <1>1, <1>2, ElementOfSeq DEF Current

LEMMA ViewTyped ==
  ASSUME TypeOK, NEW r \in Requests
  PROVE  View(r) \in [Blocks -> Row] /\ NoRow \in Row
  <1>1. rows \in [Blocks -> Row] /\ requests[r].copy \in [Blocks -> Row]
    BY DEF TypeOK, Request
  <1>2. NoRow \in Row
    BY OpsAssumption DEF NoRow, Row, Parents
  <1> QED
    BY <1>1, <1>2 DEF View

\* The operation at hand is done with.
Past(before, q) ==
  /\ q.at = before.at + 1
  /\ q.pc \in {"op", "commit"}
  /\ q.pc = "op" => before.at < Len(before.ops)
  /\ q.pc = "commit" => before.at = Len(before.ops)

\* What the ends of an operation and of a transaction leave of a request.
LEMMA OnwardTyped ==
  ASSUME NEW q \in Request, q.at \in 1 .. Len(q.ops)
  PROVE  /\ Onward(q) \in Request
         /\ Past(q, Onward(q))
         /\ Onward(q).ops = q.ops /\ Onward(q).mine = q.mine /\ Onward(q).copy = q.copy
         /\ Onward(q).shares = q.shares /\ Onward(q).advisory = q.advisory
         /\ Onward(q).broken = q.broken /\ Onward(q).did = q.did /\ Onward(q).reply = q.reply
  <1>1. Len(q.ops) \in Nat /\ q.at + 1 \in Nat
    BY DEF Request
  <1> DEFINE pc == IF q.at < Len(q.ops) THEN "op" ELSE "commit"
  <1>2. /\ pc \in {"op", "commit"} /\ pc \in Stages
        /\ pc = "op" => q.at < Len(q.ops)
        /\ pc = "commit" => q.at = Len(q.ops)
    BY <1>1 DEF Stages
  <1>3. Onward(q) = [q EXCEPT !.at = q.at + 1, !.pc = pc]
    BY DEF Onward
  <1> HIDE DEF pc
  <1> QED
    BY <1>1, <1>2, <1>3 DEF Request, Past

LEMMA AppliedTyped ==
  ASSUME TypeOK, NEW r \in Requests, NEW q \in Request, q.at \in 1 .. Len(q.ops),
         Current(r) \in Op, NEW ver \in Nat
  PROVE  /\ Applied(r, q, ver) \in Request
         /\ Past(q, Applied(r, q, ver))
         /\ Applied(r, q, ver).ops = q.ops /\ Applied(r, q, ver).mine = q.mine
         /\ Applied(r, q, ver).copy = q.copy
         /\ Applied(r, q, ver).shares = q.shares /\ Applied(r, q, ver).advisory = q.advisory
         /\ Applied(r, q, ver).broken = q.broken /\ Applied(r, q, ver).reply = q.reply
         /\ \E c \in Change : c.by = r /\ Applied(r, q, ver).did = Append(q.did, c)
  <1> DEFINE c == [by |-> r, block |-> Current(r).block, ver |-> ver]
  <1>1. c \in Change /\ c.by = r
    BY DEF Change, Op
  <1>2. Applied(r, q, ver) = [Onward(q) EXCEPT !.did = Append(@, c)]
    BY DEF Applied
  <1> HIDE DEF c
  <1>3. q.did \in Seq(Change) /\ Append(q.did, c) \in Seq(Change)
    BY <1>1 DEF Request
  <1> DEFINE on == Onward(q)
  <1>4. on \in Request
    BY OnwardTyped
  <1>5. on.did = q.did
    BY OnwardTyped
  <1>6. Applied(r, q, ver) = [on EXCEPT !.did = Append(q.did, c)]
    BY <1>2, <1>5
  <1>7. /\ Past(q, on)
        /\ on.ops = q.ops /\ on.mine = q.mine /\ on.copy = q.copy
        /\ on.shares = q.shares /\ on.advisory = q.advisory
        /\ on.broken = q.broken /\ on.reply = q.reply
    BY OnwardTyped
  <1> HIDE DEF on
  <1> QED
    BY <1>1, <1>3, <1>4, <1>6, <1>7 DEF Request, Past

LEMMA LockedTyped ==
  ASSUME TypeOK, NEW q \in Request, NEW b \in Blocks
  PROVE  /\ Locked(q, b) \in Request
         /\ Locked(q, b).pc = q.pc /\ Locked(q, b).at = q.at /\ Locked(q, b).ops = q.ops
         /\ Locked(q, b).shares = q.shares /\ Locked(q, b).advisory = q.advisory
         /\ Locked(q, b).broken = q.broken /\ Locked(q, b).did = q.did
         /\ Locked(q, b).pos = q.pos
         /\ rows[b].present => Locked(q, b).mine = q.mine \cup {b}
         /\ ~rows[b].present => Locked(q, b).mine = q.mine
         /\ rows[b].present /\ b \notin q.mine => Locked(q, b).copy = [q.copy EXCEPT ![b] = rows[b]]
         /\ ~rows[b].present \/ b \in q.mine => Locked(q, b).copy = q.copy
  <1>1. rows[b] \in Row /\ q.copy \in [Blocks -> Row]
    BY DEF TypeOK, Request
  <1> QED
    BY <1>1 DEF Locked, Request

LEMMA ReleasedTyped ==
  ASSUME NEW q \in Request
  PROVE  /\ Released(q) \in Request
         /\ Released(q).mine = {} /\ Released(q).shares = {} /\ Released(q).advisory = {}
         /\ Released(q).broken = q.broken /\ Released(q).did = q.did /\ Released(q).pc = q.pc
         /\ Released(q).ops = q.ops
         /\ Raised(q) \in Request
         /\ Raised(q).mine = {} /\ Raised(q).shares = {} /\ Raised(q).advisory = {}
         /\ Raised(q).broken = q.broken /\ Raised(q).did = q.did /\ Raised(q).pc = "done"
         /\ Raised(q).ops = q.ops
  <1>1. NoRow \in Row /\ [b \in Blocks |-> NoRow] \in [Blocks -> Row] /\ 0 \in 0 .. Top
    BY OpsAssumption DEF NoRow, Row, Parents
  <1> QED
    BY <1>1 DEF Released, Raised, Request, Stages

-----------------------------------------------------------------------------
(* What a step of a transaction does.                                      *)

\* The document as a request with these rows of its own sees it.
Seen(q) == [b \in Blocks |-> IF b \in q.mine THEN q.copy[b] ELSE rows[b]]

\* r has become q: it has locked nothing that another request holds.
Gains(r, q) ==
  LET before == requests[r] IN
  /\ before.mine \subseteq q.mine /\ before.shares \subseteq q.shares
  /\ before.advisory \subseteq q.advisory
  /\ \A p \in Others(r) :
       /\ (q.mine \ before.mine) \cap requests[p].mine = {}
       /\ (q.shares \ before.shares) \cap requests[p].mine = {}
       /\ (q.advisory \ before.advisory) \cap requests[p].advisory = {}
       /\ \A b \in q.mine : ~q.copy[b].present =>
            (b \in before.mine /\ ~before.copy[b].present) \/ b \notin requests[p].shares

\* The position that a request has found is free, and stays so while it has the
\* parent's advisory lock.
Aims(q, o) ==
  /\ o.parent \in q.advisory
  /\ \A b \in Blocks \ {o.block} :
       Seen(q)[b].present /\ Seen(q)[b].parent = o.parent => Seen(q)[b].pos # q.pos

\* What a request that is past its checks knows: nobody else can change the row.
Knows(q, o) ==
  q.pc \in {"place", "write"} =>
    /\ ~q.broken
    /\ o.kind \in (IF q.pc = "place" THEN {"insert", "move"} ELSE {"insert", "move", "delete"})
    /\ o.kind \in {"move", "delete"} =>
         o.block \in q.mine /\ Seen(q)[o.block].present /\ Seen(q)[o.block].ver = o.ver
    /\ q.pc = "write" /\ o.kind \in {"insert", "move"} => Aims(q, o)

\* The request goes on with its operation, and with what it has seen of it.
Lasts(r, q) ==
  LET o == Current(r)
      row == Seen(requests[r])[o.block]
  IN
  /\ q.at = requests[r].at /\ q.did = requests[r].did
  /\ Seen(q) = Seen(requests[r])
  /\ \/ q.pc = "place" /\ o.kind \in {"insert", "move"}
     \/ q.pc = "write" /\ o.kind \in {"insert", "move"} /\ Aims(q, o)
     \/ q.pc = "write" /\ o.kind = "delete"
  /\ o.kind \in {"move", "delete"} => o.block \in q.mine /\ row.present /\ row.ver = o.ver

\* The operation has had no effect on the document.
Passed(r, q) ==
  /\ Past(requests[r], q)
  /\ Seen(q) = Seen(requests[r])

\* update_attrs or update_content.
Bumped(r, q) ==
  LET o == Current(r)
      before == Seen(requests[r])
  IN
  /\ Past(requests[r], q)
  /\ o.kind \in {"attrs", "content"} /\ o.block \in q.mine
  /\ before[o.block].present
  /\ o.kind = "attrs" => before[o.block].ver = o.ver
  /\ Seen(q) = [before EXCEPT ![o.block].ver = @ + 1]

\* An insert or a move, to the position that the request has found.
Put(r, q) ==
  LET o == Current(r)
      before == Seen(requests[r])
  IN
  /\ requests[r].pc = "write"
  /\ Past(requests[r], q)
  /\ o.kind \in {"insert", "move"} /\ o.block \in q.mine
  /\ o.kind = "insert" => ~before[o.block].present
  /\ Has(before, o.parent)
  /\ q.shares = requests[r].shares \cup ({o.parent} \ {Root})
  /\ Seen(q) = [before EXCEPT ![o.block] =
       [present |-> TRUE, parent |-> o.parent, pos |-> requests[r].pos, depth |-> requests[r].depth,
        ver |-> IF o.kind = "insert" THEN 1 ELSE before[o.block].ver + 1]]

\* A delete, with the cascade.
Dropped(r, q) ==
  LET o == Current(r)
      before == Seen(requests[r])
      all == Subtree(before, o.block)
  IN
  /\ requests[r].pc = "write"
  /\ Past(requests[r], q)
  /\ o.kind = "delete"
  /\ all \subseteq q.mine
  /\ \A p \in Others(r) : all \cap requests[p].shares = {}
  /\ Seen(q) = [b \in Blocks |-> IF b \in all THEN NoRow ELSE before[b]]

LEMMA SeenIsView == \A r \in Requests : View(r) = Seen(requests[r])
  BY DEF View, Seen

\* The shape of every step of a request within its transaction.
Step(r, q) ==
  /\ q \in Request
  /\ q.ops = requests[r].ops
  /\ Gains(r, q)
  /\ \/ q.did = requests[r].did
     \/ ~q.broken /\ \E c \in Change : c.by = r /\ q.did = Append(requests[r].did, c)

\* The end of an operation, with an effect or without one.
LEMMA AppliedStep ==
  ASSUME TypeOK, NEW r \in Requests, requests[r].pc \in {"op", "place", "write"},
         NEW q \in Request, q.at = requests[r].at, q.ops = requests[r].ops,
         q.did = requests[r].did, ~q.broken, Gains(r, q), NEW ver \in Nat
  PROVE  /\ Step(r, Applied(r, q, ver)) /\ Past(requests[r], Applied(r, q, ver))
         /\ Seen(Applied(r, q, ver)) = Seen(q)
         /\ Applied(r, q, ver).mine = q.mine /\ Applied(r, q, ver).shares = q.shares
         /\ ~Applied(r, q, ver).broken
  <1> DEFINE new == Applied(r, q, ver)
  <1>1. Current(r) \in Op /\ q.at \in 1 .. Len(q.ops)
    BY CurrentTyped
  <1>2. /\ new \in Request /\ Past(q, new)
        /\ new.ops = q.ops /\ new.mine = q.mine /\ new.copy = q.copy
        /\ new.shares = q.shares /\ new.advisory = q.advisory /\ new.broken = q.broken
        /\ \E c \in Change : c.by = r /\ new.did = Append(q.did, c)
    BY <1>1, AppliedTyped
  <1> HIDE DEF new
  <1>3. Gains(r, new)
    BY <1>2 DEF Gains
  <1>4. Past(requests[r], new)
    BY <1>2 DEF Past
  <1>5. Seen(new) = Seen(q)
    BY <1>2 DEF Seen
  <1>6. Step(r, new)
    BY <1>2, <1>3 DEF Step
  <1>7. /\ Step(r, new) /\ Past(requests[r], new) /\ Seen(new) = Seen(q)
        /\ new.mine = q.mine /\ new.shares = q.shares /\ ~new.broken
    BY <1>2, <1>4, <1>5, <1>6
  <1> QED
    BY <1>7 DEF new

LEMMA OnwardStep ==
  ASSUME TypeOK, NEW r \in Requests, requests[r].pc \in {"op", "place", "write"},
         NEW q \in Request, q.at = requests[r].at, q.ops = requests[r].ops,
         q.did = requests[r].did, Gains(r, q), Seen(q) = Seen(requests[r])
  PROVE  Step(r, Onward(q)) /\ Passed(r, Onward(q)) /\ Onward(q).broken = q.broken
  <1> DEFINE new == Onward(q)
  <1>1. q.at \in 1 .. Len(q.ops)
    BY CurrentTyped
  <1>2. /\ new \in Request /\ Past(q, new)
        /\ new.ops = q.ops /\ new.mine = q.mine /\ new.copy = q.copy
        /\ new.shares = q.shares /\ new.advisory = q.advisory /\ new.broken = q.broken
        /\ new.did = q.did
    BY <1>1, OnwardTyped
  <1> HIDE DEF new
  <1>3. Gains(r, new)
    BY <1>2 DEF Gains
  <1>4. Past(requests[r], new)
    BY <1>2 DEF Past
  <1>5. Seen(new) = Seen(q)
    BY <1>2 DEF Seen
  <1>6. Step(r, new) /\ Passed(r, new) /\ new.broken = q.broken
    BY <1>2, <1>3, <1>4, <1>5 DEF Step, Passed
  <1> QED
    BY <1>6 DEF new

\* An insert, up to the advisory lock.
LEMMA InsertChecksStep ==
  ASSUME TypeOK, NEW r \in Requests, requests[r].pc = "op", ~requests[r].broken, InsertChecks(r)
  PROVE  \E q : Goto(r, q) /\ Step(r, q) /\ ~q.broken /\ (Lasts(r, q) \/ Passed(r, q))
  <1> DEFINE before == requests[r]
             o == Current(r)
             v == View(r)
             on == [before EXCEPT !.pc = "place",
                      !.depth = IF o.parent = Root THEN 0 ELSE v[o.parent].depth + 1]
  <1>1. o \in Op /\ before \in Request /\ before.at \in 1 .. Len(before.ops)
    BY CurrentTyped
  <1>2. Goto(r, on) \/ Goto(r, Onward(before))
    BY DEF InsertChecks, Conflict
  <1>3. CASE Goto(r, on)
    <2>1. v \in [Blocks -> Row]
      BY ViewTyped
    <2>2. (IF o.parent = Root THEN 0 ELSE v[o.parent].depth + 1) \in Nat
      BY <1>1, <2>1 DEF Op, Parents, Row
    <2>3. /\ on \in Request /\ on.pc = "place" /\ on.at = before.at /\ on.did = before.did
          /\ on.mine = before.mine /\ on.copy = before.copy /\ on.shares = before.shares
          /\ on.advisory = before.advisory /\ on.ops = before.ops /\ on.broken = before.broken
      BY <1>1, <2>2 DEF Request, Stages
    <2> HIDE DEF on
    <2>4. Gains(r, on)
      BY <2>3 DEF Gains, Seen, Request
    <2>5. Lasts(r, on)
      BY <2>3 DEF Lasts, Seen, InsertChecks
    <2> QED
      BY <1>3, <2>3, <2>4, <2>5 DEF Step
  <1>4. CASE Goto(r, Onward(before))
    <2>1. Gains(r, Onward(before)) /\ Passed(r, Onward(before))
      BY <1>1, OnwardTyped DEF Gains, Seen, Passed, Request
    <2> QED
      BY <1>1, <1>4, <2>1, OnwardTyped DEF Step
  <1> QED
    BY <1>2, <1>3, <1>4

\* Locking a row changes nothing that the request sees.
LEMMA LockedSeen ==
  ASSUME TypeOK, NEW q \in Request, NEW b \in Blocks
  PROVE  Seen(Locked(q, b)) = Seen(q)
  <1>1. q.copy \in [Blocks -> Row]
    BY DEF Request
  <1>2. CASE rows[b].present /\ b \notin q.mine
    <2>1. Locked(q, b).mine = q.mine \cup {b} /\ Locked(q, b).copy = [q.copy EXCEPT ![b] = rows[b]]
      BY <1>2, LockedTyped
    <2> QED
      BY <1>1, <1>2, <2>1 DEF Seen
  <1>3. CASE ~rows[b].present \/ b \in q.mine
    <2>1. Locked(q, b).mine = q.mine /\ Locked(q, b).copy = q.copy
      <3>1. b \in q.mine => q.mine \cup {b} = q.mine
        OBVIOUS
      <3> QED
        BY <1>3, <3>1, LockedTyped
    <2> QED
      BY <2>1 DEF Seen
  <1> QED
    BY <1>2, <1>3

\* The row of the operation at hand, locked when nobody holds it.
LEMMA LockedGains ==
  ASSUME TypeOK, NEW r \in Requests, requests[r].pc = "op", Current(r).kind # "insert",
         WaitsFor(r) = {},
         NEW q \in Request,
         q.mine = Locked(requests[r], Current(r).block).mine,
         q.shares = requests[r].shares, q.advisory = requests[r].advisory,
         \A b \in q.mine : ~q.copy[b].present => ~Seen(requests[r])[b].present
  PROVE  Gains(r, q)
  <1> DEFINE b == Current(r).block
             before == requests[r]
  <1>1. before \in Request /\ b \in Blocks
    BY CurrentTyped DEF Op
  <1>2. before.mine \subseteq q.mine /\ q.mine \subseteq before.mine \cup {b}
    BY <1>1, LockedTyped
  <1>3. ASSUME NEW p \in Others(r) PROVE (q.mine \ before.mine) \cap requests[p].mine = {}
    <2>1. CASE rows[b].present
      <3>1. Writers(r, {b}) = {}
        BY <2>1 DEF WaitsFor, RowHolders
      <3>2. p \notin Writers(r, {b})
        BY <3>1
      <3>3. b \notin requests[p].mine
        BY <1>3, <3>2 DEF Writers
      <3> QED
        BY <1>2, <3>3
    <2>2. CASE ~rows[b].present
      <3>1. q.mine = before.mine
        BY <1>1, <2>2, LockedTyped
      <3> QED
        BY <3>1
    <2> QED
      BY <2>1, <2>2
  <1>4. ASSUME NEW c \in q.mine, ~q.copy[c].present
        PROVE  c \in before.mine /\ ~before.copy[c].present
    <2>1. c \in Blocks /\ ~Seen(before)[c].present
      BY <1>4 DEF Request
    <2>2. c \in before.mine
      <3>1. CASE c = b /\ rows[b].present
        BY <2>1, <3>1 DEF Seen
      <3>2. CASE c = b /\ ~rows[b].present
        BY <1>1, <1>4, <3>2, LockedTyped
      <3>3. CASE c # b
        BY <1>2, <1>4, <3>3
      <3> QED
        BY <3>1, <3>2, <3>3
    <2> QED
      BY <2>1, <2>2 DEF Seen
  <1> QED
    BY <1>2, <1>3, <1>4 DEF Gains


\* What has been locked of the row of the operation at hand.
LEMMA LockedRow ==
  ASSUME TypeOK, NEW r \in Requests, requests[r].pc = "op", ~requests[r].broken,
         Current(r).kind # "insert", WaitsFor(r) = {},
         NEW q, q = Locked(requests[r], Current(r).block)
  PROVE  /\ q \in Request /\ Seen(q) = Seen(requests[r]) /\ Gains(r, q)
         /\ q.pc = requests[r].pc /\ q.at = requests[r].at /\ q.ops = requests[r].ops
         /\ q.shares = requests[r].shares /\ q.advisory = requests[r].advisory
         /\ ~q.broken /\ q.did = requests[r].did
         /\ q.at \in 1 .. Len(q.ops)
         /\ Current(r).block \in Blocks
         /\ Seen(requests[r])[Current(r).block] \in Row
         /\ View(r)[Current(r).block] = Seen(requests[r])[Current(r).block]
         /\ Seen(requests[r])[Current(r).block].present => Current(r).block \in q.mine
         /\ \A c \in q.mine : q.copy[c] = Seen(requests[r])[c]
  <1> DEFINE before == requests[r]
             b == Current(r).block
  <1>1. before \in Request /\ before.at \in 1 .. Len(before.ops) /\ b \in Blocks
    BY CurrentTyped DEF Op
  <1>2. /\ q \in Request /\ Seen(q) = Seen(before)
        /\ q.pc = before.pc /\ q.at = before.at /\ q.ops = before.ops /\ q.shares = before.shares
        /\ q.advisory = before.advisory /\ q.broken = before.broken /\ q.did = before.did
        /\ rows[b].present => q.mine = before.mine \cup {b}
        /\ ~rows[b].present => q.mine = before.mine
    BY <1>1, LockedTyped, LockedSeen
  <1>3. Seen(before) \in [Blocks -> Row] /\ View(r) = Seen(before)
    BY ViewTyped, SeenIsView
  <1>4. Seen(before)[b].present => b \in q.mine
    BY <1>1, <1>2 DEF Seen
  <1>5. \A c \in q.mine : q.copy[c] = Seen(before)[c]
    <2>1. \A c \in q.mine : q.copy[c] = Seen(q)[c]
      BY <1>2 DEF Seen, Request
    <2> QED
      BY <2>1, <1>2
  <1>6. Gains(r, q)
    BY <1>2, <1>5, LockedGains
  <1> QED
    BY <1>1, <1>2, <1>3, <1>4, <1>5, <1>6

\* One more version of a row that is locked.
More(q, b) == [q EXCEPT !.copy[b].ver = @ + 1]

LEMMA MoreTyped ==
  ASSUME TypeOK, NEW q \in Request, NEW b \in q.mine
  PROVE  /\ More(q, b) \in Request /\ More(q, b).mine = q.mine /\ More(q, b).shares = q.shares
         /\ More(q, b).advisory = q.advisory /\ More(q, b).pc = q.pc /\ More(q, b).at = q.at
         /\ More(q, b).ops = q.ops
         /\ More(q, b).broken = q.broken /\ More(q, b).did = q.did
         /\ \A c \in More(q, b).mine : More(q, b).copy[c].present = q.copy[c].present
         /\ Seen(More(q, b)) = [Seen(q) EXCEPT ![b].ver = @ + 1]
  <1> DEFINE new == [q.copy[b] EXCEPT !.ver = @ + 1]
             more == More(q, b)
  <1>1. b \in Blocks /\ q.copy \in [Blocks -> Row] /\ q.copy[b] \in Row /\ q.mine \subseteq Blocks
    BY DEF Request
  <1>2. new \in Row /\ new.present = q.copy[b].present
    BY <1>1 DEF Row
  <1>3. more = [q EXCEPT !.copy = [q.copy EXCEPT ![b] = new]]
    BY <1>1 DEF Request, More
  <1>4. [q.copy EXCEPT ![b] = new] \in [Blocks -> Row]
    BY <1>1, <1>2
  <1>5. new = [Seen(q)[b] EXCEPT !.ver = @ + 1]
    BY <1>1 DEF Seen
  <1>6. Seen(q) \in [Blocks -> Row]
    BY <1>1 DEF Seen, TypeOK
  <1>7. [Seen(q) EXCEPT ![b].ver = @ + 1] = [Seen(q) EXCEPT ![b] = [Seen(q)[b] EXCEPT !.ver = @ + 1]]
    BY <1>1, <1>6
  <1> HIDE DEF new, more
  <1>8. /\ more \in Request /\ more.mine = q.mine /\ more.shares = q.shares
        /\ more.advisory = q.advisory /\ more.pc = q.pc /\ more.at = q.at /\ more.ops = q.ops
        /\ more.broken = q.broken /\ more.did = q.did
        /\ more.copy = [q.copy EXCEPT ![b] = new]
    BY <1>3, <1>4 DEF Request
  <1>9. Seen(more) = [Seen(q) EXCEPT ![b] = new]
    <2>1. \A c \in Blocks : Seen(more)[c] = IF c = b THEN new ELSE Seen(q)[c]
      BY <1>1, <1>8 DEF Seen
    <2> QED
      BY <1>1, <2>1 DEF Seen
  <1>10. \A c \in more.mine : more.copy[c].present = q.copy[c].present
    BY <1>1, <1>2, <1>8
  <1>11. Seen(more) = [Seen(q) EXCEPT ![b].ver = @ + 1]
    BY <1>5, <1>7, <1>9
  <1> QED
    BY <1>8, <1>10, <1>11 DEF more

\* An update with its new version.
LEMMA BumpStep ==
  ASSUME TypeOK, NEW r \in Requests, requests[r].pc = "op", ~requests[r].broken,
         Current(r).kind \in {"attrs", "content"}, WaitsFor(r) = {},
         View(r)[Current(r).block].present,
         Current(r).kind = "attrs" => View(r)[Current(r).block].ver = Current(r).ver,
         NEW q, q = More(Locked(requests[r], Current(r).block), Current(r).block),
         NEW ver, ver = View(r)[Current(r).block].ver + 1
  PROVE  Step(r, Applied(r, q, ver)) /\ Bumped(r, Applied(r, q, ver)) /\ ~Applied(r, q, ver).broken
  <1> DEFINE o == Current(r)
             before == requests[r]
             row == View(r)[o.block]
             locked == Locked(before, o.block)
             new == Applied(r, q, ver)
  <1>1. o.kind # "insert"
    OBVIOUS
  <1>2. /\ locked \in Request /\ Seen(locked) = Seen(before)
        /\ locked.pc = before.pc /\ locked.at = before.at /\ locked.ops = before.ops
        /\ locked.shares = before.shares /\ locked.advisory = before.advisory
    BY <1>1, LockedRow
  <1>3. /\ ~locked.broken /\ locked.did = before.did
        /\ row \in Row /\ row = Seen(before)[o.block]
    BY <1>1, LockedRow
  <1>4. o.block \in locked.mine
    BY <1>1, LockedRow
  <1>5. \A c \in locked.mine : locked.copy[c] = Seen(before)[c]
    BY <1>1, LockedRow
  <1>6. q = More(locked, o.block)
    OBVIOUS
  <1> HIDE DEF locked
  <1>7. /\ q \in Request /\ q.mine = locked.mine /\ q.shares = locked.shares
        /\ q.advisory = locked.advisory /\ q.at = locked.at /\ q.ops = locked.ops
        /\ q.broken = locked.broken /\ q.did = locked.did
        /\ \A c \in q.mine : q.copy[c].present = locked.copy[c].present
        /\ Seen(q) = [Seen(locked) EXCEPT ![o.block].ver = @ + 1]
    BY <1>2, <1>4, <1>6, MoreTyped
  <1>8. Gains(r, q)
    <2>1. \A c \in q.mine : ~q.copy[c].present => ~Seen(before)[c].present
      BY <1>5, <1>7
    <2>2. q.shares = before.shares /\ q.advisory = before.advisory
      BY <1>2, <1>7
    <2>3. q.mine = Locked(before, o.block).mine
      BY <1>7 DEF locked
    <2> QED
      BY <1>1, <1>7, <2>1, <2>2, <2>3, LockedGains
  <1>9. ver \in Nat
    BY <1>3 DEF Row
  <1>10. ~q.broken
    BY <1>3, <1>7
  <1>11. /\ Step(r, new) /\ Past(before, new) /\ Seen(new) = Seen(q) /\ new.mine = q.mine
         /\ ~new.broken
    <2>1. q.at = before.at /\ q.ops = before.ops /\ q.did = before.did
      BY <1>2, <1>3, <1>7
    <2> QED
      BY <1>7, <1>8, <1>9, <1>10, <2>1, AppliedStep
  <1> HIDE DEF new
  <1>12. Seen(new) = [Seen(before) EXCEPT ![o.block].ver = @ + 1]
    BY <1>2, <1>7, <1>11
  <1>13. o.block \in new.mine
    BY <1>4, <1>7, <1>11
  <1>14. Bumped(r, new)
    BY <1>3, <1>11, <1>12, <1>13 DEF Bumped
  <1> QED
    BY <1>11, <1>14 DEF new

\* A delete, a move or an update_attrs, up to the next lock.
LEMMA CheckedStep ==
  ASSUME TypeOK, NEW r \in Requests, requests[r].pc = "op", ~requests[r].broken,
         WaitsFor(r) = {}, Checked(r)
  PROVE  \E q : Goto(r, q) /\ Step(r, q) /\ ~q.broken /\ (Lasts(r, q) \/ Passed(r, q) \/ Bumped(r, q))
  <1> DEFINE before == requests[r]
             o == Current(r)
             row == View(r)[o.block]
             q == Locked(before, o.block)
  <1>1. o.kind # "insert" /\ o.kind \in {"delete", "move", "attrs"} /\ o \in Op
    BY CurrentTyped DEF Checked
  <1>2. /\ q \in Request /\ Seen(q) = Seen(before) /\ Gains(r, q)
        /\ q.pc = before.pc /\ q.at = before.at /\ q.ops = before.ops
        /\ q.shares = before.shares /\ q.advisory = before.advisory
        /\ ~q.broken /\ q.did = before.did /\ q.at \in 1 .. Len(q.ops)
        /\ row \in Row /\ row = Seen(before)[o.block]
        /\ row.present => o.block \in q.mine
    BY <1>1, LockedRow
  <1>3. ASSUME ~row.present
        PROVE  Step(r, Applied(r, q, 0)) /\ Passed(r, Applied(r, q, 0)) /\ ~Applied(r, q, 0).broken
    <2> HIDE DEF q
    <2>1. 0 \in Nat
      OBVIOUS
    <2> QED
      BY <1>2, <2>1, AppliedStep DEF Passed
  <1>0. Step(r, Onward(q)) /\ Passed(r, Onward(q)) /\ ~Onward(q).broken
    <2> HIDE DEF q
    <2> QED
      BY <1>2, OnwardStep
  <1>4. ASSUME NEW pc \in {"place", "write"}, NEW new, new = [q EXCEPT !.pc = pc],
               row.present, row.ver = o.ver,
               \/ pc = "place" /\ o.kind = "move"
               \/ pc = "write" /\ o.kind = "delete"
        PROVE  Step(r, new) /\ Lasts(r, new) /\ ~new.broken
    <2> HIDE DEF q
    <2>2. /\ new \in Request /\ new.pc = pc /\ new.mine = q.mine /\ new.copy = q.copy /\ new.at = q.at
          /\ new.ops = q.ops /\ new.shares = q.shares /\ new.advisory = q.advisory
          /\ ~new.broken /\ new.did = q.did
      BY <1>2, <1>4 DEF Request, Stages
    <2>3. Seen(new) = Seen(q)
      BY <2>2 DEF Seen
    <2>4. Gains(r, new)
      BY <1>2, <2>2 DEF Gains
    <2>5. Lasts(r, new)
      BY <1>2, <1>4, <2>2, <2>3 DEF Lasts
    <2> QED
      BY <1>2, <2>2, <2>4, <2>5 DEF Step
  <1>5. CASE ~row.present /\ o.kind = "delete"
    <2>1. Goto(r, Applied(r, q, 0))
      BY <1>5 DEF Checked
    <2> QED
      BY <1>3, <1>5, <2>1
  <1>6. CASE (~row.present /\ o.kind # "delete") \/ (row.present /\ row.ver # o.ver)
    <2>1. Goto(r, Onward(q))
      BY <1>6 DEF Checked, Conflict, FreshEnough
    <2> QED
      BY <1>0, <2>1
  <1>7. CASE row.present /\ row.ver = o.ver /\ o.kind = "move"
    <2>1. Goto(r, [q EXCEPT !.pc = "place"])
      BY <1>7 DEF Checked, FreshEnough
    <2> QED
      BY <1>4, <1>7, <2>1
  <1>8. CASE row.present /\ row.ver = o.ver /\ o.kind = "delete"
    <2>1. Goto(r, [q EXCEPT !.pc = "write"])
      BY <1>8 DEF Checked, FreshEnough
    <2> QED
      BY <1>4, <1>8, <2>1
  <1>9. CASE row.present /\ row.ver = o.ver /\ o.kind = "attrs"
    <2>1. Goto(r, Applied(r, More(q, o.block), row.ver + 1))
      BY <1>9 DEF Checked, FreshEnough, More
    <2> QED
      BY <1>9, <2>1, BumpStep
  <1>10. row.present \in BOOLEAN
    BY <1>2 DEF Row
  <1>11. \/ ~row.present /\ o.kind = "delete"
         \/ (~row.present /\ o.kind # "delete") \/ (row.present /\ row.ver # o.ver)
         \/ row.present /\ row.ver = o.ver /\ o.kind = "move"
         \/ row.present /\ row.ver = o.ver /\ o.kind = "delete"
         \/ row.present /\ row.ver = o.ver /\ o.kind = "attrs"
    <2> HIDE DEF row
    <2> QED
      BY <1>1, <1>10
  <1> QED
    BY <1>5, <1>6, <1>7, <1>8, <1>9, <1>11

\* An update_content.
LEMMA UpdateContentStep ==
  ASSUME TypeOK, NEW r \in Requests, requests[r].pc = "op", ~requests[r].broken,
         WaitsFor(r) = {}, UpdateContent(r)
  PROVE  \E q : Goto(r, q) /\ Step(r, q) /\ ~q.broken /\ (Passed(r, q) \/ Bumped(r, q))
  <1> DEFINE o == Current(r)
             row == View(r)[o.block]
             q == Locked(requests[r], o.block)
  <1>1. o.kind = "content" /\ o.kind # "insert" /\ o.kind \in {"attrs", "content"} /\ o.kind # "attrs"
    BY DEF UpdateContent
  <1>0. Step(r, Onward(q)) /\ Passed(r, Onward(q)) /\ ~Onward(q).broken
    <2>1. /\ q \in Request /\ Seen(q) = Seen(requests[r]) /\ Gains(r, q)
          /\ q.at = requests[r].at /\ q.ops = requests[r].ops
          /\ ~q.broken /\ q.did = requests[r].did
      BY <1>1, LockedRow
    <2> HIDE DEF q
    <2> QED
      BY <2>1, OnwardStep
  <1>2. CASE ~row.present
    <2>1. Goto(r, Onward(q))
      BY <1>2 DEF UpdateContent, Conflict
    <2> QED
      BY <1>0, <2>1
  <1>3. CASE row.present
    <2>1. Goto(r, Applied(r, More(q, o.block), row.ver + 1))
      BY <1>3 DEF UpdateContent, More
    <2> QED
      BY <1>1, <1>3, <2>1, BumpStep
  <1> QED
    BY <1>2, <1>3

\* Between the block to go behind and the next sibling there is no other sibling.
LEMMA MidpointFree ==
  ASSUME NEW tree \in [Blocks -> Row], NEW parent \in Parents, NEW after \in Parents,
         Room(tree, parent, after)
  PROVE  /\ Midpoint(tree, parent, after) \in 0 .. Top
         /\ \A b \in Siblings(tree, parent) : tree[b].pos # Midpoint(tree, parent, after)
  <1> DEFINE left == Left(tree, after)
             above == {tree[b].pos : b \in Siblings(tree, parent)} \cap left + 1 .. Top
             right == Right(tree, parent, after)
             mid == Midpoint(tree, parent, after)
  <1>1. left \in 0 .. Top /\ Top \in Nat
    BY OpsAssumption DEF Left, Parents, Row
  <1>2. \A b \in Siblings(tree, parent) : tree[b].pos \in 0 .. Top
    BY DEF Siblings, Row
  <1>3. right \in 0 .. Top /\ \A p \in above : right <= p
    <2>1. CASE above = {}
      BY <1>1, <2>1 DEF Right
    <2>2. CASE above # {}
      <3>1. above \subseteq Nat
        BY <1>1
      <3>2. \E p \in above : \A p2 \in above : p <= p2
        BY <2>2, <3>1, LeastNatural
      <3>3. right = CHOOSE p \in above : \A p2 \in above : p <= p2
        BY <2>2 DEF Right
      <3>4. right \in above /\ \A p2 \in above : right <= p2
        <4> HIDE DEF above, right
        <4> QED
          BY <3>2, <3>3
      <3> QED
        BY <1>1, <3>4
    <2> QED
      BY <2>1, <2>2
  <1>4. right - left > 1 /\ mid = (left + right) \div 2
    BY DEF Room, Midpoint
  <1>5. left < mid /\ mid < right /\ mid \in 0 .. Top
    <2> HIDE DEF left, right, mid
    <2> QED
      BY <1>1, <1>3, <1>4
  <1>6. ASSUME NEW b \in Siblings(tree, parent), tree[b].pos = mid PROVE FALSE
    <2>1. mid \in above
      <3> HIDE DEF left, right, mid
      <3> QED
        BY <1>1, <1>5, <1>6
    <2>2. right <= mid
      BY <1>3, <2>1
    <2> HIDE DEF left, right, mid, above
    <2> QED
      BY <1>1, <1>3, <1>5, <2>2
  <1> QED
    BY <1>5, <1>6

\* The advisory lock and the position.
LEMMA PlaceStep ==
  ASSUME TypeOK, NEW r \in Requests, Place(r), Knows(requests[r], Current(r))
  PROVE  \E q : /\ Goto(r, q) /\ Step(r, q) /\ ~q.broken
                /\ Lasts(r, q) \/ Passed(r, q)
  <1> DEFINE before == requests[r]
             o == Current(r)
             v == View(r)
             q == [before EXCEPT !.advisory = @ \cup {o.parent}]
             pos == Midpoint(v, o.parent, o.after)
             depth == CASE o.kind = "insert" -> before.depth
                        [] o.kind = "move" /\ o.parent = Root -> 0
                        [] OTHER -> v[o.parent].depth + 1
             new == [q EXCEPT !.pc = "write", !.pos = pos, !.depth = depth]
  <1>1. before.pc = "place" /\ WaitsFor(r) = {} /\ before.pc \in {"op", "place", "write"}
    BY DEF Place
  <1>2. o \in Op /\ before \in Request
    BY <1>1, CurrentTyped
  <1>3. v \in [Blocks -> Row] /\ v = Seen(before)
    BY ViewTyped, SeenIsView
  <1>4. /\ ~before.broken /\ o.kind \in {"insert", "move"}
        /\ o.kind \in {"move", "delete"} =>
             o.block \in before.mine /\ Seen(before)[o.block].present /\ Seen(before)[o.block].ver = o.ver
    BY <1>1 DEF Knows
  <1>5. /\ q \in Request /\ q.at = before.at /\ q.ops = before.ops /\ q.did = before.did
        /\ ~q.broken /\ q.mine = before.mine /\ q.copy = before.copy /\ q.shares = before.shares
        /\ q.advisory = before.advisory \cup {o.parent} /\ q.depth = before.depth
    BY <1>2, <1>4 DEF Request, Op
  <1>6. Seen(q) = Seen(before)
    BY <1>5 DEF Seen
  <1>7. Gains(r, q)
    <2>1. ASSUME NEW p \in Others(r) PROVE o.parent \notin requests[p].advisory
      <3>1. SiblingHolders(r) = {}
        BY <1>1 DEF WaitsFor
      <3> QED
        BY <2>1, <3>1 DEF SiblingHolders
    <2>2. \A b \in q.mine : q.copy[b] = Seen(before)[b]
      BY <1>2, <1>5 DEF Seen, Request
    <2> HIDE DEF q
    <2> QED
      BY <1>5, <2>1, <2>2 DEF Gains
  <1> HIDE DEF q
  <1>8. CASE ~Placeable(v, o)
    <2>1. Goto(r, Onward(q))
      BY <1>8 DEF Place, Conflict, q
    <2> QED
      BY <1>1, <1>5, <1>6, <1>7, <2>1, OnwardStep
  <1>9. CASE Placeable(v, o)
    <2>1. Room(v, o.parent, o.after) /\ Goto(r, new)
      BY <1>5, <1>9 DEF Place, q
    <2>2. /\ pos \in 0 .. Top
          /\ \A b \in Siblings(v, o.parent) : v[b].pos # pos
      BY <1>2, <1>3, <2>1, MidpointFree DEF Op
    <2>3. depth \in Nat
      BY <1>2, <1>3, <1>4 DEF Op, Parents, Row, Request
    <2> HIDE DEF pos, depth
    <2>4. /\ new \in Request /\ new.pc = "write" /\ new.pos = pos /\ new.at = q.at /\ new.ops = q.ops
          /\ new.did = q.did /\ new.mine = q.mine /\ new.copy = q.copy /\ new.shares = q.shares
          /\ new.advisory = q.advisory /\ ~new.broken
      BY <1>5, <2>2, <2>3 DEF Request, Stages
    <2> HIDE DEF new
    <2>5. Seen(new) = Seen(before)
      BY <1>6, <2>4 DEF Seen
    <2>6. Gains(r, new)
      BY <1>7, <2>4 DEF Gains
    <2>7. Step(r, new)
      BY <1>5, <2>4, <2>6 DEF Step
    <2>8. Aims(new, o)
      BY <1>3, <1>5, <2>2, <2>4, <2>5 DEF Aims, Siblings
    <2>9. Lasts(r, new)
      BY <1>4, <1>5, <2>4, <2>5, <2>8 DEF Lasts
    <2> QED
      BY <2>1, <2>4, <2>7, <2>9
  <1> QED
    BY <1>8, <1>9

\* The INSERT and the UPDATE of a move, of which `with` is the request with the
\* new row.
LEMMA PutStep ==
  ASSUME TypeOK, NEW r \in Requests, requests[r].pc = "write", Knows(requests[r], Current(r)),
         WaitsFor(r) = {}, Current(r).kind \in {"insert", "move"},
         Current(r).kind = "insert" => ~View(r)[Current(r).block].present,
         Has(View(r), Current(r).parent),
         NEW ver, ver = IF Current(r).kind = "insert" THEN 1 ELSE View(r)[Current(r).block].ver + 1,
         NEW with \in Request,
         with.mine = requests[r].mine \cup {Current(r).block},
         with.copy = [requests[r].copy EXCEPT ![Current(r).block] =
                        [present |-> TRUE, parent |-> Current(r).parent, pos |-> requests[r].pos,
                         depth |-> requests[r].depth, ver |-> ver]],
         with.shares = requests[r].shares \cup ({Current(r).parent} \ {Root}),
         with.advisory = requests[r].advisory, with.at = requests[r].at, with.ops = requests[r].ops,
         with.did = requests[r].did, with.broken = requests[r].broken
  PROVE  LET q == Applied(r, with, ver) IN Step(r, q) /\ Put(r, q) /\ ~q.broken
  <1> DEFINE before == requests[r]
             o == Current(r)
             q == Applied(r, with, ver)
             row == [present |-> TRUE, parent |-> o.parent, pos |-> before.pos,
                     depth |-> before.depth, ver |-> ver]
  <1>1. o \in Op /\ before \in Request /\ o.block \in Blocks
    BY CurrentTyped DEF Op
  <1>2. View(r) = Seen(before) /\ Seen(before) \in [Blocks -> Row]
    BY SeenIsView, ViewTyped
  <1>3. ver \in Nat
    BY <1>1, <1>2 DEF Row
  <1>4. ~before.broken /\ (o.kind = "move" => o.block \in before.mine /\ Seen(before)[o.block].present)
    BY DEF Knows
  <1>5. Seen(with) = [Seen(before) EXCEPT ![o.block] = row]
    <2>1. \A c \in Blocks : Seen(with)[c] = IF c = o.block THEN row ELSE Seen(before)[c]
      BY <1>1 DEF Seen, Request
    <2> HIDE DEF row
    <2> QED
      BY <1>1, <2>1 DEF Seen
  <1>6. Gains(r, with)
    <2>1. ASSUME NEW p \in Others(r)
          PROVE  /\ (with.mine \ before.mine) \cap requests[p].mine = {}
                 /\ (with.shares \ before.shares) \cap requests[p].mine = {}
      <3>1. CASE o.kind = "insert"
        <4>1. Writers(r, {o.block, o.parent}) = {}
          BY <3>1 DEF WaitsFor, WriteHolders
        <4>2. requests[p].mine \cap {o.block, o.parent} = {}
          BY <2>1, <4>1 DEF Writers
        <4> QED
          BY <4>2
      <3>2. CASE o.kind = "move"
        <4>1. Writers(r, {o.parent}) = {}
          BY <3>2 DEF WaitsFor, WriteHolders
        <4>2. requests[p].mine \cap {o.parent} = {}
          BY <2>1, <4>1 DEF Writers
        <4> QED
          BY <1>4, <3>2, <4>2
      <3> QED
        BY <3>1, <3>2
    <2>2. ASSUME NEW b \in with.mine, ~with.copy[b].present
          PROVE  b \in before.mine /\ ~before.copy[b].present
      BY <1>1, <2>2 DEF Request
    <2> QED
      BY <2>1, <2>2 DEF Gains
  <1>7. /\ Step(r, q) /\ Past(before, q) /\ Seen(q) = Seen(with)
        /\ q.mine = with.mine /\ q.shares = with.shares /\ ~q.broken
    BY <1>3, <1>4, <1>6, AppliedStep
  <1> HIDE DEF q
  <1>8. Put(r, q)
    BY <1>2, <1>5, <1>7 DEF Put
  <1> QED
    BY <1>7, <1>8 DEF q

\* The statement that writes.
LEMMA WriteStep ==
  ASSUME TypeOK, NEW r \in Requests, Write(r), Knows(requests[r], Current(r))
  PROVE  \/ Goto(r, Raised(requests[r]))
         \/ \E q : /\ Goto(r, q) /\ Step(r, q)
                   /\ Passed(r, q) \/ (~q.broken /\ (Put(r, q) \/ Dropped(r, q)))
  <1> DEFINE before == requests[r]
             o == Current(r)
             v == View(r)
             goal == \/ Goto(r, Raised(requests[r]))
                     \/ \E q : /\ Goto(r, q) /\ Step(r, q)
                               /\ Passed(r, q) \/ (~q.broken /\ (Put(r, q) \/ Dropped(r, q)))
  <1>1. before.pc = "write" /\ WaitsFor(r) = {} /\ before.pc \in {"op", "place", "write"}
    BY DEF Write
  <1>2. o \in Op /\ before \in Request /\ before.at \in 1 .. Len(before.ops) /\ o.block \in Blocks
    BY <1>1, CurrentTyped DEF Op
  <1>3. v \in [Blocks -> Row] /\ v = Seen(before) /\ NoRow \in Row
    BY ViewTyped, SeenIsView
  <1>4. ~before.broken /\ (o.kind = "move" => o.block \in before.mine /\ v[o.block].present)
    BY <1>1, <1>3 DEF Knows
  <1>5. Gains(r, before)
    <2>1. \A b \in before.mine : before.copy[b] = Seen(before)[b]
      BY <1>2 DEF Seen, Request
    <2> QED
      BY <2>1 DEF Gains
  <1>6. ASSUME NEW q, q = [Onward(before) EXCEPT !.broken = TRUE], Goto(r, q)
        PROVE  goal
    <2> DEFINE on == Onward(before)
    <2>1. Step(r, on) /\ Passed(r, on) /\ on \in Request /\ on.did = before.did
      BY <1>1, <1>2, <1>5, OnwardStep, OnwardTyped
    <2>2. q = [on EXCEPT !.broken = TRUE]
      BY <1>6
    <2> HIDE DEF on
    <2>3. /\ q \in Request /\ q.pc = on.pc /\ q.at = on.at /\ q.ops = on.ops /\ q.mine = on.mine
          /\ q.copy = on.copy /\ q.shares = on.shares /\ q.advisory = on.advisory /\ q.did = on.did
      BY <2>1, <2>2 DEF Request
    <2>4. Seen(q) = Seen(on)
      BY <2>3 DEF Seen
    <2>5. Step(r, q)
      BY <2>1, <2>3 DEF Step, Gains
    <2>6. Passed(r, q)
      BY <2>1, <2>3, <2>4 DEF Passed, Past
    <2> QED
      BY <1>6, <2>5, <2>6
  <1>7. CASE InsertBlock(r)
    <2> DEFINE new == [present |-> TRUE, parent |-> o.parent, pos |-> before.pos,
                       depth |-> before.depth, ver |-> 1]
               with == [before EXCEPT !.mine = @ \cup {o.block}, !.copy[o.block] = new,
                                      !.shares = @ \cup ({o.parent} \ {Root})]
    <2>1. o.kind = "insert"
      BY <1>7 DEF InsertBlock
    <2>2. \/ Goto(r, [Onward(before) EXCEPT !.broken = TRUE])
          \/ Goto(r, Raised(before))
          \/ ~v[o.block].present /\ Has(v, o.parent) /\ Goto(r, Applied(r, with, 1))
      BY <1>7 DEF InsertBlock, Conflict
    <2>3. ASSUME ~v[o.block].present, Has(v, o.parent) PROVE LET q == Applied(r, with, 1) IN Step(r, q) /\ Put(r, q) /\ ~q.broken
      <3>1. new \in Row /\ before.copy \in [Blocks -> Row]
        BY <1>2 DEF Row, Op, Request
      <3>2. [before.copy EXCEPT ![o.block] = new] \in [Blocks -> Row]
        BY <3>1
      <3>3. with = [before EXCEPT !.mine = @ \cup {o.block}, !.copy = [before.copy EXCEPT ![o.block] = new],
                                  !.shares = @ \cup ({o.parent} \ {Root})]
        BY <1>2 DEF Request
      <3>4. {o.parent} \ {Root} \subseteq Blocks
        BY <1>2 DEF Op, Parents
      <3> DEFINE copy == [before.copy EXCEPT ![o.block] = new]
      <3>5. with = [before EXCEPT !.mine = @ \cup {o.block}, !.copy = copy, !.shares = @ \cup ({o.parent} \ {Root})]
        BY <3>3
      <3> HIDE DEF with
      <3>6. with \in Request /\ with.copy = copy
        <4> HIDE DEF copy
        <4> QED
          BY <1>2, <3>2, <3>4, <3>5 DEF Request, copy
      <3>7. /\ with.mine = before.mine \cup {o.block} /\ with.shares = before.shares \cup ({o.parent} \ {Root})
            /\ with.advisory = before.advisory /\ with.at = before.at /\ with.ops = before.ops
            /\ with.did = before.did /\ with.broken = before.broken
        BY <1>2, <3>5 DEF Request
      <3> QED
        BY <1>1, <2>1, <2>3, <3>6, <3>7, PutStep
    <2> HIDE DEF with
    <2> QED
      BY <1>6, <2>2, <2>3
  <1>8. CASE MoveBlock(r)
    <2> DEFINE ver == v[o.block].ver + 1
               new == [present |-> TRUE, parent |-> o.parent, pos |-> before.pos,
                       depth |-> before.depth, ver |-> ver]
               with == [before EXCEPT !.shares = @ \cup ({o.parent} \ {Root}), !.copy[o.block] = new]
    <2>1. o.kind = "move"
      BY <1>8 DEF MoveBlock
    <2>2. \/ Goto(r, [Onward(before) EXCEPT !.broken = TRUE])
          \/ Goto(r, Raised(before))
          \/ Has(v, o.parent) /\ Goto(r, Applied(r, with, ver))
      BY <1>8 DEF MoveBlock, Conflict
    <2>3. ASSUME Has(v, o.parent) PROVE LET q == Applied(r, with, ver) IN Step(r, q) /\ Put(r, q) /\ ~q.broken
      <3>0. ver \in Nat
        BY <1>2, <1>3 DEF Row
      <3>1. new \in Row /\ before.copy \in [Blocks -> Row]
        <4> HIDE DEF ver
        <4> QED
          BY <1>2, <3>0 DEF Row, Op, Request
      <3>2. [before.copy EXCEPT ![o.block] = new] \in [Blocks -> Row]
        BY <3>1
      <3>3. with = [before EXCEPT !.shares = @ \cup ({o.parent} \ {Root}),
                                  !.copy = [before.copy EXCEPT ![o.block] = new]]
        BY <1>2 DEF Request
      <3>4. {o.parent} \ {Root} \subseteq Blocks
        BY <1>2 DEF Op, Parents
      <3> DEFINE copy == [before.copy EXCEPT ![o.block] = new]
      <3>5. with = [before EXCEPT !.shares = @ \cup ({o.parent} \ {Root}), !.copy = copy]
        BY <3>3
      <3> HIDE DEF with
      <3>6. with \in Request /\ with.copy = copy
        <4> HIDE DEF copy
        <4> QED
          BY <1>2, <3>2, <3>4, <3>5 DEF Request, copy
      <3>7. /\ with.mine = before.mine \cup {o.block} /\ with.shares = before.shares \cup ({o.parent} \ {Root})
            /\ with.advisory = before.advisory /\ with.at = before.at /\ with.ops = before.ops
            /\ with.did = before.did /\ with.broken = before.broken
        BY <1>2, <1>4, <2>1, <3>5 DEF Request
      <3> QED
        BY <1>1, <2>1, <2>3, <3>6, <3>7, PutStep
    <2> HIDE DEF with, ver
    <2> QED
      BY <1>6, <2>2, <2>3
  <1>9. CASE DeleteBlock(r)
    <2> DEFINE all == Subtree(v, o.block)
               copy == [b \in Blocks |-> IF b \in all THEN NoRow ELSE before.copy[b]]
               with == [before EXCEPT !.mine = @ \cup all, !.copy = copy]
               ver == v[o.block].ver + 1
               q == Applied(r, with, ver)
    <2>1. o.kind = "delete" /\ Goto(r, q)
      BY <1>9 DEF DeleteBlock
    <2>2. all \subseteq Blocks /\ ver \in Nat
      BY <1>2, <1>3 DEF Subtree, Row
    <2>3. copy \in [Blocks -> Row] /\ \A b \in Blocks : copy[b] = IF b \in all THEN NoRow ELSE before.copy[b]
      BY <1>2, <1>3 DEF Request
    <2>4. \A p \in Others(r) : requests[p].mine \cap all = {} /\ requests[p].shares \cap all = {}
      <3>1. Writers(r, all) \cup Sharers(r, all) = {}
        BY <1>1, <2>1 DEF WaitsFor, WriteHolders
      <3> QED
        BY <3>1 DEF Writers, Sharers
    <2> HIDE DEF copy, ver
    <2>5. /\ with \in Request /\ with.mine = before.mine \cup all /\ with.copy = copy
          /\ with.shares = before.shares /\ with.advisory = before.advisory /\ with.at = before.at
          /\ with.ops = before.ops /\ with.did = before.did /\ ~with.broken
      BY <1>2, <1>4, <2>2, <2>3 DEF Request
    <2> HIDE DEF with
    <2>6. Seen(with) = [b \in Blocks |-> IF b \in all THEN NoRow ELSE Seen(before)[b]]
      <3>1. \A b \in Blocks : Seen(with)[b] = IF b \in all THEN NoRow ELSE Seen(before)[b]
        BY <2>2, <2>3, <2>5 DEF Seen
      <3> QED
        BY <3>1 DEF Seen
    <2>7. Gains(r, with)
      <3>1. ASSUME NEW b \in with.mine, ~with.copy[b].present, b \notin all
            PROVE  b \in before.mine /\ ~before.copy[b].present
        <4>1. b \in Blocks
          BY <2>5 DEF Request
        <4> QED
          BY <2>3, <2>5, <3>1, <4>1
      <3> QED
        BY <2>4, <2>5, <3>1 DEF Gains
    <2>8. /\ Step(r, q) /\ Past(before, q) /\ Seen(q) = Seen(with) /\ q.mine = with.mine /\ ~q.broken
      BY <1>1, <2>2, <2>5, <2>7, AppliedStep
    <2> HIDE DEF q, all
    <2>9. Dropped(r, q)
      BY <1>1, <1>3, <2>1, <2>4, <2>5, <2>6, <2>8 DEF Dropped, all
    <2> QED
      BY <2>1, <2>8, <2>9
  <1> QED
    BY <1>7, <1>8, <1>9 DEF Write

-----------------------------------------------------------------------------
(* The locks.                                                              *)

Running == {"op", "place", "write", "commit"}

\* No two requests have written one row, or have one parent's advisory lock; and
\* a row that another request has a key-share lock on is not deleted.
Compatible(p, q) ==
  /\ p.mine \cap q.mine = {}
  /\ p.advisory \cap q.advisory = {}
  /\ \A b \in p.mine \cap q.shares : p.copy[b].present

\* A row that a request sees where it is not committed is one that the request
\* has put there, under the advisory lock of the parent.
Written(q) ==
  \A b \in Blocks : Seen(q)[b].present =>
    \/ rows[b].present /\ rows[b].parent = Seen(q)[b].parent /\ rows[b].pos = Seen(q)[b].pos
    \/ b \in q.mine /\ Seen(q)[b].parent \in q.advisory

Distinct(tree) ==
  \A b, c \in Blocks :
    b # c /\ tree[b].present /\ tree[c].present /\ tree[b].parent = tree[c].parent
      => tree[b].pos # tree[c].pos

LockInv ==
  /\ \A r \in Requests : requests[r].pc \notin Running =>
       requests[r].mine = {} /\ requests[r].shares = {} /\ requests[r].advisory = {}
  /\ \A r, p \in Requests : r # p => Compatible(requests[r], requests[p])
  /\ \A r \in Requests :
       Written(requests[r]) /\ Knows(requests[r], Current(r)) /\ Distinct(Seen(requests[r]))
  /\ Distinct(rows)

-----------------------------------------------------------------------------
(* What the system does in a step.                                         *)

\* A step of a transaction that stays in it.
Works(r, q) ==
  \/ ~q.broken /\ (Lasts(r, q) \/ Bumped(r, q) \/ Put(r, q) \/ Dropped(r, q))
  \/ Passed(r, q)

Working(r) ==
  /\ requests[r].pc \in {"op", "place", "write"} /\ ~requests[r].broken
  /\ \E q : Goto(r, q) /\ Step(r, q) /\ Works(r, q)
  /\ UNCHANGED <<rows, stream, archive, settled>>

\* The frame has come.
Submits(r) ==
  /\ requests[r].pc = "idle"
  /\ \E ops \in Seq(Op) : /\ Len(ops) \in 1 .. MaxOps
                          /\ Goto(r, [NoRequest EXCEPT !.pc = "op", !.ops = ops])
  /\ UNCHANGED <<rows, stream, archive, settled>>

\* The transaction is over, or has been.
Ended(before, q) ==
  /\ q \in Request
  /\ q.pc \notin Running /\ q.pc \notin {"idle", "xadd"}
  /\ q.mine = {} /\ q.shares = {} /\ q.advisory = {}
  /\ q.ops = before.ops /\ q.did = before.did /\ q.broken = before.broken

Ending ==
  /\ requests' \in [Requests -> Request]
  /\ \A p \in Requests : requests'[p] = requests[p] \/ Ended(requests[p], requests'[p])
  /\ UNCHANGED <<rows, settled>>
  /\ archive' \subseteq Requests
  /\ \/ stream' = stream
     \/ \E r \in Requests : requests[r].pc = "xadd" /\ stream' = Append(stream, requests[r].did)

Idles == \A r \in Requests : requests[r].pc = "idle" => requests[r] = NoRequest

LEMMA WorkStep ==
  ASSUME TypeOK, NEW r \in Requests, Knows(requests[r], Current(r)),
         Begin(r) \/ Place(r) \/ Write(r)
  PROVE  Working(r) \/ (Goto(r, Raised(requests[r])) /\ UNCHANGED <<rows, stream, archive, settled>>)
  <1>1. CASE Begin(r)
    <2>1. /\ requests[r].pc = "op" /\ ~requests[r].broken /\ WaitsFor(r) = {}
          /\ InsertChecks(r) \/ Checked(r) \/ UpdateContent(r)
          /\ UNCHANGED <<rows, stream, archive, settled>>
      BY <1>1 DEF Begin
    <2>2. \E q : Goto(r, q) /\ Step(r, q) /\ Works(r, q)
      BY <2>1, InsertChecksStep, CheckedStep, UpdateContentStep DEF Works
    <2> QED
      BY <2>1, <2>2 DEF Working
  <1>2. CASE Place(r)
    <2>1. requests[r].pc = "place" /\ UNCHANGED <<rows, stream, archive, settled>> /\ ~requests[r].broken
      BY <1>2 DEF Place, Knows
    <2>2. \E q : Goto(r, q) /\ Step(r, q) /\ Works(r, q)
      BY <1>2, PlaceStep DEF Works
    <2> QED
      BY <2>1, <2>2 DEF Working
  <1>3. CASE Write(r)
    <2>1. requests[r].pc = "write" /\ UNCHANGED <<rows, stream, archive, settled>> /\ ~requests[r].broken
      BY <1>3 DEF Write, Knows
    <2>2. \/ Goto(r, Raised(requests[r]))
          \/ \E q : Goto(r, q) /\ Step(r, q) /\ Works(r, q)
      BY <1>3, WriteStep DEF Works
    <2> QED
      BY <2>1, <2>2 DEF Working
  <1> QED
    BY <1>1, <1>2, <1>3

LEMMA SubmitStep ==
  ASSUME TypeOK, Idles, NEW r \in Requests, Submit(r)
  PROVE  Submits(r)
  <1>1. requests[r].pc = "idle" /\ requests[r] = NoRequest /\ UNCHANGED <<rows, stream, archive, settled>>
    BY DEF Submit, Idles
  <1>2. PICK n \in 1 .. MaxOps : \E ops \in [1 .. n -> {o \in Submitted : Sensible(o)}] :
          Goto(r, [requests[r] EXCEPT !.pc = "op", !.ops = ops])
    BY DEF Submit
  <1>2a. PICK ops \in [1 .. n -> {o \in Submitted : Sensible(o)}] :
           Goto(r, [requests[r] EXCEPT !.pc = "op", !.ops = ops])
    BY <1>2
  <1>3. \A b \in Blocks : rows[b].ver \in Nat
    BY DEF TypeOK, Row
  <1>4. Submitted \subseteq Op
    BY <1>3 DEF Submitted, Op, AllKinds, Parents
  <1>5. n \in Nat /\ ops \in [1 .. n -> Op]
    BY <1>4, OpsAssumption
  <1>6. ops \in Seq(Op) /\ Len(ops) = n
    BY <1>5
  <1> QED
    BY <1>1, <1>2a, <1>6 DEF Submits

LEMMA RaisedEnds ==
  ASSUME TypeOK, NEW r \in Requests, Goto(r, Raised(requests[r])),
         UNCHANGED <<rows, settled, stream>>, archive' \subseteq Requests
  PROVE  Ending
  <1>1. requests \in [Requests -> Request] /\ requests[r] \in Request
    BY DEF TypeOK
  <1>2. Ended(requests[r], Raised(requests[r]))
    BY <1>1, ReleasedTyped DEF Ended, Running
  <1> QED
    BY <1>1, <1>2 DEF Ending, Goto, Ended

\* After the commit nothing is locked, and a request goes on to another stage.
LEMMA AfterCommitEnds ==
  ASSUME TypeOK, LockInv, NEW r \in Requests, NEW pc \in {"record", "publish", "answer", "done"},
         requests[r].pc \in {"xadd", "record", "publish", "answer"},
         NEW reply \in {"none", "ack", "nack"},
         NEW q, q = [requests[r] EXCEPT !.pc = pc, !.reply = reply],
         Goto(r, q)
  PROVE  requests' \in [Requests -> Request]
         /\ \A p \in Requests : requests'[p] = requests[p] \/ Ended(requests[p], requests'[p])
  <1>1. requests \in [Requests -> Request] /\ requests[r] \in Request
    BY DEF TypeOK
  <1>2. requests[r].mine = {} /\ requests[r].shares = {} /\ requests[r].advisory = {}
    BY DEF LockInv, Running
  <1>3. q \in Request
    BY <1>1 DEF Request, Stages
  <1>4. Ended(requests[r], q)
    BY <1>1, <1>2, <1>3 DEF Ended, Running, Request
  <1> QED
    BY <1>1, <1>3, <1>4 DEF Goto

LEMMA NextCases ==
  ASSUME TypeOK, LockInv, Idles, [Next]_vars
  PROVE  \/ \E r \in Requests : Submits(r) \/ Working(r) \/ Commit(r)
         \/ Ending
  <1> DEFINE goal == \/ \E r \in Requests : Submits(r) \/ Working(r) \/ Commit(r)
                     \/ Ending
  <1>0. archive \subseteq Requests /\ requests \in [Requests -> Request]
    BY DEF TypeOK
  <1>1. CASE UNCHANGED vars
    BY <1>0, <1>1 DEF vars, Ending
  <1>2. ASSUME NEW r \in Requests, Submit(r) PROVE goal
    BY <1>2, SubmitStep
  <1>3. ASSUME NEW r \in Requests, Begin(r) \/ Place(r) \/ Write(r) PROVE goal
    <2>1. Knows(requests[r], Current(r))
      BY DEF LockInv
    <2> QED
      BY <1>0, <1>3, <2>1, WorkStep, RaisedEnds
  <1>4. ASSUME NEW r \in Requests, FailsOn(r) \/ Deadlock(r) PROVE goal
    BY <1>0, <1>4, RaisedEnds DEF FailsOn, Deadlock
  <1>5. ASSUME NEW r \in Requests, Xadd(r) PROVE goal
    <2>1. [requests[r] EXCEPT !.pc = "record"] =
            [requests[r] EXCEPT !.pc = "record", !.reply = requests[r].reply]
      BY <1>0 DEF Request
    <2>2. requests[r].reply \in {"none", "ack", "nack"}
      BY <1>0 DEF Request
    <2> QED
      BY <1>0, <1>5, <2>1, <2>2, AfterCommitEnds DEF Xadd, Ending
  <1>6. ASSUME NEW r \in Requests, Record(r) \/ Publish(r) \/ XaddFails(r) \/ PublishFails(r) PROVE goal
    <2>1. \A pc : [requests[r] EXCEPT !.pc = pc] = [requests[r] EXCEPT !.pc = pc, !.reply = requests[r].reply]
      BY <1>0 DEF Request
    <2>2. requests[r].reply \in {"none", "ack", "nack"}
      BY <1>0 DEF Request
    <2>3. PICK pc \in {"record", "publish", "answer", "done"} : Goto(r, [requests[r] EXCEPT !.pc = pc])
      BY <1>6 DEF Record, Publish, XaddFails, PublishFails
    <2>4. requests[r].pc \in {"xadd", "record", "publish", "answer"} /\ UNCHANGED <<rows, stream, settled>>
          /\ archive' \subseteq Requests
      BY <1>0, <1>6 DEF Record, Publish, XaddFails, PublishFails
    <2> QED
      BY <2>1, <2>2, <2>3, <2>4, AfterCommitEnds DEF Ending
  <1>7. ASSUME NEW r \in Requests, Answer(r) PROVE goal
    BY <1>0, <1>7, AfterCommitEnds DEF Answer, Ending
  <1>8. ASSUME NEW r \in Requests, RecordFails(r) PROVE goal
    BY <1>0, <1>8, RaisedEnds DEF RecordFails
  <1>9. CASE Crash
    <2>1. requests' \in [Requests -> Request]
      BY <1>0, <1>9, ReleasedTyped DEF Crash
    <2>2. ASSUME NEW p \in Requests PROVE requests'[p] = requests[p] \/ Ended(requests[p], requests'[p])
      BY <1>0, <1>9, ReleasedTyped DEF Crash, Ended, Running
    <2> QED
      BY <1>0, <1>9, <2>1, <2>2 DEF Crash, Ending
  <1> QED
    BY <1>1, <1>2, <1>3, <1>4, <1>5, <1>6, <1>7, <1>8, <1>9
       DEF Next, Transaction, Follow, Failure

\* The request after its COMMIT, which is a ROLLBACK if it is broken.
LEMMA CommitStep ==
  ASSUME TypeOK, NEW r \in Requests, Commit(r)
  PROVE  \E q \in Request :
           /\ Goto(r, q)
           /\ requests[r].pc = "commit" /\ q.pc \in {"answer", "xadd"}
           /\ q.mine = {} /\ q.shares = {} /\ q.advisory = {}
           /\ q.ops = requests[r].ops /\ q.did = requests[r].did /\ q.broken = requests[r].broken
           /\ UNCHANGED <<stream, archive>>
           /\ \/ requests[r].broken /\ UNCHANGED <<rows, settled>>
              \/ ~requests[r].broken /\ rows' = Seen(requests[r])
                 /\ settled' = settled \o requests[r].did
  <1> DEFINE before == requests[r]
             pc == IF before.did = <<>> THEN "answer" ELSE "xadd"
             free == Released(before)
             q == [free EXCEPT !.pc = pc]
  <1>1. before \in Request
    BY DEF TypeOK
  <1>2. /\ free \in Request /\ free.mine = {} /\ free.shares = {} /\ free.advisory = {}
        /\ free.broken = before.broken /\ free.did = before.did /\ free.ops = before.ops
    BY <1>1, ReleasedTyped
  <1>3. pc \in {"answer", "xadd"} /\ pc \in Stages
    BY DEF Stages
  <1>4. Goto(r, q) /\ before.pc = "commit" /\ UNCHANGED <<stream, archive>>
    BY DEF Commit
  <1>5. \/ before.broken /\ UNCHANGED <<rows, settled>>
        \/ ~before.broken /\ rows' = Seen(before) /\ settled' = settled \o before.did
    BY SeenIsView DEF Commit
  <1> HIDE DEF free, pc
  <1>6. /\ q \in Request /\ q.pc = pc /\ q.mine = free.mine /\ q.shares = free.shares
        /\ q.advisory = free.advisory /\ q.broken = free.broken /\ q.did = free.did /\ q.ops = free.ops
    BY <1>2, <1>3 DEF Request
  <1> HIDE DEF q
  <1> QED
    BY <1>2, <1>3, <1>4, <1>5, <1>6

LEMMA FaultsTyped ==
  ASSUME TypeOK, [Next]_vars
  PROVE  faults' \in 0 .. MaxFaults
  <1>1. faults \in 0 .. MaxFaults /\ MaxFaults \in Nat
    BY OpsAssumption DEF TypeOK
  <1>2. faults' = faults \/ (faults < MaxFaults /\ faults' = faults + 1)
    BY DEF Next, Transaction, Follow, Failure, Submit, Begin, Place, Write, FailsOn, Commit, Deadlock,
           Xadd, Record, Publish, Answer, XaddFails, RecordFails, PublishFails, Crash, Fault, vars
  <1> QED
    BY <1>1, <1>2

\* Where a step of a transaction leaves it.
LEMMA WorksAt ==
  ASSUME TypeOK, NEW r \in Requests, requests[r].pc \in {"op", "place", "write"},
         NEW q, Step(r, q), Works(r, q)
  PROVE  /\ q.pc \in Running
         /\ q.pc \in {"op", "place", "write"} => q.at \in 1 .. Len(q.ops)
  <1>1. requests[r].at \in 1 .. Len(requests[r].ops) /\ q.ops = requests[r].ops
    BY CurrentTyped DEF Step
  <1>2. CASE Lasts(r, q)
    BY <1>1, <1>2 DEF Lasts, Running
  <1>3. CASE Past(requests[r], q)
    BY <1>1, <1>3 DEF Past, Running
  <1> QED
    BY <1>2, <1>3 DEF Works, Passed, Bumped, Put, Dropped

\* A request before its frame has nothing.
LEMMA EmptyTyped ==
  NoRequest \in Request /\ NoRequest.at = 1 /\ NoRequest.pc = "idle" /\ ~NoRequest.broken
  /\ NoRequest.mine = {} /\ NoRequest.shares = {} /\ NoRequest.advisory = {} /\ NoRequest.did = <<>>
  <1> DEFINE copy == [b \in Blocks |-> NoRow]
  <1>1. NoRow \in Row
    BY OpsAssumption DEF NoRow, Row, Parents
  <1>2. copy \in [Blocks -> Row] /\ 0 \in 0 .. Top /\ <<>> \in Seq(Op) /\ <<>> \in Seq(Change)
    BY <1>1, OpsAssumption
  <1>3. NoRequest = [pc |-> "idle", ops |-> <<>>, at |-> 1, depth |-> 0, pos |-> 0, mine |-> {},
                     copy |-> copy, shares |-> {}, advisory |-> {}, broken |-> FALSE,
                     did |-> <<>>, reply |-> "none"]
    BY Zenon DEF NoRequest
  <1> HIDE DEF copy
  <1> QED
    BY <1>2, <1>3 DEF Request, Stages

LEMMA TypeStep ==
  ASSUME TypeOK, LockInv, Idles, [Next]_vars
  PROVE  TypeOK' /\ Idles'
  <1>1. /\ rows \in [Blocks -> Row] /\ requests \in [Requests -> Request]
        /\ stream \in Seq(Seq(Change)) /\ archive \subseteq Requests /\ settled \in Seq(Change)
        /\ \A r \in Requests : requests[r].pc \in {"op", "place", "write"} =>
             requests[r].at \in 1 .. Len(requests[r].ops)
    BY DEF TypeOK
  <1>2. faults' \in 0 .. MaxFaults
    BY FaultsTyped
  <1>3. ASSUME NEW r \in Requests, Submits(r) PROVE TypeOK' /\ Idles'
    <2>1. PICK ops \in Seq(Op) : Len(ops) \in 1 .. MaxOps /\ Goto(r, [NoRequest EXCEPT !.pc = "op", !.ops = ops])
      BY <1>3 DEF Submits
    <2>2. NoRow \in Row /\ [b \in Blocks |-> NoRow] \in [Blocks -> Row] /\ 0 \in 0 .. Top
      BY OpsAssumption DEF NoRow, Row, Parents
    <2> DEFINE q == [NoRequest EXCEPT !.pc = "op", !.ops = ops]
    <2>3. q \in Request /\ q.pc = "op" /\ q.at \in 1 .. Len(q.ops)
      <3>1. NoRequest \in Request /\ NoRequest.at = 1
        BY <2>2, EmptyTyped
      <3>2. 1 \in 1 .. Len(ops)
        BY <2>1, OpsAssumption
      <3> QED
        BY <2>1, <3>1, <3>2 DEF Request, Stages
    <2> HIDE DEF q
    <2>4. requests' = [requests EXCEPT ![r] = q]
      BY <2>1 DEF Goto, q
    <2> QED
      BY <1>1, <1>2, <1>3, <2>3, <2>4 DEF Submits, TypeOK, Idles
  <1>4. ASSUME NEW r \in Requests, Working(r) PROVE TypeOK' /\ Idles'
    <2>1. PICK q : Goto(r, q) /\ Step(r, q) /\ Works(r, q)
      BY <1>4 DEF Working
    <2>2. /\ q \in Request /\ q.pc \in Running
          /\ q.pc \in {"op", "place", "write"} => q.at \in 1 .. Len(q.ops)
      BY <1>4, <2>1, WorksAt DEF Working, Step
    <2> QED
      BY <1>1, <1>2, <1>4, <2>1, <2>2 DEF Working, TypeOK, Idles, Goto, Running
  <1>5. ASSUME NEW r \in Requests, Commit(r) PROVE TypeOK' /\ Idles'
    <2>1. PICK q \in Request :
           /\ Goto(r, q) /\ q.pc \in {"answer", "xadd"}
           /\ UNCHANGED <<stream, archive>>
           /\ \/ UNCHANGED <<rows, settled>>
              \/ rows' = Seen(requests[r]) /\ settled' = settled \o requests[r].did
      BY <1>5, CommitStep
    <2>2. Seen(requests[r]) \in [Blocks -> Row]
      BY ViewTyped, SeenIsView
    <2>3. requests[r].did \in Seq(Change)
      BY <1>1 DEF Request
    <2>4. settled \o requests[r].did \in Seq(Change)
      BY <1>1, <2>3
    <2> QED
      BY <1>1, <1>2, <2>1, <2>2, <2>4 DEF TypeOK, Idles, Goto
  <1>6. CASE Ending
    <2>1. stream' \in Seq(Seq(Change))
      <3>1. \A r \in Requests : requests[r].did \in Seq(Change)
        BY <1>1 DEF Request
      <3>2. CASE stream' = stream
        BY <1>1, <3>2
      <3>3. ASSUME NEW r \in Requests, stream' = Append(stream, requests[r].did)
            PROVE  stream' \in Seq(Seq(Change))
        <4> DEFINE did == requests[r].did
        <4>1. did \in Seq(Change) /\ stream' = Append(stream, did)
          BY <3>1, <3>3
        <4> HIDE DEF did
        <4> QED
          BY <1>1, <4>1, AppendProperties
      <3> QED
        BY <1>6, <3>2, <3>3 DEF Ending
    <2>2. \A p \in Requests : requests'[p] = requests[p]
            \/ (requests'[p].pc \notin {"idle", "op", "place", "write"})
      BY <1>6 DEF Ending, Ended, Running
    <2>3. /\ requests' \in [Requests -> Request] /\ rows' = rows /\ settled' = settled
          /\ archive' \subseteq Requests
      BY <1>6 DEF Ending
    <2> QED
      BY <1>1, <1>2, <2>1, <2>2, <2>3 DEF TypeOK, Idles
  <1> QED
    BY <1>3, <1>4, <1>5, <1>6, NextCases

\* The locks of a request that has gained some.
LEMMA WorksCompatible ==
  ASSUME TypeOK, LockInv, NEW r \in Requests, NEW q, Step(r, q), NEW p \in Requests, p # r
  PROVE  Compatible(q, requests[p]) /\ Compatible(requests[p], q)
  <1> DEFINE before == requests[r]
             other == requests[p]
  <1>1. Compatible(before, other) /\ Compatible(other, before)
    BY DEF LockInv
  <1>2. p \in Others(r)
    BY DEF Others
  <1>3. /\ (q.mine \ before.mine) \cap other.mine = {}
        /\ (q.shares \ before.shares) \cap other.mine = {}
        /\ (q.advisory \ before.advisory) \cap other.advisory = {}
        /\ \A b \in q.mine : ~q.copy[b].present =>
             (b \in before.mine /\ ~before.copy[b].present) \/ b \notin other.shares
    BY <1>2 DEF Step, Gains
  <1> HIDE DEF before, other
  <1>4. Compatible(q, other)
    BY <1>1, <1>3 DEF Compatible
  <1>5. Compatible(other, q)
    BY <1>1, <1>3 DEF Compatible
  <1> QED
    BY <1>4, <1>5 DEF other

\* What a request sees after a step, block by block.
LEMMA WorksSeen ==
  ASSUME TypeOK, LockInv, NEW r \in Requests, requests[r].pc \in {"op", "place", "write"},
         NEW q, Step(r, q), Works(r, q)
  PROVE  Written(q) /\ Distinct(Seen(q))
  <1> DEFINE before == requests[r]
             o == Current(r)
             old == Seen(before)
             new == Seen(q)
  <1>1. /\ before.mine \subseteq q.mine /\ before.advisory \subseteq q.advisory
    BY DEF Step, Gains
  <1>2. old \in [Blocks -> Row] /\ o \in Op /\ NoRow \in Row
    BY ViewTyped, SeenIsView, CurrentTyped
  <1>3. Written(before) /\ Distinct(old) /\ Knows(before, o)
    BY DEF LockInv
  <1>4. CASE Lasts(r, q) \/ Passed(r, q)
    <2>1. new = old
      BY <1>4 DEF Lasts, Passed
    <2> QED
      BY <1>1, <1>3, <2>1 DEF Written
  <1>5. CASE Bumped(r, q)
    <2>1. new = [old EXCEPT ![o.block].ver = @ + 1]
      BY <1>5 DEF Bumped
    <2>2. \A b \in Blocks : /\ new[b].present = old[b].present /\ new[b].parent = old[b].parent
                            /\ new[b].pos = old[b].pos
      <3> HIDE DEF new, old
      <3> QED
        BY <1>2, <2>1 DEF Row
    <2> HIDE DEF new, old
    <2>3. Distinct(new)
      BY <1>3, <2>2 DEF Distinct
    <2>4. Written(q)
      BY <1>1, <1>3, <2>2 DEF Written, new, old
    <2> QED
      BY <2>3, <2>4 DEF new
  <1>6. CASE Put(r, q)
    <2>1. /\ before.pc = "write" /\ o.kind \in {"insert", "move"} /\ o.block \in q.mine
          /\ \E ver : new = [old EXCEPT ![o.block] =
               [present |-> TRUE, parent |-> o.parent, pos |-> before.pos, depth |-> before.depth,
                ver |-> ver]]
      BY <1>6 DEF Put
    <2>2. Aims(before, o)
      BY <1>3, <2>1 DEF Knows
    <2>3. /\ o.parent \in q.advisory
          /\ \A b \in Blocks \ {o.block} :
               old[b].present /\ old[b].parent = o.parent => old[b].pos # before.pos
      BY <1>1, <2>2 DEF Aims
    <2>4. \A b \in Blocks :
            IF b = o.block THEN new[b].present /\ new[b].parent = o.parent /\ new[b].pos = before.pos
            ELSE new[b] = old[b]
      <3> HIDE DEF new, old
      <3> QED
        BY <1>2, <2>1
    <2> HIDE DEF new, old
    <2>5. Distinct(new)
      BY <1>3, <2>3, <2>4 DEF Distinct
    <2>6. Written(q)
      BY <1>1, <1>3, <2>1, <2>3, <2>4 DEF Written, new, old
    <2> QED
      BY <2>5, <2>6 DEF new
  <1>7. CASE Dropped(r, q)
    <2>1. PICK all : new = [b \in Blocks |-> IF b \in all THEN NoRow ELSE old[b]]
      BY <1>7 DEF Dropped
    <2>2. \A b \in Blocks : ~new[b].present \/ new[b] = old[b]
      <3> HIDE DEF new, old
      <3> QED
        BY <2>1 DEF NoRow
    <2> HIDE DEF new, old
    <2>3. Distinct(new)
      BY <1>3, <2>2 DEF Distinct
    <2>4. Written(q)
      BY <1>1, <1>3, <2>2 DEF Written, new, old
    <2> QED
      BY <2>3, <2>4 DEF new
  <1> QED
    BY <1>4, <1>5, <1>6, <1>7 DEF Works

LEMMA WorksKnows ==
  ASSUME TypeOK, LockInv, NEW r \in Requests, requests[r].pc \in {"op", "place", "write"},
         NEW q, Step(r, q), Works(r, q)
  PROVE  Knows(q, q.ops[q.at])
  <1>1. CASE q.pc \notin {"place", "write"}
    BY <1>1 DEF Knows
  <1>2. CASE q.pc \in {"place", "write"}
    <2>1. Lasts(r, q) /\ ~q.broken
      BY <1>2 DEF Works, Past, Passed, Bumped, Put, Dropped
    <2>2. q.ops[q.at] = Current(r)
      BY <2>1 DEF Lasts, Step, Current
    <2>3. Knows(q, Current(r))
      BY <1>2, <2>1 DEF Knows, Lasts
    <2> QED
      BY <2>2, <2>3
  <1> QED
    BY <1>1, <1>2

LEMMA LockWork ==
  ASSUME TypeOK, LockInv, NEW r \in Requests, Working(r)
  PROVE  LockInv'
  <1>1. PICK q : Goto(r, q) /\ Step(r, q) /\ Works(r, q)
    BY DEF Working
  <1>2. requests[r].pc \in {"op", "place", "write"} /\ rows' = rows
    BY DEF Working
  <1>3. requests' = [requests EXCEPT ![r] = q] /\ requests \in [Requests -> Request]
    BY <1>1 DEF Goto, TypeOK
  <1>4. q.pc \in Running
    BY <1>1, <1>2, WorksAt
  <1>5. \A p \in Requests \ {r} : Compatible(q, requests[p]) /\ Compatible(requests[p], q)
    BY <1>1, WorksCompatible
  <1>6. Written(q) /\ Distinct(Seen(q)) /\ Knows(q, q.ops[q.at])
    BY <1>1, <1>2, WorksSeen, WorksKnows
  <1>7. \A p \in Requests : requests'[p] = IF p = r THEN q ELSE requests[p]
    BY <1>3
  <1>8. \A x : Seen(x)' = Seen(x)
    BY <1>2 DEF Seen
  <1>9. ASSUME NEW p \in Requests
        PROVE  (Written(requests[p]) /\ Knows(requests[p], Current(p)) /\ Distinct(Seen(requests[p])))'
    <2>1. CASE p = r
      <3>1. requests'[p] = q
        BY <1>7, <2>1
      <3>2. Written(requests[p])'
        BY <1>2, <1>6, <3>1 DEF Written, Seen
      <3>3. Distinct(Seen(requests[p]))'
        BY <1>2, <1>6, <3>1 DEF Distinct, Seen
      <3>4. Knows(requests[p], Current(p))'
        BY <1>2, <1>6, <3>1 DEF Knows, Aims, Seen, Current
      <3> QED
        BY <3>2, <3>3, <3>4
    <2>2. CASE p # r
      <3>1. Written(requests[p]) /\ Knows(requests[p], Current(p)) /\ Distinct(Seen(requests[p]))
        BY DEF LockInv
      <3> QED
        BY <1>2, <1>7, <2>2, <3>1 DEF Written, Knows, Aims, Seen, Current
    <2> QED
      BY <2>1, <2>2
  <1>10. \A p \in Requests : requests'[p].pc \notin Running =>
           requests'[p].mine = {} /\ requests'[p].shares = {} /\ requests'[p].advisory = {}
    BY <1>4, <1>7 DEF LockInv
  <1>11. \A p, s \in Requests : p # s => Compatible(requests'[p], requests'[s])
    BY <1>5, <1>7 DEF LockInv
  <1>12. Distinct(rows)'
    BY <1>2 DEF LockInv, Distinct
  <1> QED
    BY <1>9, <1>10, <1>11, <1>12 DEF LockInv, Compatible

\* A request without locks sees what is committed.
LEMMA FreeSees ==
  ASSUME TypeOK, NEW q, q.mine = {}
  PROVE  Seen(q) = rows
  BY DEF Seen, TypeOK

LEMMA LockSubmit ==
  ASSUME TypeOK, LockInv, Idles, NEW r \in Requests, Submits(r)
  PROVE  LockInv'
  <1>1. PICK ops \in Seq(Op) : Goto(r, [NoRequest EXCEPT !.pc = "op", !.ops = ops])
    BY DEF Submits
  <1> DEFINE q == [NoRequest EXCEPT !.pc = "op", !.ops = ops]
  <1>2. /\ q.pc = "op" /\ q.mine = {} /\ q.shares = {} /\ q.advisory = {}
    BY EmptyTyped DEF Request
  <1> HIDE DEF q
  <1>3. rows' = rows /\ requests' = [requests EXCEPT ![r] = q] /\ requests \in [Requests -> Request]
    BY <1>1 DEF Submits, Goto, TypeOK, q
  <1>4. \A p \in Requests : requests'[p] = IF p = r THEN q ELSE requests[p]
    BY <1>3
  <1>5. ASSUME NEW p \in Requests
        PROVE  (Written(requests[p]) /\ Knows(requests[p], Current(p)) /\ Distinct(Seen(requests[p])))'
    <2>1. CASE p = r
      <3>1. requests'[p] = q
        BY <1>4, <2>1
      <3>2. Written(requests[p])'
        BY <1>2, <1>3, <3>1 DEF Written, Seen
      <3>3. Distinct(Seen(requests[p]))'
        BY <1>2, <1>3, <3>1 DEF Distinct, Seen, LockInv
      <3>4. Knows(requests[p], Current(p))'
        BY <1>2, <3>1 DEF Knows
      <3> QED
        BY <3>2, <3>3, <3>4
    <2>2. CASE p # r
      <3>1. Written(requests[p]) /\ Knows(requests[p], Current(p)) /\ Distinct(Seen(requests[p]))
        BY DEF LockInv
      <3> QED
        BY <1>3, <1>4, <2>2, <3>1 DEF Written, Knows, Aims, Seen, Current
    <2> QED
      BY <2>1, <2>2
  <1>6. \A p \in Requests : requests'[p].pc \notin Running =>
           requests'[p].mine = {} /\ requests'[p].shares = {} /\ requests'[p].advisory = {}
    BY <1>2, <1>4 DEF LockInv
  <1>7. \A p, s \in Requests : p # s => Compatible(requests'[p], requests'[s])
    BY <1>2, <1>4 DEF LockInv, Compatible
  <1>8. Distinct(rows)'
    BY <1>3 DEF LockInv, Distinct
  <1> QED
    BY <1>5, <1>6, <1>7, <1>8 DEF LockInv, Compatible

LEMMA LockEnding ==
  ASSUME TypeOK, LockInv, Ending
  PROVE  LockInv'
  <1>1. rows' = rows
    BY DEF Ending
  <1>2. \A p \in Requests :
          \/ requests'[p] = requests[p]
          \/ /\ requests'[p].pc \notin Running
             /\ requests'[p].mine = {} /\ requests'[p].shares = {} /\ requests'[p].advisory = {}
    BY DEF Ending, Ended
  <1>3. ASSUME NEW p \in Requests
        PROVE  (Written(requests[p]) /\ Knows(requests[p], Current(p)) /\ Distinct(Seen(requests[p])))'
    <2>1. CASE requests'[p] = requests[p]
      <3>1. Written(requests[p]) /\ Knows(requests[p], Current(p)) /\ Distinct(Seen(requests[p]))
        BY DEF LockInv
      <3> QED
        BY <1>1, <2>1, <3>1 DEF Written, Knows, Aims, Seen, Current
    <2>2. CASE requests'[p].pc \notin Running /\ requests'[p].mine = {}
      <3>1. Written(requests[p])'
        BY <1>1, <2>2 DEF Written, Seen
      <3>2. Distinct(Seen(requests[p]))'
        BY <1>1, <2>2 DEF Distinct, Seen, LockInv
      <3>3. Knows(requests[p], Current(p))'
        BY <2>2 DEF Knows, Running
      <3> QED
        BY <3>1, <3>2, <3>3
    <2> QED
      BY <1>2, <2>1, <2>2
  <1>4. \A p \in Requests : requests'[p].pc \notin Running =>
           requests'[p].mine = {} /\ requests'[p].shares = {} /\ requests'[p].advisory = {}
    BY <1>2 DEF LockInv
  <1>5. \A p, s \in Requests : p # s => Compatible(requests'[p], requests'[s])
    BY <1>2 DEF LockInv, Compatible
  <1>6. Distinct(rows)'
    BY <1>1 DEF LockInv, Distinct
  <1> QED
    BY <1>3, <1>4, <1>5, <1>6 DEF LockInv, Compatible


\* What p sees once r has committed.
Beside(p, r) == [b \in Blocks |-> IF b \in p.mine THEN p.copy[b] ELSE Seen(r)[b]]

\* The rows that r commits are, beside those that p has written, where p has seen
\* them, or under a parent that p has not locked.
LEMMA BesideLocked ==
  ASSUME TypeOK, NEW p \in Request, NEW r \in Request, Compatible(p, r), Written(p), Written(r)
  PROVE  /\ \A b \in p.mine : Seen(r)[b] = rows[b]
         /\ \A b \in p.mine : Beside(p, r)[b] = Seen(p)[b]
         /\ \A b \in Blocks \ p.mine : Beside(p, r)[b] = Seen(r)[b]
         /\ \A b \in Blocks : Beside(p, r)[b].present =>
              \/ /\ Seen(p)[b].present /\ Seen(p)[b].parent = Beside(p, r)[b].parent
                 /\ Seen(p)[b].pos = Beside(p, r)[b].pos
              \/ b \notin p.mine /\ Beside(p, r)[b].parent \notin p.advisory
         /\ \A b \in Blocks : Beside(p, r)[b].present =>
              \/ /\ Seen(r)[b].present /\ Seen(r)[b].parent = Beside(p, r)[b].parent
                 /\ Seen(r)[b].pos = Beside(p, r)[b].pos
              \/ b \in p.mine /\ Beside(p, r)[b].parent \in p.advisory
  <1>1. p.mine \subseteq Blocks /\ r.mine \subseteq Blocks
        /\ p.mine \cap r.mine = {} /\ p.advisory \cap r.advisory = {}
    BY DEF Request, Compatible
  <1>2. \A b \in p.mine : Seen(r)[b] = rows[b]
    BY <1>1 DEF Seen
  <1>3. \A b \in p.mine : Beside(p, r)[b] = Seen(p)[b]
    BY <1>1 DEF Beside, Seen
  <1>4. \A b \in Blocks \ p.mine : Beside(p, r)[b] = Seen(r)[b] /\ Seen(p)[b] = rows[b]
    BY DEF Beside, Seen
  <1>5. ASSUME NEW b \in Blocks, Beside(p, r)[b].present
        PROVE  \/ /\ Seen(p)[b].present /\ Seen(p)[b].parent = Beside(p, r)[b].parent
                  /\ Seen(p)[b].pos = Beside(p, r)[b].pos
               \/ b \notin p.mine /\ Beside(p, r)[b].parent \notin p.advisory
    <2>1. CASE b \in p.mine
      BY <1>3, <1>5, <2>1
    <2>2. CASE b \notin p.mine
      <3>1. Seen(r)[b].present
        BY <1>4, <1>5, <2>2
      <3>2. \/ rows[b].present /\ rows[b].parent = Seen(r)[b].parent /\ rows[b].pos = Seen(r)[b].pos
            \/ Seen(r)[b].parent \in r.advisory
        BY <3>1 DEF Written
      <3> QED
        BY <1>1, <1>4, <2>2, <3>2
    <2> QED
      BY <2>1, <2>2
  <1>6. ASSUME NEW b \in Blocks, Beside(p, r)[b].present
        PROVE  \/ /\ Seen(r)[b].present /\ Seen(r)[b].parent = Beside(p, r)[b].parent
                  /\ Seen(r)[b].pos = Beside(p, r)[b].pos
               \/ b \in p.mine /\ Beside(p, r)[b].parent \in p.advisory
    <2>1. CASE b \notin p.mine
      BY <1>4, <1>6, <2>1
    <2>2. CASE b \in p.mine
      <3>1. Seen(p)[b].present
        BY <1>3, <1>6, <2>2
      <3>2. \/ rows[b].present /\ rows[b].parent = Seen(p)[b].parent /\ rows[b].pos = Seen(p)[b].pos
            \/ Seen(p)[b].parent \in p.advisory
        BY <3>1 DEF Written
      <3> QED
        BY <1>2, <1>3, <2>2, <3>2
    <2> QED
      BY <2>1, <2>2
  <1> QED
    BY <1>2, <1>3, <1>4, <1>5, <1>6

LEMMA BesideDistinct ==
  ASSUME TypeOK, NEW p \in Request, NEW r \in Request, Compatible(p, r), Written(p), Written(r),
         Distinct(Seen(p)), Distinct(Seen(r))
  PROVE  Distinct(Beside(p, r))
  <1> DEFINE new == Beside(p, r)
  <1>1. SUFFICES ASSUME NEW b \in Blocks, NEW c \in Blocks, b # c, new[b].present, new[c].present,
                        new[b].parent = new[c].parent, new[b].pos = new[c].pos
                 PROVE  FALSE
    BY DEF Distinct
  <1>2. \A d \in {b, c} :
          \/ Seen(p)[d].present /\ Seen(p)[d].parent = new[d].parent /\ Seen(p)[d].pos = new[d].pos
          \/ d \notin p.mine /\ new[d].parent \notin p.advisory
    BY <1>1, BesideLocked
  <1>3. \A d \in {b, c} :
          \/ Seen(r)[d].present /\ Seen(r)[d].parent = new[d].parent /\ Seen(r)[d].pos = new[d].pos
          \/ d \in p.mine /\ new[d].parent \in p.advisory
    BY <1>1, BesideLocked
  <1>4. \A d \in {b, c} :
          \/ d \in p.mine /\ Seen(p)[d] = new[d]
          \/ d \notin p.mine /\ Seen(r)[d] = new[d]
    BY BesideLocked
  <1> HIDE DEF new
  <1>5. CASE new[b].parent \in p.advisory
    BY <1>1, <1>2, <1>5 DEF Distinct
  <1>6. CASE new[b].parent \notin p.advisory
    BY <1>1, <1>3, <1>6 DEF Distinct
  <1> QED
    BY <1>5, <1>6

LEMMA BesideKnows ==
  ASSUME TypeOK, NEW p \in Request, NEW r \in Request, Compatible(p, r), Written(p), Written(r),
         NEW o, Knows(p, o), o.block \in Blocks, rows' = Seen(r)
  PROVE  Knows(p, o)'
  <1>1. Seen(p)' = Beside(p, r)
    BY DEF Seen, Beside
  <1>2. ASSUME o.block \in p.mine PROVE Seen(p)'[o.block] = Seen(p)[o.block]
    BY <1>1, <1>2, BesideLocked
  <1>3. ASSUME Aims(p, o) PROVE Aims(p, o)'
    <2>1. SUFFICES ASSUME NEW b \in Blocks \ {o.block}, Beside(p, r)[b].present,
                          Beside(p, r)[b].parent = o.parent
                   PROVE  Beside(p, r)[b].pos # p.pos
      BY <1>1, <1>3 DEF Aims
    <2>2. o.parent \in p.advisory
      BY <1>3 DEF Aims
    <2>3. /\ Seen(p)[b].present /\ Seen(p)[b].parent = o.parent
          /\ Seen(p)[b].pos = Beside(p, r)[b].pos
      BY <2>1, <2>2, BesideLocked
    <2> QED
      BY <1>3, <2>3 DEF Aims
  <1>4. CASE p.pc \in {"place", "write"}
    BY <1>2, <1>3, <1>4 DEF Knows
  <1>5. CASE p.pc \notin {"place", "write"}
    BY <1>5 DEF Knows
  <1> QED
    BY <1>4, <1>5

LEMMA LockCommit ==
  ASSUME TypeOK, LockInv, NEW r \in Requests, Commit(r)
  PROVE  LockInv'
  <1>1. PICK q \in Request :
           /\ Goto(r, q) /\ q.pc \in {"answer", "xadd"}
           /\ q.mine = {} /\ q.shares = {} /\ q.advisory = {}
           /\ rows' = rows \/ rows' = Seen(requests[r])
    BY CommitStep
  <1>2. \A p \in Requests : requests'[p] = IF p = r THEN q ELSE requests[p]
    BY <1>1 DEF Goto, TypeOK
  <1>3. Distinct(rows')
    BY <1>1 DEF LockInv
  <1>4. ASSUME NEW p \in Requests
        PROVE  (Written(requests[p]) /\ Knows(requests[p], Current(p)) /\ Distinct(Seen(requests[p])))'
    <2>1. CASE p = r
      <3>1. requests'[p] = q
        BY <1>2, <2>1
      <3>2. Written(requests[p])'
        BY <1>1, <3>1 DEF Written, Seen
      <3>3. Distinct(Seen(requests[p]))'
        BY <1>1, <1>3, <3>1 DEF Distinct, Seen
      <3>4. Knows(requests[p], Current(p))'
        BY <1>1, <3>1 DEF Knows
      <3> QED
        BY <3>2, <3>3, <3>4
    <2>2. CASE p # r
      <3> DEFINE x == requests[p]
                 y == requests[r]
      <3>1. /\ Written(x) /\ Knows(x, Current(p)) /\ Distinct(Seen(x))
            /\ Written(y) /\ Distinct(Seen(y)) /\ Compatible(x, y)
        BY <2>2 DEF LockInv
      <3>2. x \in Request /\ y \in Request
        BY DEF TypeOK
      <3>3. requests'[p] = x
        BY <1>2, <2>2
      <3>4. CASE rows' = rows
        BY <3>1, <3>3, <3>4 DEF Written, Knows, Aims, Seen, Current
      <3>5. CASE rows' = Seen(y)
        <4>1. Seen(x)' = Beside(x, y)
          BY <3>3, <3>5 DEF Seen, Beside
        <4>2. Distinct(Seen(requests[p])')
          BY <3>1, <3>2, <4>1, BesideDistinct
        <4>3. Current(p)' = Current(p)
          BY <3>3 DEF Current
        <4>4. Knows(requests[p], Current(p))'
          <5>1. CASE x.pc \in {"op", "place", "write"}
            <6>1. PICK z \in Request, o \in Op : z = x /\ o = Current(p)
              BY <3>2, <5>1, CurrentTyped
            <6>2. o.block \in Blocks /\ Knows(z, o)
              BY <3>1, <6>1 DEF Op
            <6>3. Knows(z, o)'
              BY <3>1, <3>2, <3>5, <6>1, <6>2, BesideKnows
            <6> QED
              BY <3>3, <4>3, <6>1, <6>3
          <5>2. CASE x.pc \notin {"op", "place", "write"}
            BY <3>3, <5>2 DEF Knows
          <5> QED
            BY <5>1, <5>2
        <4>5. Written(requests[p])'
          <5>1. \A b \in x.mine : rows'[b] = rows[b] /\ Beside(x, y)[b] = Seen(x)[b]
            BY <3>1, <3>2, <3>5, BesideLocked
          <5>2. \A b \in Blocks \ x.mine : Seen(x)'[b] = rows'[b]
            BY <3>3 DEF Seen
          <5> QED
            BY <3>1, <3>3, <4>1, <5>1, <5>2 DEF Written
        <4> QED
          BY <4>2, <4>4, <4>5
      <3> QED
        BY <1>1, <3>4, <3>5
    <2> QED
      BY <2>1, <2>2
  <1>5. \A p \in Requests : requests'[p].pc \notin Running =>
           requests'[p].mine = {} /\ requests'[p].shares = {} /\ requests'[p].advisory = {}
    BY <1>1, <1>2 DEF LockInv
  <1>6. \A p, s \in Requests : p # s => Compatible(requests'[p], requests'[s])
    BY <1>1, <1>2 DEF LockInv, Compatible
  <1>7. Distinct(rows)'
    BY <1>3 DEF Distinct
  <1> QED
    BY <1>4, <1>5, <1>6, <1>7 DEF LockInv, Compatible

-----------------------------------------------------------------------------
(* The theorems.                                                           *)

\* What holds in every state.
IInv == TypeOK /\ Idles /\ LockInv

LEMMA InitInv ==
  ASSUME Init
  PROVE  IInv
  <1>1. PICK doc \in Documents :
          rows = [b \in Blocks |-> IF doc[b].present THEN [doc[b] EXCEPT !.pos = Placed[b]] ELSE NoRow]
    BY DEF Init
  <1>2. requests = [r \in Requests |-> NoRequest] /\ stream = <<>> /\ archive = {} /\ settled = <<>>
        /\ faults = 0
    BY DEF Init
  <1>4. NoRow \in Row /\ ~NoRow.present
    BY OpsAssumption DEF NoRow, Row, Parents
  <1>5. \A b \in Blocks : Placed[b] \in 0 .. Top
    BY OpsAssumption
  <1>3. \A b \in Blocks : rows[b] \in Row /\ (rows[b].present => rows[b].pos = Placed[b])
    <2>1. SUFFICES ASSUME NEW b \in Blocks, doc[b].present
                   PROVE  rows[b] \in Row /\ rows[b].pos = Placed[b]
      BY <1>1, <1>4
    <2> DEFINE first == [present : {TRUE}, parent : Parents, pos : {0}, depth : 0 .. 1, ver : {1}]
    <2>2. doc \in [Blocks -> {NoRow} \cup first]
      BY DEF Documents
    <2>3. doc[b] \in first
      <3> HIDE DEF first
      <3>1. doc[b] \in {NoRow} \cup first
        BY <2>2
      <3> QED
        BY <1>4, <2>1, <3>1
    <2>4. rows[b] = [doc[b] EXCEPT !.pos = Placed[b]]
      BY <1>1, <2>1
    <2>5. doc[b] \in Row
      <3>1. TRUE \in BOOLEAN /\ 0 \in 0 .. Top /\ 0 .. 1 \subseteq Nat /\ 1 \in Nat
        BY OpsAssumption
      <3> QED
        BY <2>3, <3>1 DEF Row
    <2>6. Placed[b] \in 0 .. Top
      BY <1>5
    <2> QED
      BY <2>4, <2>5, <2>6 DEF Row
  <1>6. rows \in [Blocks -> Row]
    BY <1>1, <1>3
  <1>7. TypeOK
    <2>1. requests \in [Requests -> Request]
      BY <1>2, EmptyTyped
    <2>2. \A r \in Requests : requests[r].pc = "idle"
      BY <1>2, EmptyTyped
    <2> QED
      BY <1>2, <1>6, <2>1, <2>2, OpsAssumption DEF TypeOK
  <1>8. Idles
    BY <1>2 DEF Idles
  <1>9. Distinct(rows)
    BY <1>3, OpsAssumption DEF Distinct
  <1>10. LockInv
    <2>1. ASSUME NEW r \in Requests
          PROVE  Written(requests[r]) /\ Knows(requests[r], Current(r)) /\ Distinct(Seen(requests[r]))
      <3>1. requests[r].pc = "idle" /\ Seen(requests[r]) = rows
        BY <1>2, <1>7, EmptyTyped, FreeSees
      <3> QED
        BY <1>9, <3>1 DEF Written, Knows
    <2>2. \A r \in Requests : requests[r].mine = {} /\ requests[r].shares = {} /\ requests[r].advisory = {}
      BY <1>2, EmptyTyped
    <2> QED
      BY <1>9, <2>1, <2>2 DEF LockInv, Compatible
  <1> QED
    BY <1>7, <1>8, <1>10 DEF IInv

LEMMA NextInv ==
  ASSUME IInv, [Next]_vars
  PROVE  IInv'
  <1>1. TypeOK' /\ Idles'
    BY TypeStep DEF IInv
  <1>2. LockInv'
    BY NextCases, LockSubmit, LockWork, LockCommit, LockEnding DEF IInv
  <1> QED
    BY <1>1, <1>2 DEF IInv

\* The locks of post_operations, apply.py and Postgres keep the requests apart: no
\* two have one row or one advisory lock, a row that is a parent for one is not
\* deleted under another, and past its check a request sees the version it checked.
THEOREM LocksHold == Spec => []IInv
  <1>1. Init => IInv
    BY InitInv
  <1>2. IInv /\ [Next]_vars => IInv'
    BY NextInv
  <1> QED
    BY <1>1, <1>2, PTL DEF Spec

\* Rows, requests, stream and archive have their types.
THEOREM TypeCorrect == Spec => []TypeOK
  <1>1. IInv => TypeOK
    BY DEF IInv
  <1> QED
    BY <1>1, LocksHold, PTL

\* However many requests insert and move at once, siblings never share a
\* position, those at the root included, which no constraint checks.
THEOREM PositionsDiffer == Spec => []SiblingsDistinct
  <1>1. IInv => SiblingsDistinct
    BY DEF IInv, LockInv, Distinct, SiblingsDistinct
  <1> QED
    BY <1>1, LocksHold, PTL

-----------------------------------------------------------------------------
(* The stream.                                                             *)

\* The changes of a request are its own, and once it is to be appended to the
\* stream they are durable.
Told ==
  \A r \in Requests :
    /\ \A m \in 1 .. Len(requests[r].did) : requests[r].did[m].by = r
    /\ requests[r].pc = "xadd" /\ ~requests[r].broken =>
         \A m \in 1 .. Len(requests[r].did) : Committed(requests[r].did[m])

CommittedNext(c) == \E n \in 1 .. Len(settled') : settled'[n] = c

LEMMA CommittedStays ==
  ASSUME TypeOK, LockInv, Idles, [Next]_vars, NEW c, Committed(c)
  PROVE  CommittedNext(c)
  <1>1. settled' = settled \/ \E r \in Requests : settled' = settled \o requests[r].did
    BY NextCases, CommitStep DEF Submits, Working, Ending
  <1>2. settled \in Seq(Change) /\ \A r \in Requests : requests[r].did \in Seq(Change)
    BY DEF TypeOK, Request
  <1>3. PICK n \in 1 .. Len(settled) : settled[n] = c
    BY DEF Committed
  <1>4. CASE settled' = settled
    BY <1>3, <1>4 DEF CommittedNext
  <1>5. ASSUME NEW did \in Seq(Change), settled' = settled \o did
        PROVE  CommittedNext(c)
    <2>1. n \in 1 .. Len(settled') /\ settled'[n] = c
      BY <1>2, <1>3, <1>5
    <2> QED
      BY <2>1 DEF CommittedNext
  <1> QED
    BY <1>1, <1>2, <1>4, <1>5

LEMMA ToldStep ==
  ASSUME IInv, Told, [Next]_vars
  PROVE  Told'
  <1> USE DEF IInv
  <1>1. /\ requests \in [Requests -> Request] /\ settled \in Seq(Change)
        /\ \A r \in Requests : requests[r].did \in Seq(Change)
    BY DEF TypeOK, Request
  <1>2. \A c : Committed(c) => CommittedNext(c)
    BY CommittedStays
  <1>3. ASSUME NEW r \in Requests, NEW q, requests' = [requests EXCEPT ![r] = q],
               \A m \in 1 .. Len(q.did) : q.did[m].by = r,
               q.pc = "xadd" /\ ~q.broken => \A m \in 1 .. Len(q.did) : CommittedNext(q.did[m])
        PROVE  Told'
    <2>1. SUFFICES ASSUME NEW p \in Requests
                   PROVE  /\ \A m \in 1 .. Len(requests'[p].did) : requests'[p].did[m].by = p
                          /\ requests'[p].pc = "xadd" /\ ~requests'[p].broken =>
                               \A m \in 1 .. Len(requests'[p].did) : CommittedNext(requests'[p].did[m])
      BY DEF Told, Committed, CommittedNext
    <2>2. CASE p = r
      <3>1. requests'[p] = q
        BY <1>1, <1>3, <2>2
      <3> QED
        BY <1>3, <2>2, <3>1
    <2>3. CASE p # r
      <3>1. requests'[p] = requests[p]
        BY <1>1, <1>3, <2>3
      <3> QED
        BY <1>2, <3>1 DEF Told
    <2> QED
      BY <2>2, <2>3
  <1>4. ASSUME NEW r \in Requests, Submits(r) PROVE Told'
    <2>1. PICK ops \in Seq(Op) : Goto(r, [NoRequest EXCEPT !.pc = "op", !.ops = ops])
      BY <1>4 DEF Submits
    <2> DEFINE q == [NoRequest EXCEPT !.pc = "op", !.ops = ops]
    <2>2. q.pc = "op" /\ q.did = <<>>
      BY EmptyTyped DEF Request
    <2>3. requests' = [requests EXCEPT ![r] = q]
      BY <2>1 DEF Goto
    <2> HIDE DEF q
    <2>4. \A m \in 1 .. Len(q.did) : FALSE
      BY <2>2
    <2>5. q.pc # "xadd"
      BY <2>2
    <2> QED
      BY <1>3, <2>3, <2>4, <2>5
  <1>5. ASSUME NEW r \in Requests, Working(r) PROVE Told'
    <2>1. PICK q : Goto(r, q) /\ Step(r, q) /\ Works(r, q)
      BY <1>5 DEF Working
    <2>2. q.pc # "xadd"
      BY <1>5, <2>1, WorksAt DEF Working, Running
    <2>3. \A m \in 1 .. Len(q.did) : q.did[m].by = r
      <3>1. CASE q.did = requests[r].did
        BY <3>1 DEF Told
      <3>2. CASE q.did # requests[r].did
        <4>1. PICK c \in Change : c.by = r /\ q.did = Append(requests[r].did, c)
          BY <2>1, <3>2 DEF Step
        <4> DEFINE did == requests[r].did
        <4>2. did \in Seq(Change) /\ \A m \in 1 .. Len(did) : did[m].by = r
          BY <1>1 DEF Told
        <4>3. q.did = Append(did, c)
          BY <4>1
        <4> HIDE DEF did
        <4> QED
          BY <4>1, <4>2, <4>3
      <3> QED
        BY <3>1, <3>2
    <2> QED
      BY <1>3, <2>1, <2>2, <2>3 DEF Goto
  <1>6. ASSUME NEW r \in Requests, Commit(r) PROVE Told'
    <2>1. PICK q \in Request :
            /\ Goto(r, q) /\ q.did = requests[r].did /\ q.broken = requests[r].broken
            /\ ~requests[r].broken => settled' = settled \o requests[r].did
      BY <1>6, CommitStep
    <2>2. ASSUME ~q.broken, NEW m \in 1 .. Len(q.did) PROVE CommittedNext(q.did[m])
      <3> DEFINE did == q.did
      <3>1. did \in Seq(Change) /\ settled' = settled \o did
        BY <1>1, <2>1, <2>2
      <3> HIDE DEF did
      <3>2. m \in 1 .. Len(did)
        BY <2>2 DEF did
      <3>3. Len(settled) + m \in 1 .. Len(settled') /\ settled'[Len(settled) + m] = did[m]
        BY <1>1, <3>1, <3>2
      <3> QED
        BY <3>3 DEF CommittedNext, did
    <2>3. \A m \in 1 .. Len(q.did) : q.did[m].by = r
      BY <2>1 DEF Told
    <2> QED
      BY <1>3, <2>1, <2>2, <2>3 DEF Goto
  <1>7. ASSUME Ending PROVE Told'
    <2>1. SUFFICES ASSUME NEW p \in Requests
                   PROVE  /\ \A m \in 1 .. Len(requests'[p].did) : requests'[p].did[m].by = p
                          /\ requests'[p].pc = "xadd" /\ ~requests'[p].broken =>
                               \A m \in 1 .. Len(requests'[p].did) : CommittedNext(requests'[p].did[m])
      BY DEF Told, Committed, CommittedNext
    <2>2. CASE requests'[p] = requests[p]
      BY <1>2, <2>2 DEF Told
    <2>3. CASE Ended(requests[p], requests'[p])
      BY <2>3 DEF Told, Ended
    <2> QED
      BY <1>7, <2>2, <2>3 DEF Ending
  <1> QED
    BY <1>4, <1>5, <1>6, <1>7, NextCases

\* Only Xadd appends to the stream, and what it appends is the request's own.
LEMMA StreamStep ==
  ASSUME IInv, [Next]_vars,
         NEW k \in 1 .. Len(stream'), NEW m \in 1 .. Len(stream'[k])
  PROVE  \/ k \in 1 .. Len(stream) /\ stream'[k] = stream[k]
         \/ \E r \in Requests : requests[r].pc = "xadd" /\ stream'[k] = requests[r].did
  <1> USE DEF IInv
  <1>1. stream \in Seq(Seq(Change)) /\ \A r \in Requests : requests[r].did \in Seq(Change)
    BY DEF TypeOK, Request
  <1>2. stream' = stream \/ \E r \in Requests : requests[r].pc = "xadd" /\ stream' = Append(stream, requests[r].did)
    BY NextCases, CommitStep DEF Submits, Working, Ending
  <1>3. ASSUME NEW r \in Requests, requests[r].pc = "xadd", stream' = Append(stream, requests[r].did)
        PROVE  \/ k \in 1 .. Len(stream) /\ stream'[k] = stream[k]
               \/ stream'[k] = requests[r].did
    <2> DEFINE did == requests[r].did
    <2>1. did \in Seq(Change) /\ stream' = Append(stream, did)
      BY <1>1, <1>3
    <2> HIDE DEF did
    <2>2. k \in 1 .. Len(stream) \/ k = Len(stream) + 1
      BY <1>1, <2>1
    <2>3. stream'[k] = IF k \in 1 .. Len(stream) THEN stream[k] ELSE did
      BY <1>1, <2>1, <2>2
    <2> QED
      BY <2>3 DEF did
  <1> QED
    BY <1>2, <1>3

\* A request that is broken stays so.
LEMMA BrokenStays ==
  ASSUME IInv, [Next]_vars, NEW r \in Requests, requests[r].broken
  PROVE  requests'[r].broken
  <1> USE DEF IInv
  <1>1. requests \in [Requests -> Request]
    BY DEF TypeOK
  <1>2. ASSUME NEW p \in Requests, Submits(p) PROVE requests'[r].broken
    <2>1. ~requests[p].broken
      BY <1>2, EmptyTyped DEF Submits, Idles
    <2> QED
      BY <1>1, <1>2, <2>1 DEF Submits, Goto
  <1>3. ASSUME NEW p \in Requests, Working(p) PROVE requests'[r].broken
    BY <1>1, <1>3 DEF Working, Goto
  <1>4. ASSUME NEW p \in Requests, Commit(p) PROVE requests'[r].broken
    <2>1. PICK q : Goto(p, q) /\ q.broken = requests[p].broken
      BY <1>4, CommitStep
    <2> QED
      BY <1>1, <2>1 DEF Goto
  <1>5. ASSUME Ending PROVE requests'[r].broken
    BY <1>5 DEF Ending, Ended
  <1> QED
    BY <1>2, <1>3, <1>4, <1>5, NextCases

LEMMA StraysStep ==
  ASSUME IInv, Told, OnlyBrokenStrays, [Next]_vars
  PROVE  OnlyBrokenStrays'
  <1>1. SUFFICES ASSUME NEW k \in 1 .. Len(stream'), NEW m \in 1 .. Len(stream'[k])
                 PROVE  CommittedNext(stream'[k][m]) \/ requests'[stream'[k][m].by].broken
    BY DEF OnlyBrokenStrays, Committed, CommittedNext
  <1>2. CASE k \in 1 .. Len(stream) /\ stream'[k] = stream[k]
    <2>1. stream[k][m].by \in Requests
      <3>1. stream[k] \in Seq(Change)
        BY <1>2 DEF IInv, TypeOK
      <3>2. stream[k][m] \in Change
        BY <1>2, <3>1
      <3> QED
        BY <3>2 DEF Change
    <2>2. Committed(stream[k][m]) \/ requests[stream[k][m].by].broken
      BY <1>2 DEF OnlyBrokenStrays
    <2> QED
      BY <1>2, <2>1, <2>2, CommittedStays, BrokenStays DEF IInv
  <1>3. ASSUME NEW r \in Requests, requests[r].pc = "xadd", stream'[k] = requests[r].did
        PROVE  CommittedNext(stream'[k][m]) \/ requests'[stream'[k][m].by].broken
    <2>1. stream'[k][m].by = r
      BY <1>3 DEF Told
    <2>2. CASE requests[r].broken
      BY <2>1, <2>2, BrokenStays
    <2>3. CASE ~requests[r].broken
      BY <1>3, <2>3, CommittedStays DEF Told, IInv
    <2> QED
      BY <2>2, <2>3
  <1> QED
    BY <1>2, <1>3, StreamStep

\* Whatever is lost, fails or deadlocks, and in whichever order the requests run:
\* a change is in the stream without being durable only if its request went on
\* after Postgres had aborted its transaction.
THEOREM StraysAreBroken == Spec => []OnlyBrokenStrays
  <1>1. Init => IInv /\ Told /\ OnlyBrokenStrays
    <2> SUFFICES ASSUME Init PROVE Told /\ OnlyBrokenStrays
      BY InitInv
    <2>1. \A r \in Requests : requests[r].did = <<>> /\ requests[r].pc = "idle"
      BY EmptyTyped DEF Init
    <2>2. stream = <<>>
      BY DEF Init
    <2> QED
      BY <2>1, <2>2 DEF Told, OnlyBrokenStrays
  <1>2. IInv /\ Told /\ OnlyBrokenStrays /\ [Next]_vars => (IInv /\ Told /\ OnlyBrokenStrays)'
    BY NextInv, ToldStep, StraysStep
  <1> QED
    BY <1>1, <1>2, PTL DEF Spec

\* A request of one operation has changed nothing before that operation is over,
\* nor when it is broken.
Single ==
  \A r \in Requests :
    /\ Len(requests[r].ops) <= 1
    /\ requests[r].pc \in {"op", "place", "write"} => requests[r].did = <<>>
    /\ requests[r].broken => requests[r].did = <<>>

LEMMA SingleStep ==
  ASSUME MaxOps = 1, IInv, Single, [Next]_vars
  PROVE  Single'
  <1> USE DEF IInv
  <1>1. requests \in [Requests -> Request]
    BY DEF TypeOK
  <1>2. ASSUME NEW r \in Requests, NEW q, requests' = [requests EXCEPT ![r] = q],
               Len(q.ops) <= 1, q.pc \in {"op", "place", "write"} => q.did = <<>>,
               q.broken => q.did = <<>>
        PROVE  Single'
    BY <1>1, <1>2 DEF Single
  <1>3. ASSUME NEW r \in Requests, Submits(r) PROVE Single'
    <2>1. PICK ops \in Seq(Op) : Len(ops) \in 1 .. MaxOps /\ Goto(r, [NoRequest EXCEPT !.pc = "op", !.ops = ops])
      BY <1>3 DEF Submits
    <2> DEFINE q == [NoRequest EXCEPT !.pc = "op", !.ops = ops]
    <2>2. q.ops = ops /\ q.did = <<>>
      BY EmptyTyped DEF Request
    <2>3. requests' = [requests EXCEPT ![r] = q]
      BY <2>1 DEF Goto
    <2> HIDE DEF q
    <2>4. Len(q.ops) <= 1
      <3>1. Len(ops) <= 1
        BY <2>1
      <3> QED
        BY <2>2, <3>1
    <2>5. /\ q.pc \in {"op", "place", "write"} => q.did = <<>>
          /\ q.broken => q.did = <<>>
      BY <2>2
    <2> QED
      BY <1>2, <2>3, <2>4, <2>5
  <1>4. ASSUME NEW r \in Requests, Working(r) PROVE Single'
    <2>1. PICK q : Goto(r, q) /\ Step(r, q) /\ Works(r, q)
      BY <1>4 DEF Working
    <2>2. requests[r].pc \in {"op", "place", "write"} /\ requests[r].did = <<>>
      BY <1>4 DEF Working, Single
    <2>3. q.ops = requests[r].ops /\ Len(q.ops) <= 1
      BY <2>1 DEF Step, Single
    <2>4. q.broken => q.did = <<>>
      BY <2>1, <2>2 DEF Step
    <2>5. ASSUME q.pc \in {"op", "place", "write"} PROVE q.did = <<>>
      <3>1. requests[r].at \in 1 .. Len(requests[r].ops) /\ Len(requests[r].ops) \in Nat
        BY <1>1, <2>2, CurrentTyped DEF Request
      <3>2. q.at \in 1 .. Len(q.ops)
        BY <2>1, <2>2, <2>5, WorksAt
      <3>3. ~Past(requests[r], q)
        BY <2>3, <3>1, <3>2 DEF Past
      <3>4. q.did = requests[r].did
        BY <2>1, <3>3 DEF Works, Lasts, Passed, Bumped, Put, Dropped
      <3> QED
        BY <2>2, <3>4
    <2> QED
      BY <1>2, <2>1, <2>3, <2>4, <2>5 DEF Goto
  <1>5. ASSUME NEW r \in Requests, Commit(r) PROVE Single'
    <2>1. PICK q \in Request :
            /\ Goto(r, q) /\ q.did = requests[r].did /\ q.broken = requests[r].broken
            /\ q.ops = requests[r].ops /\ q.pc \in {"answer", "xadd"}
      BY <1>5, CommitStep
    <2> QED
      BY <1>2, <2>1 DEF Goto, Single
  <1>6. ASSUME Ending PROVE Single'
    <2>1. SUFFICES ASSUME NEW p \in Requests
                   PROVE  /\ Len(requests'[p].ops) <= 1
                          /\ requests'[p].pc \in {"op", "place", "write"} => requests'[p].did = <<>>
                          /\ requests'[p].broken => requests'[p].did = <<>>
      BY DEF Single
    <2> QED
      BY <1>6 DEF Ending, Ended, Running, Single
  <1> QED
    BY <1>3, <1>4, <1>5, <1>6, NextCases

LEMMA StreamedStep ==
  ASSUME IInv, Told, Single, StreamedIsCommitted, [Next]_vars
  PROVE  StreamedIsCommitted'
  <1>1. SUFFICES ASSUME NEW k \in 1 .. Len(stream'), NEW m \in 1 .. Len(stream'[k])
                 PROVE  CommittedNext(stream'[k][m])
    BY DEF StreamedIsCommitted, Committed, CommittedNext
  <1>2. CASE k \in 1 .. Len(stream) /\ stream'[k] = stream[k]
    BY <1>2, CommittedStays DEF IInv, StreamedIsCommitted
  <1>3. ASSUME NEW r \in Requests, requests[r].pc = "xadd", stream'[k] = requests[r].did
        PROVE  CommittedNext(stream'[k][m])
    <2>1. ~requests[r].broken
      <3>1. requests[r].did # <<>>
        BY <1>3
      <3> QED
        BY <3>1 DEF Single
    <2> QED
      BY <1>3, <2>1, CommittedStays DEF Told, IInv
  <1> QED
    BY <1>2, <1>3, StreamStep

\* "XADD is done only for the operations that succeeded": of requests with one
\* operation, as handleOps sends most of them, it is true.
THEOREM SingleIsStreamedCommitted ==
  ASSUME MaxOps = 1
  PROVE  Spec => []StreamedIsCommitted
  <1>1. Init => IInv /\ Told /\ Single /\ StreamedIsCommitted
    <2> SUFFICES ASSUME Init PROVE Told /\ Single /\ StreamedIsCommitted
      BY InitInv
    <2>1. \A r \in Requests : requests[r].did = <<>> /\ requests[r].pc = "idle" /\ requests[r].ops = <<>>
      BY EmptyTyped DEF Init, NoRequest
    <2>2. stream = <<>>
      BY DEF Init
    <2> QED
      BY <2>1, <2>2 DEF Told, Single, StreamedIsCommitted
  <1>2. IInv /\ Told /\ Single /\ StreamedIsCommitted /\ [Next]_vars
          => (IInv /\ Told /\ Single /\ StreamedIsCommitted)'
    BY NextInv, ToldStep, SingleStep, StreamedStep
  <1> QED
    BY <1>1, <1>2, PTL DEF Spec

-----------------------------------------------------------------------------
(* Trees.                                                                  *)

Tree == [Blocks -> [present : BOOLEAN, parent : Parents, ver : Nat]]

LEMMA LinksTyped ==
  ASSUME NEW tree \in [Blocks -> Row]
  PROVE  Links(tree) \in Tree
  BY DEF Links, Tree, Row

\* A subtree is the least closed set with its top.
LEMMA SubtreeLeast ==
  ASSUME NEW tree, NEW b \in Blocks
  PROVE  /\ Subtree(tree, b) \subseteq Blocks
         /\ b \in Subtree(tree, b)
         /\ Closed(tree, Subtree(tree, b))
         /\ \A blocks \in SUBSET Blocks :
              b \in blocks /\ Closed(tree, blocks) => Subtree(tree, b) \subseteq blocks
  <1>1. Subtree(tree, b) \subseteq Blocks /\ b \in Subtree(tree, b)
    BY DEF Subtree
  <1>2. \A blocks \in SUBSET Blocks :
          b \in blocks /\ Closed(tree, blocks) => Subtree(tree, b) \subseteq blocks
    BY DEF Subtree
  <1>3. Closed(tree, Subtree(tree, b))
    <2> SUFFICES ASSUME NEW c \in Blocks, tree[c].present, tree[c].parent \in Subtree(tree, b),
                        NEW blocks \in SUBSET Blocks, b \in blocks, Closed(tree, blocks)
                 PROVE  c \in blocks
      BY DEF Closed, Subtree
    <2>1. tree[c].parent \in blocks
      BY <1>2
    <2> QED
      BY <2>1 DEF Closed
  <1> QED
    BY <1>1, <1>2, <1>3

\* It depends on nothing but its own blocks, and on there being no others below.
LEMMA SubtreeSame ==
  ASSUME NEW tree, NEW other, NEW b \in Blocks,
         \A c \in Subtree(tree, b) : other[c].present = tree[c].present /\ other[c].parent = tree[c].parent,
         Closed(other, Subtree(tree, b))
  PROVE  Subtree(other, b) = Subtree(tree, b)
  <1> DEFINE all == Subtree(tree, b)
             there == Subtree(other, b)
  <1>1. there \subseteq all
    BY SubtreeLeast
  <1>2. b \in there /\ b \in all
    BY SubtreeLeast
  <1>3. Closed(tree, there)
    <2> SUFFICES ASSUME NEW c \in Blocks, tree[c].present, tree[c].parent \in there
                 PROVE  c \in there
      BY DEF Closed
    <2>1. c \in all
      <3>1. Closed(tree, all)
        BY SubtreeLeast
      <3> QED
        BY <1>1, <3>1 DEF Closed
    <2>2. other[c].present /\ other[c].parent \in there
      BY <2>1
    <2>3. Closed(other, there)
      BY SubtreeLeast
    <2> QED
      BY <2>2, <2>3 DEF Closed
  <1>4. all \subseteq there
    <2>1. there \in SUBSET Blocks
      BY SubtreeLeast
    <2> QED
      BY <1>2, <1>3, <2>1, SubtreeLeast
  <1> QED
    BY <1>1, <1>4

LEMMA SubtreeLinks ==
  ASSUME NEW tree, NEW b
  PROVE  Subtree(Links(tree), b) = Subtree(tree, b)
  <1>1. \A blocks : Closed(Links(tree), blocks) <=> Closed(tree, blocks)
    BY DEF Closed, Links
  <1> QED
    BY <1>1 DEF Subtree

\* What an operation makes of a tree on its own, block by block.
Effect(tree, o, new) ==
  /\ new \in Tree
  /\ \A b \in Blocks : o.kind = "delete" =>
       new[b] = IF b \in Subtree(tree, o.block) THEN Unlinked ELSE tree[b]
  /\ \A b \in Blocks \ {o.block} : o.kind # "delete" => new[b] = tree[b]
  /\ o.kind = "insert" => new[o.block] = [present |-> TRUE, parent |-> o.parent, ver |-> 1]
  /\ o.kind = "move" => new[o.block] =
       [present |-> tree[o.block].present, parent |-> o.parent, ver |-> tree[o.block].ver + 1]
  /\ o.kind \in {"attrs", "content"} => new[o.block] =
       [present |-> tree[o.block].present, parent |-> tree[o.block].parent,
        ver |-> tree[o.block].ver + 1]

LEMMA AloneTyped ==
  ASSUME NEW tree \in Tree, NEW o \in Op
  PROVE  Effect(tree, o, Alone(tree, o))
  <1>1. o.block \in Blocks /\ o.parent \in Parents /\ o.kind \in AllKinds
    BY DEF Op
  <1>2. Unlinked \in [present : BOOLEAN, parent : Parents, ver : Nat]
    BY DEF Unlinked, Parents
  <1>3. CASE o.kind = "delete"
    <2>1. Alone(tree, o) = [b \in Blocks |-> IF b \in Subtree(tree, o.block) THEN Unlinked ELSE tree[b]]
      BY <1>3 DEF Alone
    <2> QED
      BY <1>2, <1>3, <2>1 DEF Tree, Effect
  <1>4. CASE o.kind = "insert"
    BY <1>1, <1>4 DEF Alone, Tree, Effect
  <1>5. CASE o.kind = "move"
    <2> DEFINE row == [present |-> tree[o.block].present, parent |-> o.parent,
                       ver |-> tree[o.block].ver + 1]
    <2>1. Alone(tree, o) = [tree EXCEPT ![o.block].parent = o.parent, ![o.block].ver = @ + 1]
      BY <1>5 DEF Alone
    <2>2. tree[o.block] \in [present : BOOLEAN, parent : Parents, ver : Nat]
      BY <1>1 DEF Tree
    <2>3. row \in [present : BOOLEAN, parent : Parents, ver : Nat]
      BY <1>1, <2>2
    <2>4. Alone(tree, o) = [tree EXCEPT ![o.block] = row]
      BY <1>1, <2>1, <2>2 DEF Tree
    <2> QED
      BY <1>1, <1>5, <2>3, <2>4 DEF Tree, Effect
  <1>6. CASE o.kind \in {"attrs", "content"}
    BY <1>1, <1>6 DEF Alone, Tree, Effect
  <1>7. o.kind \in {"delete", "insert", "move"} \/ o.kind \in {"attrs", "content"}
    BY <1>1 DEF AllKinds
  <1> QED
    BY <1>3, <1>4, <1>5, <1>6, <1>7

\* On another tree with the same blocks `mine`, to which it keeps, an operation
\* does the same to those and nothing to the others.
LEMMA AloneKeepsTo ==
  ASSUME NEW tree \in Tree, NEW other \in Tree, NEW o \in Op, NEW mine \in SUBSET Blocks,
         \A b \in mine : other[b] = tree[b], o.block \in mine,
         o.kind = "delete" =>
           Subtree(tree, o.block) \subseteq mine /\ Closed(other, Subtree(tree, o.block))
  PROVE  /\ \A b \in mine : Alone(other, o)[b] = Alone(tree, o)[b]
         /\ \A b \in Blocks \ mine : Alone(other, o)[b] = other[b]
         /\ o.kind = "delete" => Subtree(other, o.block) = Subtree(tree, o.block)
  <1>1. o.block \in Blocks /\ o.kind \in AllKinds
    BY DEF Op
  <1> DEFINE here == Alone(tree, o)
             there == Alone(other, o)
  <1>2. Effect(tree, o, here) /\ Effect(other, o, there)
    BY AloneTyped
  <1> HIDE DEF here, there
  <1>3. o.kind = "delete" => Subtree(other, o.block) = Subtree(tree, o.block)
    BY <1>1, SubtreeSame
  <1>4. ASSUME NEW b \in mine PROVE there[b] = here[b]
    <2>1. other[b] = tree[b]
      OBVIOUS
    <2>2. CASE o.kind = "delete"
      BY <1>2, <1>3, <2>1, <2>2 DEF Effect
    <2>3. CASE o.kind # "delete" /\ b # o.block
      BY <1>2, <2>1, <2>3 DEF Effect
    <2>4. CASE o.kind # "delete" /\ b = o.block
      BY <1>1, <1>2, <2>1, <2>4 DEF Effect, AllKinds
    <2> QED
      BY <2>2, <2>3, <2>4
  <1>5. ASSUME NEW b \in Blocks \ mine PROVE there[b] = other[b]
    <2>1. CASE o.kind = "delete"
      BY <1>2, <1>3, <2>1 DEF Effect
    <2>2. CASE o.kind # "delete"
      BY <1>2, <2>2 DEF Effect
    <2> QED
      BY <2>1, <2>2
  <1> QED
    BY <1>3, <1>4, <1>5 DEF here, there

-----------------------------------------------------------------------------
(* What a request has done so far, as a run of its operations alone.       *)

\* Where an operation of the request q has had its effect, no other request can
\* come between the two: q has the rows, and the parent.
Holds(q, shared, tree, o) ==
  /\ Passes(tree, o)
  /\ o.block \in q.mine
  /\ o.kind \in {"insert", "move"} => o.parent \in q.shares \cup {Root}
  /\ o.kind = "delete" => Subtree(tree, o.block) \subseteq q.mine \ shared

\* From what is committed, `old`, the chosen operations lead to what the request
\* sees, `now`.
History(q, old, now, shared, chosen, run) ==
  /\ chosen \subseteq 1 .. q.at - 1
  /\ run \in [0 .. q.at - 1 -> Tree]
  /\ run[0] = old /\ run[q.at - 1] = now
  /\ \A n \in 1 .. q.at - 1 : run[n] = IF n \in chosen THEN Alone(run[n - 1], q.ops[n]) ELSE run[n - 1]
  /\ \A n \in 0 .. q.at - 1 : \A b \in Blocks \ q.mine : run[n][b] = old[b]
  /\ \A n \in chosen : Holds(q, shared, run[n - 1], q.ops[n])

\* The parents that other requests have key-share locks on.
Shared(r) == UNION {requests[p].shares : p \in Others(r)}

Serial(r) ==
  \E chosen, run :
    History(requests[r], Links(rows), Links(Seen(requests[r])), Shared(r), chosen, run)

\* What a request has put somewhere is at the root or under a row it has locked.
Rooted(q) ==
  \A b \in Blocks : Seen(q)[b].present =>
    \/ rows[b].present /\ rows[b].parent = Seen(q)[b].parent
    \/ b \in q.mine /\ Seen(q)[b].parent \in q.shares \cup {Root}

\* The rows of an unbroken request are those of such a run.
Accounted(r) ==
  /\ Rooted(requests[r])
  /\ requests[r].pc = "commit" => requests[r].at = Len(requests[r].ops) + 1
  /\ requests[r].pc \in Running /\ ~requests[r].broken => Serial(r)

SerialInv == \A r \in Requests : Accounted(r)

\* More locks do no harm, nor do those of others elsewhere.
LEMMA HistoryLasts ==
  ASSUME NEW q, NEW on, NEW old, NEW now, NEW shared, NEW shares, NEW chosen, NEW run,
         History(q, old, now, shared, chosen, run),
         on.at = q.at, on.ops = q.ops, q.mine \subseteq on.mine, q.shares \subseteq on.shares,
         shares \cap q.mine \subseteq shared
  PROVE  History(on, old, now, shares, chosen, run)
  <1>1. ASSUME NEW n \in chosen PROVE Holds(on, shares, run[n - 1], q.ops[n])
    <2>1. Holds(q, shared, run[n - 1], q.ops[n])
      BY <1>1 DEF History
    <2> QED
      BY <2>1 DEF Holds
  <1> QED
    BY <1>1 DEF History

\* One more operation, with its effect or without.
LEMMA HistoryGrows ==
  ASSUME NEW q, NEW on, NEW old, NEW now \in Tree, NEW new \in Tree, NEW shared, NEW shares,
         NEW chosen, NEW run,
         History(q, old, now, shared, chosen, run),
         q.at \in Nat \ {0}, on.at = q.at + 1, on.ops = q.ops,
         q.mine \subseteq on.mine, q.shares \subseteq on.shares,
         shares \cap q.mine \subseteq shared,
         \A b \in Blocks \ on.mine : new[b] = old[b],
         \/ new = now
         \/ new = Alone(now, q.ops[q.at]) /\ Holds(on, shares, now, q.ops[q.at])
  PROVE  \E more, further : History(on, old, new, shares, more, further)
  <1> DEFINE further == [n \in 0 .. q.at |-> IF n < q.at THEN run[n] ELSE new]
  <1>1. /\ on.at - 1 = q.at /\ q.at - 1 \in Nat /\ q.at \in Nat
        /\ chosen \subseteq 1 .. q.at - 1 /\ run \in [0 .. q.at - 1 -> Tree]
        /\ run[0] = old /\ run[q.at - 1] = now
    BY DEF History
  <1>2. /\ further \in [0 .. q.at -> Tree]
        /\ \A n \in 0 .. q.at - 1 : further[n] = run[n]
        /\ further[q.at] = new
    BY <1>1
  <1> HIDE DEF further
  <1>3. \A n \in 0 .. q.at : \A b \in Blocks \ on.mine : further[n][b] = old[b]
    <2> SUFFICES ASSUME NEW n \in 0 .. q.at, NEW b \in Blocks \ on.mine PROVE further[n][b] = old[b]
      OBVIOUS
    <2>1. CASE n = q.at
      BY <1>2, <2>1
    <2>2. CASE n # q.at
      <3>1. n \in 0 .. q.at - 1 /\ further[n] = run[n]
        BY <1>1, <1>2, <2>2
      <3> QED
        BY <3>1 DEF History
    <2> QED
      BY <2>1, <2>2
  <1>4. ASSUME NEW n \in chosen
        PROVE  Holds(on, shares, further[n - 1], on.ops[n]) /\ further[n] = Alone(further[n - 1], on.ops[n])
    <2>1. Holds(q, shared, run[n - 1], q.ops[n]) /\ run[n] = Alone(run[n - 1], q.ops[n])
      BY <1>1, <1>4 DEF History
    <2>2. n \in 1 .. q.at - 1 /\ n - 1 \in 0 .. q.at - 1
      BY <1>1
    <2>3. further[n - 1] = run[n - 1] /\ further[n] = run[n]
      BY <1>2, <2>2
    <2>4. Holds(on, shares, run[n - 1], q.ops[n])
      BY <2>1 DEF Holds
    <2> QED
      BY <2>1, <2>3, <2>4
  <1>5. ASSUME NEW n \in 1 .. q.at - 1, n \notin chosen PROVE further[n] = further[n - 1]
    <2>1. run[n] = run[n - 1] /\ n - 1 \in 0 .. q.at - 1
      BY <1>1, <1>5 DEF History
    <2> QED
      BY <1>2, <2>1
  <1>6. /\ q.at - 1 \in 0 .. q.at - 1 /\ 0 \in 0 .. q.at - 1
        /\ further[q.at - 1] = now /\ further[0] = old
    BY <1>1, <1>2
  <1>7. CASE new = now
    <2>1. History(on, old, new, shares, chosen, further)
      <3>1. \A n \in 1 .. q.at : further[n] =
              IF n \in chosen THEN Alone(further[n - 1], on.ops[n]) ELSE further[n - 1]
        <4> SUFFICES ASSUME NEW n \in 1 .. q.at
                     PROVE  further[n] =
                       IF n \in chosen THEN Alone(further[n - 1], on.ops[n]) ELSE further[n - 1]
          OBVIOUS
        <4>1. n = q.at \/ n \in 1 .. q.at - 1
          BY <1>1
        <4> QED
          BY <1>1, <1>2, <1>4, <1>5, <1>6, <1>7, <4>1
      <3> QED
        BY <1>1, <1>2, <1>3, <1>4, <1>6, <3>1 DEF History
    <2> QED
      BY <2>1
  <1>8. CASE new = Alone(now, q.ops[q.at]) /\ Holds(on, shares, now, q.ops[q.at])
    <2> DEFINE more == chosen \cup {q.at}
    <2>1. more \subseteq 1 .. q.at
      <3>1. q.at \in 1 .. q.at /\ 1 .. q.at - 1 \subseteq 1 .. q.at
        BY <1>1
      <3> QED
        BY <1>1, <3>1
    <2>2. \A n \in 1 .. q.at : further[n] =
            IF n \in more THEN Alone(further[n - 1], on.ops[n]) ELSE further[n - 1]
      <4> SUFFICES ASSUME NEW n \in 1 .. q.at
                   PROVE  further[n] =
                     IF n \in more THEN Alone(further[n - 1], on.ops[n]) ELSE further[n - 1]
        OBVIOUS
      <4>1. n = q.at \/ n \in 1 .. q.at - 1
        BY <1>1
      <4> QED
        BY <1>1, <1>2, <1>4, <1>5, <1>6, <1>8, <4>1
    <2>3. \A n \in more : Holds(on, shares, further[n - 1], on.ops[n])
      BY <1>4, <1>6, <1>8
    <2> HIDE DEF more
    <2>4. History(on, old, new, shares, more, further)
      BY <1>1, <1>2, <1>3, <1>6, <2>1, <2>2, <2>3 DEF History
    <2> QED
      BY <2>4
  <1> QED
    BY <1>7, <1>8

LEMMA SeenTyped ==
  ASSUME TypeOK, NEW q \in Request
  PROVE  Seen(q) \in [Blocks -> Row] /\ Links(Seen(q)) \in Tree
  <1>1. Seen(q) \in [Blocks -> Row]
    BY DEF Seen, TypeOK, Request
  <1> QED
    BY <1>1, LinksTyped

\* A step of a transaction is that of its operation alone, or none.
LEMMA WorksAlone ==
  ASSUME TypeOK, LockInv, NEW r \in Requests, requests[r].pc \in {"op", "place", "write"},
         NEW q, Step(r, q), Bumped(r, q) \/ Put(r, q) \/ Dropped(r, q)
  PROVE  /\ Links(Seen(q)) = Alone(Links(Seen(requests[r])), Current(r))
         /\ Holds(q, Shared(r), Links(Seen(requests[r])), Current(r))
  <1> DEFINE o == Current(r)
             old == Seen(requests[r])
             new == Seen(q)
             now == Links(old)
  <1>1. o \in Op /\ old \in [Blocks -> Row] /\ o.block \in Blocks /\ o.parent \in Parents
    BY CurrentTyped, SeenTyped DEF Op
  <1>2. now \in Tree /\ Links(new) \in Tree
    BY SeenTyped, CurrentTyped DEF Step
  <1>3. ASSUME NEW b \in Blocks
        PROVE  /\ now[b].present = old[b].present
               /\ now[b].parent = old[b].parent
               /\ now[b].ver = old[b].ver
               /\ Links(new)[b] = [present |-> new[b].present, parent |-> new[b].parent, ver |-> new[b].ver]
               /\ new[b] = old[b] => Links(new)[b] = now[b]
               /\ new[b] = NoRow => Links(new)[b] = Unlinked
    <2>1. now[b] = [present |-> old[b].present, parent |-> old[b].parent, ver |-> old[b].ver]
      BY DEF Links
    <2>2. Links(new)[b] = [present |-> new[b].present, parent |-> new[b].parent, ver |-> new[b].ver]
      BY DEF Links
    <2> HIDE DEF new, now, old
    <2>3. now[b].present = old[b].present /\ now[b].parent = old[b].parent /\ now[b].ver = old[b].ver
      BY <2>1
    <2>4. new[b] = old[b] => Links(new)[b] = now[b]
      BY <2>1, <2>2
    <2>5. new[b] = NoRow => Links(new)[b] = Unlinked
      BY <2>2 DEF NoRow, Unlinked
    <2> QED
      BY <2>2, <2>3, <2>4, <2>5
  <1>4. Knows(requests[r], o)
    BY DEF LockInv
  <1>5. Effect(now, o, Alone(now, o))
    BY <1>1, <1>2, AloneTyped
  <1>6. SUFFICES ASSUME Effect(now, o, Alone(now, o))
                 PROVE  /\ \A b \in Blocks : Links(new)[b] = Alone(now, o)[b]
                        /\ Holds(q, Shared(r), now, o)
    <2>1. Alone(now, o) \in Tree
      BY <1>5 DEF Effect
    <2> QED
      BY <1>2, <1>5, <2>1 DEF Tree
  <1>7. CASE Bumped(r, q)
    <2>1. /\ o.kind \in {"attrs", "content"} /\ o.block \in q.mine /\ old[o.block].present
          /\ o.kind = "attrs" => old[o.block].ver = o.ver
          /\ new = [old EXCEPT ![o.block].ver = @ + 1]
      BY <1>7 DEF Bumped
    <2> HIDE DEF old, o, new, now
    <2>2. now[o.block].present = old[o.block].present /\ now[o.block].ver = old[o.block].ver
      BY <1>1, <1>3
    <2>3. Holds(q, Shared(r), now, o)
      BY <2>1, <2>2 DEF Holds, Passes
    <2>4. ASSUME NEW b \in Blocks PROVE Links(new)[b] = Alone(now, o)[b]
      <3>1. CASE b # o.block
        <4>1. new[b] = old[b]
          BY <1>1, <2>1, <3>1
        <4> QED
          BY <1>3, <1>6, <2>1, <3>1, <4>1 DEF Effect
      <3>2. CASE b = o.block
        <4>1. /\ new[b].present = old[b].present /\ new[b].parent = old[b].parent
              /\ new[b].ver = old[b].ver + 1
          BY <1>1, <2>1, <3>2 DEF Row
        <4>2. Links(new)[b] = [present |-> now[b].present, parent |-> now[b].parent, ver |-> now[b].ver + 1]
          BY <1>3, <4>1
        <4> QED
          BY <1>6, <2>1, <3>2, <4>2 DEF Effect
      <3> QED
        BY <3>1, <3>2
    <2> QED
      BY <2>3, <2>4
  <1>8. CASE Put(r, q)
    <2> DEFINE ver == IF o.kind = "insert" THEN 1 ELSE old[o.block].ver + 1
    <2>1. /\ o.kind \in {"insert", "move"} /\ o.block \in q.mine /\ requests[r].pc = "write"
          /\ o.kind = "insert" => ~old[o.block].present
          /\ Has(old, o.parent)
          /\ q.shares = requests[r].shares \cup ({o.parent} \ {Root})
          /\ new = [old EXCEPT ![o.block] =
               [present |-> TRUE, parent |-> o.parent, pos |-> requests[r].pos,
                depth |-> requests[r].depth, ver |-> ver]]
      BY <1>8 DEF Put
    <2>2. o.kind = "move" => old[o.block].present /\ old[o.block].ver = o.ver
      <3> HIDE DEF o
      <3>1. o.kind = "move" => Seen(requests[r])[o.block].present /\ Seen(requests[r])[o.block].ver = o.ver
        BY <1>4, <2>1 DEF Knows
      <3> QED
        BY <3>1
    <2> HIDE DEF old, o, new, now, ver
    <2>3. now[o.block].present = old[o.block].present /\ now[o.block].ver = old[o.block].ver
      BY <1>1, <1>3
    <2>4. Has(now, o.parent)
      BY <1>1, <1>3, <2>1 DEF Has, Parents
    <2>5. Holds(q, Shared(r), now, o)
      BY <2>1, <2>2, <2>3, <2>4 DEF Holds, Passes
    <2>6. ASSUME NEW b \in Blocks PROVE Links(new)[b] = Alone(now, o)[b]
      <3>1. CASE b # o.block
        <4>1. new[b] = old[b]
          BY <1>1, <2>1, <3>1
        <4> QED
          BY <1>3, <1>6, <2>1, <3>1, <4>1 DEF Effect
      <3>2. CASE b = o.block
        <4>1. new[b].present /\ new[b].parent = o.parent /\ new[b].ver = ver
          BY <1>1, <2>1, <3>2
        <4>2. Links(new)[b] = [present |-> TRUE, parent |-> o.parent, ver |-> ver]
          BY <1>3, <1>1, <2>1, <3>2
        <4>3. CASE o.kind = "insert"
          BY <1>6, <3>2, <4>2, <4>3 DEF Effect, ver
        <4>4. CASE o.kind = "move"
          BY <1>6, <2>2, <2>3, <3>2, <4>2, <4>4 DEF Effect, ver
        <4> QED
          BY <2>1, <4>3, <4>4
      <3> QED
        BY <3>1, <3>2
    <2> QED
      BY <2>5, <2>6
  <1>9. CASE Dropped(r, q)
    <2> DEFINE all == Subtree(old, o.block)
    <2>1. /\ o.kind = "delete" /\ requests[r].pc = "write" /\ all \subseteq q.mine
          /\ \A p \in Others(r) : all \cap requests[p].shares = {}
          /\ new = [b \in Blocks |-> IF b \in all THEN NoRow ELSE old[b]]
      BY <1>9 DEF Dropped
    <2>2. old[o.block].present /\ old[o.block].ver = o.ver
      BY <1>4, <2>1 DEF Knows
    <2>3. o.block \in all
      BY <1>1, SubtreeLeast
    <2>4. Subtree(now, o.block) = all
      BY SubtreeLinks
    <2>5. all \cap Shared(r) = {}
      BY <2>1 DEF Shared
    <2> HIDE DEF old, o, new, now, all
    <2>6. now[o.block].present = old[o.block].present /\ now[o.block].ver = old[o.block].ver
      BY <1>1, <1>3
    <2>7. Holds(q, Shared(r), now, o)
      BY <2>1, <2>2, <2>3, <2>4, <2>5, <2>6 DEF Holds, Passes
    <2>8. \A b \in Blocks : Links(new)[b] = Alone(now, o)[b]
      BY <1>3, <1>6, <2>1, <2>4 DEF Effect
    <2> QED
      BY <2>7, <2>8
  <1> QED
    BY <1>7, <1>8, <1>9

\* What a request has put somewhere, after a step of its own.
LEMMA WorksRooted ==
  ASSUME TypeOK, LockInv, NEW r \in Requests, requests[r].pc \in {"op", "place", "write"},
         Rooted(requests[r]), NEW q, Step(r, q), Works(r, q)
  PROVE  Rooted(q)
  <1> DEFINE before == requests[r]
             o == Current(r)
             old == Seen(before)
             new == Seen(q)
  <1>1. /\ before.mine \subseteq q.mine /\ before.shares \subseteq q.shares
    BY DEF Step, Gains
  <1>2. old \in [Blocks -> Row] /\ o \in Op
    BY ViewTyped, SeenIsView, CurrentTyped
  <1>3. SUFFICES \A b \in Blocks : new[b].present =>
                   \/ old[b].present /\ new[b].parent = old[b].parent
                   \/ b \in q.mine /\ new[b].parent \in q.shares \cup {Root}
    BY <1>1 DEF Rooted
  <1>4. CASE Lasts(r, q) \/ Passed(r, q)
    BY <1>4 DEF Lasts, Passed
  <1>5. CASE Bumped(r, q)
    <2>1. new = [old EXCEPT ![o.block].ver = @ + 1]
      BY <1>5 DEF Bumped
    <2> HIDE DEF new, old
    <2> QED
      BY <1>2, <2>1 DEF Row
  <1>6. CASE Put(r, q)
    <2>1. /\ o.block \in q.mine /\ q.shares = before.shares \cup ({o.parent} \ {Root})
          /\ \E ver : new = [old EXCEPT ![o.block] =
               [present |-> TRUE, parent |-> o.parent, pos |-> before.pos, depth |-> before.depth,
                ver |-> ver]]
      BY <1>6 DEF Put
    <2> HIDE DEF new, old
    <2>2. \A b \in Blocks \ {o.block} : new[b] = old[b]
      BY <1>2, <2>1
    <2>3. o.block \in Blocks => new[o.block].parent = o.parent
      BY <1>2, <2>1
    <2> QED
      BY <2>1, <2>2, <2>3
  <1>7. CASE Dropped(r, q)
    <2>1. PICK all : new = [b \in Blocks |-> IF b \in all THEN NoRow ELSE old[b]]
      BY <1>7 DEF Dropped
    <2> HIDE DEF new, old
    <2> QED
      BY <2>1 DEF NoRow
  <1> QED
    BY <1>4, <1>5, <1>6, <1>7 DEF Works

\* The run of a request, after a step of its own.
LEMMA WorksSerial ==
  ASSUME TypeOK, LockInv, NEW r \in Requests, requests[r].pc \in {"op", "place", "write"},
         Serial(r), NEW q, Step(r, q), Works(r, q), ~q.broken
  PROVE  \E chosen, run : History(q, Links(rows), Links(Seen(q)), Shared(r), chosen, run)
  <1> DEFINE before == requests[r]
             old == Links(rows)
             now == Links(Seen(before))
             new == Links(Seen(q))
             shared == Shared(r)
  <1>1. PICK chosen, run : History(before, old, now, shared, chosen, run)
    BY DEF Serial
  <1>2. /\ q.ops = before.ops /\ before.mine \subseteq q.mine /\ before.shares \subseteq q.shares
        /\ q \in Request
    BY DEF Step, Gains
  <1>3. before.at \in Nat \ {0} /\ before \in Request /\ Current(r) = before.ops[before.at]
    <2>1. before.at \in 1 .. Len(before.ops) /\ before \in Request
      BY CurrentTyped
    <2> QED
      BY <2>1 DEF Request, Current
  <1>4. now \in Tree /\ new \in Tree
    BY <1>2, <1>3, SeenTyped
  <1>5. \A b \in Blocks \ q.mine : new[b] = old[b]
    BY DEF Links, Seen
  <1>6. CASE Lasts(r, q)
    <2>1. q.at = before.at /\ new = now
      BY <1>6 DEF Lasts
    <2> HIDE DEF old, now, new, shared
    <2>2. History(q, old, now, shared, chosen, run)
      BY <1>1, <1>2, <2>1, HistoryLasts
    <2> QED
      BY <2>1, <2>2 DEF old, now, new, shared
  <1>7. CASE ~Lasts(r, q)
    <2>1. q.at = before.at + 1
      BY <1>7 DEF Works, Passed, Bumped, Put, Dropped, Past
    <2>2. \/ new = now
          \/ new = Alone(now, before.ops[before.at]) /\ Holds(q, shared, now, before.ops[before.at])
      <3>1. CASE Passed(r, q)
        BY <3>1 DEF Passed
      <3>2. CASE ~Passed(r, q)
        BY <1>3, <1>7, <3>2, WorksAlone DEF Works
      <3> QED
        BY <3>1, <3>2
    <2> HIDE DEF old, now, new, shared
    <2>3. \E more, further : History(q, old, new, shared, more, further)
      BY <1>1, <1>2, <1>3, <1>4, <1>5, <2>1, <2>2, HistoryGrows
    <2> QED
      BY <2>3 DEF old, new, shared
  <1> QED
    BY <1>6, <1>7

\* Another request has committed `new`: the operations of this one would have had
\* their effect on that too.
LEMMA HistoryBeside ==
  ASSUME NEW q \in Request, NEW old \in Tree, NEW now \in Tree, NEW new \in Tree,
         NEW shared, NEW shares, NEW chosen, NEW run,
         History(q, old, now, shared, chosen, run),
         \A n \in 1 .. q.at - 1 : q.ops[n] \in Op, q.at \in Nat \ {0},
         \A b \in q.mine : new[b] = old[b],
         \A b \in q.shares \ q.mine : old[b].present => new[b].present,
         \A b \in Blocks \ q.mine : new[b].present =>
           \/ old[b].present /\ old[b].parent = new[b].parent
           \/ new[b].parent \in shared \cup {Root},
         shares \subseteq shared
  PROVE  \E further :
           History(q, new, [b \in Blocks |-> IF b \in q.mine THEN now[b] ELSE new[b]],
                   shares, chosen, further)
  <1> DEFINE Beneath(tree) == [b \in Blocks |-> IF b \in q.mine THEN tree[b] ELSE new[b]]
             further == [n \in 0 .. q.at - 1 |-> Beneath(run[n])]
  <1>1. /\ chosen \subseteq 1 .. q.at - 1 /\ run \in [0 .. q.at - 1 -> Tree]
        /\ run[0] = old /\ run[q.at - 1] = now
        /\ q.mine \subseteq Blocks /\ q.at - 1 \in Nat
        /\ 0 \in 0 .. q.at - 1 /\ q.at - 1 \in 0 .. q.at - 1
    BY DEF History, Request
  <1>2. \A tree \in Tree : Beneath(tree) \in Tree
    BY DEF Tree
  <1>3. \A tree \in Tree : /\ \A b \in q.mine : Beneath(tree)[b] = tree[b]
                           /\ \A b \in Blocks \ q.mine : Beneath(tree)[b] = new[b]
    BY <1>1
  <1>4. Beneath(old) = new
    <2>1. \A b \in Blocks : Beneath(old)[b] = new[b]
      BY <1>3
    <2> HIDE DEF Beneath
    <2> QED
      BY <1>2, <2>1 DEF Tree
  <1> HIDE DEF Beneath
  <1>5. /\ further \in [0 .. q.at - 1 -> Tree]
        /\ \A n \in 0 .. q.at - 1 : further[n] = Beneath(run[n])
    BY <1>1, <1>2
  <1> HIDE DEF further
  <1>6. ASSUME NEW n \in chosen
        PROVE  /\ Holds(q, shares, further[n - 1], q.ops[n])
               /\ further[n] = Alone(further[n - 1], q.ops[n])
    <2>1. PICK m \in 0 .. q.at - 1 : m = n - 1
      BY <1>1
    <2>2. n \in 0 .. q.at - 1 /\ n \in 1 .. q.at - 1
      BY <1>1
    <2>3. PICK o \in Op : o = q.ops[n]
      BY <2>2
    <2>4. PICK tree \in Tree : tree = run[m]
      BY <1>1
    <2>5. PICK other \in Tree : other = Beneath(tree)
      BY <1>2
    <2>6. Holds(q, shared, tree, o) /\ run[n] = Alone(tree, o)
      BY <1>6, <2>1, <2>2, <2>3, <2>4 DEF History
    <2>7. \A b \in Blocks \ q.mine : tree[b] = old[b]
      BY <2>4 DEF History
    <2>8. /\ \A b \in q.mine : other[b] = tree[b]
          /\ \A b \in Blocks \ q.mine : other[b] = new[b]
      BY <1>3, <2>5
    <2>9. o.block \in Blocks /\ o.parent \in Parents /\ o.block \in q.mine
      BY <2>6 DEF Op, Holds
    <2> DEFINE all == Subtree(tree, o.block)
    <2>10. ASSUME o.kind = "delete" PROVE Closed(other, all)
      <3>1. all \subseteq q.mine \ shared /\ all \subseteq Blocks
        BY <1>1, <2>6, <2>10 DEF Holds
      <3>2. SUFFICES ASSUME NEW c \in Blocks, other[c].present, other[c].parent \in all
                     PROVE  c \in all
        BY DEF Closed
      <3>3. Closed(tree, all)
        BY <2>9, SubtreeLeast
      <3> HIDE DEF all
      <3>4. CASE c \in q.mine
        BY <2>8, <3>2, <3>3, <3>4 DEF Closed
      <3>5. CASE c \notin q.mine
        <4>1. other[c] = new[c] /\ tree[c] = old[c]
          BY <2>7, <2>8, <3>5
        <4>2. new[c].parent \notin shared \cup {Root}
          BY <3>1, <3>2, <4>1, OpsAssumption
        <4>3. tree[c].present /\ tree[c].parent = other[c].parent
          BY <3>2, <3>5, <4>1, <4>2
        <4> QED
          BY <3>2, <3>3, <4>3 DEF Closed
      <3> QED
        BY <3>4, <3>5
    <2>11. o.kind = "delete" => all \subseteq q.mine
      BY <2>6 DEF Holds
    <2>12. /\ \A b \in q.mine : Alone(other, o)[b] = Alone(tree, o)[b]
           /\ \A b \in Blocks \ q.mine : Alone(other, o)[b] = other[b]
           /\ o.kind = "delete" => Subtree(other, o.block) = all
      BY <1>1, <2>8, <2>9, <2>10, <2>11, AloneKeepsTo
    <2>13. further[n] = Alone(other, o)
      <3>1. Alone(other, o) \in Tree /\ Alone(tree, o) \in Tree
        BY AloneTyped DEF Effect
      <3>2. further[n] = Beneath(Alone(tree, o))
        BY <1>5, <2>2, <2>6
      <3>3. \A b \in Blocks : Alone(other, o)[b] = Beneath(Alone(tree, o))[b]
        BY <1>3, <2>8, <2>12, <3>1
      <3> QED
        BY <1>2, <3>1, <3>2, <3>3 DEF Tree
    <2>14. Holds(q, shares, other, o)
      <3>1. Passes(tree, o) /\ (o.kind \in {"insert", "move"} => o.parent \in q.shares \cup {Root})
        BY <2>6 DEF Holds
      <3>2. other[o.block] = tree[o.block]
        BY <2>8, <2>9
      <3>3. o.kind \in {"insert", "move"} => Has(other, o.parent)
        <4>1. SUFFICES ASSUME o.kind \in {"insert", "move"}, o.parent # Root
                       PROVE  other[o.parent].present
          BY DEF Has
        <4>2. tree[o.parent].present /\ o.parent \in q.shares /\ o.parent \in Blocks
          BY <2>9, <3>1, <4>1 DEF Passes, Has, Parents
        <4> QED
          BY <2>7, <2>8, <4>2
      <3>4. Passes(other, o)
        BY <3>1, <3>2, <3>3 DEF Passes, Op, AllKinds
      <3> QED
        BY <2>6, <2>12, <3>4 DEF Holds
    <2>15. further[n - 1] = other
      BY <1>5, <2>1, <2>4, <2>5
    <2> QED
      BY <2>3, <2>13, <2>14, <2>15
  <1>7. \A n \in 1 .. q.at - 1 :
          further[n] = IF n \in chosen THEN Alone(further[n - 1], q.ops[n]) ELSE further[n - 1]
    <2> SUFFICES ASSUME NEW n \in 1 .. q.at - 1, n \notin chosen
                 PROVE  further[n] = further[n - 1]
      BY <1>6
    <2>1. run[n] = run[n - 1] /\ n \in 0 .. q.at - 1 /\ n - 1 \in 0 .. q.at - 1
      BY <1>1 DEF History
    <2> QED
      BY <1>5, <2>1
  <1>8. \A n \in 0 .. q.at - 1 : \A b \in Blocks \ q.mine : further[n][b] = new[b]
    BY <1>1, <1>3, <1>5
  <1>9. History(q, new, Beneath(now), shares, chosen, further)
    BY <1>1, <1>4, <1>5, <1>6, <1>7, <1>8 DEF History
  <1> QED
    BY <1>9 DEF Beneath

\* The operations that a request has had are operations.
LEMMA OpsTyped ==
  ASSUME TypeOK, NEW r \in Requests, requests[r].pc \in Running, Accounted(r)
  PROVE  /\ requests[r].at \in Nat \ {0}
         /\ \A n \in 1 .. requests[r].at - 1 : requests[r].ops[n] \in Op
  <1>1. requests[r] \in Request /\ requests[r].ops \in Seq(Op) /\ Len(requests[r].ops) \in Nat
    BY DEF TypeOK, Request
  <1>2. requests[r].at \in 1 .. Len(requests[r].ops) + 1
    <2>1. CASE requests[r].pc = "commit"
      BY <1>1, <2>1 DEF Accounted
    <2>2. CASE requests[r].pc \in {"op", "place", "write"}
      BY <1>1, <2>2 DEF TypeOK
    <2> QED
      BY <2>1, <2>2 DEF Running
  <1>3. ASSUME NEW n \in 1 .. requests[r].at - 1 PROVE requests[r].ops[n] \in Op
    <2>1. n \in 1 .. Len(requests[r].ops)
      BY <1>1, <1>2
    <2> QED
      BY <1>1, <2>1, ElementOfSeq
  <1> QED
    BY <1>1, <1>2, <1>3

LEMMA SerialWork ==
  ASSUME TypeOK, LockInv, SerialInv, NEW r \in Requests, Working(r)
  PROVE  SerialInv'
  <1>1. PICK q : Goto(r, q) /\ Step(r, q) /\ Works(r, q)
    BY DEF Working
  <1>2. requests[r].pc \in {"op", "place", "write"} /\ ~requests[r].broken /\ rows' = rows
    BY DEF Working
  <1>3. \A p \in Requests : requests'[p] = IF p = r THEN q ELSE requests[p]
    BY <1>1 DEF Goto, TypeOK
  <1>4. Rooted(requests[r]) /\ Serial(r)
    BY <1>2 DEF SerialInv, Accounted, Running
  <1>5. Links(rows)' = Links(rows) /\ \A x : Seen(x)' = Seen(x)
    BY <1>2 DEF Links, Seen
  <1>6. SUFFICES ASSUME NEW p \in Requests PROVE Accounted(p)'
    BY DEF SerialInv
  <1>7. CASE p = r
    <2>1. requests'[p] = q
      BY <1>3, <1>7
    <2>2. Rooted(q)
      BY <1>1, <1>2, <1>4, WorksRooted
    <2>3. Rooted(requests[p])'
      BY <1>2, <2>1, <2>2 DEF Rooted, Seen
    <2>4. q.pc = "commit" => q.at = Len(q.ops) + 1
      BY <1>1 DEF Works, Lasts, Passed, Bumped, Put, Dropped, Past, Step
    <2>5. ASSUME ~q.broken PROVE Serial(p)'
      <3>1. PICK chosen, run : History(q, Links(rows), Links(Seen(q)), Shared(r), chosen, run)
        BY <1>1, <1>2, <1>4, <2>5, WorksSerial
      <3>2. Shared(r)' = Shared(r)
        BY <1>3 DEF Shared, Others
      <3>3. Links(Seen(requests[p]))' = Links(Seen(q))
        BY <1>5, <2>1 DEF Links, Seen
      <3>4. History(requests'[p], Links(rows)', Links(Seen(requests[p]))', Shared(p)', chosen, run)
        BY <1>5, <1>7, <2>1, <3>1, <3>2, <3>3
      <3> QED
        BY <3>4 DEF Serial
    <2> QED
      BY <2>1, <2>3, <2>4, <2>5 DEF Accounted
  <1>8. CASE p # r
    <2>1. requests'[p] = requests[p] /\ Accounted(p)
      BY <1>3, <1>8 DEF SerialInv
    <2>2. Rooted(requests[p])'
      BY <1>2, <2>1 DEF Accounted, Rooted, Seen
    <2>3. ASSUME Serial(p) PROVE Serial(p)'
      <3>1. PICK chosen, run :
              History(requests[p], Links(rows), Links(Seen(requests[p])), Shared(p), chosen, run)
        BY <2>3 DEF Serial
      <3>2. Shared(p)' \cap requests[p].mine \subseteq Shared(p)
        <4> SUFFICES ASSUME NEW s \in Others(p), NEW b \in requests'[s].shares, b \in requests[p].mine
                     PROVE  b \in Shared(p)
          BY DEF Shared, Others
        <4>1. CASE s # r
          BY <1>3, <4>1 DEF Shared, Others
        <4>2. CASE s = r
          <5>1. b \in q.shares /\ p \in Others(r)
            BY <1>3, <1>8, <4>2 DEF Others
          <5>2. b \in requests[r].shares
            BY <1>1, <5>1 DEF Step, Gains
          <5> QED
            BY <4>2, <5>2 DEF Shared
        <4> QED
          BY <4>1, <4>2
      <3> DEFINE next == Shared(p)'
      <3>3. History(requests[p], Links(rows), Links(Seen(requests[p])), next, chosen, run)
        <4> HIDE DEF next
        <4>1. next \cap requests[p].mine \subseteq Shared(p)
          BY <3>2 DEF next
        <4> QED
          BY <3>1, <4>1, HistoryLasts
      <3>4. Links(Seen(requests[p]))' = Links(Seen(requests[p]))
        BY <1>5, <2>1 DEF Links, Seen
      <3> QED
        BY <1>5, <2>1, <3>3, <3>4 DEF Serial
    <2> QED
      BY <2>1, <2>2, <2>3 DEF Accounted
  <1> QED
    BY <1>7, <1>8

LEMMA SerialCommit ==
  ASSUME TypeOK, LockInv, SerialInv, NEW r \in Requests, Commit(r)
  PROVE  SerialInv'
  <1>1. PICK q \in Request :
           /\ Goto(r, q) /\ q.pc \in {"answer", "xadd"} /\ requests[r].pc = "commit"
           /\ q.mine = {} /\ q.shares = {}
           /\ rows' = rows \/ (~requests[r].broken /\ rows' = Seen(requests[r]))
    BY CommitStep
  <1>2. \A p \in Requests : requests'[p] = IF p = r THEN q ELSE requests[p]
    BY <1>1 DEF Goto, TypeOK
  <1>3. SUFFICES ASSUME NEW p \in Requests PROVE Accounted(p)'
    BY DEF SerialInv
  <1>4. CASE p = r
    <2>1. requests'[p] = q
      BY <1>2, <1>4
    <2> QED
      BY <1>1, <2>1 DEF Accounted, Rooted, Seen, Running
  <1>5. CASE p # r
    <2> DEFINE x == requests[p]
               y == requests[r]
    <2>1. requests'[p] = x /\ Accounted(p) /\ x \in Request /\ y \in Request
      BY <1>2, <1>5 DEF SerialInv, TypeOK
    <2>2. Compatible(x, y) /\ Written(y) /\ Rooted(y) /\ Written(x)
      BY <1>5 DEF LockInv, SerialInv, Accounted
    <2>3. y.shares \subseteq Shared(p) /\ Shared(p)' \subseteq Shared(p)
      BY <1>1, <1>2, <1>5 DEF Shared, Others
    <2>4. \A b \in x.mine : rows'[b] = rows[b]
      BY <1>1, <2>2, <2>1 DEF Compatible, Seen, Request
    <2>5. Rooted(requests[p])'
      BY <2>1, <2>4 DEF Accounted, Rooted, Seen, Request
    <2>6. ASSUME Serial(p), x.pc \in Running PROVE Serial(p)'
      <3> DEFINE old == Links(rows)
                 now == Links(Seen(x))
                 new == Links(rows')
                 shared == Shared(p)
                 shares == Shared(p)'
      <3>1. PICK chosen, run : History(x, old, now, shared, chosen, run)
        BY <2>6 DEF Serial
      <3>2. rows' \in [Blocks -> Row] /\ rows \in [Blocks -> Row]
        BY <1>1, <2>1, SeenTyped DEF TypeOK
      <3>3. old \in Tree /\ now \in Tree /\ new \in Tree
        BY <2>1, <3>2, SeenTyped, LinksTyped
      <3>4. \A b \in x.mine : new[b] = old[b]
        BY <2>1, <2>4 DEF Links, Request
      <3>5. \A b \in Blocks : /\ old[b].present = rows[b].present /\ old[b].parent = rows[b].parent
                              /\ new[b].present = rows'[b].present /\ new[b].parent = rows'[b].parent
        BY DEF Links
      <3>6. \A b \in x.shares \ x.mine : old[b].present => new[b].present
        <4> SUFFICES ASSUME NEW b \in x.shares, rows[b].present PROVE rows'[b].present
          BY <2>1, <3>5 DEF Request
        <4>1. b \in Blocks
          BY <2>1 DEF Request
        <4>2. b \in y.mine => y.copy[b].present
          BY <1>5 DEF LockInv, Compatible
        <4> QED
          BY <1>1, <4>1, <4>2 DEF Seen
      <3>7. \A b \in Blocks \ x.mine : new[b].present =>
              \/ old[b].present /\ old[b].parent = new[b].parent
              \/ new[b].parent \in shared \cup {Root}
        <4> SUFFICES ASSUME NEW b \in Blocks, rows'[b].present
                     PROVE  \/ rows[b].present /\ rows[b].parent = rows'[b].parent
                            \/ rows'[b].parent \in shared \cup {Root}
          BY <3>5
        <4> QED
          BY <1>1, <2>2, <2>3 DEF Rooted
      <3>8. x.at \in Nat \ {0} /\ \A n \in 1 .. x.at - 1 : x.ops[n] \in Op
        BY <2>1, <2>6, OpsTyped
      <3> DEFINE next == [b \in Blocks |-> IF b \in x.mine THEN now[b] ELSE new[b]]
      <3>9. \E further : History(x, new, next, shares, chosen, further)
        <4>1. shares \subseteq shared /\ x \in Request
          BY <2>1, <2>3
        <4> HIDE DEF x, old, now, new, shared, shares
        <4>2. /\ x \in Request /\ old \in Tree /\ now \in Tree /\ new \in Tree
              /\ shares \subseteq shared /\ x.at \in Nat \ {0}
              /\ \A n \in 1 .. x.at - 1 : x.ops[n] \in Op
          BY <3>3, <3>8, <4>1
        <4> QED
          BY <3>1, <3>4, <3>6, <3>7, <4>2, HistoryBeside, Zenon
      <3>10. Links(Seen(requests[p]))' = next
        BY <2>1 DEF Links, Seen
      <3>11. Links(rows)' = new
        BY DEF Links
      <3> HIDE DEF next, new
      <3> QED
        BY <2>1, <3>9, <3>10, <3>11 DEF Serial
    <2> QED
      BY <2>1, <2>5, <2>6 DEF Accounted
  <1> QED
    BY <1>4, <1>5

\* A request that has done nothing has the empty run.
LEMMA SerialStart ==
  ASSUME rows \in [Blocks -> Row], NEW q, q.at = 1, q.mine = {}, NEW shared
  PROVE  \E chosen, run : History(q, Links(rows), Links(Seen(q)), shared, chosen, run)
  <1> DEFINE old == Links(rows)
             run == [n \in 0 .. 0 |-> old]
  <1>1. Links(Seen(q)) = old
    BY DEF Seen, Links
  <1>2. old \in Tree
    BY LinksTyped
  <1> HIDE DEF old
  <1>3. 1 .. 0 = {} /\ q.at - 1 = 0 /\ run \in [0 .. 0 -> Tree] /\ run[0] = old /\ \A n \in 0 .. 0 : n = 0
    BY <1>2
  <1> HIDE DEF run
  <1>4. History(q, old, old, shared, {}, run)
    BY <1>3 DEF History
  <1> QED
    BY <1>1, <1>4 DEF old

\* Nobody else minds a request that has no locks, and has had none or has ended.
LEMMA SerialOthers ==
  ASSUME SerialInv, NEW p \in Requests, requests'[p] = requests[p], rows' = rows,
         \A s \in Requests : requests'[s] = requests[s] \/ requests'[s].shares = {}
  PROVE  Accounted(p)'
  <1>1. Accounted(p)
    BY DEF SerialInv
  <1>2. Rooted(requests[p])'
    BY <1>1 DEF Accounted, Rooted, Seen
  <1>3. ASSUME Serial(p) PROVE Serial(p)'
    <2> DEFINE x == requests[p]
               old == Links(rows)
               now == Links(Seen(x))
               shared == Shared(p)
               shares == Shared(p)'
    <2>1. PICK chosen, run : History(x, old, now, shared, chosen, run)
      BY <1>3 DEF Serial
    <2>2. shares \subseteq shared
      BY DEF Shared, Others
    <2>3. Links(rows)' = old /\ Links(Seen(requests[p]))' = now
      BY DEF Links, Seen
    <2>4. History(x, old, now, shares, chosen, run)
      <3> HIDE DEF x, old, now, shared, shares
      <3>1. shares \cap x.mine \subseteq shared
        BY <2>2
      <3> QED
        BY <2>1, <3>1, HistoryLasts
    <2> HIDE DEF old, now
    <2> QED
      BY <2>3, <2>4 DEF Serial
  <1> QED
    BY <1>1, <1>2, <1>3 DEF Accounted

LEMMA SerialSubmit ==
  ASSUME TypeOK, SerialInv, NEW r \in Requests, Submits(r)
  PROVE  SerialInv'
  <1>1. PICK ops \in Seq(Op) : Goto(r, [NoRequest EXCEPT !.pc = "op", !.ops = ops])
    BY DEF Submits
  <1> DEFINE q == [NoRequest EXCEPT !.pc = "op", !.ops = ops]
  <1>2. q.at = 1 /\ q.mine = {} /\ q.shares = {} /\ q.pc = "op"
    BY EmptyTyped DEF Request
  <1>3. Goto(r, q) /\ rows' = rows /\ rows \in [Blocks -> Row]
    BY <1>1 DEF Submits, TypeOK
  <1> HIDE DEF q
  <1>4. \A p \in Requests : requests'[p] = IF p = r THEN q ELSE requests[p]
    BY <1>3 DEF Goto, TypeOK
  <1>5. Accounted(r)'
    <2>1. requests'[r] = q
      BY <1>4
    <2>2. Rooted(requests[r])'
      BY <1>2, <1>3, <2>1 DEF Rooted, Seen
    <2> DEFINE shared == Shared(r)'
    <2>3. \E chosen, run : History(q, Links(rows), Links(Seen(q)), shared, chosen, run)
      <3> HIDE DEF shared
      <3> QED
        BY <1>2, <1>3, SerialStart
    <2>4. Links(rows)' = Links(rows) /\ Links(Seen(requests[r]))' = Links(Seen(q))
      BY <1>3, <2>1 DEF Links, Seen
    <2>5. Serial(r)'
      BY <2>1, <2>3, <2>4 DEF Serial
    <2> QED
      BY <1>2, <2>1, <2>2, <2>5 DEF Accounted
  <1>6. ASSUME NEW p \in Requests, p # r PROVE Accounted(p)'
    BY <1>2, <1>3, <1>4, <1>6, SerialOthers
  <1> QED
    BY <1>5, <1>6 DEF SerialInv

LEMMA SerialEnding ==
  ASSUME SerialInv, Ending
  PROVE  SerialInv'
  <1>1. \A p \in Requests : requests'[p] = requests[p] \/ Ended(requests[p], requests'[p])
    BY DEF Ending
  <1>2. SUFFICES ASSUME NEW p \in Requests PROVE Accounted(p)'
    BY DEF SerialInv
  <1>3. CASE requests'[p] = requests[p]
    BY <1>1, <1>3, SerialOthers DEF Ending, Ended
  <1>4. CASE Ended(requests[p], requests'[p])
    BY <1>4 DEF Ended, Accounted, Rooted, Seen, Running
  <1> QED
    BY <1>1, <1>3, <1>4

LEMMA SerialInit ==
  ASSUME Init
  PROVE  SerialInv
  <1>1. rows \in [Blocks -> Row]
    BY InitInv DEF IInv, TypeOK
  <1>2. SUFFICES ASSUME NEW r \in Requests PROVE Accounted(r)
    BY DEF SerialInv
  <1>3. requests[r].pc = "idle" /\ requests[r].mine = {}
    BY EmptyTyped DEF Init
  <1> QED
    BY <1>3 DEF Accounted, Rooted, Seen, Running

LEMMA SerialStep ==
  ASSUME IInv, SerialInv, [Next]_vars
  PROVE  SerialInv'
  BY NextCases, SerialSubmit, SerialWork, SerialCommit, SerialEnding DEF IInv

\* The recursion of CommitIsSerial leads through a run's trees.
LEMMA RunIsSerial ==
  ASSUME NEW r \in Requests, NEW chosen \in SUBSET (1 .. Len(requests[r].ops)), NEW run,
         Len(requests[r].ops) \in Nat,
         run \in [0 .. Len(requests[r].ops) -> Tree],
         run[0] = Links(rows), run[Len(requests[r].ops)] = Links(rows'),
         \A n \in 1 .. Len(requests[r].ops) : run[n] =
           IF n \in chosen THEN Alone(run[n - 1], requests[r].ops[n]) ELSE run[n - 1],
         \A n \in chosen : Passes(run[n - 1], requests[r].ops[n])
  PROVE  CommitIsSerial(r)
  <1> DEFINE ops == requests[r].ops
             tree[n \in 0 .. Len(ops)] ==
               IF n = 0 THEN Links(rows)
               ELSE IF n \in chosen THEN Alone(tree[n - 1], ops[n]) ELSE tree[n - 1]
             Turn(t) == [n \in 0 .. Len(ops) |->
               IF n = 0 THEN Links(rows)
               ELSE IF n \in chosen THEN Alone(t[n - 1], ops[n]) ELSE t[n - 1]]
  <1>1. run = Turn(run)
    <2>1. \A n \in 0 .. Len(ops) : run[n] = Turn(run)[n]
      <3> SUFFICES ASSUME NEW n \in 0 .. Len(ops) PROVE run[n] = Turn(run)[n]
        OBVIOUS
      <3>1. n = 0 \/ n \in 1 .. Len(ops)
        OBVIOUS
      <3> QED
        BY <3>1
    <2> QED
      BY <2>1
  <1>2. tree = Turn(tree)
    <2>1. tree = CHOOSE t : t = Turn(t)
      BY DEF tree
    <2> HIDE DEF tree
    <2> QED
      BY <1>1, <2>1
  <1> HIDE DEF tree
  <1>3. \A n \in 0 .. Len(ops) : tree[n] =
          IF n = 0 THEN Links(rows)
          ELSE IF n \in chosen THEN Alone(tree[n - 1], ops[n]) ELSE tree[n - 1]
    BY <1>2
  <1>4. \A n \in 0 .. Len(ops) : tree[n] = run[n]
    <2> DEFINE wrong == {n \in 0 .. Len(ops) : tree[n] # run[n]}
    <2>1. SUFFICES ASSUME wrong # {} PROVE FALSE
      OBVIOUS
    <2>2. PICK n \in wrong : \A m \in wrong : n <= m
      <3>1. wrong \subseteq Nat
        OBVIOUS
      <3> HIDE DEF wrong
      <3> QED
        BY <2>1, <3>1, LeastNatural
    <2>3. n \in 1 .. Len(ops) /\ n - 1 \in 0 .. Len(ops)
      BY <1>3, <2>2
    <2>4. tree[n - 1] = run[n - 1]
      BY <2>2, <2>3
    <2> QED
      BY <1>3, <2>2, <2>3, <2>4
  <1>5. \A n \in chosen : Passes(tree[n - 1], ops[n])
    <2> SUFFICES ASSUME NEW n \in chosen PROVE Passes(tree[n - 1], ops[n])
      OBVIOUS
    <2>1. n - 1 \in 0 .. Len(ops)
      OBVIOUS
    <2> QED
      BY <1>4, <2>1
  <1>6. Links(rows') = tree[Len(ops)]
    BY <1>4
  <1> QED
    BY <1>5, <1>6 DEF CommitIsSerial, tree

\* Only a COMMIT changes the rows, to what its request saw.
LEMMA RowsStep ==
  ASSUME IInv, SerialInv, [Next]_vars, rows' # rows
  PROVE  \E r \in Requests : CommitIsSerial(r)
  <1>1. PICK r \in Requests : Commit(r)
    BY NextCases DEF IInv, Submits, Working, Ending
  <1>2. requests[r].pc = "commit" /\ ~requests[r].broken /\ rows' = Seen(requests[r])
    BY <1>1, CommitStep DEF IInv
  <1>3. Serial(r) /\ requests[r].at = Len(requests[r].ops) + 1 /\ Len(requests[r].ops) \in Nat
    BY <1>2 DEF SerialInv, Accounted, Running, IInv, TypeOK, Request
  <1>4. PICK chosen, run :
          History(requests[r], Links(rows), Links(Seen(requests[r])), Shared(r), chosen, run)
    BY <1>3 DEF Serial
  <1>5. requests[r].at - 1 = Len(requests[r].ops)
    BY <1>3
  <1>6. \A n \in chosen : Passes(run[n - 1], requests[r].ops[n])
    BY <1>4 DEF History, Holds
  <1>7. CommitIsSerial(r)
    BY <1>2, <1>3, <1>4, <1>5, <1>6, RunIsSerial DEF History
  <1> QED
    BY <1>7

\* However the requests interleave, a COMMIT has the effect of some of its
\* operations, one after the other on what is committed at that moment, each of
\* them with the version and the parent it needs: FOR UPDATE, the advisory lock
\* and the foreign keys lose no update between a check and its COMMIT.
THEOREM CommitsSerial == Spec => CommitsAreSerial
  <1>1. Init => IInv /\ SerialInv
    BY InitInv, SerialInit
  <1>2. IInv /\ SerialInv /\ [Next]_vars => (IInv /\ SerialInv)'
    BY NextInv, SerialStep
  <1>3. IInv /\ SerialInv /\ [Next]_vars
          => [rows' # rows => \E r \in Requests : CommitIsSerial(r)]_vars
    BY RowsStep
  <1> QED
    BY <1>1, <1>2, <1>3, PTL DEF Spec, CommitsAreSerial

=============================================================================
