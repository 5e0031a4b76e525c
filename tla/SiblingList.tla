---------------------------- MODULE SiblingList ------------------------------
(***************************************************************************)
(* The blocks of one parent in the order of their `position`, under the    *)
(* inserts, moves and deletes of apps/api/app/ops/apply.py. The advisory   *)
(* lock of the parent makes each of them one step here (module BlockOps).  *)
(***************************************************************************)
EXTENDS LexoRank

CONSTANTS
  Blocks,  \* block ids
  MaxLen   \* the VARCHAR(64) of `position`

\* The head of the list (afterId = None).
AtHead == "head"

ASSUME ListAssumption ==
  /\ MaxLen \in Nat \ {0}
  /\ AtHead \notin Blocks

VARIABLES
  nested,   \* the parent is a block, not the root: uq_block_position applies
  pos,      \* the rank of each block, None of one that is not in the list
  asked,    \* history: the pairs of blocks the requests asked for, the first before the second
  floored   \* history: a head insert has met a rank of MIN_CHARs only

vars == <<nested, pos, asked, floored>>

Present == {b \in Blocks : pos[b] # None}
Positions == {pos[b] : b \in Present}

\* The ranks fit their column, and the history orders the blocks that are there.
TypeOK ==
  /\ pos \in [Blocks -> Ranks]
  /\ \A b \in Blocks : Len(pos[b]) <= MaxLen
  /\ asked \subseteq Present \X Present
  /\ \A b, c \in Present : <<b, c>> \in asked <=> b # c /\ <<c, b>> \notin asked
  /\ {nested, floored} \subseteq BOOLEAN

Init ==
  /\ nested \in BOOLEAN
  /\ pos = [b \in Blocks |-> None]
  /\ asked = {}
  /\ floored = FALSE

Left(after) == IF after = AtHead THEN None ELSE pos[after]

\* The smallest rank above the left one, a moved block's own old rank included.
NextRank(left) ==
  LET above == {p \in Positions : Less(left, p)}
  IN IF above = {} THEN None ELSE CHOOSE p \in above : \A q \in above : p = q \/ Less(p, q)

Taken(b, rank) == nested /\ \E c \in Present \ {b} : pos[c] = rank

\* The order with b behind `after`: before it, `after` and what is before that.
Without(b) == {p \in asked : p[1] # b /\ p[2] # b}
Behind(b, after) ==
  LET others == Present \ {b}
      earlier == {c \in others : c = after \/ <<c, after>> \in asked}
  IN Without(b) \cup (earlier \X {b}) \cup ({b} \X (others \ earlier))

\* _compute_position and the statement that writes the rank. A conflict (no
\* midpoint, position collision) or an error of Postgres leaves the list alone.
Put(b, after) ==
  LET left == Left(after)
      right == NextRank(left)
      rank == Midpoint(left, right)
  IN
  /\ UNCHANGED nested
  /\ floored' = (floored \/ (left = None /\ right # None /\ AllZero(right)))
  /\ \/ /\ ~Raises(left, right) /\ Len(rank) <= MaxLen /\ ~Taken(b, rank)
        /\ pos' = [pos EXCEPT ![b] = rank]
        /\ asked' = Behind(b, after)
     \/ /\ Raises(left, right) \/ Len(rank) > MaxLen \/ Taken(b, rank)
        /\ UNCHANGED <<pos, asked>>

Insert(b, after) == b \notin Present /\ Put(b, after)

Move(b, after) == b \in Present /\ b # after /\ Put(b, after)

Delete(b) ==
  /\ b \in Present
  /\ pos' = [pos EXCEPT ![b] = None]
  /\ asked' = Without(b)
  /\ UNCHANGED <<nested, floored>>

Next ==
  \E b \in Blocks :
    \/ \E after \in Present \cup {AtHead} : Insert(b, after) \/ Move(b, after)
    \/ Delete(b)

Spec == Init /\ [][Next]_vars

-----------------------------------------------------------------------------
\* GET /blocks, which sorts by position, shows the order that was asked for, and
\* no two blocks share a rank.
OrderKept ==
  \A b, c \in Present : <<b, c>> \in asked => Less(pos[b], pos[c])

\* The same, until a head insert meets a rank that has nothing below it.
OrderedAboveFloor == ~floored => OrderKept

\* _compute_position always finds a midpoint: of two ranks none is the other
\* with MIN_CHARs behind it. Also beyond the floor.
RoomBetween ==
  \A b, c \in Present : Less(pos[b], pos[c]) => Differ(pos[b], pos[c]) # {}

=============================================================================
