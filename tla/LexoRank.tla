------------------------------ MODULE LexoRank -------------------------------
(***************************************************************************)
(* apps/api/app/lexorank.py: the strings that order the blocks of a parent.*)
(* A rank is the sequence of the values of its characters; <<>> is None,   *)
(* the open end of a list.                                                 *)
(***************************************************************************)
EXTENDS Naturals, Sequences

CONSTANTS
  Base,  \* characters of the ALPHABET
  Mid,   \* the value of MID_CHAR
  Seed   \* the value of DEFAULT_SEED

ASSUME RankAssumption ==
  /\ Base \in Nat
  /\ Mid \in 1 .. Base - 1
  /\ Seed \in 1 .. Base - 1

Digits == 0 .. Base - 1
Ranks == Seq(Digits)
None == <<>>

\* The order of Python and of Postgres on strings: at the first place where they
\* differ, a character that is smaller or missing.
Less(s, t) ==
  \E i \in 1 .. Len(t) :
    /\ i <= Len(s) + 1
    /\ \A j \in 1 .. i - 1 : s[j] = t[j]
    /\ i <= Len(s) => s[i] < t[i]

First(places) == CHOOSE i \in places : \A j \in places : i <= j

Nonzero(s) == {i \in 1 .. Len(s) : s[i] # 0}
AllZero(s) == Nonzero(s) = {}

\* _pad: the characters past the end of a rank are MIN_CHAR.
Length(left, right) == IF Len(left) < Len(right) THEN Len(right) ELSE Len(left)
Digit(s, i) == IF i <= Len(s) THEN s[i] ELSE 0
Pad(s, length) == [i \in 1 .. length |-> Digit(s, i)]
Differ(left, right) == {i \in 1 .. Length(left, right) : Digit(left, i) # Digit(right, i)}

\* Mutant: adds BASE, not BASE // 2.
AfterTooFar(left) == Append(left, 2 * Mid)

After(left) == Append(left, Mid)

\* Mutant: goes deeper with MIN_CHAR, not with MID_CHAR.
BeforeFloor(right) ==
  IF AllZero(right) THEN Append(right, 0)
  ELSE LET i == First(Nonzero(right))
       IN Append(SubSeq(right, 1, i - 1), right[i] \div 2)

\* Halves the first character that is not at the floor; if there is none, goes
\* deeper, and up.
Before(right) ==
  IF AllZero(right) THEN Append(right, Mid)
  ELSE LET i == First(Nonzero(right))
       IN Append(SubSeq(right, 1, i - 1), right[i] \div 2)

\* Mutant: a gap of one is halved too.
BetweenTight(left, right) ==
  LET i == First(Differ(left, right))
      a == Pad(left, Length(left, right))
      b == Pad(right, Length(left, right))
  IN Append(SubSeq(a, 1, i - 1), (a[i] + b[i]) \div 2)

\* Halves the gap at the first place where the two differ; where it is one,
\* keeps all of the left rank and goes deeper.
Between(left, right) ==
  LET i == First(Differ(left, right))
      a == Pad(left, Length(left, right))
      b == Pad(right, Length(left, right))
  IN IF b[i] - a[i] > 1 THEN Append(SubSeq(a, 1, i - 1), (a[i] + b[i]) \div 2)
     ELSE Append(a, Mid)

\* The ValueErrors of midpoint: bounds in the wrong order, or equal once padded.
Raises(left, right) ==
  left # None /\ right # None /\ (~Less(left, right) \/ Differ(left, right) = {})

Midpoint(left, right) ==
  CASE left = None /\ right = None -> <<Seed>>
    [] left = None /\ right # None -> Before(right)
    [] left # None /\ right = None -> After(left)
    [] OTHER -> Between(left, right)

=============================================================================
