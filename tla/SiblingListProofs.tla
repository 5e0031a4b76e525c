--------------------------- MODULE SiblingListProofs ---------------------------
(***************************************************************************)
(* Of any alphabet, any length of the column and any number of blocks:     *)
(* midpoints lie between their bounds, and the list keeps its order.       *)
(***************************************************************************)
EXTENDS SiblingList, FiniteSetTheorems, NaturalsInduction, SequenceTheorems,
        WellFoundedInduction, TLAPS

-----------------------------------------------------------------------------
(* The invariant.                                                          *)

\* A rank is one of MIN_CHARs only, or does not end with one, so that two ranks
\* differ in their characters, padded or not; and one block at most is at the floor.
Normal ==
  /\ \A b \in Present : AllZero(pos[b]) \/ pos[b][Len(pos[b])] # 0
  /\ \A b, c \in Present : AllZero(pos[b]) /\ AllZero(pos[c]) => b = c

LInv == /\ TypeOK /\ IsFiniteSet(Present) /\ Normal
        /\ OrderedAboveFloor

-----------------------------------------------------------------------------
(* The order of ranks.                                                     *)

\* A set of numbers that is not empty has a least one.
LEMMA LeastNatural ==
  ASSUME NEW T, T \subseteq Nat, T # {}
  PROVE  \E n \in T : \A m \in T : n <= m
<1>1. IsWellFoundedOn({p \in Nat \X Nat : p[1] < p[2]}, Nat)
  BY NatLessThanWellFounded DEF OpToRel
<1>2. PICK n \in T : \A m \in T : <<m, n>> \notin {p \in Nat \X Nat : p[1] < p[2]}
  BY <1>1, WFMin, Zenon
<1>3. ASSUME NEW m \in T PROVE n <= m
  <2>1. m \in Nat /\ n \in Nat
    OBVIOUS
  <2>2. m < n => <<m, n>> \in {p \in Nat \X Nat : p[1] < p[2]}
    BY <2>1
  <2> QED
    BY <1>2, <2>1, <2>2
<1> QED
  BY <1>3

LEMMA FirstOf ==
  ASSUME NEW places, places \subseteq Nat, places # {}
  PROVE  First(places) \in places /\ \A j \in places : First(places) <= j
  BY LeastNatural DEF First

LEMMA RankElements ==
  ASSUME NEW s \in Ranks
  PROVE  Len(s) \in Nat /\ \A i \in 1 .. Len(s) : s[i] \in Digits /\ s[i] \in Nat
  BY RankAssumption DEF Ranks, Digits

LEMMA LessIrreflexive == ASSUME NEW s \in Ranks PROVE ~Less(s, s)
<1>1. Len(s) \in Nat /\ \A i \in 1 .. Len(s) : s[i] \in Nat
  BY RankElements
<1> QED
  BY <1>1 DEF Less

LEMMA LessTransitive ==
  ASSUME NEW s \in Ranks, NEW t \in Ranks, NEW u \in Ranks, Less(s, t), Less(t, u)
  PROVE  Less(s, u)
<1>1. /\ Len(s) \in Nat /\ \A i \in 1 .. Len(s) : s[i] \in Nat
      /\ Len(t) \in Nat /\ \A i \in 1 .. Len(t) : t[i] \in Nat
      /\ Len(u) \in Nat /\ \A i \in 1 .. Len(u) : u[i] \in Nat
  BY RankElements
<1>2. PICK i \in 1 .. Len(t) :
        /\ i <= Len(s) + 1
        /\ \A k \in 1 .. i - 1 : s[k] = t[k]
        /\ i <= Len(s) => s[i] < t[i]
  BY DEF Less
<1>3. PICK j \in 1 .. Len(u) :
        /\ j <= Len(t) + 1
        /\ \A k \in 1 .. j - 1 : t[k] = u[k]
        /\ j <= Len(t) => t[j] < u[j]
  BY DEF Less
<1>4. CASE i < j
  <2>1. i \in 1 .. Len(u) /\ t[i] = u[i]
    BY <1>1, <1>3, <1>4
  <2>2. \A k \in 1 .. i - 1 : s[k] = u[k]
    BY <1>1, <1>2, <1>3, <1>4
  <2> QED
    BY <1>2, <2>1, <2>2 DEF Less
<1>5. CASE j <= i
  <2>1. \A k \in 1 .. j - 1 : s[k] = u[k]
    BY <1>1, <1>2, <1>3, <1>5
  <2>2. j <= Len(s) + 1 /\ j <= Len(t)
    BY <1>1, <1>2, <1>5
  <2>3. j <= Len(s) => s[j] < u[j]
    <3>1. CASE j = i
      BY <1>1, <1>2, <1>3, <2>2, <3>1
    <3>2. CASE j < i
      BY <1>1, <1>2, <1>3, <2>2, <3>2
    <3> QED
      BY <1>1, <1>5, <3>1, <3>2
  <2> QED
    BY <2>1, <2>2, <2>3 DEF Less
<1> QED
  BY <1>1, <1>4, <1>5

LEMMA LessTotal ==
  ASSUME NEW s \in Ranks, NEW t \in Ranks
  PROVE  s = t \/ Less(s, t) \/ Less(t, s)
<1>1. /\ Len(s) \in Nat /\ \A i \in 1 .. Len(s) : s[i] \in Nat
      /\ Len(t) \in Nat /\ \A i \in 1 .. Len(t) : t[i] \in Nat
  BY RankElements
<1> DEFINE apart == {i \in 1 .. Len(s) : i <= Len(t) /\ s[i] # t[i]}
<1>2. CASE apart # {}
  <2>1. apart \subseteq Nat
    BY <1>1
  <2>2. PICK i \in apart : \A j \in apart : i <= j
    BY <1>2, <2>1, LeastNatural
  <2>3. i \in 1 .. Len(s) /\ i \in 1 .. Len(t) /\ s[i] # t[i]
    BY <1>1
  <2>4. \A k \in 1 .. i - 1 : s[k] = t[k]
    BY <1>1, <2>2, <2>3
  <2>5. s[i] < t[i] \/ t[i] < s[i]
    BY <1>1, <2>3
  <2> QED
    BY <1>1, <2>3, <2>4, <2>5 DEF Less
<1>3. CASE apart = {}
  <2>1. \A k \in 1 .. Len(s) : k <= Len(t) => s[k] = t[k]
    BY <1>3
  <2>2. CASE Len(s) < Len(t)
    <3>1. Len(s) + 1 \in 1 .. Len(t) /\ \A k \in 1 .. Len(s) + 1 - 1 : s[k] = t[k]
      BY <1>1, <2>1, <2>2
    <3> QED
      BY <1>1, <3>1 DEF Less
  <2>3. CASE Len(t) < Len(s)
    <3>1. Len(t) + 1 \in 1 .. Len(s) /\ \A k \in 1 .. Len(t) + 1 - 1 : t[k] = s[k]
      BY <1>1, <2>1, <2>3
    <3> QED
      BY <1>1, <3>1 DEF Less
  <2>4. CASE Len(s) = Len(t)
    <3>1. \A k \in 1 .. Len(s) : s[k] = t[k]
      BY <1>1, <2>1, <2>4
    <3> QED
      BY <2>4, <3>1, SeqEqual DEF Ranks
  <2> QED
    BY <1>1, <2>2, <2>3, <2>4
<1> QED
  BY <1>2, <1>3

\* The open end comes before every rank.
LEMMA NoneFirst ==
  ASSUME NEW s \in Ranks, s # None
  PROVE  Less(None, s) /\ ~Less(s, None) /\ Len(s) >= 1
<1>1. Len(s) \in Nat /\ Len(s) # 0 /\ Len(None) = 0
  BY DEF Ranks, None
<1>2. 1 \in 1 .. Len(s)
  BY <1>1
<1> QED
  BY <1>1, <1>2 DEF Less

-----------------------------------------------------------------------------
(* Midpoints.                                                              *)

\* The last character of a rank is not MIN_CHAR.
Raised(s) == Len(s) >= 1 /\ s[Len(s)] # 0

LEMMA Extended ==
  ASSUME NEW s \in Ranks, NEW d \in Digits
  PROVE  /\ Append(s, d) \in Ranks /\ Len(Append(s, d)) = Len(s) + 1
         /\ \A k \in 1 .. Len(s) : Append(s, d)[k] = s[k]
         /\ Append(s, d)[Len(s) + 1] = d
  BY DEF Ranks

LEMMA Lengths ==
  ASSUME NEW left \in Ranks, NEW right \in Ranks
  PROVE  /\ Length(left, right) \in Nat
         /\ Len(left) <= Length(left, right) /\ Len(right) <= Length(left, right)
         /\ Length(left, right) = Len(left) \/ Length(left, right) = Len(right)
  BY RankElements DEF Length

LEMMA DigitTyped ==
  ASSUME NEW s \in Ranks, NEW i \in Nat \ {0}
  PROVE  Digit(s, i) \in Digits /\ Digit(s, i) \in Nat
<1>1. CASE i <= Len(s)
  <2>1. i \in 1 .. Len(s)
    BY <1>1, RankElements
  <2> QED
    BY <1>1, <2>1, RankElements DEF Digit
<1>2. CASE ~(i <= Len(s))
  BY <1>2, RankAssumption DEF Digit, Digits
<1> QED
  BY <1>1, <1>2

\* Where two ranks in order differ first, padded, the greater one has the
\* greater character.
LEMMA DifferInOrder ==
  ASSUME NEW left \in Ranks, NEW right \in Ranks, Less(left, right), Differ(left, right) # {},
         NEW i, i = First(Differ(left, right))
  PROVE  /\ i \in 1 .. Len(right) /\ i \in 1 .. Length(left, right)
         /\ Digit(left, i) < Digit(right, i) /\ Digit(right, i) = right[i]
         /\ \A j \in 1 .. i - 1 : Digit(left, j) = right[j]
<1>1. Len(left) \in Nat /\ Len(right) \in Nat /\ Length(left, right) \in Nat
  BY RankElements, Lengths
<1>2. Differ(left, right) \subseteq Nat
  BY <1>1 DEF Differ
<1>3. i \in Differ(left, right) /\ \A j \in Differ(left, right) : i <= j
  BY <1>2, FirstOf
<1>4. /\ i \in 1 .. Length(left, right) /\ Digit(left, i) # Digit(right, i)
      /\ \A j \in 1 .. i - 1 : Digit(left, j) = Digit(right, j)
  <2>1. i \in 1 .. Length(left, right) /\ Digit(left, i) # Digit(right, i)
    BY <1>3 DEF Differ
  <2>2. ASSUME NEW j \in 1 .. i - 1 PROVE Digit(left, j) = Digit(right, j)
    <3>1. j \in 1 .. Length(left, right) /\ ~(i <= j)
      BY <1>1, <2>1
    <3> QED
      BY <1>3, <3>1 DEF Differ
  <2> QED
    BY <2>1, <2>2
<1>5. PICK k \in 1 .. Len(right) :
        /\ k <= Len(left) + 1
        /\ \A j \in 1 .. k - 1 : left[j] = right[j]
        /\ k <= Len(left) => left[k] < right[k]
  BY DEF Less
<1>6. i >= k
  <2> SUFFICES ASSUME i < k PROVE FALSE
    BY <1>1, <1>4
  <2>1. left[i] = right[i] /\ i <= Len(left) /\ i <= Len(right)
    BY <1>1, <1>4, <1>5
  <2> QED
    BY <1>4, <2>1 DEF Digit
<1>7. i \in 1 .. Len(right) /\ Digit(left, i) < Digit(right, i)
  <2>1. Digit(left, i) \in Nat /\ Digit(right, i) \in Nat
    BY <1>1, <1>4, DigitTyped
  <2>2. CASE k <= Len(left)
    <3>1. Digit(left, k) < Digit(right, k)
      BY <1>5, <2>2 DEF Digit
    <3>2. Digit(left, k) \in Nat /\ Digit(right, k) \in Nat
      BY <1>1, <1>5, DigitTyped
    <3>3. k \in Differ(left, right)
      <4>1. k \in 1 .. Length(left, right)
        BY <1>1, <1>5, Lengths
      <4> QED
        BY <3>1, <3>2, <4>1 DEF Differ
    <3>4. i = k
      BY <1>1, <1>3, <1>4, <1>5, <1>6, <3>3
    <3> QED
      BY <1>5, <3>1, <3>4
  <2>3. CASE k = Len(left) + 1
    <3>1. ~(i <= Len(left)) /\ Digit(left, i) = 0
      BY <1>1, <1>4, <1>6, <2>3 DEF Digit
    <3>2. Digit(right, i) > 0
      BY <1>4, <2>1, <3>1
    <3>3. i <= Len(right)
      BY <3>2 DEF Digit
    <3> QED
      BY <1>1, <1>4, <3>1, <3>2, <3>3
  <2> QED
    BY <1>1, <1>5, <2>2, <2>3
<1>8. Digit(right, i) = right[i] /\ \A j \in 1 .. i - 1 : Digit(right, j) = right[j]
  BY <1>1, <1>7 DEF Digit
<1> QED
  BY <1>4, <1>7, <1>8

LEMMA Padded ==
  ASSUME NEW s \in Ranks, NEW n \in Nat
  PROVE  /\ Pad(s, n) \in Ranks /\ Len(Pad(s, n)) = n
         /\ \A i \in 1 .. n : Pad(s, n)[i] = Digit(s, i)
<1>1. \A i \in 1 .. n : Digit(s, i) \in Digits
  BY DigitTyped
<1> QED
  BY <1>1 DEF Pad, Ranks

LEMMA Cut ==
  ASSUME NEW s \in Ranks, NEW i \in 1 .. Len(s)
  PROVE  /\ SubSeq(s, 1, i - 1) \in Ranks /\ Len(SubSeq(s, 1, i - 1)) = i - 1
         /\ \A k \in 1 .. i - 1 : SubSeq(s, 1, i - 1)[k] = s[k]
  BY DEF Ranks

\* A rank that agrees with `right` up to a place where it has the smaller
\* character is less.
LEMMA LessAt ==
  ASSUME NEW s \in Ranks, NEW right \in Ranks, NEW i \in 1 .. Len(right), i <= Len(s),
         s[i] < right[i], \A j \in 1 .. i - 1 : s[j] = right[j]
  PROVE  Less(s, right)
<1>1. Len(s) \in Nat /\ Len(right) \in Nat
  BY RankElements
<1> QED
  BY <1>1 DEF Less

LEMMA AfterLies ==
  ASSUME NEW left \in Ranks
  PROVE  After(left) \in Ranks /\ Raised(After(left)) /\ Less(left, After(left))
<1>1. Mid \in Digits /\ Mid # 0
  BY RankAssumption DEF Digits
<1>2. Len(left) \in Nat
  BY RankElements
<1>3. /\ After(left) \in Ranks /\ Len(After(left)) = Len(left) + 1
      /\ \A k \in 1 .. Len(left) : After(left)[k] = left[k]
      /\ After(left)[Len(left) + 1] = Mid
  BY <1>1, Extended DEF After
<1>4. Less(left, After(left))
  <2>1. Len(left) + 1 \in 1 .. Len(After(left))
    BY <1>2, <1>3
  <2> QED
    BY <1>2, <1>3, <2>1 DEF Less
<1> QED
  BY <1>1, <1>2, <1>3, <1>4 DEF Raised

LEMMA BetweenLies ==
  ASSUME NEW left \in Ranks, NEW right \in Ranks, Less(left, right), Differ(left, right) # {}
  PROVE  LET m == Between(left, right)
         IN m \in Ranks /\ Raised(m) /\ Less(left, m) /\ Less(m, right)
<1> DEFINE m == Between(left, right)
           n == Length(left, right)
           i == First(Differ(left, right))
           a == Pad(left, n)
           b == Pad(right, n)
<1>1. /\ i \in 1 .. Len(right) /\ i \in 1 .. n
      /\ Digit(left, i) < Digit(right, i) /\ Digit(right, i) = right[i]
      /\ \A j \in 1 .. i - 1 : Digit(left, j) = right[j]
  BY DifferInOrder
<1>2. /\ n \in Nat /\ Len(left) \in Nat /\ Len(right) \in Nat
      /\ Len(left) <= n /\ Len(right) <= n
  BY Lengths, RankElements
<1>3. /\ a \in Ranks /\ Len(a) = n /\ b \in Ranks
      /\ \A j \in 1 .. n : a[j] = Digit(left, j) /\ b[j] = Digit(right, j)
  BY <1>2, Padded
<1>4. m = IF b[i] - a[i] > 1 THEN Append(SubSeq(a, 1, i - 1), (a[i] + b[i]) \div 2)
          ELSE Append(a, Mid)
  BY DEF Between
<1>5. /\ a[i] \in Nat /\ b[i] \in Nat /\ a[i] < b[i] /\ b[i] < Base /\ Base \in Nat
      /\ b[i] = right[i] /\ \A j \in 1 .. i - 1 : a[j] = right[j]
  <2>1. Digit(left, i) \in Digits /\ Digit(right, i) \in Digits /\ Base \in Nat
    BY <1>1, DigitTyped, RankAssumption
  <2>2. a[i] = Digit(left, i) /\ b[i] = Digit(right, i)
    BY <1>1, <1>3
  <2>3. \A j \in 1 .. i - 1 : j \in 1 .. n
    BY <1>1, <1>2
  <2> QED
    BY <1>1, <1>3, <2>1, <2>2, <2>3 DEF Digits
<1>6. \A j \in 1 .. Len(left) : a[j] = left[j]
  BY <1>2, <1>3 DEF Digit
<1> HIDE DEF m, n, i, a, b
<1>7. CASE b[i] - a[i] > 1
  <2> DEFINE d == (a[i] + b[i]) \div 2
             s == SubSeq(a, 1, i - 1)
  <2>1. d \in Digits /\ a[i] < d /\ d < b[i] /\ d # 0
    BY <1>5, <1>7 DEF Digits
  <2>2. /\ s \in Ranks /\ Len(s) = i - 1 /\ \A k \in 1 .. i - 1 : s[k] = a[k]
    BY <1>1, <1>3, Cut
  <2>3. m = Append(s, d)
    BY <1>4, <1>7
  <2> HIDE DEF d, s
  <2>4. i \in Nat /\ i >= 1 /\ i <= n
    BY <1>1, <1>2
  <2>5. /\ m \in Ranks /\ Len(m) = i /\ m[i] = d
        /\ \A k \in 1 .. i - 1 : m[k] = a[k]
    <3>1. /\ Append(s, d) \in Ranks /\ Len(Append(s, d)) = Len(s) + 1
          /\ \A k \in 1 .. Len(s) : Append(s, d)[k] = s[k]
          /\ Append(s, d)[Len(s) + 1] = d
      BY <2>1, <2>2, Extended
    <3>2. Len(s) = i - 1 /\ Len(s) + 1 = i
      BY <2>2, <2>4
    <3> QED
      BY <2>2, <2>3, <3>1, <3>2
  <2>6. Less(m, right)
    <3>1. \A j \in 1 .. i - 1 : m[j] = right[j]
      BY <1>5, <2>5
    <3>2. m[i] < right[i] /\ i <= Len(m)
      BY <1>5, <2>1, <2>4, <2>5
    <3> QED
      BY <1>1, <2>5, <3>1, <3>2, LessAt
  <2>7. Less(left, m)
    <3>1. CASE i <= Len(left)
      <4>1. left[i] = a[i] /\ i \in 1 .. Len(m)
        BY <1>6, <2>4, <2>5, <3>1
      <4>2. left[i] < m[i] /\ \A j \in 1 .. i - 1 : left[j] = m[j]
        BY <1>2, <1>6, <2>1, <2>4, <2>5, <3>1, <4>1
      <4> QED
        BY <2>5, <3>1, <4>1, <4>2, LessAt
    <3>2. CASE Len(left) < i
      <4>1. Len(left) + 1 \in 1 .. Len(m)
        BY <1>2, <2>4, <2>5, <3>2
      <4>2. \A j \in 1 .. Len(left) + 1 - 1 : left[j] = m[j]
        BY <1>2, <1>6, <2>4, <2>5, <3>2
      <4> QED
        BY <1>2, <4>1, <4>2 DEF Less
    <3> QED
      BY <1>2, <2>4, <3>1, <3>2
  <2>8. Raised(m)
    BY <2>1, <2>4, <2>5 DEF Raised
  <2> QED
    BY <2>5, <2>6, <2>7, <2>8 DEF m
<1>8. CASE ~(b[i] - a[i] > 1)
  <2>1. Mid \in Digits /\ Mid # 0
    BY RankAssumption DEF Digits
  <2>2. /\ m \in Ranks /\ Len(m) = n + 1 /\ m[n + 1] = Mid
        /\ \A k \in 1 .. n : m[k] = a[k]
    <3>1. m = Append(a, Mid)
      BY <1>4, <1>8
    <3> QED
      BY <1>3, <2>1, <3>1, Extended
  <2>3. i \in Nat /\ i >= 1 /\ i <= n
    BY <1>1, <1>2
  <2>4. Less(m, right)
    <3>1. \A j \in 1 .. i - 1 : m[j] = right[j]
      BY <1>2, <1>5, <2>2, <2>3
    <3>2. m[i] < right[i] /\ i <= Len(m)
      BY <1>2, <1>5, <2>2, <2>3
    <3> QED
      BY <1>1, <2>2, <3>1, <3>2, LessAt
  <2>5. Less(left, m)
    <3>1. Len(left) + 1 \in 1 .. Len(m)
      BY <1>2, <2>2
    <3>2. \A j \in 1 .. Len(left) : left[j] = m[j]
      BY <1>2, <1>6, <2>2
    <3>3. Len(left) + 1 <= Len(left) => left[Len(left) + 1] < m[Len(left) + 1]
      BY <1>2
    <3>4. CASE Len(left) < n
      BY <1>2, <3>1, <3>2, <3>3 DEF Less
    <3>5. CASE Len(left) = n
      BY <1>2, <3>1, <3>2, <3>3 DEF Less
    <3> QED
      BY <1>2, <3>4, <3>5
  <2>6. Raised(m)
    BY <1>2, <2>1, <2>2 DEF Raised
  <2> QED
    BY <2>2, <2>4, <2>5, <2>6 DEF m
<1> QED
  BY <1>7, <1>8

\* Before a rank of MIN_CHARs only there is nothing: what comes out is no less,
\* but it is no such rank any more.
LEMMA BeforeLies ==
  ASSUME NEW right \in Ranks, right # None
  PROVE  LET m == Before(right)
         IN /\ m \in Ranks /\ m # None /\ Len(m) >= 1
            /\ AllZero(right) => Raised(m) /\ ~AllZero(m)
            /\ ~AllZero(right) => Less(m, right) /\ (AllZero(m) \/ Raised(m))
<1> DEFINE m == Before(right)
<1>1. Len(right) \in Nat /\ Len(right) >= 1 /\ \A k \in 1 .. Len(right) : right[k] \in Digits /\ right[k] \in Nat
  BY RankElements, NoneFirst
<1>2. Mid \in Digits /\ Mid # 0 /\ Base \in Nat
  BY RankAssumption DEF Digits
<1>3. CASE AllZero(right)
  <2>1. /\ m \in Ranks /\ Len(m) = Len(right) + 1 /\ m[Len(right) + 1] = Mid
    BY <1>2, <1>3, Extended DEF Before
  <2>2. Len(right) + 1 \in Nonzero(m)
    BY <1>1, <1>2, <2>1 DEF Nonzero
  <2>3. Raised(m) /\ ~AllZero(m) /\ Len(m) >= 1 /\ m # None
    BY <1>1, <1>2, <2>1, <2>2 DEF Raised, AllZero, None
  <2> QED
    BY <1>3, <2>1, <2>3
<1>4. CASE ~AllZero(right)
  <2> DEFINE i == First(Nonzero(right))
             d == right[i] \div 2
             s == SubSeq(right, 1, i - 1)
  <2>1. Nonzero(right) \subseteq Nat /\ Nonzero(right) # {}
    BY <1>1, <1>4 DEF Nonzero, AllZero
  <2>2. i \in Nonzero(right) /\ \A j \in Nonzero(right) : i <= j
    BY <2>1, FirstOf
  <2>3. i \in 1 .. Len(right) /\ right[i] # 0
    BY <2>2 DEF Nonzero
  <2>4. \A k \in 1 .. i - 1 : right[k] = 0
    <3> SUFFICES ASSUME NEW k \in 1 .. i - 1, right[k] # 0 PROVE FALSE
      OBVIOUS
    <3>1. k \in 1 .. Len(right) /\ ~(i <= k)
      BY <1>1, <2>3
    <3> QED
      BY <2>2, <3>1 DEF Nonzero
  <2>5. m = Append(s, d)
    BY <1>4 DEF Before
  <2> HIDE DEF m, i
  <2>6. d \in Digits /\ d < right[i]
    <3>1. right[i] \in Digits /\ right[i] \in Nat
      BY <1>1, <2>3
    <3> QED
      BY <1>2, <2>3, <3>1 DEF Digits
  <2>7. s \in Ranks /\ Len(s) = i - 1 /\ \A k \in 1 .. i - 1 : s[k] = right[k]
    BY <2>3, Cut
  <2> HIDE DEF d, s
  <2>8. i \in Nat /\ i >= 1
    BY <1>1, <2>3
  <2>9. /\ m \in Ranks /\ Len(m) = i /\ m[i] = d
        /\ \A k \in 1 .. i - 1 : m[k] = right[k]
    <3>1. /\ Append(s, d) \in Ranks /\ Len(Append(s, d)) = Len(s) + 1
          /\ \A k \in 1 .. Len(s) : Append(s, d)[k] = s[k]
          /\ Append(s, d)[Len(s) + 1] = d
      BY <2>6, <2>7, Extended
    <3>2. Len(s) = i - 1 /\ Len(s) + 1 = i
      BY <2>7, <2>8
    <3> QED
      BY <2>5, <2>7, <3>1, <3>2
  <2>10. Less(m, right)
    BY <2>3, <2>6, <2>8, <2>9, LessAt
  <2>11. AllZero(m) \/ Raised(m)
    <3>1. CASE d = 0
      <4>1. \A k \in 1 .. i : m[k] = 0
        <5> SUFFICES ASSUME NEW k \in 1 .. i PROVE m[k] = 0
          OBVIOUS
        <5>1. k = i \/ k \in 1 .. i - 1
          BY <2>8
        <5> QED
          BY <2>4, <2>9, <3>1, <5>1
      <4> QED
        BY <2>9, <4>1 DEF AllZero, Nonzero
    <3>2. CASE d # 0
      BY <2>8, <2>9, <3>2 DEF Raised
    <3> QED
      BY <3>1, <3>2
  <2>12. m # None /\ Len(m) >= 1
    BY <2>8, <2>9 DEF None
  <2> QED
    BY <1>4, <2>9, <2>10, <2>11, <2>12 DEF m
<1> QED
  BY <1>3, <1>4

-----------------------------------------------------------------------------
(* The neighbours of the place asked for.                                  *)

\* Of the blocks of a set, one has a rank that none is below.
LEMMA LeastBlock ==
  ASSUME NEW B, IsFiniteSet(B), B # {}, NEW f, \A b \in B : f[b] \in Ranks
  PROVE  \E b \in B : \A c \in B : f[b] = f[c] \/ Less(f[b], f[c])
<1> DEFINE below == [b \in B |-> {c \in B : Less(f[c], f[b])}]
           T == {Cardinality(below[b]) : b \in B}
<1>1. ASSUME NEW b \in B PROVE IsFiniteSet(below[b]) /\ Cardinality(below[b]) \in Nat
  <2>1. below[b] \in SUBSET B
    OBVIOUS
  <2> QED
    BY <2>1, FS_Subset, FS_CardinalityType
<1>2. PICK b \in B : \A c \in B : Cardinality(below[b]) <= Cardinality(below[c])
  <2>1. T \subseteq Nat /\ T # {}
    BY <1>1
  <2>2. PICK n \in T : \A m \in T : n <= m
    <3> HIDE DEF T
    <3> QED
      BY <2>1, LeastNatural
  <2> QED
    BY <2>2
<1>3. ASSUME NEW c \in B, f[b] # f[c], ~Less(f[b], f[c]) PROVE FALSE
  <2>1. Less(f[c], f[b]) /\ f[b] \in Ranks /\ f[c] \in Ranks
    BY <1>3, LessTotal
  <2>2. \A d \in B : Less(f[d], f[c]) => Less(f[d], f[b])
    BY <2>1, LessTransitive
  <2>3. below[c] \subseteq below[b] /\ c \in below[b] /\ c \notin below[c]
    BY <2>1, <2>2, LessIrreflexive
  <2> HIDE DEF below
  <2>4. Cardinality(below[c]) <= Cardinality(below[b]) /\ below[c] # below[b]
    BY <1>1, <2>3, FS_Subset
  <2>5. Cardinality(below[b]) # Cardinality(below[c])
    BY <1>1, <2>3, <2>4, FS_Subset
  <2> QED
    BY <1>1, <1>2, <2>4, <2>5
<1> QED
  BY <1>3

LEMMA NextRanks ==
  ASSUME TypeOK, IsFiniteSet(Present), NEW left \in Ranks
  PROVE  LET right == NextRank(left)
         IN /\ right \in Ranks
            /\ right = None => \A c \in Present : ~Less(left, pos[c])
            /\ right # None => /\ Less(left, right)
                               /\ \E c \in Present : pos[c] = right
                               /\ \A c \in Present : Less(left, pos[c]) =>
                                    right = pos[c] \/ Less(right, pos[c])
<1> DEFINE above == {p \in Positions : Less(left, p)}
           right == NextRank(left)
           B == {c \in Present : Less(left, pos[c])}
<1>1. \A c \in Present : pos[c] \in Ranks /\ pos[c] # None
  BY DEF TypeOK, Present
<1>2. CASE B = {}
  <2>1. above = {}
    BY <1>2 DEF Positions
  <2>2. right = None
    BY <2>1 DEF NextRank
  <2>3. None \in Ranks
    BY DEF None, Ranks
  <2> QED
    BY <1>2, <2>2, <2>3
<1>3. CASE B # {}
  <2>1. IsFiniteSet(B)
    BY FS_Subset
  <2>2. PICK b \in B : \A c \in B : pos[b] = pos[c] \/ Less(pos[b], pos[c])
    <3> HIDE DEF B
    <3>1. B \subseteq Present
      BY DEF B
    <3> QED
      BY <1>1, <1>3, <2>1, <3>1, LeastBlock
  <2>3. pos[b] \in above /\ \A q \in above : pos[b] = q \/ Less(pos[b], q)
    BY <2>2 DEF Positions
  <2>4. right = CHOOSE p \in above : \A q \in above : p = q \/ Less(p, q)
    BY <2>3 DEF NextRank
  <2>5. right \in above /\ \A q \in above : right = q \/ Less(right, q)
    <3> HIDE DEF above, right
    <3> QED
      BY <2>3, <2>4
  <2>6. PICK c \in Present : right = pos[c] /\ Less(left, pos[c])
    <3> HIDE DEF right
    <3> QED
      BY <2>5 DEF Positions
  <2>7. \A d \in Present : Less(left, pos[d]) => right = pos[d] \/ Less(right, pos[d])
    <3> HIDE DEF right
    <3> QED
      BY <2>5 DEF Positions
  <2> QED
    BY <1>1, <2>6, <2>7
<1> QED
  BY <1>2, <1>3

LEMMA BelowFloor ==
  ASSUME NEW s \in Ranks, NEW t \in Ranks, Less(s, t), AllZero(t)
  PROVE  AllZero(s)
<1>1. Len(s) \in Nat /\ Len(t) \in Nat /\ \A i \in 1 .. Len(s) : s[i] \in Nat
  BY RankElements
<1>2. PICK i \in 1 .. Len(t) :
        /\ i <= Len(s) + 1
        /\ \A k \in 1 .. i - 1 : s[k] = t[k]
        /\ i <= Len(s) => s[i] < t[i]
  BY DEF Less
<1>3. \A k \in 1 .. Len(t) : t[k] = 0
  BY DEF AllZero, Nonzero
<1>4. i = Len(s) + 1
  BY <1>1, <1>2, <1>3
<1>5. \A k \in 1 .. Len(s) : s[k] = 0
  BY <1>1, <1>2, <1>3, <1>4
<1> QED
  BY <1>5 DEF AllZero, Nonzero

LEMMA RaisedOffFloor ==
  ASSUME NEW s \in Ranks, Raised(s)
  PROVE  ~AllZero(s) /\ s # None
  BY RankElements DEF Raised, AllZero, Nonzero, None

\* What a midpoint is worth to the list: of the ranks it has, those up to `left`
\* stay below the new one, those above it stay above unless the floor is met.
Worth(rank, left, right) ==
  /\ rank \in Ranks /\ rank # None /\ (AllZero(rank) \/ Raised(rank))
  /\ AllZero(rank) => \A c \in Present : ~AllZero(pos[c])
  /\ left # None => Less(left, rank)
  /\ (left = None /\ right # None /\ AllZero(right))
       \/ \A c \in Present : Less(left, pos[c]) => Less(rank, pos[c])

LEMMA Midpoints ==
  ASSUME TypeOK, IsFiniteSet(Present), NEW left \in Ranks,
         NEW right, right = NextRank(left), ~Raises(left, right)
  PROVE  Worth(Midpoint(left, right), left, right)
<1>1. /\ right \in Ranks
      /\ right = None => \A c \in Present : ~Less(left, pos[c])
      /\ right # None => /\ Less(left, right)
                         /\ \A c \in Present : Less(left, pos[c]) =>
                              right = pos[c] \/ Less(right, pos[c])
  BY NextRanks
<1>2. \A c \in Present : pos[c] \in Ranks /\ pos[c] # None
  BY DEF TypeOK, Present
<1> DEFINE rank == Midpoint(left, right)
<1>3. CASE right = None
  <2>1. /\ rank \in Ranks
        /\ Raised(rank)
        /\ left # None => Less(left, rank)
    <3>1. CASE left = None
      <4>1. rank = <<Seed>> /\ Seed \in Digits /\ Seed # 0
        BY <1>3, <3>1, RankAssumption DEF Midpoint, Digits
      <4>2. rank \in Ranks /\ Len(rank) = 1 /\ rank[1] = Seed
        BY <4>1 DEF Ranks
      <4> HIDE DEF rank
      <4>3. Raised(rank)
        BY <4>1, <4>2 DEF Raised
      <4> QED
        BY <3>1, <4>2, <4>3
    <3>2. CASE left # None
      <4>1. rank = After(left)
        BY <1>3, <3>2 DEF Midpoint
      <4> QED
        BY <4>1, AfterLies
    <3> QED
      BY <3>1, <3>2
  <2> HIDE DEF rank
  <2>2. ~AllZero(rank) /\ rank # None
    BY <2>1, RaisedOffFloor
  <2>3. \A c \in Present : ~Less(left, pos[c])
    BY <1>1, <1>3
  <2>4. Worth(rank, left, right)
    BY <2>1, <2>2, <2>3 DEF Worth
  <2> QED
    BY <2>4 DEF rank
<1>4. CASE right # None /\ left # None
  <2>1. Less(left, right) /\ Differ(left, right) # {}
    BY <1>4 DEF Raises
  <2>2. rank = Between(left, right)
    BY <1>4 DEF Midpoint
  <2>3. rank \in Ranks /\ Raised(rank) /\ Less(left, rank) /\ Less(rank, right)
    BY <1>1, <2>1, <2>2, BetweenLies
  <2> HIDE DEF rank
  <2>4. ASSUME NEW c \in Present, Less(left, pos[c]) PROVE Less(rank, pos[c])
    <3>1. pos[c] \in Ranks /\ (right = pos[c] \/ Less(right, pos[c]))
      BY <1>1, <1>2, <1>4, <2>4
    <3>2. right \in Ranks /\ rank \in Ranks /\ Less(rank, right)
      BY <1>1, <2>3
    <3> QED
      BY <3>1, <3>2, LessTransitive
  <2> QED
    BY <2>3, <2>4, RaisedOffFloor DEF Worth, rank
<1>5. CASE right # None /\ left = None
  <2>1. rank = Before(right)
    BY <1>5 DEF Midpoint
  <2>2. /\ rank \in Ranks /\ rank # None
        /\ AllZero(right) => Raised(rank) /\ ~AllZero(rank)
        /\ ~AllZero(right) => Less(rank, right) /\ (AllZero(rank) \/ Raised(rank))
    BY <1>1, <1>5, <2>1, BeforeLies
  <2> HIDE DEF rank
  <2>3. ASSUME NEW c \in Present PROVE right = pos[c] \/ Less(right, pos[c])
    BY <1>1, <1>2, <1>5, NoneFirst
  <2>4. ASSUME ~AllZero(right), NEW c \in Present
        PROVE  ~AllZero(pos[c]) /\ Less(rank, pos[c])
    <3>1. Less(rank, pos[c])
      BY <1>1, <1>2, <2>2, <2>3, <2>4, LessTransitive
    <3>2. ~AllZero(pos[c])
      BY <1>1, <1>2, <2>3, <2>4, BelowFloor
    <3> QED
      BY <3>1, <3>2
  <2> QED
    BY <1>5, <2>2, <2>4 DEF Worth, rank
<1> QED
  BY <1>3, <1>4, <1>5

-----------------------------------------------------------------------------
(* The steps.                                                              *)

\* A rank that is written is the rank of its block, which is there.
LEMMA Written ==
  ASSUME NEW b \in Blocks, NEW rank, rank \in Ranks, rank # None, Len(rank) <= MaxLen,
         pos \in [Blocks -> Ranks], \A c \in Blocks : Len(pos[c]) <= MaxLen,
         pos' = [pos EXCEPT ![b] = rank]
  PROVE  /\ pos' \in [Blocks -> Ranks] /\ \A c \in Blocks : Len(pos'[c]) <= MaxLen
         /\ Present' = Present \cup {b}
         /\ pos'[b] = rank /\ \A c \in Present : c # b => pos'[c] = pos[c]
  BY DEF Present

LEMMA Puts ==
  ASSUME LInv, NEW b \in Blocks, NEW after \in Present \cup {AtHead}, b # after, Put(b, after)
  PROVE  LInv'
<1> DEFINE left == Left(after)
           right == NextRank(left)
           rank == Midpoint(left, right)
<1>1. /\ TypeOK /\ IsFiniteSet(Present) /\ Normal /\ OrderedAboveFloor
      /\ Present \subseteq Blocks /\ AtHead \notin Blocks
      /\ \A c \in Present : pos[c] \in Ranks /\ pos[c] # None
  BY ListAssumption DEF LInv, Present, TypeOK
<1>2. left \in Ranks /\ (left = None <=> after = AtHead)
      /\ (after # AtHead => after \in Present /\ left = pos[after])
  <2>1. None \in Ranks
    BY DEF None, Ranks
  <2> QED
    BY <1>1, <2>1 DEF Left
<1>3. /\ nested' = nested
      /\ floored' = (floored \/ (left = None /\ right # None /\ AllZero(right)))
      /\ \/ /\ ~Raises(left, right) /\ Len(rank) <= MaxLen
            /\ pos' = [pos EXCEPT ![b] = rank] /\ asked' = Behind(b, after)
         \/ UNCHANGED <<pos, asked>>
  BY DEF Put
<1> HIDE DEF left, right
<1>4. {nested', floored'} \subseteq BOOLEAN
  BY <1>1, <1>3 DEF TypeOK
<1>5. CASE UNCHANGED <<pos, asked>>
  <2>1. Present' = Present
    BY <1>5 DEF Present
  <2>2. TypeOK'
    BY <1>1, <1>4, <1>5, <2>1 DEF TypeOK
  <2>3. Normal'
    BY <1>1, <1>5, <2>1 DEF Normal
  <2>4. OrderedAboveFloor'
    BY <1>1, <1>3, <1>5, <2>1 DEF OrderedAboveFloor, OrderKept
  <2> QED
    BY <1>1, <2>1, <2>2, <2>3, <2>4 DEF LInv
<1>6. CASE /\ ~Raises(left, right) /\ Len(rank) <= MaxLen
           /\ pos' = [pos EXCEPT ![b] = rank] /\ asked' = Behind(b, after)
  <2>1. Worth(rank, left, right)
    BY <1>1, <1>2, <1>6, Midpoints DEF right
  <2> HIDE DEF rank
  <2>2. /\ pos' \in [Blocks -> Ranks] /\ \A c \in Blocks : Len(pos'[c]) <= MaxLen
        /\ Present' = Present \cup {b}
        /\ pos'[b] = rank /\ \A c \in Present : c # b => pos'[c] = pos[c]
    BY <1>1, <1>6, <2>1, Written DEF Worth, TypeOK
  <2>3. IsFiniteSet(Present')
    BY <1>1, <2>2, FS_AddElement
  <2> DEFINE others == Present \ {b}
             earlier == {c \in others : c = after \/ <<c, after>> \in asked}
  <2>4. asked' = Without(b) \cup (earlier \X {b}) \cup ({b} \X (others \ earlier))
    BY <1>6 DEF Behind
  <2>5. /\ asked \subseteq Present \X Present
        /\ \A c, d \in Present : <<c, d>> \in asked <=> c # d /\ <<d, c>> \notin asked
    BY <1>1 DEF TypeOK
  <2>6. /\ \A c, d \in others : <<c, d>> \in asked' <=> <<c, d>> \in asked
        /\ \A c \in others : <<c, b>> \in asked' <=> c \in earlier
        /\ \A c \in others : <<b, c>> \in asked' <=> c \notin earlier
        /\ <<b, b>> \notin asked'
        /\ asked' \subseteq Present' \X Present'
    <3>1. /\ \A c, d : <<c, d>> \in Without(b) <=> <<c, d>> \in asked /\ c # b /\ d # b
          /\ Without(b) \subseteq asked
      BY DEF Without
    <3> QED
      BY <2>2, <2>4, <2>5, <3>1
  <2>7. Present' = others \cup {b} /\ b \notin others
    BY <2>2
  <2> HIDE DEF others
  <2>8. TypeOK'
    <3>1. ASSUME NEW c \in Present', NEW d \in Present'
          PROVE  <<c, d>> \in asked' <=> c # d /\ <<d, c>> \notin asked'
      <4>1. others \subseteq Present
        BY DEF others
      <4> QED
        BY <2>5, <2>6, <2>7, <4>1
    <3> QED
      BY <1>4, <2>2, <2>6, <3>1 DEF TypeOK
  <2>9. Normal'
    <3>1. others \subseteq Present /\ \A c \in others : pos'[c] = pos[c]
      BY <2>2 DEF others
    <3>2. ASSUME NEW c \in Present'
          PROVE  AllZero(pos'[c]) \/ pos'[c][Len(pos'[c])] # 0
      BY <1>1, <2>1, <2>2, <2>7, <3>1 DEF Normal, Worth, Raised
    <3>3. ASSUME NEW c \in Present', NEW d \in Present', AllZero(pos'[c]), AllZero(pos'[d])
          PROVE  c = d
      <4>1. CASE c = b \/ d = b
        BY <2>1, <2>2, <2>7, <3>1, <3>3, <4>1 DEF Worth
      <4>2. CASE c \in others /\ d \in others
        BY <1>1, <3>1, <3>3, <4>2 DEF Normal
      <4> QED
        BY <2>7, <4>1, <4>2
    <3> QED
      BY <3>2, <3>3 DEF Normal
  <2>10. OrderedAboveFloor'
    <3> SUFFICES ASSUME ~floored', NEW c \in Present', NEW d \in Present', <<c, d>> \in asked'
                 PROVE  Less(pos'[c], pos'[d])
      BY DEF OrderedAboveFloor, OrderKept
    <3>1. OrderKept /\ ~(left = None /\ right # None /\ AllZero(right))
      BY <1>1, <1>3 DEF OrderedAboveFloor, TypeOK
    <3>2. /\ rank \in Ranks /\ (left # None => Less(left, rank))
          /\ \A e \in Present : Less(left, pos[e]) => Less(rank, pos[e])
      BY <2>1, <3>1 DEF Worth
    <3>3. others \subseteq Present /\ \A e \in others : pos'[e] = pos[e]
      BY <2>2 DEF others
    <3>4. CASE c \in others /\ d \in others
      BY <2>6, <3>1, <3>3, <3>4 DEF OrderKept
    <3>5. CASE c \in others /\ d = b
      <4>1. c \in earlier
        BY <2>6, <3>5
      <4>2. after # AtHead /\ after \in Present /\ left = pos[after] /\ left # None
        <5>1. AtHead \notin Present /\ c \in Present
          BY <1>1, <3>3, <3>5
        <5>2. c # AtHead /\ <<c, AtHead>> \notin asked
          BY <2>5, <5>1
        <5>3. after # AtHead
          BY <4>1, <5>2
        <5> QED
          BY <1>1, <1>2, <5>3
      <4>3. Less(left, rank) /\ (pos[c] = left \/ Less(pos[c], left))
        BY <3>1, <3>2, <3>3, <3>5, <4>1, <4>2 DEF OrderKept
      <4>4. Less(pos[c], rank)
        <5>1. pos[c] \in Ranks /\ left \in Ranks /\ rank \in Ranks
          BY <1>1, <1>2, <3>2, <3>3, <3>5
        <5> QED
          BY <4>3, <5>1, LessTransitive
      <4> QED
        BY <2>2, <3>3, <3>5, <4>4
    <3>6. CASE c = b /\ d \in others
      <4>1. d \notin earlier /\ d \in Present
        BY <2>6, <3>3, <3>6
      <4>2. Less(left, pos[d])
        <5>1. CASE after = AtHead
          BY <1>1, <1>2, <4>1, <5>1, NoneFirst
        <5>2. CASE after # AtHead
          <6>1. after \in Present /\ left = pos[after] /\ <<d, after>> \notin asked /\ d # after
            BY <1>2, <3>6, <4>1, <5>2
          <6>2. <<after, d>> \in asked
            BY <2>5, <4>1, <6>1
          <6> QED
            BY <3>1, <4>1, <6>1, <6>2 DEF OrderKept
        <5> QED
          BY <5>1, <5>2
      <4>3. Less(rank, pos[d])
        BY <3>2, <4>1, <4>2
      <4> QED
        BY <2>2, <3>3, <3>6, <4>3
    <3> QED
      BY <2>6, <2>7, <3>4, <3>5, <3>6
  <2> QED
    BY <2>3, <2>8, <2>9, <2>10 DEF LInv
<1> QED
  BY <1>3, <1>5, <1>6

LEMMA Deletes == ASSUME LInv, NEW b \in Blocks, Delete(b) PROVE LInv'
<1>1. /\ TypeOK /\ IsFiniteSet(Present) /\ Normal /\ OrderedAboveFloor
      /\ pos' = [pos EXCEPT ![b] = None] /\ asked' = Without(b)
      /\ nested' = nested /\ floored' = floored
  BY DEF LInv, Delete
<1>2. /\ pos' \in [Blocks -> Ranks] /\ \A c \in Blocks : Len(pos'[c]) <= MaxLen
      /\ Present' = Present \ {b} /\ \A c \in Present' : pos'[c] = pos[c]
  <2>1. None \in Ranks /\ Len(None) = 0 /\ 0 <= MaxLen
    BY ListAssumption DEF None, Ranks
  <2> QED
    BY <1>1, <2>1 DEF TypeOK, Present
<1>3. /\ asked' \subseteq Present' \X Present'
      /\ \A c, d \in Present' : <<c, d>> \in asked' <=> <<c, d>> \in asked
  <2>1. asked \subseteq Present \X Present
    BY <1>1 DEF TypeOK
  <2> QED
    BY <1>1, <1>2, <2>1 DEF Without
<1>4. TypeOK'
  BY <1>1, <1>2, <1>3 DEF TypeOK
<1>5. IsFiniteSet(Present')
  BY <1>1, <1>2, FS_RemoveElement
<1>6. Normal'
  BY <1>1, <1>2 DEF Normal
<1>7. OrderedAboveFloor'
  BY <1>1, <1>2, <1>3 DEF OrderedAboveFloor, OrderKept
<1> QED
  BY <1>4, <1>5, <1>6, <1>7 DEF LInv

\* The list keeps its order while the floor is not met, one rank at most is at
\* the floor and every other one ends above it, whatever is inserted, moved or
\* deleted anywhere, under whatever length of the column.
THEOREM ListHolds == Spec => []LInv
<1>1. Init => LInv
  <2> SUFFICES ASSUME Init PROVE LInv
    OBVIOUS
  <2>1. Present = {} /\ None \in Ranks /\ Len(None) = 0 /\ 0 <= MaxLen
    BY ListAssumption DEF Init, Present, None, Ranks
  <2>2. TypeOK
    BY <2>1 DEF Init, TypeOK
  <2>3. IsFiniteSet(Present)
    BY <2>1, FS_EmptySet
  <2> QED
    BY <2>1, <2>2, <2>3 DEF LInv, Normal, OrderedAboveFloor, OrderKept
<1>2. LInv /\ [Next]_vars => LInv'
  <2> SUFFICES ASSUME LInv, [Next]_vars PROVE LInv'
    OBVIOUS
  <2>1. ASSUME NEW b \in Blocks, NEW after \in Present \cup {AtHead}, Insert(b, after)
        PROVE  LInv'
    <3>1. b # after
      BY <2>1, ListAssumption DEF Insert
    <3> QED
      BY <2>1, <3>1, Puts DEF Insert
  <2>2. ASSUME NEW b \in Blocks, NEW after \in Present \cup {AtHead}, Move(b, after)
        PROVE  LInv'
    BY <2>2, Puts DEF Move
  <2>3. ASSUME NEW b \in Blocks, Delete(b) PROVE LInv'
    BY <2>3, Deletes
  <2>4. CASE UNCHANGED vars
    BY <2>4 DEF vars, LInv, TypeOK, Present, Normal, OrderedAboveFloor, OrderKept
  <2> QED
    BY <2>1, <2>2, <2>3, <2>4 DEF Next
<1> QED
  BY <1>1, <1>2, PTL DEF Spec

\* Every rank is one of the alphabet and fits its column: what does not is
\* refused. The order asked for is total.
THEOREM TypeCorrect == Spec => []TypeOK
<1>1. LInv => TypeOK
  BY DEF LInv
<1> QED
  BY <1>1, ListHolds, PTL

\* _compute_position puts a block where it was asked to go: until a head insert
\* meets a rank of MIN_CHARs only, sorting by position gives the order of the
\* requests.
THEOREM OrderStays == Spec => []OrderedAboveFloor
<1>1. LInv => OrderedAboveFloor
  BY DEF LInv
<1> QED
  BY <1>1, ListHolds, PTL

\* Two ranks of a list always have one between them, beyond the floor too: the
\* ValueErrors of midpoint are never met.
THEOREM RoomStays == Spec => []RoomBetween
<1>1. LInv => RoomBetween
  <2> SUFFICES ASSUME LInv, NEW b \in Present, NEW c \in Present,
                      Less(pos[b], pos[c]), Differ(pos[b], pos[c]) = {}
               PROVE  FALSE
    BY DEF RoomBetween
  <2> DEFINE s == pos[b]
             t == pos[c]
  <2>1. s \in Ranks /\ t \in Ranks /\ s # None /\ t # None
    BY DEF LInv, TypeOK, Present
  <2>2. AllZero(s) \/ s[Len(s)] # 0
    BY DEF LInv, Normal
  <2>3. AllZero(t) \/ t[Len(t)] # 0
    BY DEF LInv, Normal
  <2>4. ~(AllZero(s) /\ AllZero(t))
    <3>1. ~Less(s, s)
      BY <2>1, LessIrreflexive
    <3> QED
      BY <3>1 DEF LInv, Normal
  <2>5. Less(s, t) /\ Differ(s, t) = {}
    OBVIOUS
  <2> HIDE DEF s, t
  <2>6. /\ Len(s) \in Nat /\ Len(s) >= 1 /\ Len(t) \in Nat /\ Len(t) >= 1
        /\ Length(s, t) \in Nat /\ Len(s) <= Length(s, t) /\ Len(t) <= Length(s, t)
    BY <2>1, NoneFirst, RankElements, Lengths
  <2>7. \A i \in 1 .. Length(s, t) : Digit(s, i) = Digit(t, i)
    BY <2>5 DEF Differ
  <2>8. \A i \in 1 .. Len(s) : s[i] = Digit(t, i)
    BY <2>6, <2>7 DEF Digit
  <2>9. \A i \in 1 .. Len(t) : t[i] = Digit(s, i)
    BY <2>6, <2>7 DEF Digit
  <2>10. AllZero(s) <=> AllZero(t)
    <3>1. ASSUME AllZero(s) PROVE AllZero(t)
      BY <2>6, <2>9, <3>1 DEF AllZero, Nonzero, Digit
    <3>2. ASSUME AllZero(t) PROVE AllZero(s)
      BY <2>6, <2>8, <3>2 DEF AllZero, Nonzero, Digit
    <3> QED
      BY <3>1, <3>2
  <2>11. Len(s) = Len(t)
    <3>1. s[Len(s)] # 0 /\ t[Len(t)] # 0
      BY <2>2, <2>3, <2>4, <2>10
    <3>2. Len(s) <= Len(t)
      BY <2>6, <2>8, <3>1 DEF Digit
    <3>3. Len(t) <= Len(s)
      BY <2>6, <2>9, <3>1 DEF Digit
    <3> QED
      BY <2>6, <3>2, <3>3
  <2>12. s = t
    <3>1. \A i \in 1 .. Len(s) : s[i] = t[i]
      BY <2>6, <2>8, <2>11 DEF Digit
    <3> QED
      BY <2>1, <2>11, <3>1, SeqEqual DEF Ranks
  <2> QED
    BY <2>1, <2>5, <2>12, LessIrreflexive
<1> QED
  BY <1>1, ListHolds, PTL

=============================================================================
