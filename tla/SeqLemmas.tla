----------------------------- MODULE SeqLemmas -----------------------------
(***************************************************************************)
(* What the proofs need to know of sequences of any length: a channel and  *)
(* what its reader has taken from it; the elements picked out of a list;   *)
(* one element added to a list or taken out of it.                         *)
(***************************************************************************)
EXTENDS Integers, Sequences, SequencesExt, Picks, FiniteSetTheorems,
        WellFoundedInduction, TLAPS

-----------------------------------------------------------------------------
(* A channel and what has been taken from it, end to end: a send adds to   *)
(* the end of the whole, a receive leaves it as it is.                     *)

\* Moving the head of the second sequence to the end of the first one.
LEMMA MoveHead ==
  ASSUME NEW S, NEW s \in Seq(S), NEW t \in Seq(S), t # <<>>
  PROVE  /\ Head(t) \in S
         /\ Append(s, Head(t)) \in Seq(S) /\ Tail(t) \in Seq(S)
         /\ Append(s, Head(t)) \o Tail(t) = s \o t
<1>1. Head(t) \in S /\ Tail(t) \in Seq(S) /\ Len(t) \in Nat \ {0}
  OBVIOUS
<1>2. Len(Append(s, Head(t)) \o Tail(t)) = Len(s \o t)
  BY <1>1
<1>3. ASSUME NEW i \in 1 .. Len(s \o t)
      PROVE  (Append(s, Head(t)) \o Tail(t))[i] = (s \o t)[i]
  BY <1>1
<1>4. s \o t \in Seq(S) /\ Append(s, Head(t)) \o Tail(t) \in Seq(S)
  BY <1>1
<1>5. QED
  BY <1>1, <1>2, <1>3, <1>4

\* An element added to the second of two sequences is added to both.
LEMMA AddLast ==
  ASSUME NEW S, NEW s \in Seq(S), NEW t \in Seq(S), NEW e \in S
  PROVE  s \o Append(t, e) = Append(s \o t, e)
<1>1. Len(s \o Append(t, e)) = Len(Append(s \o t, e))
  OBVIOUS
<1>2. ASSUME NEW i \in 1 .. Len(Append(s \o t, e))
      PROVE  (s \o Append(t, e))[i] = Append(s \o t, e)[i]
  OBVIOUS
<1>3. s \o Append(t, e) \in Seq(S) /\ Append(s \o t, e) \in Seq(S)
  OBVIOUS
<1>4. QED
  BY <1>1, <1>2, <1>3

\* A concatenation begins with its first part.
LEMMA Prefix ==
  ASSUME NEW S, NEW s \in Seq(S), NEW t \in Seq(S)
  PROVE  /\ s \o t \in Seq(S)
         /\ DOMAIN s \subseteq DOMAIN (s \o t)
         /\ \A i \in DOMAIN s : (s \o t)[i] = s[i]
<1>1. s \o t \in Seq(S) /\ Len(s \o t) = Len(s) + Len(t)
  OBVIOUS
<1>2. DOMAIN s = 1 .. Len(s) /\ DOMAIN (s \o t) = 1 .. Len(s \o t)
  BY <1>1
<1>3. Len(s) \in Nat /\ Len(t) \in Nat
  OBVIOUS
<1>4. DOMAIN s \subseteq DOMAIN (s \o t)
  BY <1>1, <1>2, <1>3
<1>5. ASSUME NEW i \in 1 .. Len(s) PROVE (s \o t)[i] = s[i]
  OBVIOUS
<1>6. QED
  BY <1>1, <1>2, <1>4, <1>5

\* Its second part begins after the first.
LEMMA Junction ==
  ASSUME NEW S, NEW s \in Seq(S), NEW t \in Seq(S), t # <<>>
  PROVE  Len(s) + 1 \in DOMAIN (s \o t) /\ (s \o t)[Len(s) + 1] = Head(t)
<1>1. Len(s) \in Nat /\ Len(t) \in Nat \ {0} /\ Head(t) = t[1]
  OBVIOUS
<1>2. s \o t \in Seq(S) /\ Len(s \o t) = Len(s) + Len(t)
  OBVIOUS
<1>3. (s \o t)[Len(s) + 1] = t[1]
  BY <1>1
<1>4. DOMAIN (s \o t) = 1 .. Len(s \o t)
  BY <1>2
<1>5. QED
  BY <1>1, <1>2, <1>3, <1>4

-----------------------------------------------------------------------------
(* Picked: which elements it has, and where.  The k-th member of a set is  *)
(* the least position with k members up to it.                             *)

\* Every set of natural numbers that is not empty has a least element.
LEMMA Least ==
  ASSUME NEW T, T \subseteq Nat, T # {}
  PROVE  \E x \in T : \A y \in T : x <= y
<1> DEFINE R == OpToRel(<, Nat)
<1>1. IsWellFoundedOn(R, Nat)
  BY NatLessThanWellFounded
<1> HIDE DEF R
<1>2. PICK x \in T : \A y \in T : <<y, x>> \notin R
  BY <1>1, WFMin
<1>3. \A y \in Nat : y < x => <<y, x>> \in R
  BY DEF R, OpToRel
<1>4. \A y \in T : y \in Nat
  OBVIOUS
<1>5. ASSUME NEW y \in T PROVE x <= y
  <2>1. x \in Nat /\ y \in Nat /\ ~(y < x)
    BY <1>2, <1>3, <1>4
  <2>2. QED
    BY <2>1
<1>6. QED
  BY <1>5

\* So Min does what its name says.
LEMMA MinOf ==
  ASSUME NEW T, T \subseteq Nat, T # {}
  PROVE  Min(T) \in T /\ \A y \in T : Min(T) <= y
  BY Least DEF Min

\* And Max, of a set that ends somewhere: the least distance from an end.
LEMMA MaxOf ==
  ASSUME NEW n \in Nat, NEW T \in SUBSET (0 .. n), T # {}
  PROVE  Max(T) \in T /\ \A y \in T : y <= Max(T)
<1> DEFINE D == {n - y : y \in T}
<1>1. \A y \in T : y \in Nat /\ y <= n /\ n - y \in Nat
  OBVIOUS
<1>2. D \subseteq Nat /\ D # {}
  BY <1>1
<1>3. PICK d \in D : \A e \in D : d <= e
  BY <1>2, Least
<1>4. PICK x \in T : d = n - x
  BY <1>3
<1>5. \A y \in T : n - x <= n - y
  BY <1>3, <1>4
<1>6. \A y \in T : x >= y
  BY <1>1, <1>5
<1>7. Max(T) \in T /\ \A y \in T : Max(T) >= y
  BY <1>6 DEF Max
<1>8. QED
  BY <1>1, <1>7

\* The rank of a position counts up from 0, by one at each member of the set.
RanksFit(E, n) ==
  /\ IsFiniteSet(E) /\ Cardinality(E) \in 0 .. n
  /\ Rank(E, 0) = 0 /\ Rank(E, n) = Cardinality(E)
  /\ \A m \in Nat : /\ Rank(E, m) \in 0 .. m
                    /\ Rank(E, m) <= Cardinality(E)
                    /\ Rank(E, m + 1) = IF m + 1 \in E THEN Rank(E, m) + 1 ELSE Rank(E, m)

LEMMA RankStep ==
  ASSUME NEW n \in Nat, NEW E \in SUBSET (1 .. n)
  PROVE  RanksFit(E, n)
<1>0. \A j \in E : j \in Nat /\ 1 <= j /\ j <= n
  OBVIOUS
<1>1. IsFiniteSet(E) /\ Cardinality(E) \in 0 .. n
  <2>1. IsFiniteSet(1 .. n) /\ Cardinality(1 .. n) = n
    BY FS_Interval
  <2>2. IsFiniteSet(E) /\ Cardinality(E) <= n
    BY <2>1, FS_Subset
  <2>3. QED
    BY <2>2, FS_CardinalityType
<1>2. Rank(E, 0) = 0
  <2>1. \A j \in E : ~(j <= 0)
    BY <1>0
  <2>2. QED
    BY <2>1, FS_EmptySet DEF Rank
<1>3. Rank(E, n) = Cardinality(E)
  <2>1. {j \in E : j <= n} = E
    BY <1>0
  <2>2. QED
    BY <2>1 DEF Rank
<1>4. ASSUME NEW m \in Nat
      PROVE  /\ Rank(E, m) \in 0 .. m /\ Rank(E, m) <= Cardinality(E)
             /\ Rank(E, m + 1) = IF m + 1 \in E THEN Rank(E, m) + 1 ELSE Rank(E, m)
  <2> DEFINE D == {j \in E : j <= m}
  <2>1. D \in SUBSET E /\ D \in SUBSET (1 .. m)
    <3>1. \A j \in D : j \in 1 .. m
      BY <1>0
    <3>2. QED
      BY <3>1
  <2>2. IsFiniteSet(D) /\ Cardinality(D) \in Nat /\ Cardinality(D) <= Cardinality(E)
    BY <1>1, <2>1, FS_Subset, FS_CardinalityType
  <2>3. IsFiniteSet(1 .. m) /\ Cardinality(1 .. m) = m
    BY FS_Interval
  <2>4. Cardinality(D) <= m
    BY <2>1, <2>3, FS_Subset
  <2>5. \A j \in E : j <= m + 1 <=> (j <= m \/ j = m + 1)
    BY <1>0
  <2> DEFINE N == {j \in E : j <= m + 1}
  <2>9. m + 1 <= m + 1
    OBVIOUS
  <2>10. N = IF m + 1 \in E THEN D \cup {m + 1} ELSE D
    BY <2>5, <2>9
  <2>6. m + 1 \notin D
    OBVIOUS
  <2>7. Cardinality(D \cup {m + 1}) = Cardinality(D) + 1
    BY <2>2, <2>6, FS_AddElement
  <2>11. Rank(E, m) = Cardinality(D) /\ Rank(E, m + 1) = Cardinality(N)
    BY DEF Rank
  <2> HIDE DEF D, N
  <2>8. QED
    BY <2>2, <2>4, <2>10, <2>7, <2>11
<1>5. QED
  BY <1>1, <1>2, <1>3, <1>4 DEF RanksFit

\* Ranks order the members of a set as they are ordered, from 1 on.
LEMMA RankOrder ==
  ASSUME NEW n \in Nat, NEW E \in SUBSET (1 .. n), NEW j \in E
  PROVE  /\ Rank(E, j) \in 1 .. Cardinality(E) /\ Rank(E, j) <= j
         /\ \A i \in 0 .. j - 1 : Rank(E, i) < Rank(E, j)
<1>0. /\ IsFiniteSet(E) /\ Cardinality(E) \in 0 .. n
      /\ Rank(E, 0) = 0 /\ Rank(E, n) = Cardinality(E)
      /\ \A m \in Nat : /\ Rank(E, m) \in 0 .. m
                        /\ Rank(E, m) <= Cardinality(E)
                        /\ Rank(E, m + 1) = IF m + 1 \in E THEN Rank(E, m) + 1
                                            ELSE Rank(E, m)
  <2>1. RanksFit(E, n)
    BY RankStep
  <2>2. QED
    BY <2>1 DEF RanksFit
<1>1. j - 1 \in Nat /\ (j - 1) + 1 = j
  OBVIOUS
<1>2. Rank(E, j) = Rank(E, j - 1) + 1
  BY <1>0, <1>1
<1>3. \A m \in Nat : Rank(E, m) \in Nat /\ Rank(E, m) <= m /\ Rank(E, m) <= Cardinality(E)
  BY <1>0
<1>4. Cardinality(E) \in Nat
  BY <1>0
<1>5. ASSUME NEW i \in 0 .. j - 1
      PROVE  Rank(E, i) <= Rank(E, j - 1)
  <2>3. \A k \in E : k <= i => k <= j - 1
    <3>1. \A k \in E : k \in Nat
      OBVIOUS
    <3>2. QED
      BY <1>1, <3>1
  <2>1. {k \in E : k <= i} \in SUBSET {k \in E : k <= j - 1}
    BY <2>3
  <2>2. IsFiniteSet({k \in E : k <= j - 1})
    BY <1>0, FS_Subset
  <2>4. QED
    BY <2>1, <2>2, FS_Subset DEF Rank
<1>6. QED
  BY <1>1, <1>2, <1>3, <1>4, <1>5

\* There is a member of every rank up to the size of the set, and Nth finds it.
LEMMA NthOf ==
  ASSUME NEW n \in Nat, NEW E \in SUBSET (1 .. n), NEW k \in 1 .. Cardinality(E)
  PROVE  Nth(E, k) \in E /\ Rank(E, Nth(E, k)) = k
<1>0. /\ IsFiniteSet(E) /\ Cardinality(E) \in 0 .. n
      /\ Rank(E, 0) = 0 /\ Rank(E, n) = Cardinality(E)
      /\ \A m \in Nat : /\ Rank(E, m) \in 0 .. m
                        /\ Rank(E, m) <= Cardinality(E)
                        /\ Rank(E, m + 1) = IF m + 1 \in E THEN Rank(E, m) + 1
                                            ELSE Rank(E, m)
  <2>1. RanksFit(E, n)
    BY RankStep
  <2>2. QED
    BY <2>1 DEF RanksFit
<1> DEFINE T == {m \in Nat : Rank(E, m) >= k}
<1>1. n \in T
  BY <1>0
<1>2. PICK m \in T : \A y \in T : m <= y
  BY <1>1, Least
<1>3. m # 0
  BY <1>0, <1>2
<1>4. m - 1 \in Nat /\ (m - 1) + 1 = m /\ m - 1 \notin T
  BY <1>2, <1>3
<1>5. m \in E /\ Rank(E, m) = k
  <2>1. Rank(E, m) = IF m \in E THEN Rank(E, m - 1) + 1 ELSE Rank(E, m - 1)
    BY <1>0, <1>4
  <2>2. Rank(E, m - 1) \in Nat /\ Rank(E, m) \in Nat
    BY <1>0, <1>4
  <2>3. QED
    BY <1>4, <2>1, <2>2
<1>6. QED
  BY <1>5 DEF Nth

\* What is picked: the elements at the positions given, in order.
LEMMA PickedIs ==
  ASSUME NEW S, NEW list \in Seq(S), NEW E, E \subseteq DOMAIN list
  PROVE  /\ Picked(list, E) \in Seq(S)
         /\ Len(Picked(list, E)) = Cardinality(E) /\ Cardinality(E) \in 0 .. Len(list)
         /\ \A k \in 1 .. Cardinality(E) :
              Nth(E, k) \in E /\ k <= Nth(E, k) /\ Picked(list, E)[k] = list[Nth(E, k)]
         /\ \A i \in E : Rank(E, i) \in 1 .. Cardinality(E) /\ Picked(list, E)[Rank(E, i)] = list[i]
         /\ ToSet(Picked(list, E)) = {list[i] : i \in E}
<1> DEFINE P == Picked(list, E)
<1>1. Len(list) \in Nat /\ E \in SUBSET (1 .. Len(list))
  OBVIOUS
<1>0. \A i, j \in E : i < j => Rank(E, i) < Rank(E, j)
  <2>1. \A j \in E : \A i \in 0 .. j - 1 : Rank(E, i) < Rank(E, j)
    BY <1>1, RankOrder
  <2>2. \A i \in E : i \in Nat
    BY <1>1
  <2>3. QED
    BY <2>1, <2>2
<1>2. Cardinality(E) \in Nat /\ Cardinality(E) \in 0 .. Len(list)
  <2>1. RanksFit(E, Len(list))
    BY <1>1, RankStep
  <2>2. QED
    BY <2>1 DEF RanksFit
<1>3. ASSUME NEW k \in 1 .. Cardinality(E)
      PROVE  Nth(E, k) \in E /\ Rank(E, Nth(E, k)) = k /\ k <= Nth(E, k) /\ P[k] = list[Nth(E, k)]
  <2>1. Nth(E, k) \in E /\ Rank(E, Nth(E, k)) = k
    BY <1>1, NthOf
  <2>2. Rank(E, Nth(E, k)) <= Nth(E, k)
    BY <1>1, <2>1, RankOrder
  <2>3. P[k] = list[Nth(E, k)]
    BY DEF Picked
  <2>4. QED
    BY <2>1, <2>2, <2>3
<1>4. ASSUME NEW i \in E
      PROVE  Rank(E, i) \in 1 .. Cardinality(E) /\ P[Rank(E, i)] = list[i]
  <2>1. Rank(E, i) \in 1 .. Cardinality(E)
    BY <1>1, RankOrder
  <2> DEFINE j == Nth(E, Rank(E, i))
  <2>2. j \in E /\ Rank(E, j) = Rank(E, i) /\ P[Rank(E, i)] = list[j]
    BY <1>3, <2>1
  <2>3. j = i
    <3>1. Rank(E, i) \in Nat /\ Rank(E, j) \in Nat /\ i \in Nat /\ j \in Nat
      BY <1>1, <2>1, <2>2
    <3>2. i < j => Rank(E, i) < Rank(E, j)
      BY <1>0, <2>2
    <3>3. j < i => Rank(E, j) < Rank(E, i)
      BY <1>0, <2>2
    <3>4. QED
      BY <2>2, <3>1, <3>2, <3>3
  <2>4. QED
    BY <2>1, <2>2, <2>3
<1>5. P = [k \in 1 .. Cardinality(E) |-> list[Nth(E, k)]]
  BY DEF Picked
<1>6. P \in Seq(S) /\ Len(P) = Cardinality(E) /\ DOMAIN P = 1 .. Cardinality(E)
  <2>1. \A k \in 1 .. Cardinality(E) : list[Nth(E, k)] \in S
    BY <1>1, <1>3
  <2> HIDE DEF P
  <2>2. P \in [1 .. Cardinality(E) -> S]
    BY <1>5, <2>1
  <2>3. QED
    BY <1>2, <2>2
<1>7. ToSet(P) = {list[i] : i \in E}
  BY <1>3, <1>4, <1>6 DEF ToSet
<1>8. QED
  BY <1>2, <1>3, <1>4, <1>6, <1>7

-----------------------------------------------------------------------------
(* Lists that lose or gain an element.                                     *)

\* End to end.
Joined(S, a, b, ab) ==
  /\ ab \in Seq(S) /\ Len(ab) = Len(a) + Len(b) /\ Len(a) \in Nat /\ Len(b) \in Nat
  /\ \A k \in 1 .. Len(a) + Len(b) : ab[k] = IF k <= Len(a) THEN a[k] ELSE b[k - Len(a)]

LEMMA ConcatIs ==
  ASSUME NEW S, NEW a \in Seq(S), NEW b \in Seq(S)
  PROVE  Joined(S, a, b, a \o b)
  BY DEF Joined

\* A stretch of a sequence.
LEMMA StretchIs ==
  ASSUME NEW S, NEW s \in Seq(S), NEW i \in 1 .. Len(s) + 1, NEW j \in 0 .. Len(s), i <= j + 1
  PROVE  /\ SubSeq(s, i, j) \in Seq(S) /\ Len(SubSeq(s, i, j)) = j + 1 - i
         /\ \A k \in 1 .. j + 1 - i : SubSeq(s, i, j)[k] = s[k + i - 1]
<1>1. Len(s) \in Nat
  OBVIOUS
<1>2. SubSeq(s, i, j) \in Seq(S) /\ Len(SubSeq(s, i, j)) = j + 1 - i
  BY <1>1
<1>3. ASSUME NEW k \in 1 .. j + 1 - i PROVE SubSeq(s, i, j)[k] = s[k + i - 1]
  <2>1. SubSeq(s, i, j)[k] = s[i + k - 1]
    BY <1>1
  <2>2. QED
    BY <2>1
<1>4. QED
  BY <1>2, <1>3

\* Adding one element.
Inserted(S, s, i, e, new) ==
  /\ new \in Seq(S) /\ Len(new) = Len(s) + 1
  /\ \A k \in 1 .. Len(s) + 1 : new[k] = IF k < i THEN s[k] ELSE IF k = i THEN e ELSE s[k - 1]

LEMMA InsertIs ==
  ASSUME NEW S, NEW s \in Seq(S), NEW i \in 1 .. Len(s) + 1, NEW e \in S
  PROVE  Inserted(S, s, i, e, InsertAt(s, i, e))
<1> DEFINE a == SubSeq(s, 1, i - 1)
           b == SubSeq(s, i, Len(s))
           c == a \o <<e>>
<1>1. Len(s) \in Nat /\ i \in Nat /\ 1 <= i /\ i <= Len(s) + 1
  OBVIOUS
<1>2. 1 \in 1 .. Len(s) + 1 /\ i - 1 \in 0 .. Len(s) /\ Len(s) \in 0 .. Len(s)
      /\ <<e>> \in Seq(S) /\ Len(<<e>>) = 1 /\ <<e>>[1] = e
  BY <1>1
<1>3. a \in Seq(S) /\ Len(a) = i - 1 /\ \A k \in 1 .. i - 1 : a[k] = s[k]
  <2>1. /\ a \in Seq(S) /\ Len(a) = (i - 1) + 1 - 1
        /\ \A k \in 1 .. (i - 1) + 1 - 1 : a[k] = s[k + 1 - 1]
    BY <1>1, <1>2, StretchIs
  <2>2. (i - 1) + 1 - 1 = i - 1 /\ \A k \in 1 .. i - 1 : k + 1 - 1 = k
    BY <1>1
  <2>3. QED
    BY <2>1, <2>2
<1>4. b \in Seq(S) /\ Len(b) = Len(s) + 1 - i
      /\ \A k \in 1 .. Len(s) + 1 - i : b[k] = s[k + i - 1]
  BY <1>1, <1>2, StretchIs
<1>5. InsertAt(s, i, e) = c \o b
  BY DEF InsertAt
<1> HIDE DEF a, b
<1>6. c \in Seq(S) /\ Len(c) = i /\ \A k \in 1 .. i : c[k] = IF k < i THEN s[k] ELSE e
  <2>1. /\ c \in Seq(S) /\ Len(c) = Len(a) + 1
        /\ \A k \in 1 .. Len(a) + 1 : c[k] = IF k <= Len(a) THEN a[k] ELSE <<e>>[k - Len(a)]
    BY <1>2, <1>3, ConcatIs DEF Joined
  <2>2. Len(a) + 1 = i /\ \A k \in 1 .. i : k - Len(a) = 1 \/ k <= Len(a)
    BY <1>1, <1>3
  <2>3. \A k \in 1 .. i : k <= Len(a) <=> k < i
    BY <1>1, <1>3
  <2> HIDE DEF c
  <2>4. QED
    BY <1>2, <1>3, <2>1, <2>2, <2>3
<1> HIDE DEF c
<1>7. /\ c \o b \in Seq(S) /\ Len(c \o b) = Len(c) + Len(b)
      /\ \A k \in 1 .. Len(c) + Len(b) :
           (c \o b)[k] = IF k <= Len(c) THEN c[k] ELSE b[k - Len(c)]
  BY <1>4, <1>6, ConcatIs DEF Joined
<1>8. Len(c) + Len(b) = Len(s) + 1
  BY <1>1, <1>4, <1>6
<1>9. ASSUME NEW k \in 1 .. Len(s) + 1
      PROVE  InsertAt(s, i, e)[k] = IF k < i THEN s[k] ELSE IF k = i THEN e ELSE s[k - 1]
  <2>1. (c \o b)[k] = IF k <= i THEN c[k] ELSE b[k - i]
    BY <1>6, <1>7, <1>8
  <2>2. CASE k <= i
    <3>1. k \in 1 .. i
      BY <1>1, <2>2
    <3>2. k < i \/ k = i
      BY <1>1, <2>2
    <3>3. QED
      BY <1>1, <1>5, <1>6, <2>1, <2>2, <3>1, <3>2
  <2>3. CASE ~(k <= i)
    <3>1. k - i \in 1 .. Len(s) + 1 - i /\ (k - i) + i - 1 = k - 1 /\ ~(k < i) /\ k # i
      BY <1>1, <2>3
    <3>2. QED
      BY <1>4, <1>5, <2>1, <2>3, <3>1
  <2>4. QED
    BY <2>2, <2>3
<1>10. QED
  BY <1>5, <1>7, <1>8, <1>9 DEF Inserted

\* Taking one out.
LEMMA RemoveIs ==
  ASSUME NEW S, NEW s \in Seq(S), NEW i \in 1 .. Len(s)
  PROVE  /\ RemoveAt(s, i) \in Seq(S) /\ Len(RemoveAt(s, i)) = Len(s) - 1
         /\ \A k \in 1 .. Len(s) - 1 : RemoveAt(s, i)[k] = IF k < i THEN s[k] ELSE s[k + 1]
<1> DEFINE a == SubSeq(s, 1, i - 1)
           b == SubSeq(s, i + 1, Len(s))
<1>1. Len(s) \in Nat /\ i \in Nat /\ 1 <= i /\ i <= Len(s)
  OBVIOUS
<1>2. 1 \in 1 .. Len(s) + 1 /\ i - 1 \in 0 .. Len(s) /\ Len(s) \in 0 .. Len(s)
      /\ i + 1 \in 1 .. Len(s) + 1
  BY <1>1
<1>3. a \in Seq(S) /\ Len(a) = i - 1 /\ \A k \in 1 .. i - 1 : a[k] = s[k]
  <2>1. /\ a \in Seq(S) /\ Len(a) = (i - 1) + 1 - 1
        /\ \A k \in 1 .. (i - 1) + 1 - 1 : a[k] = s[k + 1 - 1]
    BY <1>1, <1>2, StretchIs
  <2>2. (i - 1) + 1 - 1 = i - 1 /\ \A k \in 1 .. i - 1 : k + 1 - 1 = k
    BY <1>1
  <2>3. QED
    BY <2>1, <2>2
<1>4. b \in Seq(S) /\ Len(b) = Len(s) - i
      /\ \A k \in 1 .. Len(s) - i : b[k] = s[k + i]
  <2>1. /\ b \in Seq(S) /\ Len(b) = Len(s) + 1 - (i + 1)
        /\ \A k \in 1 .. Len(s) + 1 - (i + 1) : b[k] = s[k + (i + 1) - 1]
    BY <1>1, <1>2, StretchIs
  <2>2. Len(s) + 1 - (i + 1) = Len(s) - i /\ \A k \in 1 .. Len(s) - i : k + (i + 1) - 1 = k + i
    BY <1>1
  <2>3. QED
    BY <2>1, <2>2
<1>5. RemoveAt(s, i) = a \o b
  BY DEF RemoveAt
<1> HIDE DEF a, b
<1>6. /\ a \o b \in Seq(S) /\ Len(a \o b) = Len(a) + Len(b)
      /\ \A k \in 1 .. Len(a) + Len(b) :
           (a \o b)[k] = IF k <= Len(a) THEN a[k] ELSE b[k - Len(a)]
  BY <1>3, <1>4, ConcatIs DEF Joined
<1>7. Len(a) + Len(b) = Len(s) - 1
  BY <1>1, <1>3, <1>4
<1>8. ASSUME NEW k \in 1 .. Len(s) - 1
      PROVE  RemoveAt(s, i)[k] = IF k < i THEN s[k] ELSE s[k + 1]
  <2>1. (a \o b)[k] = IF k <= i - 1 THEN a[k] ELSE b[k - (i - 1)]
    BY <1>3, <1>6, <1>7
  <2>2. CASE k < i
    <3>1. k \in 1 .. i - 1 /\ k <= i - 1
      BY <1>1, <2>2
    <3>2. QED
      BY <1>3, <1>5, <2>1, <2>2, <3>1
  <2>3. CASE ~(k < i)
    <3>1. k - (i - 1) \in 1 .. Len(s) - i /\ k - (i - 1) + i = k + 1 /\ ~(k <= i - 1)
      BY <1>1, <2>3
    <3>2. QED
      BY <1>4, <1>5, <2>1, <2>3, <3>1
  <2>4. QED
    BY <2>2, <2>3
<1>9. QED
  BY <1>5, <1>6, <1>7, <1>8
=============================================================================
