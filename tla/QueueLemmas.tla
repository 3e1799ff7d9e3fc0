---------------------------- MODULE QueueLemmas ----------------------------
(***************************************************************************)
(* What the list commands of Redis, as the models write them, do to the    *)
(* set of elements of a list: rpush is Append, lpop Tail, lpush a          *)
(* concatenation in front, and lrem with count 1 RemoveFirst; and what they *)
(* do to the number of copies of an element on it.                         *)
(* And what filtering an array, as the client does it, leaves of it.       *)
(***************************************************************************)
EXTENDS Integers, SequencesExt, ArrayOps, SequenceTheorems, FunctionTheorems, FiniteSetTheorems,
        WellFoundedInduction, TLAPS

\* rpush keeps what a list has and adds one element.
LEMMA RangeAppend ==
  ASSUME NEW S, NEW q \in Seq(S), NEW x \in S
  PROVE  /\ Append(q, x) \in Seq(S)
         /\ Range(Append(q, x)) = Range(q) \cup {x}
<1>1. Append(q, x) \in Seq(S)
  BY AppendProperties
<1>2. Range(Append(q, x)) = {Append(q, x)[i] : i \in 1..Len(q) + 1}
  <2>1. Len(Append(q, x)) = Len(q) + 1
    BY AppendProperties
  <2>2. Range(Append(q, x)) = {Append(q, x)[i] : i \in 1..Len(Append(q, x))}
    BY <1>1, RangeEquality
  <2>3. QED
    BY <2>1, <2>2
<1>3. Range(q) = {q[i] : i \in 1..Len(q)}
  BY RangeEquality
<1>4. QED
  BY <1>1, <1>2, <1>3, AppendProperties, LenProperties

\* The head of a list and its tail make up the list.
LEMMA RangeHeadTail ==
  ASSUME NEW S, NEW q \in Seq(S), q # <<>>
  PROVE  /\ Head(q) \in S /\ Tail(q) \in Seq(S)
         /\ Range(q) = {Head(q)} \cup Range(Tail(q))
<1>1. Head(q) \in S /\ Tail(q) \in Seq(S) /\ Len(Tail(q)) = Len(q) - 1
  BY HeadTailProperties
<1>2. Range(q) = {q[i] : i \in 1..Len(q)}
  BY RangeEquality
<1>3. Range(Tail(q)) = {q[i + 1] : i \in 1..Len(q) - 1}
  <2>1. Range(Tail(q)) = {Tail(q)[i] : i \in 1..Len(Tail(q))}
    BY <1>1, RangeEquality
  <2>2. \A i \in 1..Len(q) - 1 : Tail(q)[i] = q[i + 1]
    BY <1>1, HeadTailProperties
  <2>3. QED
    BY <1>1, <2>1, <2>2
<1>4. Len(q) \in Nat \ {0} /\ Head(q) = q[1]
  BY EmptySeq
<1>5. ASSUME NEW i \in 1..Len(q)
      PROVE  q[i] = Head(q) \/ \E j \in 1..Len(q) - 1 : q[i] = q[j + 1]
  <2>1. CASE i = 1
    BY <2>1, <1>4
  <2>2. CASE i # 1
    <3>1. i - 1 \in 1..Len(q) - 1 /\ i = (i - 1) + 1
      BY <2>2, <1>4
    <3>2. QED
      BY <3>1
  <2>3. QED
    BY <2>1, <2>2
<1>6. \A j \in 1..Len(q) - 1 : j + 1 \in 1..Len(q)
  BY <1>4
<1>7. QED
  BY <1>1, <1>2, <1>3, <1>4, <1>5, <1>6

\* lpush keeps what a list has and adds one element.
LEMMA RangePush ==
  ASSUME NEW S, NEW q \in Seq(S), NEW x \in S
  PROVE  /\ <<x>> \o q \in Seq(S)
         /\ Range(<<x>> \o q) = {x} \cup Range(q)
<1> DEFINE p == <<x>>
<1>1. p \in Seq(S) /\ q \in Seq(S) /\ Range(p) = {x}
  BY DEF Range
<1> HIDE DEF p
<1>2. p \o q \in Seq(S)
  BY <1>1, ConcatProperties
<1>3. Range(p \o q) = Range(p) \cup Range(q)
  <2>1. p \in Seq(S) /\ q \in Seq(S)
    BY <1>1
  <2>2. QED
    BY <2>1, RangeConcatenation, Zenon
<1>4. QED
  BY <1>1, <1>2, <1>3 DEF p

\* Every nonempty set of positions has a first one.
LEMMA FirstPosition ==
  ASSUME NEW I, I \subseteq Nat, I # {}
  PROVE  Min(I) \in I /\ \A j \in I : Min(I) <= j
<1>1. IsWellFoundedOn(OpToRel(<, Nat), Nat)
  BY NatLessThanWellFounded
<1>2. PICK k \in I : \A j \in I : <<j, k>> \notin OpToRel(<, Nat)
  BY <1>1, WFMin, Zenon
<1>3. ASSUME NEW j \in I PROVE k <= j
  <2>1. <<j, k>> \in OpToRel(<, Nat) <=> j < k
    BY DEF OpToRel
  <2>2. QED
    <3>1. j \in Nat /\ k \in Nat /\ ~(j < k)
      BY <1>2, <2>1
    <3>2. QED
      BY <3>1
<1>4. QED
  BY <1>3 DEF Min

\* Without the element at one position a list has all the others.
LEMMA RangeRemoveAt ==
  ASSUME NEW S, NEW q \in Seq(S), NEW k \in 1..Len(q)
  PROVE  /\ RemoveAt(q, k) \in Seq(S)
         /\ Range(RemoveAt(q, k)) \subseteq Range(q)
         /\ Range(q) \subseteq Range(RemoveAt(q, k)) \cup {q[k]}
<1> DEFINE front == SubSeq(q, 1, k - 1)
           back == SubSeq(q, k + 1, Len(q))
<1>1. Len(q) \in Nat /\ k \in Nat /\ 1 <= k /\ k <= Len(q)
  BY LenProperties
<1>2. \A i \in 1..Len(q) : q[i] \in S
  BY ElementOfSeq
<1>3. /\ front \in Seq(S) /\ Len(front) = k - 1
      /\ \A i \in 1..k - 1 : front[i] = q[i]
  BY <1>1, <1>2
<1>4. /\ back \in Seq(S) /\ Len(back) = Len(q) - k
      /\ \A i \in 1..Len(q) - k : back[i] = q[k + i]
  BY <1>1, <1>2
<1> HIDE DEF front, back
<1>5. Range(front) = {q[i] : i \in 1..k - 1}
  <2>1. Range(front) = {front[i] : i \in 1..Len(front)}
    BY <1>3, RangeEquality
  <2>2. QED
    BY <2>1, <1>3
<1>6. Range(back) = {q[k + i] : i \in 1..Len(q) - k}
  <2>1. Range(back) = {back[i] : i \in 1..Len(back)}
    BY <1>4, RangeEquality
  <2>2. QED
    BY <2>1, <1>4
<1>7. Range(front \o back) = Range(front) \cup Range(back)
  BY <1>3, <1>4, RangeConcatenation, Zenon
<1>8. Range(q) = {q[i] : i \in 1..Len(q)}
  BY RangeEquality
<1>9. RemoveAt(q, k) = front \o back
  BY DEF RemoveAt, front, back
<1>10. \A i \in 1..Len(q) :
         i = k \/ i \in 1..k - 1 \/ (i - k \in 1..Len(q) - k /\ i = k + (i - k))
  BY <1>1
<1>11. Range(q) \subseteq Range(front) \cup Range(back) \cup {q[k]}
  BY <1>5, <1>6, <1>8, <1>10
<1>12. Range(front) \subseteq Range(q)
  <2>1. \A i \in 1..k - 1 : i \in 1..Len(q)
    BY <1>1
  <2>2. QED
    BY <2>1, <1>5, <1>8
<1>13. Range(back) \subseteq Range(q)
  <2>1. \A i \in 1..Len(q) - k : k + i \in 1..Len(q)
    BY <1>1
  <2>2. QED
    BY <2>1, <1>6, <1>8
<1>14. front \o back \in Seq(S)
  BY <1>3, <1>4, ConcatProperties
<1>15. QED
  BY <1>7, <1>9, <1>11, <1>12, <1>13, <1>14

\* lrem takes at most one element off a list, and none but the one it is given.
LEMMA RangeRemoveFirst ==
  ASSUME NEW S, NEW q \in Seq(S), NEW x
  PROVE  /\ RemoveFirst(q, x) \in Seq(S)
         /\ Range(RemoveFirst(q, x)) \subseteq Range(q)
         /\ Range(q) \subseteq Range(RemoveFirst(q, x)) \cup {x}
<1> DEFINE I == {i \in 1..Len(q) : q[i] = x}
<1>1. CASE I = {}
  BY <1>1 DEF RemoveFirst
<1>2. CASE I # {}
  <2>1. Min(I) \in I
    <3>1. I \subseteq Nat
      BY LenProperties
    <3>2. QED
      BY <1>2, <3>1, FirstPosition
  <2>2. RemoveFirst(q, x) = RemoveAt(q, Min(I))
    BY <1>2 DEF RemoveFirst, SelectInSeq
  <2>3. Min(I) \in 1..Len(q) /\ q[Min(I)] = x
    BY <2>1
  <2>4. QED
    BY <2>2, <2>3, RangeRemoveAt
<1>3. QED
  BY <1>1, <1>2

---------------------------------------------------------------------------
(* Copies.                                                                 *)

Positions(q, x) == {i \in 1..Len(q) : q[i] = x}

\* How often x is on the list.
Copies(q, x) == Cardinality(Positions(q, x))

\* A list has finitely many copies of an element, and one iff it has the element.
LEMMA CopiesType ==
  ASSUME NEW S, NEW q \in Seq(S), NEW x
  PROVE  /\ IsFiniteSet(Positions(q, x))
         /\ Copies(q, x) \in Nat
         /\ x \in Range(q) <=> Copies(q, x) > 0
<1>1. Len(q) \in Nat
  BY LenProperties
<1>2. IsFiniteSet(1..Len(q))
  BY <1>1, FS_Interval
<1>3. Positions(q, x) \in SUBSET (1..Len(q))
  BY DEF Positions
<1>4. IsFiniteSet(Positions(q, x))
  BY <1>2, <1>3, FS_Subset
<1>5. Copies(q, x) \in Nat
  BY <1>4, FS_CardinalityType DEF Copies
<1>6. Copies(q, x) = 0 <=> Positions(q, x) = {}
  BY <1>4, FS_EmptySet DEF Copies
<1>7. Range(q) = {q[i] : i \in 1..Len(q)}
  BY RangeEquality
<1>8. x \in Range(q) <=> Positions(q, x) # {}
  BY <1>7 DEF Positions
<1>9. QED
  BY <1>4, <1>5, <1>6, <1>8

\* Sets of positions that differ by a renumbering are equally large.
LEMMA Renumbered ==
  ASSUME NEW A, NEW B, NEW f, IsFiniteSet(A), f \in [A -> B],
         \A i, j \in A : f[i] = f[j] => i = j,
         \A b \in B : \E i \in A : f[i] = b
  PROVE  IsFiniteSet(B) /\ Cardinality(B) = Cardinality(A)
<1>1. f \in Bijection(A, B)
  BY Fun_IsBij
<1>2. ExistsBijection(A, B)
  BY <1>1 DEF ExistsBijection
<1>3. QED
  BY <1>2, FS_Bijection

\* rpush adds a copy of what it pushes, and of nothing else.
LEMMA CopiesAppend ==
  ASSUME NEW S, NEW q \in Seq(S), NEW y \in S, NEW x
  PROVE  Copies(Append(q, y), x) = Copies(q, x) + (IF x = y THEN 1 ELSE 0)
<1> DEFINE p == Append(q, y)
<1>1. /\ Len(q) \in Nat /\ Len(p) = Len(q) + 1
      /\ \A i \in 1..Len(q) : p[i] = q[i]
      /\ p[Len(q) + 1] = y
  BY AppendProperties, LenProperties
<1>2. IsFiniteSet(Positions(q, x)) /\ Copies(q, x) \in Nat
  BY CopiesType
<1> HIDE DEF p
<1>3. CASE x = y
  <2>1. Positions(p, x) = Positions(q, x) \cup {Len(q) + 1}
    BY <1>1, <1>3 DEF Positions
  <2>2. Len(q) + 1 \notin Positions(q, x)
    BY <1>1 DEF Positions
  <2>3. Cardinality(Positions(q, x) \cup {Len(q) + 1}) = Cardinality(Positions(q, x)) + 1
    BY <1>2, <2>2, FS_AddElement
  <2>4. QED
    BY <1>3, <2>1, <2>3 DEF Copies, p
<1>4. CASE x # y
  <2>1. Positions(p, x) = Positions(q, x)
    BY <1>1, <1>4 DEF Positions
  <2>2. QED
    BY <1>2, <1>4, <2>1 DEF Copies, p
<1>5. QED
  BY <1>3, <1>4

\* The elements of a list without the one at position k.
LEMMA RemoveAtElements ==
  ASSUME NEW S, NEW q \in Seq(S), NEW k \in 1..Len(q)
  PROVE  /\ RemoveAt(q, k) \in Seq(S) /\ Len(RemoveAt(q, k)) = Len(q) - 1
         /\ \A i \in 1..Len(q) - 1 : RemoveAt(q, k)[i] = IF i < k THEN q[i] ELSE q[i + 1]
<1> DEFINE r == RemoveAt(q, k)
<1>0. Len(q) \in Nat /\ k \in Nat /\ 1 <= k /\ k <= Len(q)
  BY LenProperties
<1>1. /\ SubSeq(q, 1, k - 1) \in Seq(S) /\ Len(SubSeq(q, 1, k - 1)) = k - 1
      /\ \A i \in 1..k - 1 : SubSeq(q, 1, k - 1)[i] = q[i]
  BY <1>0, ElementOfSeq
<1>2. /\ SubSeq(q, k + 1, Len(q)) \in Seq(S) /\ Len(SubSeq(q, k + 1, Len(q))) = Len(q) - k
      /\ \A i \in 1..Len(q) - k : SubSeq(q, k + 1, Len(q))[i] = q[k + i]
  BY <1>0, ElementOfSeq
<1> DEFINE a == SubSeq(q, 1, k - 1)
           b == SubSeq(q, k + 1, Len(q))
<1>3. r = a \o b
  BY DEF RemoveAt
<1> HIDE DEF a, b, r
<1>4. /\ Len(a \o b) = Len(q) - 1
      /\ \A i \in 1..Len(q) - 1 : (a \o b)[i] = IF i <= k - 1 THEN a[i] ELSE b[i - (k - 1)]
  <2>1. a \in Seq(S) /\ b \in Seq(S) /\ Len(a) = k - 1 /\ Len(b) = Len(q) - k
    BY <1>1, <1>2 DEF a, b
  <2>2. /\ Len(a \o b) = Len(a) + Len(b)
        /\ \A i \in 1..Len(a) + Len(b) : (a \o b)[i] = IF i <= Len(a) THEN a[i] ELSE b[i - Len(a)]
    BY <2>1, ConcatProperties, Zenon
  <2>3. Len(a) + Len(b) = Len(q) - 1
    BY <1>0, <2>1
  <2>4. QED
    BY <2>1, <2>2, <2>3
<1>5. ASSUME NEW i \in 1..Len(q) - 1
      PROVE  r[i] = IF i < k THEN q[i] ELSE q[i + 1]
  <2>1. CASE i < k
    BY <1>0, <1>1, <1>3, <1>4, <2>1 DEF a
  <2>2. CASE ~(i < k)
    <3>1. i - (k - 1) \in 1..Len(q) - k /\ k + (i - (k - 1)) = i + 1 /\ ~(i <= k - 1)
      BY <1>0, <2>2
    <3>2. QED
      BY <1>2, <1>3, <1>4, <2>2, <3>1 DEF b
  <2>3. QED
    BY <2>1, <2>2
<1>6. r \in Seq(S)
  BY RangeRemoveAt DEF r
<1>7. QED
  BY <1>3, <1>4, <1>5, <1>6 DEF r

\* A list without the element at position k has one copy less of it.
LEMMA CopiesRemoveAt ==
  ASSUME NEW S, NEW q \in Seq(S), NEW k \in 1..Len(q), NEW x
  PROVE  Copies(q, x) = Copies(RemoveAt(q, k), x) + (IF x = q[k] THEN 1 ELSE 0)
<1> DEFINE r == RemoveAt(q, k)
           f == [i \in Positions(r, x) |-> IF i < k THEN i ELSE i + 1]
<1>1. /\ r \in Seq(S) /\ Len(q) \in Nat /\ k \in Nat /\ 1 <= k /\ k <= Len(q)
  BY RangeRemoveAt, LenProperties
<1>2. /\ Len(r) = Len(q) - 1
      /\ \A i \in 1..Len(q) - 1 : r[i] = IF i < k THEN q[i] ELSE q[i + 1]
  BY RemoveAtElements
<1>3. /\ IsFiniteSet(Positions(r, x)) /\ Copies(r, x) \in Nat
      /\ IsFiniteSet(Positions(q, x)) /\ Copies(q, x) \in Nat
  BY <1>1, CopiesType
<1> HIDE DEF r
<1>4. Positions(r, x) = {i \in 1..Len(q) - 1 : (IF i < k THEN q[i] ELSE q[i + 1]) = x}
  BY <1>2 DEF Positions
<1>5. ASSUME NEW i \in Positions(r, x)
      PROVE  f[i] \in Positions(q, x) \ {k}
  BY <1>1, <1>4 DEF Positions
<1>6. \A i, j \in Positions(r, x) : f[i] = f[j] => i = j
  BY <1>1, <1>4
<1>7. ASSUME NEW b \in Positions(q, x) \ {k}
      PROVE  \E i \in Positions(r, x) : f[i] = b
  <2>1. CASE b < k
    <3>1. b \in Positions(r, x)
      BY <1>1, <1>4, <2>1 DEF Positions
    <3>2. QED
      BY <2>1, <3>1
  <2>2. CASE ~(b < k)
    <3>1. b \in 1..Len(q) /\ q[b] = x /\ b > k
      BY <1>1, <2>2 DEF Positions
    <3>2. b - 1 \in 1..Len(q) - 1 /\ ~(b - 1 < k) /\ (b - 1) + 1 = b
      BY <1>1, <3>1
    <3>3. b - 1 \in Positions(r, x)
      BY <1>4, <3>1, <3>2
    <3>4. QED
      BY <3>2, <3>3
  <2>3. QED
    BY <2>1, <2>2
<1>8. Cardinality(Positions(q, x) \ {k}) = Cardinality(Positions(r, x))
  <2>1. f \in [Positions(r, x) -> Positions(q, x) \ {k}]
    BY <1>5
  <2> HIDE DEF f
  <2>2. QED
    BY <1>3, <1>6, <1>7, <2>1, Renumbered
<1>9. k \in Positions(q, x) <=> x = q[k]
  BY DEF Positions
<1>10. Cardinality(Positions(q, x) \ {k}) =
         IF k \in Positions(q, x) THEN Cardinality(Positions(q, x)) - 1 ELSE Cardinality(Positions(q, x))
  BY <1>3, FS_RemoveElement
<1>11. QED
  BY <1>3, <1>8, <1>9, <1>10 DEF Copies, r

\* lpop takes one copy of the head.
LEMMA CopiesHeadTail ==
  ASSUME NEW S, NEW q \in Seq(S), q # <<>>, NEW x
  PROVE  Copies(q, x) = Copies(Tail(q), x) + (IF x = Head(q) THEN 1 ELSE 0)
<1>1. /\ Tail(q) \in Seq(S) /\ Len(q) \in Nat /\ Len(q) >= 1 /\ Len(Tail(q)) = Len(q) - 1
      /\ \A i \in 1..Len(q) - 1 : Tail(q)[i] = q[i + 1]
      /\ Head(q) = q[1]
  BY HeadTailProperties, EmptySeq, LenProperties
<1>2. PICK k \in 1..Len(q) : k = 1
  BY <1>1
<1>3. /\ RemoveAt(q, k) \in Seq(S) /\ Len(RemoveAt(q, k)) = Len(q) - 1
      /\ \A i \in 1..Len(q) - 1 : RemoveAt(q, k)[i] = IF i < k THEN q[i] ELSE q[i + 1]
  BY RemoveAtElements
<1>4. \A i \in 1..Len(q) - 1 : RemoveAt(q, k)[i] = Tail(q)[i]
  BY <1>1, <1>2, <1>3
<1>5. Tail(q) = RemoveAt(q, k)
  BY <1>1, <1>3, <1>4, SeqEqual
<1>6. Copies(q, x) = Copies(RemoveAt(q, k), x) + (IF x = q[k] THEN 1 ELSE 0)
  BY CopiesRemoveAt
<1>7. QED
  BY <1>1, <1>2, <1>5, <1>6

\* lpush adds a copy of what it pushes, and of nothing else.
LEMMA CopiesPush ==
  ASSUME NEW S, NEW q \in Seq(S), NEW y \in S, NEW x
  PROVE  Copies(<<y>> \o q, x) = Copies(q, x) + (IF x = y THEN 1 ELSE 0)
<1>1. /\ <<y>> \o q \in Seq(S) /\ <<y>> \o q # <<>>
      /\ Head(<<y>> \o q) = y /\ Tail(<<y>> \o q) = q
  OBVIOUS
<1>2. QED
  BY <1>1, CopiesHeadTail

\* lrem takes one copy of what it is given, if there is one, and of nothing else.
LEMMA CopiesRemoveFirst ==
  ASSUME NEW S, NEW q \in Seq(S), NEW y, NEW x
  PROVE  Copies(RemoveFirst(q, y), x) =
           IF x = y /\ x \in Range(q) THEN Copies(q, x) - 1 ELSE Copies(q, x)
<1>1. Range(q) = {q[i] : i \in 1..Len(q)}
  BY RangeEquality
<1>2. Copies(q, x) \in Nat
  BY CopiesType
<1>3. CASE Positions(q, y) = {}
  <2>1. y \notin Range(q)
    BY <1>1, <1>3 DEF Positions
  <2>2. RemoveFirst(q, y) = q
    BY <1>3 DEF RemoveFirst, Positions
  <2>3. QED
    BY <2>1, <2>2
<1>4. CASE Positions(q, y) # {}
  <2> DEFINE k == Min(Positions(q, y))
  <2>1. k \in Positions(q, y)
    <3>1. Positions(q, y) \subseteq Nat
      BY LenProperties DEF Positions
    <3>2. QED
      BY <1>4, <3>1, FirstPosition
  <2>2. RemoveFirst(q, y) = RemoveAt(q, k)
    BY <1>4 DEF RemoveFirst, SelectInSeq, Positions
  <2> HIDE DEF k
  <2>3. k \in 1..Len(q) /\ q[k] = y /\ y \in Range(q)
    BY <1>1, <2>1 DEF Positions
  <2>4. RemoveAt(q, k) \in Seq(S)
    BY <2>3, RangeRemoveAt
  <2>5. Copies(RemoveAt(q, k), x) \in Nat
    BY <2>4, CopiesType
  <2>6. Copies(q, x) = Copies(RemoveAt(q, k), x) + (IF x = y THEN 1 ELSE 0)
    BY <2>3, CopiesRemoveAt
  <2>7. QED
    BY <1>2, <2>2, <2>3, <2>5, <2>6
<1>5. QED
  BY <1>3, <1>4

---------------------------------------------------------------------------
(* Filtering.                                                              *)

Increasing(f) == \A i, j \in DOMAIN f : i < j => f[i] < f[j]

\* P can be listed from the smallest to the largest.
Listed(P) == \E f \in [1..Cardinality(P) -> P] : Increasing(f)

\* A set can be listed when it can be without its smallest element.
LEMMA ListedFromSmallest ==
  ASSUME NEW P, P \subseteq Nat, IsFiniteSet(P), NEW x \in P, \A y \in P : x <= y,
         Listed(P \ {x})
  PROVE  Listed(P)
<1> DEFINE n == Cardinality(P)
<1>1. n \in Nat \ {0} /\ Cardinality(P \ {x}) = n - 1
  <2>1. Cardinality(P \ {x}) \in Nat
    BY FS_RemoveElement, FS_CardinalityType
  <2> QED
    BY <2>1, FS_RemoveElement, FS_CardinalityType
<1> HIDE DEF n
<1>2. PICK g \in [1..(n - 1) -> P \ {x}] : Increasing(g)
  BY <1>1 DEF Listed
<1> DEFINE f == [k \in 1..n |-> IF k = 1 THEN x ELSE g[k - 1]]
<1>3. \A k \in 2..n : k - 1 \in 1..(n - 1)
  BY <1>1
<1>4. f \in [1..n -> P]
  <2>1. \A k \in 1..n : k = 1 \/ k \in 2..n
    BY <1>1
  <2> QED
    BY <1>2, <1>3, <2>1
<1>5. ASSUME NEW i \in 1..n, NEW j \in 1..n, i < j
      PROVE  f[i] < f[j]
  <2>1. j \in 2..n /\ (i = 1 \/ i \in 2..n)
    BY <1>1, <1>5
  <2>2. f[j] = g[j - 1] /\ g[j - 1] \in P \ {x}
    BY <1>2, <1>3, <2>1
  <2>3. CASE i = 1
    <3>1. f[i] = x /\ x <= g[j - 1] /\ x # g[j - 1]
      BY <2>2, <2>3
    <3>2. x \in Nat /\ g[j - 1] \in Nat
      BY <2>2
    <3> HIDE DEF f
    <3> QED
      BY <2>2, <3>1, <3>2
  <2>4. CASE i \in 2..n
    <3>1. f[i] = g[i - 1] /\ i - 1 \in 1..(n - 1) /\ j - 1 \in 1..(n - 1) /\ i - 1 < j - 1
      BY <1>3, <1>5, <2>1, <2>4
    <3>2. g[i - 1] < g[j - 1]
      BY <1>2, <3>1 DEF Increasing
    <3> HIDE DEF f
    <3> QED
      BY <2>2, <3>1, <3>2
  <2> QED
    BY <2>1, <2>3, <2>4
<1>6. DOMAIN f = 1..n
  OBVIOUS
<1> HIDE DEF f
<1>7. Increasing(f)
  BY <1>5, <1>6 DEF Increasing
<1> QED
  BY <1>4, <1>7 DEF Listed, n

\* Every finite set of numbers can be listed: a smallest one that could not be would
\* be listed once its smallest element is left out.
LEMMA EverySetListed ==
  ASSUME NEW P, P \subseteq Nat, IsFiniteSet(P)
  PROVE  Listed(P)
<1> DEFINE Bad == {n \in Nat : \E Q \in SUBSET Nat :
                     IsFiniteSet(Q) /\ Cardinality(Q) = n /\ ~Listed(Q)}
<1>1. SUFFICES ASSUME ~Listed(P)
               PROVE  FALSE
  OBVIOUS
<1>2. Bad \subseteq Nat /\ Bad # {}
  BY <1>1, FS_CardinalityType
<1>3. Min(Bad) \in Bad /\ \A n \in Bad : Min(Bad) <= n
  BY <1>2, FirstPosition
<1>4. PICK Q \in SUBSET Nat : IsFiniteSet(Q) /\ Cardinality(Q) = Min(Bad) /\ ~Listed(Q)
  BY <1>3
<1>5. CASE Q = {}
  <2>1. Cardinality(Q) = 0
    BY <1>5, FS_EmptySet
  <2> DEFINE f == [k \in 1..0 |-> k]
  <2>2. f \in [1..Cardinality(Q) -> Q] /\ Increasing(f)
    BY <1>5, <2>1 DEF Increasing
  <2> QED
    BY <1>4, <2>2 DEF Listed
<1>6. CASE Q # {}
  <2>1. Min(Q) \in Q /\ \A y \in Q : Min(Q) <= y
    BY <1>6, FirstPosition
  <2>2. /\ IsFiniteSet(Q \ {Min(Q)}) /\ Cardinality(Q \ {Min(Q)}) \in Nat
        /\ Cardinality(Q \ {Min(Q)}) = Cardinality(Q) - 1
    BY <1>4, <2>1, FS_RemoveElement, FS_CardinalityType
  <2>3. Cardinality(Q \ {Min(Q)}) \notin Bad
    <3>1. Cardinality(Q) \in Nat
      BY <1>4, FS_CardinalityType
    <3> HIDE DEF Bad
    <3> QED
      BY <1>3, <1>4, <2>2, <3>1
  <2>4. Listed(Q \ {Min(Q)})
    BY <1>4, <2>2, <2>3
  <2> HIDE DEF Bad
  <2> QED
    BY <1>4, <2>1, <2>4, ListedFromSmallest
<1> QED
  BY <1>5, <1>6

\* The list of a set is increasing and has every element once.
LEMMA InOrderLists ==
  ASSUME NEW P, P \subseteq Nat, IsFiniteSet(P)
  PROVE  /\ Cardinality(P) \in Nat
         /\ InOrder(P) \in [1..Cardinality(P) -> P]
         /\ Increasing(InOrder(P))
         /\ \A i, j \in 1..Cardinality(P) : InOrder(P)[i] = InOrder(P)[j] => i = j
         /\ \A x \in P : \E k \in 1..Cardinality(P) : InOrder(P)[k] = x
<1> DEFINE n == Cardinality(P)
           f == InOrder(P)
<1>1. n \in Nat
  BY FS_CardinalityType
<1>2. f \in [1..n -> P] /\ Increasing(f)
  BY EverySetListed DEF Listed, Increasing, InOrder
<1> HIDE DEF n, f
<1>3. ASSUME NEW i \in 1..n, NEW j \in 1..n, f[i] = f[j]
      PROVE  i = j
  <2>1. f[i] \in Nat /\ f[j] \in Nat
    BY <1>2
  <2>2. ~(i < j) /\ ~(j < i)
    BY <1>2, <1>3, <2>1 DEF Increasing
  <2> QED
    BY <1>1, <2>2
<1>4. f \in Injection(1..n, P)
  BY <1>2, <1>3, Fun_IsInj
<1>5. Cardinality(1..n) = n
  BY <1>1, FS_Interval
<1>6. f \in Surjection(1..n, P)
  BY <1>4, <1>5, FS_Injection DEF n
<1> QED
  BY <1>1, <1>2, <1>3, <1>6 DEF Surjection, n, f

\* What is left are the elements at the positions kept, each one of them.
LEMMA FilteredElements ==
  ASSUME NEW S, NEW s \in Seq(S), NEW P, P \subseteq 1..Len(s)
  PROVE  /\ Filtered(s, P) \in Seq(S)
         /\ Len(Filtered(s, P)) = Cardinality(P)
         /\ Range(Filtered(s, P)) = {s[i] : i \in P}
<1> DEFINE n == Cardinality(P)
           f == InOrder(P)
           t == Filtered(s, P)
<1>1. P \subseteq Nat /\ IsFiniteSet(P)
  <2>1. Len(s) \in Nat
    BY LenProperties
  <2>2. IsFiniteSet(1..Len(s))
    BY <2>1, FS_Interval
  <2>3. P \in SUBSET (1..Len(s))
    OBVIOUS
  <2>4. IsFiniteSet(P)
    BY <2>2, <2>3, FS_Subset
  <2> QED
    BY <2>1, <2>4
<1>2. /\ n \in Nat /\ f \in [1..n -> P]
      /\ \A x \in P : \E k \in 1..n : f[k] = x
  BY <1>1, InOrderLists
<1>3. t = [k \in 1..n |-> s[f[k]]]
  BY DEF Filtered
<1> HIDE DEF n, f, t
<1>4. \A k \in 1..n : s[f[k]] \in S
  BY <1>2, ElementOfSeq
<1>5. t \in Seq(S) /\ Len(t) = n
  BY <1>2, <1>3, <1>4
<1>6. Range(t) = {t[k] : k \in 1..n}
  BY <1>5, RangeEquality
<1>7. Range(t) = {s[i] : i \in P}
  <2>1. \A k \in 1..n : t[k] = s[f[k]] /\ f[k] \in P
    BY <1>2, <1>3
  <2>2. \A i \in P : \E k \in 1..n : t[k] = s[i]
    BY <1>2, <2>1
  <2>3. \A y \in Range(t) : \E i \in P : y = s[i]
    BY ONLY <1>6, <2>1, Zenon
  <2>4. \A i \in P : s[i] \in Range(t)
    BY ONLY <1>6, <2>2, Zenon
  <2> QED
    BY ONLY <2>3, <2>4
<1> QED
  BY <1>5, <1>7 DEF n, t
=============================================================================
