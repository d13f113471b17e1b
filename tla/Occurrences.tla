---------------------------- MODULE Occurrences ----------------------------
(***************************************************************************)
(* In how many elements of a sequence of sets something occurs, and how    *)
(* that number changes when the sequence grows, shrinks or turns: the      *)
(* arithmetic behind the rings of values of the Core, where the sequence   *)
(* is the undo list or the stack of open transactions.                     *)
(***************************************************************************)
EXTENDS Integers, Sequences, FiniteSets, FiniteSetTheorems, SequenceTheorems, TLAPS

\* The places of s after the n-th one whose set contains a
OccursAfter(s, n, a) == {i \in (n + 1)..Len(s) : a \in s[i]}

CountAfter(s, n, a) == Cardinality(OccursAfter(s, n, a))

Count(s, a) == CountAfter(s, 0, a)

-----------------------------------------------------------------------------
(* A count is a number that is not larger than the places it counts in,    *)
(* and zero exactly if there is nothing to count.                          *)
LEMMA CountBounds ==
  ASSUME NEW S, NEW s \in Seq(SUBSET S), NEW n \in 0..Len(s), NEW a
  PROVE  /\ IsFiniteSet(OccursAfter(s, n, a))
         /\ CountAfter(s, n, a) \in 0..(Len(s) - n)
         /\ CountAfter(s, n, a) = 0 <=> \A i \in (n + 1)..Len(s) : a \notin s[i]
<1>0. n \in Int /\ n + 1 \in Int /\ Len(s) \in Int /\ n <= Len(s)
  OBVIOUS
<1>1. IsFiniteSet((n + 1)..Len(s)) /\ Cardinality((n + 1)..Len(s)) <= Len(s) - n
  <2>1. /\ IsFiniteSet((n + 1)..Len(s))
        /\ Cardinality((n + 1)..Len(s)) = IF n + 1 > Len(s) THEN 0 ELSE Len(s) - (n + 1) + 1
    BY <1>0, FS_Interval
  <2> QED BY <1>0, <2>1
<1>2. OccursAfter(s, n, a) \in SUBSET ((n + 1)..Len(s))
  BY DEF OccursAfter
<1>3. /\ IsFiniteSet(OccursAfter(s, n, a))
      /\ CountAfter(s, n, a) <= Cardinality((n + 1)..Len(s))
  BY <1>1, <1>2, FS_Subset DEF CountAfter
<1>4. CountAfter(s, n, a) \in Nat
  BY <1>3, FS_CardinalityType DEF CountAfter
<1>5. CountAfter(s, n, a) = 0 <=> OccursAfter(s, n, a) = {}
  BY <1>3, FS_EmptySet DEF CountAfter
<1>6. Cardinality((n + 1)..Len(s)) \in Nat
  BY <1>1, FS_CardinalityType
<1>7. CountAfter(s, n, a) \in 0..(Len(s) - n)
  BY <1>0, <1>1, <1>3, <1>4, <1>6
<1> QED
  BY <1>3, <1>5, <1>7 DEF OccursAfter

(* The same for the whole sequence. *)
LEMMA CountType ==
  ASSUME NEW S, NEW s \in Seq(SUBSET S), NEW a
  PROVE  /\ Count(s, a) \in Nat
         /\ Count(s, a) <= Len(s)
         /\ Count(s, a) = 0 <=> \A i \in 1..Len(s) : a \notin s[i]
<1>1. 0 \in 0..Len(s) /\ Len(s) \in Nat
  OBVIOUS
<1>2. /\ CountAfter(s, 0, a) \in 0..(Len(s) - 0)
      /\ CountAfter(s, 0, a) = 0 <=> \A i \in (0 + 1)..Len(s) : a \notin s[i]
  BY <1>1, CountBounds
<1> QED
  BY <1>1, <1>2 DEF Count

(* Moving every element of a finite set of numbers by the same distance    *)
(* leaves the size of the set as it is.                                    *)
LEMMA ShiftKeepsSize ==
  ASSUME NEW P \in SUBSET Int, NEW d \in Int, IsFiniteSet(P)
  PROVE  /\ IsFiniteSet({i + d : i \in P})
         /\ Cardinality({i + d : i \in P}) = Cardinality(P)
<1> DEFINE Q == {i + d : i \in P}
           f == [i \in P |-> i + d]
<1>1. f \in Injection(P, Q)
  <2>1. f \in [P -> Q] /\ DOMAIN f = P
    OBVIOUS
  <2>2. ASSUME NEW i \in P, NEW j \in P, f[i] = f[j]
        PROVE  i = j
    <3>1. f[i] = i + d /\ f[j] = j + d
      OBVIOUS
    <3>2. i \in Int /\ j \in Int
      OBVIOUS
    <3>3. \A x, y, z \in Int : x + z = y + z => x = y
      OBVIOUS
    <3>4. i + d = j + d
      BY <2>2, <3>1, Zenon
    <3> QED BY <3>2, <3>3, <3>4, Zenon
  <2> HIDE DEF f, Q
  <2> QED BY <2>1, <2>2 DEF Injection, IsInjective
<1>2. f \in Surjection(P, Q)
  BY DEF Surjection
<1>3. ExistsBijection(P, Q)
  BY <1>1, <1>2 DEF Bijection, ExistsBijection
<1> QED
  BY <1>3, FS_Bijection

-----------------------------------------------------------------------------
(* The undo list and the stack of levels grow at the front. *)
LEMMA CountOfPrepend ==
  ASSUME NEW S, NEW s \in Seq(SUBSET S), NEW e \in SUBSET S, NEW a
  PROVE  Count(<<e>> \o s, a) = Count(s, a) + (IF a \in e THEN 1 ELSE 0)
<1> DEFINE t == <<e>> \o s
           shifted == {i + 1 : i \in OccursAfter(s, 0, a)}
<1>1. /\ t \in Seq(SUBSET S)
      /\ Len(t) = Len(s) + 1
      /\ t[1] = e
      /\ \A i \in 2..Len(t) : t[i] = s[i - 1]
  OBVIOUS
<1>2. /\ IsFiniteSet(OccursAfter(s, 0, a))
      /\ OccursAfter(s, 0, a) \in SUBSET Int
      /\ Count(s, a) \in Nat
  <2>1. 0 \in 0..Len(s)
    OBVIOUS
  <2>2. IsFiniteSet(OccursAfter(s, 0, a)) /\ CountAfter(s, 0, a) \in 0..(Len(s) - 0)
    BY <2>1, CountBounds
  <2>3. OccursAfter(s, 0, a) \in SUBSET Int
    BY DEF OccursAfter
  <2> QED BY <2>2, <2>3 DEF Count
<1>3. IsFiniteSet(shifted) /\ Cardinality(shifted) = Count(s, a)
  <2>1. 1 \in Int
    OBVIOUS
  <2>2. /\ IsFiniteSet(shifted)
        /\ Cardinality(shifted) = Cardinality(OccursAfter(s, 0, a))
    BY <1>2, <2>1, ShiftKeepsSize
  <2> QED BY <2>2 DEF Count, CountAfter
<1>4. shifted = {i \in 2..Len(t) : a \in t[i]}
  <2>1. ASSUME NEW i \in shifted PROVE i \in 2..Len(t) /\ a \in t[i]
    BY <1>1, <2>1 DEF OccursAfter
  <2>2. ASSUME NEW i \in 2..Len(t), a \in t[i] PROVE i \in shifted
    <3>1. i - 1 \in OccursAfter(s, 0, a)
      BY <1>1, <2>2 DEF OccursAfter
    <3>2. i = (i - 1) + 1
      OBVIOUS
    <3> QED BY <3>1, <3>2
  <2> QED BY <2>1, <2>2
<1>5. CASE a \in e
  <2>1. OccursAfter(t, 0, a) = shifted \cup {1}
    BY <1>1, <1>4, <1>5 DEF OccursAfter
  <2>2. 1 \notin shifted
    BY <1>4
  <2> QED BY <1>2, <1>3, <1>5, <2>1, <2>2, FS_AddElement DEF Count, CountAfter
<1>6. CASE a \notin e
  <2>1. OccursAfter(t, 0, a) = shifted
    BY <1>1, <1>4, <1>6 DEF OccursAfter
  <2>2. Count(t, a) = Count(s, a)
    BY <1>3, <2>1 DEF Count, CountAfter
  <2> QED BY <1>2, <1>6, <2>2
<1> QED BY <1>5, <1>6

(* What is counted in a sequence is counted in its first n elements or     *)
(* after them.                                                             *)
LEMMA CountSplits ==
  ASSUME NEW S, NEW s \in Seq(SUBSET S), NEW n \in 0..Len(s), NEW a
  PROVE  Count(s, a) = Count(SubSeq(s, 1, n), a) + CountAfter(s, n, a)
<1> DEFINE t == SubSeq(s, 1, n)
<1>1. /\ t \in Seq(SUBSET S)
      /\ Len(t) = n
      /\ \A i \in 1..n : t[i] = s[i]
  OBVIOUS
<1>2. /\ IsFiniteSet(OccursAfter(t, 0, a))
      /\ IsFiniteSet(OccursAfter(s, n, a))
      /\ Count(t, a) \in Nat
      /\ CountAfter(s, n, a) \in Nat
  <2>1. 0 \in 0..Len(t) /\ Len(t) - 0 \in Nat
    BY <1>1
  <2>2. IsFiniteSet(OccursAfter(t, 0, a)) /\ CountAfter(t, 0, a) \in 0..(Len(t) - 0)
    BY <1>1, <2>1, CountBounds
  <2>3. IsFiniteSet(OccursAfter(s, n, a)) /\ CountAfter(s, n, a) \in 0..(Len(s) - n)
    BY CountBounds
  <2> QED BY <2>1, <2>2, <2>3 DEF Count
<1>3. OccursAfter(s, 0, a) = OccursAfter(t, 0, a) \cup OccursAfter(s, n, a)
  BY <1>1 DEF OccursAfter
<1>4. OccursAfter(t, 0, a) \cap OccursAfter(s, n, a) = {}
  BY <1>1 DEF OccursAfter
<1>5. Cardinality(OccursAfter(t, 0, a) \cap OccursAfter(s, n, a)) = 0
  BY <1>4, FS_EmptySet
<1>6. Cardinality(OccursAfter(s, 0, a)) =
        Cardinality(OccursAfter(t, 0, a)) + Cardinality(OccursAfter(s, n, a)) - 0
  BY <1>2, <1>3, <1>5, FS_Union
<1>7. Count(s, a) = Count(t, a) + CountAfter(s, n, a) - 0
  BY <1>6 DEF Count, CountAfter
<1> QED
  BY <1>2, <1>7

-----------------------------------------------------------------------------
LEMMA CountOfEmpty ==
  ASSUME NEW a
  PROVE  Count(<<>>, a) = 0
<1>1. OccursAfter(<<>>, 0, a) = {}
  BY DEF OccursAfter
<1> QED
  BY <1>1, FS_EmptySet DEF Count, CountAfter

LEMMA CountOfTail ==
  ASSUME NEW S, NEW s \in Seq(SUBSET S), s # <<>>, NEW a
  PROVE  Count(s, a) = Count(Tail(s), a) + (IF a \in s[1] THEN 1 ELSE 0)
<1> DEFINE u == Tail(s)
           e == s[1]
<1>1. u \in Seq(SUBSET S) /\ e \in SUBSET S
  OBVIOUS
<1>2. s = <<e>> \o u
  OBVIOUS
<1> HIDE DEF u, e
<1>3. Count(<<e>> \o u, a) = Count(u, a) + (IF a \in e THEN 1 ELSE 0)
  BY <1>1, CountOfPrepend
<1>4. Count(s, a) = Count(u, a) + (IF a \in e THEN 1 ELSE 0)
  BY <1>2, <1>3
<1> QED
  BY <1>4 DEF u, e

LEMMA CountOfAppend ==
  ASSUME NEW S, NEW s \in Seq(SUBSET S), NEW e \in SUBSET S, NEW a
  PROVE  Count(s \o <<e>>, a) = Count(s, a) + (IF a \in e THEN 1 ELSE 0)
<1> DEFINE t == s \o <<e>>
           n == Len(s)
<1>1. /\ t \in Seq(SUBSET S)
      /\ Len(t) = n + 1
      /\ t[n + 1] = e
      /\ n \in 0..Len(t)
      /\ SubSeq(t, 1, n) = s
  OBVIOUS
<1>2. OccursAfter(t, n, a) = IF a \in e THEN {n + 1} ELSE {}
  BY <1>1 DEF OccursAfter
<1>3. CountAfter(t, n, a) = IF a \in e THEN 1 ELSE 0
  BY <1>2, FS_EmptySet, FS_Singleton DEF CountAfter
<1> QED
  BY <1>1, <1>3, CountSplits

(* Undo and redo turn the list: nothing is counted twice or lost. *)
LEMMA CountOfRotation ==
  ASSUME NEW S, NEW s \in Seq(SUBSET S), s # <<>>, NEW a
  PROVE  /\ Count(Tail(s) \o <<s[1]>>, a) = Count(s, a)
         /\ Count(<<s[Len(s)]>> \o SubSeq(s, 1, Len(s) - 1), a) = Count(s, a)
<1> DEFINE u == Tail(s)
           e == s[1]
           w == SubSeq(s, 1, Len(s) - 1)
           f == s[Len(s)]
<1>1. /\ u \in Seq(SUBSET S) /\ e \in SUBSET S
      /\ w \in Seq(SUBSET S) /\ f \in SUBSET S
      /\ s = w \o <<f>>
  OBVIOUS
<1>2. Count(s, a) = Count(u, a) + (IF a \in e THEN 1 ELSE 0)
  BY CountOfTail
<1> HIDE DEF u, e, w, f
<1>3. Count(u \o <<e>>, a) = Count(u, a) + (IF a \in e THEN 1 ELSE 0)
  BY <1>1, CountOfAppend
<1>4. Count(w \o <<f>>, a) = Count(w, a) + (IF a \in f THEN 1 ELSE 0)
  BY <1>1, CountOfAppend
<1>5. Count(<<f>> \o w, a) = Count(w, a) + (IF a \in f THEN 1 ELSE 0)
  BY <1>1, CountOfPrepend
<1>6. Count(u \o <<e>>, a) = Count(s, a) /\ Count(<<f>> \o w, a) = Count(s, a)
  BY <1>1, <1>2, <1>3, <1>4, <1>5
<1> QED
  BY <1>6 DEF u, e, w, f
-----------------------------------------------------------------------------
(* In how many of the first n elements something occurs *)

CountUpTo(s, n, a) == Count(SubSeq(s, 1, n), a)

LEMMA CountOfTwo ==
  ASSUME NEW S, NEW s \in Seq(SUBSET S), NEW t \in Seq(SUBSET S), NEW a
  PROVE  Count(s \o t, a) = Count(s, a) + Count(t, a)
<1> DEFINE w == s \o t
           n == Len(s)
<1>1. /\ w \in Seq(SUBSET S) /\ Len(w) = n + Len(t) /\ n \in 0..Len(w)
      /\ SubSeq(w, 1, n) = s
      /\ \A i \in 1..Len(t) : w[i + n] = t[i]
  OBVIOUS
<1>2. OccursAfter(w, n, a) = {i + n : i \in OccursAfter(t, 0, a)}
  <2>1. ASSUME NEW i \in OccursAfter(t, 0, a) PROVE i + n \in OccursAfter(w, n, a)
    BY <1>1 DEF OccursAfter
  <2>2. ASSUME NEW j \in OccursAfter(w, n, a) PROVE j \in {i + n : i \in OccursAfter(t, 0, a)}
    <3>1. j - n \in 1..Len(t) /\ j = (j - n) + n /\ a \in w[j]
      BY <1>1 DEF OccursAfter
    <3>2. j - n \in OccursAfter(t, 0, a)
      BY <3>1, <1>1 DEF OccursAfter
    <3> QED BY <3>1, <3>2
  <2> QED BY <2>1, <2>2
<1>3. IsFiniteSet(OccursAfter(t, 0, a)) /\ OccursAfter(t, 0, a) \in SUBSET Int /\ n \in Int
  <2>1. 0 \in 0..Len(t) /\ n \in Int
    OBVIOUS
  <2>2. IsFiniteSet(OccursAfter(t, 0, a))
    BY <2>1, CountBounds
  <2>3. OccursAfter(t, 0, a) \in SUBSET Int
    BY DEF OccursAfter
  <2> QED BY <2>1, <2>2, <2>3
<1>4. CountAfter(w, n, a) = Count(t, a)
  BY <1>2, <1>3, ShiftKeepsSize DEF CountAfter, Count
<1> HIDE DEF w, n
<1>5. Count(w, a) = Count(s, a) + Count(t, a)
  BY <1>1, <1>4, CountSplits
<1> QED BY <1>5 DEF w

LEMMA UpToType ==
  ASSUME NEW S, NEW s \in Seq(SUBSET S), NEW n \in 0..Len(s), NEW a
  PROVE  /\ CountUpTo(s, n, a) \in Nat
         /\ Count(s, a) \in Nat
         /\ CountAfter(s, n, a) \in Nat
         /\ Count(s, a) = CountUpTo(s, n, a) + CountAfter(s, n, a)
         /\ CountUpTo(s, n, a) = Cardinality({i \in 1..n : a \in s[i]})
<1> DEFINE t == SubSeq(s, 1, n)
<1>1. t \in Seq(SUBSET S) /\ Len(t) = n /\ \A i \in 1..n : t[i] = s[i]
  OBVIOUS
<1>2. Count(t, a) \in Nat /\ Count(s, a) \in Nat
  BY <1>1, CountType
<1>3. CountAfter(s, n, a) \in Nat
  <2>1. CountAfter(s, n, a) \in 0..(Len(s) - n)
    BY CountBounds
  <2> QED BY <2>1
<1>4. OccursAfter(t, 0, a) = {i \in 1..n : a \in s[i]}
  BY <1>1 DEF OccursAfter
<1>5. Count(t, a) = Cardinality({i \in 1..n : a \in s[i]})
  BY <1>4 DEF Count, CountAfter
<1> HIDE DEF t
<1>6. CountUpTo(s, n, a) = Count(t, a)
  BY DEF CountUpTo, t
<1>7. Count(s, a) = CountUpTo(s, n, a) + CountAfter(s, n, a)
  BY CountSplits DEF CountUpTo
<1> QED BY <1>2, <1>3, <1>5, <1>6, <1>7

LEMMA UpToEnds ==
  ASSUME NEW S, NEW s \in Seq(SUBSET S), NEW a
  PROVE  CountUpTo(s, 0, a) = 0 /\ CountUpTo(s, Len(s), a) = Count(s, a)
<1>1. SubSeq(s, 1, 0) = <<>> /\ SubSeq(s, 1, Len(s)) = s
  OBVIOUS
<1> QED BY <1>1, CountOfEmpty DEF CountUpTo

LEMMA UpToOfPrepend ==
  ASSUME NEW S, NEW s \in Seq(SUBSET S), NEW e \in SUBSET S, NEW n \in 0..Len(s), NEW a
  PROVE  CountUpTo(<<e>> \o s, n + 1, a) = CountUpTo(s, n, a) + (IF a \in e THEN 1 ELSE 0)
<1> DEFINE t == SubSeq(s, 1, n)
<1>1. t \in Seq(SUBSET S) /\ SubSeq(<<e>> \o s, 1, n + 1) = <<e>> \o t
  OBVIOUS
<1> HIDE DEF t
<1>2. Count(<<e>> \o t, a) = Count(t, a) + (IF a \in e THEN 1 ELSE 0)
  BY <1>1, CountOfPrepend
<1> QED BY <1>1, <1>2 DEF CountUpTo, t

LEMMA UpToInFirst ==
  ASSUME NEW S, NEW s \in Seq(SUBSET S), NEW t \in Seq(SUBSET S), NEW n \in 0..Len(s), NEW a
  PROVE  CountUpTo(s \o t, n, a) = CountUpTo(s, n, a)
<1>1. SubSeq(s \o t, 1, n) = SubSeq(s, 1, n)
  OBVIOUS
<1> QED BY <1>1 DEF CountUpTo

LEMMA UpToInSecond ==
  ASSUME NEW S, NEW s \in Seq(SUBSET S), NEW t \in Seq(SUBSET S), NEW n \in 0..Len(t),
         NEW m, m = Len(s) + n, NEW a
  PROVE  CountUpTo(s \o t, m, a) = Count(s, a) + CountUpTo(t, n, a)
<1> DEFINE u == SubSeq(t, 1, n)
<1>1. SubSeq(s \o t, 1, m) = s \o u /\ u \in Seq(SUBSET S)
  OBVIOUS
<1> HIDE DEF u
<1>2. Count(s \o u, a) = Count(s, a) + Count(u, a)
  BY <1>1, CountOfTwo
<1> QED BY <1>1, <1>2 DEF CountUpTo, u

LEMMA UpToOfPrefix ==
  ASSUME NEW S, NEW s \in Seq(SUBSET S), NEW m \in 0..Len(s), NEW n \in 0..m, NEW a
  PROVE  CountUpTo(SubSeq(s, 1, m), n, a) = CountUpTo(s, n, a)
<1>1. SubSeq(SubSeq(s, 1, m), 1, n) = SubSeq(s, 1, n)
  OBVIOUS
<1> QED BY <1>1 DEF CountUpTo


LEMMA UpToGrows ==
  ASSUME NEW S, NEW s \in Seq(SUBSET S), NEW m \in 0..Len(s), NEW n \in 0..m, NEW a
  PROVE  CountUpTo(s, n, a) <= CountUpTo(s, m, a)
<1> DEFINE t == SubSeq(s, 1, m)
<1>1. t \in Seq(SUBSET S) /\ Len(t) = m
  OBVIOUS
<1>2. CountUpTo(t, n, a) = CountUpTo(s, n, a)
  BY UpToOfPrefix
<1> HIDE DEF t
<1>3. /\ CountUpTo(t, n, a) \in Nat /\ CountAfter(t, n, a) \in Nat
      /\ Count(t, a) = CountUpTo(t, n, a) + CountAfter(t, n, a)
  BY <1>1, UpToType
<1>4. Count(t, a) = CountUpTo(s, m, a)
  BY DEF CountUpTo, t
<1> QED BY <1>2, <1>3, <1>4

-----------------------------------------------------------------------------
(* The open levels of a transaction as a sequence of sets *)

LevelOf(S) == [items : SUBSET S, readonly : BOOLEAN]

\* What each level of a stack has written
Items(levels) == [k \in 1..Len(levels) |-> levels[k].items]

LEMMA ItemsType ==
  ASSUME NEW S, NEW levels \in Seq(LevelOf(S))
  PROVE  /\ Items(levels) \in Seq(SUBSET S)
         /\ Len(Items(levels)) = Len(levels)
         /\ \A k \in 1..Len(levels) : Items(levels)[k] = levels[k].items
<1>1. ASSUME NEW k \in 1..Len(levels) PROVE levels[k].items \in SUBSET S
  <2>1. levels[k] \in LevelOf(S)
    OBVIOUS
  <2> QED BY <2>1 DEF LevelOf
<1>2. Items(levels) \in [1..Len(levels) -> SUBSET S]
  BY <1>1 DEF Items
<1>3. Len(levels) \in Nat
  OBVIOUS
<1>4. Items(levels) \in Seq(SUBSET S) /\ Len(Items(levels)) = Len(levels)
  BY <1>2, <1>3
<1> QED BY <1>4 DEF Items

LEMMA ItemsOfPrepend ==
  ASSUME NEW S, NEW levels \in Seq(LevelOf(S)), NEW level \in LevelOf(S)
  PROVE  Items(<<level>> \o levels) = <<level.items>> \o Items(levels)
<1> DEFINE l == Items(<<level>> \o levels)
           r == <<level.items>> \o Items(levels)
<1>1. /\ l \in Seq(SUBSET S) /\ Len(l) = Len(levels) + 1
      /\ \A k \in 1..Len(l) : l[k] = (<<level>> \o levels)[k].items
  <2>1. <<level>> \o levels \in Seq(LevelOf(S)) /\ Len(<<level>> \o levels) = Len(levels) + 1
    OBVIOUS
  <2> QED BY <2>1, ItemsType
<1>2. /\ Items(levels) \in Seq(SUBSET S) /\ Len(Items(levels)) = Len(levels)
      /\ \A k \in 1..Len(levels) : Items(levels)[k] = levels[k].items
      /\ level.items \in SUBSET S
  BY ItemsType DEF LevelOf
<1>3. /\ r \in Seq(SUBSET S) /\ Len(r) = Len(levels) + 1
      /\ r[1] = level.items
      /\ \A k \in 2..Len(r) : r[k] = Items(levels)[k - 1]
  BY <1>2
<1>4. ASSUME NEW k \in 1..Len(l) PROVE l[k] = r[k]
  <2>1. CASE k = 1
    BY <1>1, <1>3, <2>1
  <2>2. CASE k # 1
    <3>1. k \in 2..Len(r) /\ k - 1 \in 1..Len(levels)
      BY <1>1, <1>3, <2>2
    <3>2. (<<level>> \o levels)[k] = levels[k - 1]
      BY <3>1
    <3> QED BY <1>1, <1>2, <1>3, <3>1, <3>2
  <2> QED BY <2>1, <2>2
<1>5. Len(l) = Len(r)
  BY <1>1, <1>3
<1> HIDE DEF l, r
<1>6. l = r
  BY <1>1, <1>3, <1>4, <1>5, SeqEqual
<1> QED BY <1>6 DEF l, r

LEMMA ItemsOfTail ==
  ASSUME NEW S, NEW levels \in Seq(LevelOf(S)), levels # <<>>
  PROVE  Items(Tail(levels)) = Tail(Items(levels))
<1>1. /\ Tail(levels) \in Seq(LevelOf(S)) /\ levels[1] \in LevelOf(S)
      /\ levels = <<levels[1]>> \o Tail(levels)
  OBVIOUS
<1>2. Items(levels) = <<levels[1].items>> \o Items(Tail(levels))
  BY <1>1, ItemsOfPrepend
<1>3. Items(Tail(levels)) \in Seq(SUBSET S)
  BY <1>1, ItemsType
<1> QED BY <1>2, <1>3

(* What opening, merging and closing a level do to the number of levels    *)
(* that wrote an attribute.                                                *)
LEMMA LevelCount ==
  ASSUME NEW S, NEW levels \in Seq(LevelOf(S)), NEW a
  PROVE  /\ Count(Items(levels), a) \in Nat
         /\ levels = <<>> => Count(Items(levels), a) = 0
         /\ levels # <<>> => Count(Items(levels), a) =
              Count(Items(Tail(levels)), a) + (IF a \in levels[1].items THEN 1 ELSE 0)
<1>1. /\ Items(levels) \in Seq(SUBSET S) /\ Len(Items(levels)) = Len(levels)
      /\ \A k \in 1..Len(levels) : Items(levels)[k] = levels[k].items
  BY ItemsType
<1>2. Count(Items(levels), a) \in Nat
  BY <1>1, CountType
<1>3. CASE levels = <<>>
  <2>1. Items(levels) = <<>>
    BY <1>1, <1>3
  <2> QED BY <1>2, <1>3, <2>1, CountOfEmpty
<1>4. CASE levels # <<>>
  <2>1. Items(levels) # <<>> /\ Items(levels)[1] = levels[1].items
    BY <1>1, <1>4
  <2>2. Items(Tail(levels)) = Tail(Items(levels))
    BY <1>4, ItemsOfTail
  <2>3. Count(Items(levels), a) = Count(Tail(Items(levels)), a)
                                  + (IF a \in Items(levels)[1] THEN 1 ELSE 0)
    BY <1>1, <2>1, CountOfTail
  <2> QED BY <1>2, <1>4, <2>1, <2>2, <2>3
<1> QED BY <1>3, <1>4

LEMMA LevelCountOfPrepend ==
  ASSUME NEW S, NEW levels \in Seq(LevelOf(S)), NEW level \in LevelOf(S), NEW a
  PROVE  Count(Items(<<level>> \o levels), a) =
           Count(Items(levels), a) + (IF a \in level.items THEN 1 ELSE 0)
<1>1. Items(levels) \in Seq(SUBSET S) /\ level.items \in SUBSET S
  BY ItemsType DEF LevelOf
<1>2. Count(<<level.items>> \o Items(levels), a) =
        Count(Items(levels), a) + (IF a \in level.items THEN 1 ELSE 0)
  BY <1>1, CountOfPrepend
<1> QED BY <1>2, ItemsOfPrepend

LEMMA LevelCountOfOne ==
  ASSUME NEW S, NEW level \in LevelOf(S), NEW a
  PROVE  Count(Items(<<level>>), a) = IF a \in level.items THEN 1 ELSE 0
<1>1. /\ <<>> \in Seq(LevelOf(S)) /\ <<level>> \in Seq(LevelOf(S)) /\ <<level>> # <<>>
      /\ Tail(<<level>>) = <<>> /\ <<level>>[1] = level
  OBVIOUS
<1>2. Count(Items(<<>>), a) = 0
  BY <1>1, LevelCount
<1>3. Count(Items(<<level>>), a) =
        Count(Items(Tail(<<level>>)), a) + (IF a \in <<level>>[1].items THEN 1 ELSE 0)
  BY <1>1, LevelCount
<1> QED BY <1>1, <1>2, <1>3
=============================================================================
