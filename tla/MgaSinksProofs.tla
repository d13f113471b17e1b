--------------------------- MODULE MgaSinksProofs ---------------------------
(***************************************************************************)
(* Invariants of MgaSinks: the types for any handlers, and what the loops  *)
(* that notify rely on for handlers that leave the loops alone and set no  *)
(* property of the project (Considerate and MaxDepth = 1).                 *)
(***************************************************************************)
EXTENDS MgaSinksProps, FiniteSetTheorems, SequenceTheorems, TLAPS
-----------------------------------------------------------------------------
(* Lists *)

\* s comes before t
Before(list, s, t) == \E i, j \in DOMAIN list : i < j /\ list[i] = s /\ list[j] = t

(* The places that are kept are numbered from 1 on, in their order. *)
LEMMA Ranks ==
  ASSUME NEW kept \in SUBSET Nat, IsFiniteSet(kept)
  PROVE  LET rank(i) == Cardinality({j \in kept : j <= i})
         IN  /\ \A i \in kept : rank(i) \in 1..Cardinality(kept)
             /\ \A i, j \in kept : i < j => rank(i) < rank(j)
             /\ \A k \in 1..Cardinality(kept) : \E i \in kept : rank(i) = k
<1> DEFINE upto(i) == {j \in kept : j <= i}
           rank(i) == Cardinality(upto(i))
           n == Cardinality(kept)
           f == [i \in kept |-> rank(i)]
<1>1. n \in Nat
  BY FS_CardinalityType
<1>2. \A i \in kept : IsFiniteSet(upto(i)) /\ rank(i) \in Nat /\ rank(i) <= n
  <2> TAKE i \in kept
  <2>1. upto(i) \in SUBSET kept
    OBVIOUS
  <2>2. IsFiniteSet(upto(i)) /\ rank(i) <= n
    BY <2>1, FS_Subset
  <2> QED BY <2>2, FS_CardinalityType
<1>3. \A i \in kept : rank(i) \in 1..n
  <2> TAKE i \in kept
  <2>1. i \in upto(i)
    OBVIOUS
  <2>2. rank(i) # 0
    BY <1>2, <2>1, FS_EmptySet
  <2>3. rank(i) \in Nat /\ rank(i) <= n
    BY <1>2
  <2> HIDE DEF rank, n
  <2> QED BY <1>1, <2>2, <2>3
<1>4. \A i, j \in kept : i < j => rank(i) < rank(j)
  <2> SUFFICES ASSUME NEW i \in kept, NEW j \in kept, i < j
               PROVE  rank(i) < rank(j)
    OBVIOUS
  <2>1. upto(i) \in SUBSET upto(j) /\ j \in upto(j) /\ j \notin upto(i)
    <3>1. i \in Nat /\ j \in Nat
      OBVIOUS
    <3>2. \A m \in kept : m \in Nat /\ (m <= i => m <= j)
      BY <3>1
    <3>3. j <= j /\ ~(j <= i)
      BY <3>1
    <3>4. upto(i) \subseteq upto(j)
      BY <3>2
    <3>5. j \in upto(j) /\ j \notin upto(i)
      BY <3>3
    <3> QED BY <3>4, <3>5, Zenon
  <2>2. rank(i) <= rank(j) /\ rank(i) # rank(j)
    <3>1. upto(i) # upto(j)
      BY <2>1
    <3> HIDE DEF upto
    <3> QED BY <1>2, <2>1, <3>1, FS_Subset
  <2>3. rank(i) \in Nat /\ rank(j) \in Nat
    BY <1>2
  <2> HIDE DEF rank
  <2> QED BY <2>2, <2>3
<1>5. f \in Injection(kept, 1..n)
  <2> HIDE DEF rank, n
  <2>1. f \in [kept -> 1..n] /\ \A i \in kept : f[i] = rank(i)
    BY <1>3
  <2>2. \A i, j \in kept : f[i] = f[j] => i = j
    <3> SUFFICES ASSUME NEW i \in kept, NEW j \in kept, rank(i) = rank(j), i # j
                 PROVE  FALSE
      BY <2>1
    <3>1. i < j \/ j < i
      <4>1. i \in Nat /\ j \in Nat /\ i # j
        OBVIOUS
      <4> QED BY <4>1
    <3>2. rank(i) \in Nat /\ rank(j) \in Nat
      BY <1>2
    <3>3. rank(i) < rank(j) \/ rank(j) < rank(i)
      BY <1>4, <3>1
    <3> QED BY <3>2, <3>3
  <2> QED BY <2>1, <2>2 DEF Injection, IsInjective
<1>6. f \in Surjection(kept, 1..n)
  <2>1. IsFiniteSet(1..n) /\ Cardinality(1..n) = n
    BY <1>1, FS_Interval
  <2> HIDE DEF f
  <2> QED BY <1>5, <2>1, FS_Injection
<1>7. \A k \in 1..n : \E i \in kept : rank(i) = k
  BY <1>6 DEF Surjection
<1> QED BY <1>3, <1>4, <1>7

(* What is kept of a list, place by place. *)
LEMMA KeptPlaces ==
  ASSUME NEW T, NEW list \in Seq(T), NEW S
  PROVE  LET kept == {i \in DOMAIN list : list[i] \notin S}
         IN  /\ Without(list, S) \in Seq(T)
             /\ \E p \in [DOMAIN Without(list, S) -> kept] :
                  /\ \A k \in DOMAIN Without(list, S) : Without(list, S)[k] = list[p[k]]
                  /\ \A k, m \in DOMAIN Without(list, S) : k < m <=> p[k] < p[m]
                  /\ \A i \in kept : \E k \in DOMAIN Without(list, S) : p[k] = i
<1> DEFINE kept == {i \in DOMAIN list : list[i] \notin S}
           rank(i) == Cardinality({j \in kept : j <= i})
           place(k) == CHOOSE i \in kept : rank(i) = k
           n == Cardinality(kept)
           p == [k \in 1..n |-> place(k)]
<1>1. IsFiniteSet(kept) /\ kept \in SUBSET Nat /\ n \in Nat
  <2>1. DOMAIN list = 1..Len(list) /\ Len(list) \in Nat
    OBVIOUS
  <2>2. IsFiniteSet(1..Len(list))
    BY <2>1, FS_Interval
  <2>3. kept \in SUBSET (1..Len(list))
    BY <2>1
  <2>4. IsFiniteSet(kept)
    BY <2>2, <2>3, FS_Subset
  <2> QED BY <2>3, <2>4, FS_CardinalityType
<1>2. /\ \A i \in kept : rank(i) \in 1..n
      /\ \A i, j \in kept : i < j => rank(i) < rank(j)
      /\ \A k \in 1..n : \E i \in kept : rank(i) = k
  <2> HIDE DEF kept
  <2> QED BY <1>1, Ranks
<1>3. Without(list, S) = [k \in 1..n |-> list[place(k)]]
  BY Zenon DEF Without
<1>4. \A k \in 1..n : place(k) \in kept /\ rank(place(k)) = k
  <2> HIDE DEF kept, rank, n
  <2> QED BY <1>2
<1> HIDE DEF rank, place, n
<1>5. \A k \in 1..n : list[place(k)] \in T
  BY <1>4
<1> HIDE DEF kept
<1>6. Without(list, S) \in Seq(T) /\ DOMAIN Without(list, S) = 1..n
  <2>1. Without(list, S) \in [1..n -> T]
    BY <1>3, <1>5
  <2> QED BY <1>1, <2>1, IsASeq
<1>7. p \in [1..n -> kept] /\ \A k \in 1..n : p[k] = place(k)
  BY <1>4
<1> HIDE DEF p
<1>8. \A k \in 1..n : Without(list, S)[k] = list[p[k]]
  BY <1>3, <1>7
<1>9. ASSUME NEW k \in 1..n, NEW m \in 1..n PROVE k < m <=> p[k] < p[m]
  <2>1. rank(p[k]) = k /\ rank(p[m]) = m /\ p[k] \in kept /\ p[m] \in kept
    BY <1>4, <1>7
  <2>2. p[k] \in Nat /\ p[m] \in Nat /\ k \in Nat /\ m \in Nat
    <3>1. \A i \in kept : i \in Nat
      BY <1>1
    <3>2. \A i \in 1..n : i \in Nat
      BY <1>1
    <3> QED BY <2>1, <3>1, <3>2
  <2> DEFINE u == p[k]
             v == p[m]
  <2> HIDE DEF u, v
  <2>3. /\ u < v => rank(u) < rank(v)
        /\ v < u => rank(v) < rank(u)
        /\ v = u => rank(v) = rank(u)
    BY <1>2, <2>1 DEF u, v
  <2> QED BY <2>1, <2>2, <2>3 DEF u, v
<1>10. ASSUME NEW i \in kept PROVE \E k \in 1..n : p[k] = i
  <2>1. rank(i) \in 1..n /\ p[rank(i)] \in kept /\ rank(p[rank(i)]) = rank(i)
    BY <1>2, <1>4, <1>7
  <2>2. p[rank(i)] = i
    <3> DEFINE q == p[rank(i)]
    <3>1. q \in Nat /\ i \in Nat /\ rank(q) = rank(i) /\ q \in kept
      BY <1>1, <2>1
    <3> HIDE DEF q
    <3>2. ~ (q < i) /\ ~ (i < q)
      BY <1>2, <2>1, <3>1
    <3> QED BY <3>1, <3>2 DEF q
  <2> QED BY <2>1, <2>2
<1> QED
  <2>1. p \in [DOMAIN Without(list, S) -> kept]
    BY <1>6, <1>7
  <2>2. kept = {i \in DOMAIN list : list[i] \notin S}
    BY DEF kept
  <2>3. /\ \A k \in DOMAIN Without(list, S) : Without(list, S)[k] = list[p[k]]
        /\ \A k, m \in DOMAIN Without(list, S) : k < m <=> p[k] < p[m]
        /\ \A i \in kept : \E k \in DOMAIN Without(list, S) : p[k] = i
    BY <1>6, <1>8, <1>9, <1>10, Zenon
  <2> QED BY <1>6, <2>1, <2>2, <2>3, Zenon

(* The elements that are kept are those that are not taken out, each as    *)
(* often as before and in the same order.                                  *)
LEMMA WithoutKeeps ==
  ASSUME NEW T, NEW list \in Seq(T), NEW S
  PROVE  /\ Without(list, S) \in Seq(T)
         /\ Range(Without(list, S)) = Range(list) \ S
         /\ IsInjective(list) => IsInjective(Without(list, S))
         /\ \A s, t : Before(Without(list, S), s, t) <=> Before(list, s, t) /\ s \notin S /\ t \notin S
<1> DEFINE kept == {i \in DOMAIN list : list[i] \notin S}
           W == Without(list, S)
<1>1. W \in Seq(T)
  BY KeptPlaces
<1>2. PICK p \in [DOMAIN W -> kept] :
        /\ \A k \in DOMAIN W : W[k] = list[p[k]]
        /\ \A k, m \in DOMAIN W : k < m <=> p[k] < p[m]
        /\ \A i \in kept : \E k \in DOMAIN W : p[k] = i
  BY KeptPlaces
<1>3. /\ DOMAIN W \in SUBSET Nat /\ DOMAIN list \in SUBSET Nat
      /\ \A k \in DOMAIN W : p[k] \in DOMAIN list /\ list[p[k]] \notin S
  BY <1>1, <1>2
<1> HIDE DEF W
<1>4. Range(W) = Range(list) \ S
  <2>1. ASSUME NEW x \in Range(W) PROVE x \in Range(list) \ S
    BY <1>2, <1>3 DEF Range
  <2>2. ASSUME NEW x \in Range(list) \ S PROVE x \in Range(W)
    <3>1. PICK i \in DOMAIN list : list[i] = x
      BY DEF Range
    <3>2. i \in kept
      BY <3>1
    <3>3. PICK k \in DOMAIN W : p[k] = i
      BY <1>2, <3>2
    <3> QED BY <1>2, <3>1, <3>3 DEF Range
  <2> QED BY <2>1, <2>2
<1>5. ASSUME IsInjective(list) PROVE IsInjective(W)
  <2> SUFFICES ASSUME NEW k \in DOMAIN W, NEW m \in DOMAIN W, W[k] = W[m]
               PROVE  k = m
    BY DEF IsInjective
  <2>1. p[k] = p[m]
    BY <1>2, <1>3, <1>5 DEF IsInjective
  <2>2. p[k] \in Nat /\ p[m] \in Nat /\ k \in Nat /\ m \in Nat
    BY <1>3
  <2>3. ~(p[k] < p[m]) /\ ~(p[m] < p[k])
    BY <2>1, <2>2
  <2> QED BY <1>2, <2>2, <2>3
<1>6. ASSUME NEW s, NEW t, Before(W, s, t)
      PROVE  Before(list, s, t) /\ s \notin S /\ t \notin S
  <2>1. PICK k, m \in DOMAIN W : k < m /\ W[k] = s /\ W[m] = t
    BY <1>6 DEF Before
  <2> QED BY <1>2, <1>3, <2>1 DEF Before
<1>7. ASSUME NEW s, NEW t, Before(list, s, t), s \notin S, t \notin S
      PROVE  Before(W, s, t)
  <2>1. PICK i, j \in DOMAIN list : i < j /\ list[i] = s /\ list[j] = t
    BY <1>7 DEF Before
  <2>2. i \in kept /\ j \in kept
    BY <1>7, <2>1
  <2>3. PICK k, m \in DOMAIN W : p[k] = i /\ p[m] = j
    BY <1>2, <2>2
  <2> QED BY <1>2, <2>1, <2>3 DEF Before
<1> QED BY <1>1, <1>4, <1>5, <1>6, <1>7 DEF W

(* The order of a list without repetitions *)
LEMMA BeforeOrders ==
  ASSUME NEW T, NEW list \in Seq(T), IsInjective(list)
  PROVE  /\ \A s, t : Before(list, s, t) => s \in Range(list) /\ t \in Range(list) /\ s # t
         /\ \A s, t : Before(list, s, t) => ~Before(list, t, s)
         /\ \A s, t, u : Before(list, s, t) /\ Before(list, t, u) => Before(list, s, u)
         /\ \A s, t \in Range(list) : s = t \/ Before(list, s, t) \/ Before(list, t, s)
<1>1. DOMAIN list \in SUBSET Nat
  OBVIOUS
<1>2. ASSUME NEW s, NEW t, Before(list, s, t)
      PROVE  s \in Range(list) /\ t \in Range(list) /\ s # t /\ ~Before(list, t, s)
  <2>1. PICK i, j \in DOMAIN list : i < j /\ list[i] = s /\ list[j] = t
    BY <1>2 DEF Before
  <2>2. s \in Range(list) /\ t \in Range(list)
    BY <2>1 DEF Range
  <2>3. s # t
    BY <1>1, <2>1 DEF IsInjective
  <2>4. ASSUME Before(list, t, s) PROVE FALSE
    <3>1. PICK k, m \in DOMAIN list : k < m /\ list[k] = t /\ list[m] = s
      BY <2>4 DEF Before
    <3>2. k = j /\ m = i
      BY <2>1, <3>1 DEF IsInjective
    <3> QED BY <1>1, <2>1, <3>1, <3>2
  <2> QED BY <2>2, <2>3, <2>4
<1>3. ASSUME NEW s, NEW t, NEW u, Before(list, s, t), Before(list, t, u)
      PROVE  Before(list, s, u)
  <2>1. PICK i, j \in DOMAIN list : i < j /\ list[i] = s /\ list[j] = t
    BY <1>3 DEF Before
  <2>2. PICK k, m \in DOMAIN list : k < m /\ list[k] = t /\ list[m] = u
    BY <1>3 DEF Before
  <2>3. j = k
    BY <2>1, <2>2 DEF IsInjective
  <2>4. i < m
    BY <1>1, <2>1, <2>2, <2>3
  <2> QED BY <2>1, <2>2, <2>4 DEF Before
<1>4. ASSUME NEW s \in Range(list), NEW t \in Range(list), s # t
      PROVE  Before(list, s, t) \/ Before(list, t, s)
  <2>1. PICK i, j \in DOMAIN list : list[i] = s /\ list[j] = t
    BY DEF Range
  <2>2. i < j \/ j < i
    <3>1. i \in Nat /\ j \in Nat /\ i # j
      BY <1>1, <1>4, <2>1
    <3> QED BY <3>1
  <2> QED BY <2>1, <2>2 DEF Before
<1> QED BY <1>2, <1>3, <1>4

(* Nothing comes before the first element. *)
LEMMA FirstOfList ==
  ASSUME NEW T, NEW list \in Seq(T)
  PROVE  /\ list = <<>> <=> Range(list) = {}
         /\ list = <<>> => First(list) = End
         /\ list # <<>> => /\ First(list) \in Range(list)
                           /\ \A t \in Range(list) : t = First(list) \/ Before(list, First(list), t)
<1>1. CASE list = <<>>
  BY <1>1 DEF First, Range
<1>2. CASE list # <<>>
  <2>1. /\ First(list) = list[1] /\ 1 \in DOMAIN list
        /\ \A i \in DOMAIN list : i = 1 \/ 1 < i
    BY <1>2 DEF First
  <2>2. ASSUME NEW t \in Range(list) PROVE t = First(list) \/ Before(list, First(list), t)
    <3>1. PICK i \in DOMAIN list : list[i] = t
      BY DEF Range
    <3> QED BY <2>1, <3>1 DEF Before
  <2> QED BY <1>2, <2>1, <2>2 DEF Range
<1> QED BY <1>1, <1>2

(* An iterator that moves on leaves out no element: what comes before the  *)
(* new one comes before the old one or is it.                              *)
LEMMA AfterInList ==
  ASSUME NEW T, NEW list \in Seq(T), IsInjective(list), NEW s \in Range(list)
  PROVE  \/ /\ After(list, s) = End
            /\ \A t \in Range(list) : t = s \/ Before(list, t, s)
         \/ /\ After(list, s) \in Range(list) /\ After(list, s) # s
            /\ \A t \in Range(list) : Before(list, t, After(list, s)) <=> t = s \/ Before(list, t, s)
<1> DEFINE n == CHOOSE i \in DOMAIN list : list[i] = s
<1>1. n \in DOMAIN list /\ list[n] = s
  BY DEF Range
<1>2. After(list, s) = IF n = Len(list) THEN End ELSE list[n + 1]
  BY Zenon DEF After
<1> HIDE DEF n
<1>3. n \in Nat /\ DOMAIN list = 1..Len(list) /\ Len(list) \in Nat /\ n \in 1..Len(list)
  BY <1>1
<1>4. ASSUME NEW t \in Range(list)
      PROVE  \E j \in 1..Len(list) : list[j] = t /\ (Before(list, t, s) <=> j < n) /\ (t = s <=> j = n)
  <2>1. PICK j \in 1..Len(list) : list[j] = t
    BY <1>3 DEF Range
  <2>2. t = s <=> j = n
    BY <1>1, <1>3, <2>1 DEF IsInjective
  <2>3. Before(list, t, s) <=> j < n
    BY <1>1, <1>3, <2>1 DEF IsInjective, Before
  <2> QED BY <2>1, <2>2, <2>3
<1>. /\ \A k, l \in Nat : k \in 1..l /\ k # l => k + 1 \in 1..l
     /\ \A k, l \in Nat : k \in 1..l => k < l \/ k = l
  OBVIOUS
<1>5. CASE n = Len(list)
  <2>1. After(list, s) = End
    BY <1>2, <1>5
  <2>2. ASSUME NEW t \in Range(list) PROVE t = s \/ Before(list, t, s)
    <3>1. PICK j \in 1..Len(list) :
            list[j] = t /\ (Before(list, t, s) <=> j < n) /\ (t = s <=> j = n)
      BY <1>4
    <3>2. j < n \/ j = n
      <4>1. j \in Nat
        BY <3>1
      <4> QED BY <1>3, <1>5, <3>1, <4>1
    <3> QED BY <3>1, <3>2
  <2> QED BY <2>1, <2>2
<1>6. CASE n # Len(list)
  <2> DEFINE a == list[n + 1]
  <2>1. After(list, s) = a /\ n + 1 \in 1..Len(list)
    <3>1. n + 1 \in 1..Len(list)
      BY <1>3, <1>6
    <3> QED BY <1>2, <1>6, <3>1
  <2>2. a \in Range(list) /\ a # s
    BY <1>1, <1>3, <2>1 DEF Range, IsInjective
  <2>3. ASSUME NEW t \in Range(list)
        PROVE  Before(list, t, a) <=> t = s \/ Before(list, t, s)
    <3>1. PICK j \in 1..Len(list) :
            list[j] = t /\ (Before(list, t, s) <=> j < n) /\ (t = s <=> j = n)
      BY <1>4
    <3>2. Before(list, t, a) <=> j < n + 1
      BY <1>3, <2>1, <3>1 DEF IsInjective, Before
    <3>3. j < n + 1 <=> j < n \/ j = n
      BY <1>3
    <3> QED BY <3>1, <3>2, <3>3
  <2> HIDE DEF a
  <2> QED BY <2>1, <2>2, <2>3
<1> QED BY <1>5, <1>6

\* A list with a new element in front
InFront(x, list) == <<x>> \o list

LEMMA InFrontOfList ==
  ASSUME NEW T, NEW list \in Seq(T), NEW x \in T \ Range(list), NEW longer,
         longer = InFront(x, list)
  PROVE  /\ longer \in Seq(T) /\ longer # <<>>
         /\ Range(longer) = Range(list) \cup {x}
         /\ IsInjective(list) => IsInjective(longer)
         /\ \A s, t : Before(longer, s, t) <=> Before(list, s, t) \/ (s = x /\ t \in Range(list))
<1>1. /\ longer \in Seq(T) /\ longer # <<>>
      /\ Len(longer) = Len(list) + 1 /\ longer[1] = x /\ Len(list) \in Nat
      /\ \A i \in 2..Len(longer) : longer[i] = list[i - 1]
  BY DEF InFront
<1>2. /\ DOMAIN list = 1..Len(list) /\ DOMAIN longer = 1..Len(longer)
      /\ \A i \in DOMAIN list : i + 1 \in 2..Len(longer) /\ longer[i + 1] = list[i]
  BY <1>1
<1>3. \A i \in DOMAIN longer : i = 1 \/ (i - 1 \in DOMAIN list /\ longer[i] = list[i - 1])
  BY <1>1, <1>2
<1>4. Range(longer) = Range(list) \cup {x}
  <2>1. ASSUME NEW y \in Range(longer) PROVE y \in Range(list) \cup {x}
    BY <1>1, <1>3 DEF Range
  <2>2. ASSUME NEW y \in Range(list) PROVE y \in Range(longer)
    <3>1. PICK i \in DOMAIN list : list[i] = y
      BY DEF Range
    <3>2. i + 1 \in DOMAIN longer /\ longer[i + 1] = y
      BY <1>1, <1>2, <3>1
    <3> QED BY <3>2 DEF Range
  <2>3. x \in Range(longer)
    BY <1>1, <1>2 DEF Range
  <2> QED BY <2>1, <2>2, <2>3
<1>5. \A i \in DOMAIN list : list[i] # x
  BY DEF Range
<1>6. ASSUME IsInjective(list) PROVE IsInjective(longer)
  <2> SUFFICES ASSUME NEW i \in DOMAIN longer, NEW j \in DOMAIN longer, longer[i] = longer[j]
               PROVE  i = j
    BY DEF IsInjective
  <2>1. CASE i = 1 \/ j = 1
    BY <1>1, <1>3, <1>5, <2>1
  <2>2. CASE i # 1 /\ j # 1
    <3>1. i - 1 = j - 1
      BY <1>3, <1>6, <2>2 DEF IsInjective
    <3> QED BY <1>2, <3>1
  <2> QED BY <2>1, <2>2
<1>7. ASSUME NEW s, NEW t, Before(longer, s, t)
      PROVE  Before(list, s, t) \/ (s = x /\ t \in Range(list))
  <2>1. PICK i, j \in DOMAIN longer : i < j /\ longer[i] = s /\ longer[j] = t
    BY <1>7 DEF Before
  <2>2. j - 1 \in DOMAIN list /\ list[j - 1] = t
    BY <1>2, <1>3, <2>1
  <2>3. CASE i = 1
    BY <1>1, <2>1, <2>2, <2>3 DEF Range
  <2>4. CASE i # 1
    <3>1. i - 1 \in DOMAIN list /\ list[i - 1] = s /\ i - 1 < j - 1
      BY <1>2, <1>3, <2>1, <2>4
    <3> QED BY <2>2, <3>1 DEF Before
  <2> QED BY <2>3, <2>4
<1>8. ASSUME NEW s, NEW t, Before(list, s, t)
      PROVE  Before(longer, s, t)
  <2>1. PICK i, j \in DOMAIN list : i < j /\ list[i] = s /\ list[j] = t
    BY <1>8 DEF Before
  <2>2. /\ i + 1 \in DOMAIN longer /\ j + 1 \in DOMAIN longer /\ i + 1 < j + 1
        /\ longer[i + 1] = s /\ longer[j + 1] = t
    BY <1>1, <1>2, <2>1
  <2> QED BY <2>2 DEF Before
<1>9. ASSUME NEW t \in Range(list) PROVE Before(longer, x, t)
  <2>1. PICK j \in DOMAIN list : list[j] = t
    BY DEF Range
  <2>2. 1 \in DOMAIN longer /\ j + 1 \in DOMAIN longer /\ 1 < j + 1 /\ longer[j + 1] = t
    BY <1>1, <1>2, <2>1
  <2> QED BY <1>1, <2>2 DEF Before
<1> QED BY <1>1, <1>4, <1>6, <1>7, <1>8, <1>9

-----------------------------------------------------------------------------
(* Types *)

\* The reserve territory has no reference but that of the project.
ListsInv ==
  /\ alladdons \in Seq(AddOn) /\ allterrs \in Seq(Territory)
  /\ IsInjective(alladdons) /\ IsInjective(allterrs)
  /\ handled \subseteq Range(allterrs)
  /\ dropped \cup notified \subseteq Range(alladdons) \cup Range(allterrs)
  /\ IF alladdons = <<>> THEN reserveterr = None ELSE reserveterr \in Range(allterrs) \cap dropped

\* A loop runs the handlers of what it goes over; the one over all territories
\* that of the territory it is at, since it moves on only afterwards.
RunsItsOwn(call) ==
  /\ call.running \in (IF call.phase = "addons" THEN AddOn ELSE Territory) \cup {None}
  /\ call.phase = "territories" /\ call.event # "object" /\ call.running # None =>
       call.running = call.next

CallsInv ==
  /\ calls \in Seq(Call) /\ Len(calls) <= MaxDepth
  /\ \A i \in DOMAIN calls : RunsItsOwn(calls[i])

\* The end comes last.
AgendaInv ==
  /\ agenda \in Seq(Events \cup {"end"})
  /\ \A i \in DOMAIN agenda : agenda[i] = "end" => i = Len(agenda)

OthersInv ==
  /\ holders \subseteq Territory /\ {baseterr, activeterr} \subseteq Territory \cup {None}
  /\ AgendaInv

TypeInv == ListsInv /\ CallsInv /\ OthersInv

LEMMA EraseLists ==
  ASSUME ListsInv, NEW G, NEW orphans, NEW told, Erase(G, orphans, told),
         dropped \subseteq orphans, orphans \subseteq Range(alladdons) \cup Range(allterrs),
         Without(alladdons, G) = <<>> \/ reserveterr \notin G
  PROVE  ListsInv'
<1> DEFINE A == Without(alladdons, G)
           R == Without(allterrs, G)
<1>1. /\ A \in Seq(AddOn) /\ Range(A) = Range(alladdons) \ G /\ IsInjective(A)
      /\ R \in Seq(Territory) /\ Range(R) = Range(allterrs) \ G /\ IsInjective(R)
  BY WithoutKeeps DEF ListsInv
<1>2. A = <<>> <=> Range(A) = {}
  <2> HIDE DEF A
  <2> QED BY <1>1, FirstOfList
<1>3. alladdons = <<>> <=> Range(alladdons) = {}
  BY FirstOfList DEF ListsInv
<1>4. /\ alladdons' = A /\ allterrs' = R /\ handled' = handled \ G /\ dropped' = orphans \ G
      /\ notified' = told \cap (Range(A) \cup Range(R))
      /\ reserveterr' = IF A = <<>> THEN None ELSE reserveterr
  BY DEF Erase, Reserve
<1>5. A = <<>> \/ reserveterr \notin G
  OBVIOUS
<1> HIDE DEF A, R
<1>6. A # <<>> => reserveterr \in Range(R) \cap (orphans \ G)
  BY <1>1, <1>2, <1>3, <1>5 DEF ListsInv
<1>7. handled \ G \subseteq Range(R) /\ orphans \ G \subseteq Range(A) \cup Range(R)
  BY <1>1 DEF ListsInv
<1> QED BY <1>1, <1>4, <1>6, <1>7 DEF ListsInv

(* The reserve territory is not destroyed while there are add-ons. *)
LEMMA GoneSparesReserve ==
  ASSUME ListsInv, NEW S, S \cap dropped = {}, NEW orphans, NEW active, NEW interfaces,
         NEW called, NEW G, G = Gone(S, orphans, active, interfaces, called)
  PROVE  Without(alladdons, G) = <<>> \/ reserveterr \notin G
<1> DEFINE D == S \cup {a \in orphans \cap AddOn : ~Held(a, None, active, interfaces, called)}
           E == {t \in orphans \ AddOn : ~Held(t, Reserve(D), active, interfaces, called)}
<1>1. G = D \cup E
  BY DEF Gone
<1>2. E \cap AddOn = {}
  OBVIOUS
<1>3. reserveterr \notin AddOn
  BY SinksAssumption DEF ListsInv, Range
<1>4. CASE alladdons = <<>>
  <2>1. /\ Range(alladdons) = {} /\ alladdons \in Seq(AddOn)
    BY <1>4, FirstOfList DEF ListsInv
  <2>2. Range(Without(alladdons, G)) = {} /\ Without(alladdons, G) \in Seq(AddOn)
    BY <2>1, WithoutKeeps
  <2> QED BY <2>2, FirstOfList
<1>5. CASE alladdons # <<>>
  <2>1. reserveterr \notin D
    BY <1>3, <1>5 DEF ListsInv
  <2>2. ASSUME reserveterr \in E PROVE Without(alladdons, G) = <<>>
    <3>1. Reserve(D) # reserveterr
      BY <2>2 DEF Held
    <3>2. Without(alladdons, D) = <<>>
      BY <3>1 DEF Reserve
    <3>3. alladdons \in Seq(AddOn) /\ Range(alladdons) \subseteq AddOn
      BY DEF ListsInv, Range
    <3>4. Range(alladdons) \ D = {}
      <4>1. Range(Without(alladdons, D)) = Range(alladdons) \ D
        BY <3>3, WithoutKeeps
      <4>2. Range(Without(alladdons, D)) = {}
        BY <3>2 DEF Range
      <4> QED BY <4>1, <4>2
    <3>5. Range(alladdons) \ G = {}
      BY <1>1, <3>4
    <3>6. Range(Without(alladdons, G)) = {} /\ Without(alladdons, G) \in Seq(AddOn)
      BY <3>3, <3>5, WithoutKeeps
    <3> QED BY <3>6, FirstOfList
  <2> QED BY <1>1, <2>1, <2>2
<1> QED BY <1>4, <1>5

(* Destroying and releasing sinks *)
LEMMA ReleaseLists ==
  ASSUME ListsInv, NEW S, S \cap dropped = {}, NEW orphans, NEW active, NEW interfaces,
         NEW called, NEW told,
         Erase(Gone(S, orphans, active, interfaces, called), orphans, told),
         dropped \subseteq orphans, orphans \subseteq Range(alladdons) \cup Range(allterrs)
  PROVE  ListsInv'
<1> DEFINE G == Gone(S, orphans, active, interfaces, called)
<1>1. Without(alladdons, G) = <<>> \/ reserveterr \notin G
  BY GoneSparesReserve, Zenon
<1> QED BY <1>1, EraseLists, Zenon

(* The most frequent case: only what has no reference any more is destroyed *)
LEMMA SweepLists ==
  ASSUME ListsInv, NEW active, NEW interfaces, NEW called, NEW told,
         Erase(Gone({}, dropped, active, interfaces, called), dropped, told)
  PROVE  ListsInv'
<1>1. {} \cap dropped = {} /\ dropped \subseteq Range(alladdons) \cup Range(allterrs)
  BY DEF ListsInv
<1> QED BY <1>1, ReleaseLists

LEMMA InCallOK ==
  ASSUME CallsInv, calls # <<>>, NEW c \in Call, RunsItsOwn(c), calls' = InCall(c)
  PROVE  CallsInv' /\ calls' # <<>> /\ Frame' = c /\ Len(calls') = Len(calls)
<1>1. /\ calls' \in Seq(Call) /\ Len(calls') = Len(calls) /\ calls'[1] = c /\ calls' # <<>>
      /\ \A i \in DOMAIN calls' : i # 1 => i \in DOMAIN calls /\ calls'[i] = calls[i]
  BY DEF CallsInv, InCall
<1>2. Frame' = c
  BY <1>1 DEF Frame
<1>3. \A i \in DOMAIN calls' : RunsItsOwn(calls'[i])
  BY <1>1 DEF CallsInv
<1> QED BY <1>1, <1>2, <1>3 DEF CallsInv

LEMMA FrameIsCall ==
  ASSUME CallsInv, calls # <<>>
  PROVE  Frame \in Call /\ RunsItsOwn(Frame) /\ Running = Frame.running
BY DEF CallsInv, Frame, Running

LEMMA StepCases ==
  ASSUME [Next]_vars
  PROVE  \/ UNCHANGED vars
         \/ \E t \in Territory : \/ \E handler \in BOOLEAN : CreateTerritory(t, handler)
                                 \/ \E a \in AddOn : CreateAddOn(a, t)
                                 \/ OpenObject(t) \/ CloseObject(t)
                                 \/ BeginTransaction(t) \/ AbortTransaction(t)
         \/ \E s \in Sink : Destroy(s) \/ Drop(s)
         \/ \E changed, write \in BOOLEAN : CommitTransaction(changed, write)
         \/ Announce \/ PutProperty \/ EndTransaction
         \/ CallAddOn \/ AddOnReturns \/ AddOnFails \/ AddOnsDone
         \/ CallTerritory \/ TerritoryReturns \/ CallHolder \/ HolderReturns \/ Notified
BY Zenon DEF Next

(* A sink that comes is none that is there. *)
LEMMA FreeIsNew ==
  ASSUME NEW s, Free(s)
  PROVE  s \notin Range(alladdons) \cup Range(allterrs) /\ s # reserveterr
BY DEF Free

LEMMA CreatedLists ==
  ASSUME ListsInv, NEW t \in Territory, NEW handler \in BOOLEAN, CreateTerritory(t, handler)
  PROVE  ListsInv'
<1>1. t \in Territory \ Range(allterrs)
  BY FreeIsNew DEF CreateTerritory
<1>2. /\ allterrs' \in Seq(Territory) /\ IsInjective(allterrs')
      /\ Range(allterrs') = Range(allterrs) \cup {t}
  BY <1>1, InFrontOfList DEF CreateTerritory, ListsInv, InFront
<1> QED BY <1>2 DEF CreateTerritory, ListsInv

LEMMA CreatedAddOn ==
  ASSUME ListsInv, NEW a \in AddOn, NEW t \in Territory, CreateAddOn(a, t)
  PROVE  ListsInv'
<1>1. a \in AddOn \ Range(alladdons)
  BY FreeIsNew DEF CreateAddOn
<1>2. /\ alladdons' \in Seq(AddOn) /\ IsInjective(alladdons') /\ alladdons' # <<>>
      /\ Range(alladdons') = Range(alladdons) \cup {a}
  <2>1. alladdons' = InFront(a, alladdons) /\ alladdons \in Seq(AddOn) /\ IsInjective(alladdons)
    BY DEF CreateAddOn, ListsInv, InFront
  <2> QED BY <1>1, <2>1, InFrontOfList, ZenonT(30)
<1>3. UNCHANGED <<handled, notified>>
  BY DEF CreateAddOn
<1>4. CASE reserveterr = t /\ UNCHANGED <<allterrs, dropped, reserveterr>>
  <2>1. alladdons # <<>>
    BY <1>4, SinksAssumption DEF ListsInv
  <2> QED BY <1>2, <1>3, <1>4, <2>1 DEF ListsInv
<1>5. CASE /\ reserveterr = None /\ Free(t)
           /\ allterrs' = <<t>> \o allterrs
           /\ dropped' = dropped \cup {t} /\ reserveterr' = t
  <2>1. t \in Territory \ Range(allterrs)
    BY <1>5, FreeIsNew
  <2>2. /\ allterrs' \in Seq(Territory) /\ IsInjective(allterrs')
        /\ Range(allterrs') = Range(allterrs) \cup {t}
    BY <1>5, <2>1, InFrontOfList DEF ListsInv, InFront
  <2> QED BY <1>2, <1>3, <1>5, <2>2 DEF ListsInv
<1> QED BY <1>4, <1>5 DEF CreateAddOn

LEMMA AbortedLists ==
  ASSUME ListsInv, NEW t \in Territory, AbortTransaction(t)
  PROVE  ListsInv'
<1> DEFINE G == {s \in dropped : s \notin holders \cup {reserveterr}}
           R == Without(allterrs, G)
<1>1. /\ R \in Seq(Territory) /\ IsInjective(R) /\ Range(R) = Range(allterrs) \ G
  BY WithoutKeeps DEF ListsInv
<1>2. /\ allterrs' = <<t>> \o R /\ handled' = handled \ G /\ notified' = notified \ G
      /\ dropped' = (dropped \ G) \cup {t} /\ UNCHANGED <<alladdons, reserveterr>>
  BY DEF AbortTransaction
<1> HIDE DEF R
<1>3. t \in Territory \ Range(R)
  BY <1>1, FreeIsNew DEF AbortTransaction
<1>4. /\ allterrs' \in Seq(Territory) /\ IsInjective(allterrs')
      /\ Range(allterrs') = Range(R) \cup {t}
  <2>1. allterrs' = InFront(t, R)
    BY <1>2 DEF InFront
  <2> HIDE DEF G
  <2> QED BY <1>1, <1>3, <2>1, InFrontOfList
<1>5. reserveterr \notin G
  OBVIOUS
<1> QED BY <1>1, <1>2, <1>4, <1>5 DEF ListsInv

LEMMA ListsStep ==
  ASSUME ListsInv, [Next]_vars
  PROVE  ListsInv'
<1>1. CASE UNCHANGED lists /\ UNCHANGED notified
  BY <1>1 DEF lists, ListsInv
<1>2. ASSUME NEW t \in Territory,
             \/ \E handler \in BOOLEAN : CreateTerritory(t, handler)
             \/ \E a \in AddOn : CreateAddOn(a, t)
             \/ OpenObject(t) \/ CloseObject(t)
             \/ BeginTransaction(t) \/ AbortTransaction(t)
      PROVE  ListsInv'
  <2>1. CASE OpenObject(t) \/ BeginTransaction(t)
    BY <1>1, <2>1 DEF OpenObject, BeginTransaction
  <2>2. CASE CloseObject(t)
    BY <2>2, SweepLists DEF CloseObject
  <2> QED BY <1>2, <2>1, <2>2, CreatedLists, CreatedAddOn, AbortedLists
<1>3. ASSUME NEW s \in Sink, Destroy(s)
      PROVE  ListsInv'
  <2>1. {s} \cap dropped = {} /\ dropped \subseteq Range(alladdons) \cup Range(allterrs)
    BY <1>3 DEF Destroy, ListsInv
  <2> QED BY <1>3, <2>1, ReleaseLists DEF Destroy
<1>4. ASSUME NEW s \in Sink, Drop(s)
      PROVE  ListsInv'
  <2> DEFINE orphans == dropped \cup {s}
  <2>1. /\ {} \cap dropped = {} /\ dropped \subseteq orphans
        /\ orphans \subseteq Range(alladdons) \cup Range(allterrs)
    BY <1>4 DEF Drop, ListsInv
  <2>2. Erase(Gone({}, orphans, activeterr, holders, calls), orphans, notified)
    BY <1>4 DEF Drop
  <2> HIDE DEF orphans
  <2> QED BY <2>1, <2>2, ReleaseLists
<1>5. ASSUME NEW event, Notify(event)
      PROVE  ListsInv'
  BY <1>5, SweepLists DEF Notify
<1>6. CASE EndTransaction
  <2> DEFINE G == {s \in dropped : s \notin holders \cup {reserveterr}}
  <2>1. /\ Erase(G, dropped, notified) /\ reserveterr \notin G
        /\ dropped \subseteq Range(alladdons) \cup Range(allterrs)
    BY <1>6 DEF EndTransaction, ListsInv
  <2> HIDE DEF G
  <2> QED BY <2>1, EraseLists
<1>7. CASE \/ Notified \/ CallAddOn
           \/ \E changed, write \in BOOLEAN : CommitTransaction(changed, write)
  BY <1>1, <1>7 DEF Notified, CallAddOn, CommitTransaction
<1>8. CASE AddOnReturns
  BY <1>8, SweepLists DEF AddOnReturns
<1>9. CASE AddOnFails
  BY <1>9, SweepLists DEF AddOnFails
<1>10. CASE AddOnsDone
  BY <1>10, SweepLists DEF AddOnsDone
<1>11. CASE CallTerritory
  BY <1>11, SweepLists DEF CallTerritory
<1>12. CASE TerritoryReturns
  BY <1>12, SweepLists DEF TerritoryReturns
<1>13. CASE CallHolder
  BY <1>13, SweepLists DEF CallHolder
<1>14. CASE HolderReturns
  BY <1>14, SweepLists DEF HolderReturns
<1>15. CASE Announce \/ PutProperty
  BY <1>5, <1>15 DEF Announce, PutProperty
<1>16. CASE UNCHANGED vars
  BY <1>1, <1>16 DEF vars
<1> QED
  BY <1>2, <1>3, <1>4, <1>6, <1>7, <1>8, <1>9, <1>10, <1>11, <1>12, <1>13, <1>14, <1>15, <1>16,
     StepCases

LEMMA RangesAreSinks ==
  ASSUME ListsInv
  PROVE  /\ Range(alladdons) \subseteq AddOn /\ Range(allterrs) \subseteq Territory
         /\ reserveterr \in Territory \cup {None}
BY DEF ListsInv, Range

LEMMA FirstIsSink ==
  ASSUME NEW T \in SUBSET Sink, NEW list \in Seq(T)
  PROVE  First(list) \in Sink \cup {End}
BY FirstOfList DEF Range

LEMMA AfterIsSink ==
  ASSUME NEW T \in SUBSET Sink, NEW list \in Seq(T), IsInjective(list), NEW s \in Range(list)
  PROVE  After(list, s) \in Sink \cup {End}
BY AfterInList DEF Range

(* What moving the iterator makes of a frame *)
LEMMA PassedFrame ==
  ASSUME CallsInv, calls # <<>>, NEW T \in SUBSET Sink, NEW list \in Seq(T), IsInjective(list),
         Frame.next \in Range(list), NEW call, call = Passed(list)
  PROVE  /\ call \in Call
         /\ call.event = Frame.event /\ call.phase = Frame.phase /\ call.running = Frame.running
         /\ call.start = Frame.start /\ call.reached = Frame.reached \cup {Frame.next}
         /\ call.next = After(list, Frame.next)
<1>1. Frame \in Call
  BY FrameIsCall
<1>2. After(list, Frame.next) \in Sink \cup {End} /\ Frame.next \in Sink
  BY AfterIsSink DEF Range
<1> QED BY <1>1, <1>2 DEF Passed, Call

LEMMA CallsUnchanged ==
  ASSUME CallsInv, UNCHANGED calls
  PROVE  CallsInv'
BY DEF CallsInv

LEMMA NotifyCalls ==
  ASSUME ListsInv, CallsInv, NEW event \in Events, Notify(event), Len(calls) < MaxDepth
  PROVE  CallsInv'
<1> DEFINE c == [event |-> event, phase |-> "addons", next |-> First(alladdons),
                 running |-> None, terr |-> IF alladdons = <<>> THEN None ELSE reserveterr,
                 start |-> Range(alladdons), reached |-> {}]
<1>1. calls' = <<c>> \o calls
  BY DEF Notify
<1>2. First(alladdons) \in Sink \cup {End}
  BY FirstIsSink DEF ListsInv, Sink
<1>3. c \in Call
  BY <1>2, RangesAreSinks DEF Call, ListsInv, Sink
<1>4. RunsItsOwn(c)
  BY DEF RunsItsOwn
<1> HIDE DEF c
<1>5. /\ calls' \in Seq(Call) /\ Len(calls') = Len(calls) + 1 /\ calls'[1] = c
      /\ \A i \in DOMAIN calls' : i # 1 => i - 1 \in DOMAIN calls /\ calls'[i] = calls[i - 1]
  BY <1>1, <1>3 DEF CallsInv
<1>6. Len(calls') <= MaxDepth
  BY <1>5, BoundsAssumption DEF CallsInv
<1> QED BY <1>4, <1>5, <1>6 DEF CallsInv

LEMMA NoCalls ==
  ASSUME calls' = <<>>
  PROVE  CallsInv'
BY BoundsAssumption DEF CallsInv

LEMMA CallAddOnCalls ==
  ASSUME ListsInv, CallsInv, CallAddOn
  PROVE  CallsInv'
<1> DEFINE call == Passed(alladdons)
           c == IF Frame.event = "ready" /\ Frame.next \notin notified THEN call
                ELSE [call EXCEPT !.running = Frame.next]
<1>1. /\ calls # <<>> /\ Frame.phase = "addons" /\ Frame.running = None
      /\ Frame.next \in Range(alladdons) /\ calls' = InCall(c)
  BY DEF CallAddOn, Called, InLoop, Walked
<1>2. /\ call \in Call /\ call.event = Frame.event /\ call.phase = "addons" /\ call.running = None
  BY <1>1, PassedFrame DEF ListsInv, Sink
<1>3. Frame.next \in AddOn
  BY <1>1, RangesAreSinks
<1> HIDE DEF call
<1>4. c \in Call /\ RunsItsOwn(c)
  BY <1>2, <1>3 DEF Call, RunsItsOwn, Sink
<1> HIDE DEF c
<1> QED BY <1>1, <1>4, InCallOK

LEMMA ReturnCalls ==
  ASSUME CallsInv, calls # <<>>, calls' = InCall([Frame EXCEPT !.running = None])
  PROVE  CallsInv'
<1> DEFINE c == [Frame EXCEPT !.running = None]
<1>1. c \in Call /\ RunsItsOwn(c)
  BY FrameIsCall DEF Call, RunsItsOwn
<1> HIDE DEF c
<1>2. calls' = InCall(c)
  BY DEF c
<1> QED BY <1>1, <1>2, InCallOK

LEMMA AddOnsDoneCalls ==
  ASSUME ListsInv, CallsInv, OthersInv, AddOnsDone
  PROVE  CallsInv'
<1> DEFINE G == Gone({}, dropped, activeterr', holders, calls)
           terrs == Without(allterrs, G)
           object == Frame.event = "object"
           moved(n) == [Frame EXCEPT !.phase = "territories", !.next = n, !.terr = None,
                                     !.start = IF object THEN holders ELSE Range(terrs),
                                     !.reached = {}]
<1>1. calls # <<>> /\ Frame.running = None
  BY DEF AddOnsDone
<1>2. PICK n \in IF object THEN NextHolder(holders) ELSE {First(terrs)} : calls' = InCall(moved(n))
  BY DEF AddOnsDone
<1>3. terrs \in Seq(Territory) /\ Range(terrs) \subseteq Territory
  <2>1. terrs \in Seq(Territory)
    BY WithoutKeeps DEF ListsInv
  <2> HIDE DEF terrs
  <2> QED BY <2>1 DEF Range
<1> HIDE DEF terrs
<1>4. n \in Sink \cup {End}
  <2>1. CASE object
    BY <1>2, <2>1 DEF NextHolder, OthersInv, Sink
  <2>2. CASE ~object
    BY <1>2, <1>3, <2>2, FirstIsSink DEF Sink
  <2> QED BY <2>1, <2>2
<1>5. moved(n) \in Call /\ RunsItsOwn(moved(n))
  BY <1>1, <1>3, <1>4, FrameIsCall DEF Call, RunsItsOwn, Sink, OthersInv
<1> HIDE DEF moved
<1> QED BY <1>1, <1>2, <1>5, InCallOK

LEMMA CallTerritoryCalls ==
  ASSUME ListsInv, CallsInv, CallTerritory
  PROVE  CallsInv'
<1>1. /\ calls # <<>> /\ Frame.phase = "territories" /\ Frame.running = None
      /\ Frame.next \in Range(allterrs)
  BY DEF CallTerritory, InLoop, Walked
<1>2. Frame.next \in Territory
  BY <1>1, RangesAreSinks
<1>3. CASE calls' = InCall(Passed(allterrs))
  <2> DEFINE c == Passed(allterrs)
  <2>1. c \in Call /\ c.running = None
    BY <1>1, PassedFrame DEF ListsInv, Sink
  <2> HIDE DEF c
  <2>2. RunsItsOwn(c)
    BY <2>1 DEF RunsItsOwn
  <2>3. calls' = InCall(c)
    BY <1>3 DEF c
  <2> QED BY <1>1, <2>1, <2>2, <2>3, InCallOK
<1>4. CASE calls' = InCall([Frame EXCEPT !.running = Frame.next, !.terr = Frame.next])
  <2> DEFINE c == [Frame EXCEPT !.running = Frame.next, !.terr = Frame.next]
  <2>1. c \in Call /\ RunsItsOwn(c)
    BY <1>1, <1>2, FrameIsCall DEF Call, RunsItsOwn, Sink
  <2> HIDE DEF c
  <2>2. calls' = InCall(c)
    BY <1>4 DEF c
  <2> QED BY <1>1, <2>1, <2>2, InCallOK
<1> QED BY <1>3, <1>4 DEF CallTerritory

LEMMA TerritoryReturnsCalls ==
  ASSUME ListsInv, CallsInv, TerritoryReturns
  PROVE  CallsInv'
<1> DEFINE left == [Frame EXCEPT !.running = None, !.terr = None]
           G == Gone({}, dropped, baseterr, holders, InCall(left))
           terrs == Without(allterrs, G)
           onward == [Passed(terrs) EXCEPT !.running = None, !.terr = None]
<1>1. /\ Running \in Territory /\ Frame.event # "object"
      /\ calls' = InCall(IF Running \in Range(terrs) THEN onward ELSE left)
  BY DEF TerritoryReturns
<1>2. calls # <<>>
  BY <1>1, SinksAssumption DEF Running
<1>3. Running = Frame.running /\ Frame \in Call /\ RunsItsOwn(Frame)
  BY <1>2, FrameIsCall
<1>4. left \in Call /\ RunsItsOwn(left)
  BY <1>3 DEF Call, RunsItsOwn
<1>5. terrs \in Seq(Territory) /\ IsInjective(terrs)
  BY WithoutKeeps DEF ListsInv
<1> HIDE DEF left, terrs
<1>6. CASE Running \in Range(terrs)
  <2>1. Frame.phase # "addons"
    BY <1>1, <1>3, SinksAssumption DEF RunsItsOwn
  <2>2. Frame.next = Running
    BY <1>1, <1>3, <2>1, SinksAssumption DEF RunsItsOwn, Call
  <2>3. Passed(terrs) \in Call
    BY <1>2, <1>5, <1>6, <2>2, PassedFrame DEF Sink
  <2>4. onward \in Call /\ RunsItsOwn(onward)
    <3> DEFINE p == Passed(terrs)
    <3>1. p \in Call
      BY <2>3
    <3> HIDE DEF p
    <3>2. [p EXCEPT !.running = None, !.terr = None] \in Call
      BY <3>1 DEF Call
    <3>3. RunsItsOwn([p EXCEPT !.running = None, !.terr = None])
      BY <3>1 DEF Call, RunsItsOwn
    <3> QED BY <3>2, <3>3 DEF p
  <2> HIDE DEF onward
  <2>5. calls' = InCall(onward)
    BY <1>1, <1>6
  <2> QED BY <1>2, <2>4, <2>5, InCallOK
<1>7. CASE Running \notin Range(terrs)
  <2>1. calls' = InCall(left)
    BY <1>1, <1>7
  <2> QED BY <1>2, <1>4, <2>1, InCallOK
<1> QED BY <1>6, <1>7

LEMMA CallHolderCalls ==
  ASSUME ListsInv, CallsInv, OthersInv, CallHolder
  PROVE  CallsInv'
<1> DEFINE t == Frame.next
           reached == Frame.reached \cup {t}
           terr == IF t \in handled THEN t ELSE None
           c(n) == [Frame EXCEPT !.next = n, !.reached = reached, !.running = terr, !.terr = terr]
<1>1. /\ calls # <<>> /\ Frame.phase = "territories" /\ Frame.event = "object" /\ t \in holders
  BY DEF CallHolder, InLoop, Walked
<1>2. PICK n \in NextHolder((holders \cap Frame.start) \ reached) : calls' = InCall(c(n))
  BY DEF CallHolder
<1>3. n \in Sink \cup {End} /\ t \in Territory
  BY <1>1, <1>2 DEF NextHolder, OthersInv, Sink
<1>4. c(n) \in Call /\ RunsItsOwn(c(n))
  BY <1>1, <1>3, FrameIsCall DEF Call, RunsItsOwn, Sink
<1> HIDE DEF c
<1> QED BY <1>1, <1>2, <1>4, InCallOK

LEMMA CallsStep ==
  ASSUME TypeInv, [Next]_vars
  PROVE  CallsInv'
<1> USE DEF TypeInv
<1>1. ASSUME NEW t \in Territory,
             \/ \E handler \in BOOLEAN : CreateTerritory(t, handler)
             \/ \E a \in AddOn : CreateAddOn(a, t)
             \/ OpenObject(t) \/ CloseObject(t)
             \/ BeginTransaction(t) \/ AbortTransaction(t)
      PROVE  UNCHANGED calls
  BY <1>1 DEF CreateTerritory, CreateAddOn, OpenObject, CloseObject, BeginTransaction,
              AbortTransaction
<1>2. ASSUME NEW s \in Sink, Destroy(s) \/ Drop(s)
      PROVE  UNCHANGED calls
  BY <1>2 DEF Destroy, Drop
<1>3. ASSUME \/ EndTransaction
             \/ \E changed, write \in BOOLEAN : CommitTransaction(changed, write)
             \/ UNCHANGED vars
      PROVE  UNCHANGED calls
  BY <1>3 DEF EndTransaction, CommitTransaction, vars
<1>4. CASE Announce
  <2>1. Head(agenda) \in Events
    <3>1. agenda # <<>> /\ agenda # <<"end">> /\ AgendaInv
      BY <1>4 DEF Announce, OthersInv
    <3>2. ASSUME Head(agenda) = "end" PROVE FALSE
      <4>1. Len(agenda) = 1 /\ agenda[1] = "end" /\ agenda \in Seq(Events \cup {"end"})
        <5>1. agenda \in Seq(Events \cup {"end"}) /\ agenda # <<>>
          BY <3>1 DEF AgendaInv
        <5>2. 1 \in DOMAIN agenda /\ agenda[1] = "end"
          BY <3>2, <5>1
        <5>3. 1 = Len(agenda)
          BY <3>1, <5>2 DEF AgendaInv
        <5> QED BY <5>1, <5>2, <5>3
      <4>2. agenda = <<"end">>
        BY <4>1
      <4> QED BY <3>1, <4>2
    <3> QED BY <3>1, <3>2 DEF AgendaInv
  <2>2. Len(calls) < MaxDepth
    BY <1>4, BoundsAssumption DEF Announce
  <2> QED BY <1>4, <2>1, <2>2, NotifyCalls DEF Announce
<1>5. CASE PutProperty
  BY <1>5, NotifyCalls DEF PutProperty, Events
<1>6. ASSUME Running # None PROVE calls # <<>>
  BY <1>6 DEF Running
<1>7. CASE AddOnReturns
  BY <1>6, <1>7, SinksAssumption, ReturnCalls DEF AddOnReturns
<1>8. CASE HolderReturns
  <2>1. Running # None /\ calls' = InCall([Frame EXCEPT !.running = None, !.terr = None])
    BY <1>8, SinksAssumption DEF HolderReturns
  <2> DEFINE c == [Frame EXCEPT !.running = None, !.terr = None]
  <2>2. c \in Call /\ RunsItsOwn(c)
    BY <1>6, <2>1, FrameIsCall DEF Call, RunsItsOwn
  <2> HIDE DEF c
  <2>3. calls' = InCall(c)
    BY <2>1 DEF c
  <2> QED BY <1>6, <2>1, <2>2, <2>3, InCallOK
<1>9. CASE AddOnFails
  BY <1>9, NoCalls DEF AddOnFails
<1>10. CASE Notified
  <2>1. calls # <<>> /\ calls' = Tail(calls)
    BY <1>10 DEF Notified
  <2>2. /\ calls' \in Seq(Call) /\ Len(calls') = Len(calls) - 1
        /\ \A i \in DOMAIN calls' : i + 1 \in DOMAIN calls /\ calls'[i] = calls[i + 1]
    BY <2>1 DEF CallsInv
  <2>3. Len(calls') <= MaxDepth
    BY <2>2, BoundsAssumption DEF CallsInv
  <2>4. \A i \in DOMAIN calls' : RunsItsOwn(calls'[i])
    BY <2>2 DEF CallsInv
  <2> QED BY <2>2, <2>3, <2>4 DEF CallsInv
<1> QED
  BY <1>1, <1>2, <1>3, <1>4, <1>5, <1>7, <1>8, <1>9, <1>10, CallsUnchanged, CallAddOnCalls,
     AddOnsDoneCalls, CallTerritoryCalls, TerritoryReturnsCalls, CallHolderCalls, StepCases

LEMMA OthersStep ==
  ASSUME TypeInv, [Next]_vars
  PROVE  OthersInv'
<1> USE RangesAreSinks DEF TypeInv
<1>1. CASE UNCHANGED <<holders, baseterr, activeterr, agenda>>
  BY <1>1 DEF OthersInv, AgendaInv
<1>2. ASSUME NEW t \in Territory,
             \/ \E handler \in BOOLEAN : CreateTerritory(t, handler)
             \/ \E a \in AddOn : CreateAddOn(a, t)
      PROVE  OthersInv'
  BY <1>1, <1>2 DEF CreateTerritory, CreateAddOn
<1>3. ASSUME NEW t \in Territory, OpenObject(t) \/ CloseObject(t)
      PROVE  OthersInv'
  BY <1>3 DEF OpenObject, CloseObject, OthersInv, AgendaInv
<1>4. ASSUME NEW t \in Territory, BeginTransaction(t) \/ AbortTransaction(t)
      PROVE  OthersInv'
  <2>1. AgendaInv'
    <3>1. CASE BeginTransaction(t)
      BY <3>1 DEF BeginTransaction, OthersInv, AgendaInv
    <3>2. CASE AbortTransaction(t)
      <4>1. agenda' = <<"abort", "end">>
        BY <3>2 DEF AbortTransaction
      <4>2. /\ agenda' \in Seq(Events \cup {"end"}) /\ Len(agenda') = 2 /\ agenda'[1] = "abort"
            /\ \A i \in DOMAIN agenda' : i = 1 \/ i = 2
        BY <4>1 DEF Events
      <4> QED BY <4>2 DEF AgendaInv
    <3> QED BY <1>4, <3>1, <3>2
  <2> QED BY <1>4, <2>1 DEF BeginTransaction, AbortTransaction, OthersInv
<1>5. ASSUME NEW s \in Sink, Destroy(s) \/ Drop(s)
      PROVE  OthersInv'
  BY <1>1, <1>5 DEF Destroy, Drop
<1>6. ASSUME NEW changed \in BOOLEAN, NEW write \in BOOLEAN, CommitTransaction(changed, write)
      PROVE  OthersInv'
  <2>1. AgendaInv'
    <3> DEFINE object == IF changed /\ write THEN <<"object">> ELSE <<>>
               ready == IF write THEN <<"ready", "commit">> ELSE <<>>
    <3>1. /\ object \in Seq(Events) /\ ready \in Seq(Events)
          /\ agenda' = (object \o ready) \o <<"end">>
      <4>1. <<>> \in Seq(Events) /\ <<"object">> \in Seq(Events) /\ <<"ready", "commit">> \in Seq(Events)
        BY DEF Events
      <4>2. object \in Seq(Events) /\ ready \in Seq(Events)
        BY <4>1, Zenon
      <4>3. agenda' = (object \o ready) \o <<"end">>
        BY <1>6, Zenon DEF CommitTransaction
      <4> QED BY <4>2, <4>3
    <3> HIDE DEF object, ready
    <3>2. object \o ready \in Seq(Events)
      BY <3>1
    <3> DEFINE rest == object \o ready
    <3> HIDE DEF rest
    <3>3. rest \in Seq(Events) /\ agenda' = rest \o <<"end">>
      BY <3>1, <3>2 DEF rest
    <3>4. /\ agenda' \in Seq(Events \cup {"end"}) /\ Len(agenda') = Len(rest) + 1
          /\ \A i \in DOMAIN agenda' : i # Len(agenda') => agenda'[i] \in Events
      BY <3>3
    <3> QED BY <3>4 DEF AgendaInv, Events
  <2> QED BY <1>6, <2>1 DEF CommitTransaction, OthersInv
<1>7. CASE EndTransaction
  BY <1>7 DEF EndTransaction, OthersInv, AgendaInv
<1>8. CASE Announce
  <2>1. AgendaInv'
    <3>1. agenda # <<>> /\ agenda' = Tail(agenda) /\ agenda \in Seq(Events \cup {"end"})
      BY <1>8 DEF Announce, OthersInv, AgendaInv
    <3>2. /\ agenda' \in Seq(Events \cup {"end"}) /\ Len(agenda') = Len(agenda) - 1
          /\ \A i \in DOMAIN agenda' : i + 1 \in DOMAIN agenda /\ agenda'[i] = agenda[i + 1]
      BY <3>1
    <3> QED BY <3>2 DEF OthersInv, AgendaInv
  <2> QED BY <1>8, <2>1 DEF Announce, Notify, OthersInv
<1>9. CASE PutProperty
  BY <1>9 DEF PutProperty, Notify, OthersInv, AgendaInv
<1>10. CASE CallAddOn \/ AddOnReturns \/ Notified \/ UNCHANGED vars
  BY <1>1, <1>10 DEF CallAddOn, AddOnReturns, Notified, vars
<1>11. CASE AddOnFails \/ AddOnsDone
  <2>1. UNCHANGED <<holders, baseterr>> /\ {activeterr'} \subseteq {activeterr, baseterr}
    BY <1>11 DEF AddOnFails, AddOnsDone
  <2>2. agenda' = <<>> \/ UNCHANGED agenda
    BY <1>11 DEF AddOnFails, AddOnsDone
  <2>3. AgendaInv'
    <3>1. CASE agenda' = <<>>
      <4>1. agenda' \in Seq(Events \cup {"end"}) /\ DOMAIN agenda' = {}
        BY <3>1
      <4> QED BY <4>1 DEF AgendaInv
    <3>2. CASE UNCHANGED agenda
      BY <3>2 DEF OthersInv, AgendaInv
    <3> QED BY <2>2, <3>1, <3>2
  <2> QED BY <2>1, <2>3 DEF OthersInv
<1>12. CASE CallTerritory
  <2>1. Frame.next \in Territory
    BY <1>12 DEF CallTerritory, InLoop, Walked
  <2> QED BY <1>12, <2>1 DEF CallTerritory, OthersInv, AgendaInv
<1>13. CASE CallHolder
  <2>1. Frame.next \in Territory
    BY <1>13 DEF CallHolder, InLoop, Walked, OthersInv
  <2> QED BY <1>13, <2>1 DEF CallHolder, OthersInv, AgendaInv
<1>14. CASE TerritoryReturns \/ HolderReturns
  BY <1>14 DEF TerritoryReturns, HolderReturns, OthersInv, AgendaInv
<1> QED
  BY <1>2, <1>3, <1>4, <1>5, <1>6, <1>7, <1>8, <1>9, <1>10, <1>11, <1>12, <1>13, <1>14, StepCases

LEMMA TypeInit ==
  ASSUME Init
  PROVE  TypeInv
<1>1. ListsInv
  BY DEF Init, ListsInv, IsInjective, Range
<1>2. CallsInv
  BY BoundsAssumption DEF Init, CallsInv
<1>3. OthersInv
  BY DEF Init, OthersInv, AgendaInv
<1> QED BY <1>1, <1>2, <1>3 DEF TypeInv

LEMMA TypeStep ==
  ASSUME TypeInv, [Next]_vars
  PROVE  TypeInv'
BY ListsStep, CallsStep, OthersStep DEF TypeInv

LEMMA TypeInvariant == Spec => []TypeInv
<1>1. Init => TypeInv
  BY TypeInit
<1>2. TypeInv /\ [Next]_vars => TypeInv'
  BY TypeStep
<1> QED BY <1>1, <1>2, PTL DEF Spec

(* Whatever handlers do, and however deep notifications are in one         *)
(* another, lists, flags and frames keep their types, and there is a       *)
(* reserve territory for GlobalNotify to push as long as there are add-ons.*)
THEOREM TypeCorrect == Spec => []TypeOK
<1>1. TypeInv => TypeOK
  <2> SUFFICES ASSUME TypeInv PROVE TypeOK
    OBVIOUS
  <2>1. Range(alladdons) \subseteq AddOn /\ Range(allterrs) \subseteq Territory
    BY RangesAreSinks DEF TypeInv
  <2>2. Range(calls) \subseteq Call
    BY DEF TypeInv, CallsInv, Range
  <2>3. Range(agenda) \subseteq Events \cup {"end"}
    <3>1. agenda \in Seq(Events \cup {"end"})
      BY DEF TypeInv, OthersInv, AgendaInv
    <3> QED BY <3>1 DEF Range
  <2> QED BY <2>1, <2>2, <2>3 DEF TypeInv, ListsInv, CallsInv, OthersInv, TypeOK
<1> QED BY <1>1, TypeInvariant, PTL

-----------------------------------------------------------------------------
(* What is released *)

LEMMA NoneLeft ==
  ASSUME ListsInv, NEW G
  PROVE  Without(alladdons, G) = <<>> <=> Range(alladdons) \subseteq G
<1>1. /\ Without(alladdons, G) \in Seq(AddOn)
      /\ Range(Without(alladdons, G)) = Range(alladdons) \ G
  BY WithoutKeeps DEF ListsInv
<1>2. Without(alladdons, G) = <<>> <=> Range(Without(alladdons, G)) = {}
  BY <1>1, FirstOfList
<1> QED BY <1>1, <1>2

(* Only the add-ons that go decide about the reserve territory. *)
LEMMA ReserveOfAddOns ==
  ASSUME ListsInv, NEW G, NEW H, G \cap AddOn = H \cap AddOn
  PROVE  Reserve(G) = Reserve(H)
BY NoneLeft, RangesAreSinks DEF Reserve

LEMMA ReserveStays ==
  ASSUME ListsInv, NEW G, G \cap AddOn = {}
  PROVE  Reserve(G) = reserveterr
<1>1. alladdons = <<>> <=> Range(alladdons) = {}
  BY FirstOfList DEF ListsInv
<1>2. CASE alladdons = <<>>
  BY <1>2 DEF ListsInv, Reserve
<1>3. CASE alladdons # <<>>
  BY <1>1, <1>3, NoneLeft, RangesAreSinks DEF Reserve
<1> QED BY <1>2, <1>3

\* Handlers leave the loops alone and set no property of the project.
Undisturbed == Considerate = TRUE /\ MaxDepth = 1

LEMMA OneElement ==
  ASSUME NEW T, NEW list \in Seq(T), Len(list) <= 1, list # <<>>
  PROVE  Len(list) = 1
<1>1. Len(list) \in Nat /\ Len(list) # 0
  BY EmptySeq
<1>2. \A n \in Nat : n <= 1 /\ n # 0 => n = 1
  OBVIOUS
<1> QED BY <1>1, <1>2

LEMMA OneCall ==
  ASSUME Undisturbed, CallsInv, calls # <<>>
  PROVE  DOMAIN calls = {1} /\ calls[1] = Frame /\ Len(calls) = 1
<1>1. Len(calls) = 1 /\ calls \in Seq(Call)
  <2>1. calls \in Seq(Call) /\ Len(calls) <= 1
    BY DEF Undisturbed, CallsInv
  <2> QED BY <2>1, OneElement
<1> QED BY <1>1 DEF Frame

\* A sink that no client refers to is there because the project does, as its
\* reserve, base or active territory, an object's interface does, or a loop.
OrphansInv ==
  /\ dropped \cap AddOn \subseteq {Running}
  /\ \A t \in dropped \cap Territory :
       \/ t \in {reserveterr, baseterr, activeterr} \cup holders
       \/ t = Running /\ Frame.event = "object"

\* called holds no other sinks than the innermost call afterwards
HoldsRunning(called) ==
  \A i \in DOMAIN called, s \in Sink :
    called[i].running = s /\ (s \in AddOn \/ called[i].event = "object") =>
      s = Running' /\ (s \in AddOn \/ Frame'.event = "object")

LEMMA SweptOrphans ==
  ASSUME TypeInv, TypeInv', NEW S, NEW orphans, NEW called, NEW told,
         Erase(Gone(S, orphans, activeterr', holders', called), orphans, told),
         UNCHANGED baseterr, HoldsRunning(called)
  PROVE  OrphansInv'
<1> DEFINE D == S \cup {a \in orphans \cap AddOn : ~Held(a, None, activeterr', holders', called)}
           E == {t \in orphans \ AddOn : ~Held(t, Reserve(D), activeterr', holders', called)}
           G == Gone(S, orphans, activeterr', holders', called)
<1>1. G = D \cup E
  BY DEF Gone
<1>2. dropped' = orphans \ G /\ reserveterr' = Reserve(G)
  BY DEF Erase
<1>3. Reserve(G) = Reserve(D)
  <2>1. G \cap AddOn = D \cap AddOn
    BY <1>1
  <2> HIDE DEF G, D
  <2> QED BY <2>1, ReserveOfAddOns DEF TypeInv
<1>4. AddOn \subseteq Sink /\ Territory \subseteq Sink /\ AddOn \cap Territory = {} /\ None \notin Sink
  BY SinksAssumption DEF Sink
<1>5. holders' \subseteq Territory /\ {baseterr, activeterr'} \subseteq Territory \cup {None}
  BY DEF TypeInv, OthersInv
<1>6. ASSUME NEW s \in dropped' \cap AddOn PROVE s = Running'
  <2>1. Held(s, None, activeterr', holders', called)
    BY <1>1, <1>2, <1>6
  <2>2. \E i \in DOMAIN called : called[i].running = s
    BY <1>4, <1>5, <1>6, <2>1 DEF Held
  <2> QED BY <1>4, <1>6, <2>2 DEF HoldsRunning
<1>7. ASSUME NEW t \in dropped' \cap Territory
      PROVE  \/ t \in {reserveterr', baseterr', activeterr'} \cup holders'
             \/ t = Running' /\ Frame'.event = "object"
  <2>1. Held(t, Reserve(D), activeterr', holders', called)
    BY <1>1, <1>2, <1>4, <1>7
  <2>2. \/ t \in {reserveterr', baseterr', activeterr'} \cup holders'
        \/ \E i \in DOMAIN called : called[i].running = t /\ called[i].event = "object"
    <3> HIDE DEF D, G
    <3> QED BY <1>2, <1>3, <1>4, <1>7, <2>1 DEF Held
  <2>3. ASSUME NEW i \in DOMAIN called, called[i].running = t, called[i].event = "object"
        PROVE  t = Running' /\ Frame'.event = "object"
    BY <1>4, <1>7, <2>3 DEF HoldsRunning
  <2> QED BY <2>2, <2>3
<1> QED BY <1>6, <1>7 DEF OrphansInv

LEMMA HoldsNone ==
  ASSUME NEW called, \A i \in DOMAIN called : called[i].running = None
  PROVE  HoldsRunning(called)
BY SinksAssumption DEF HoldsRunning, Sink

LEMMA HoldsNow ==
  ASSUME Undisturbed, CallsInv, calls # <<>>
  PROVE  \A i \in DOMAIN calls : calls[i].running = Running
BY OneCall, FrameIsCall

LEMMA HoldsAfterwards ==
  ASSUME Undisturbed, TypeInv'
  PROVE  HoldsRunning(calls')
<1>1. ASSUME calls' # <<>>
      PROVE  DOMAIN calls' = {1} /\ calls'[1] = Frame' /\ Frame'.running = Running'
  <2>1. Len(calls') = 1 /\ calls' \in Seq(Call)
    <3>1. calls' \in Seq(Call) /\ Len(calls') <= 1
      BY DEF Undisturbed, TypeInv, CallsInv
    <3> QED BY <1>1, <3>1, OneElement
  <2> QED BY <1>1, <2>1 DEF Frame, Running
<1>2. ASSUME calls' = <<>> PROVE DOMAIN calls' = {}
  BY <1>2
<1> QED BY <1>1, <1>2 DEF HoldsRunning

\* Outside of a transaction no territory is active, and none that has a handler
\* is by mistake: what pushterr leaves behind when an add-on fails has none.
ActiveInv ==
  /\ reserveterr \notin handled
  /\ baseterr = None => activeterr = None /\ calls = <<>> /\ agenda = <<>>
  /\ activeterr = baseterr \/ activeterr \notin handled \/ Running \in Territory
  /\ Running \in Territory => activeterr = Running
  /\ Running \in Territory \cap dropped /\ Frame.event # "object" =>
       Running \in {baseterr} \cup holders

HeldInv == OrphansInv /\ ActiveInv

LEMMA SameCalls ==
  ASSUME UNCHANGED calls
  PROVE  Running' = Running /\ Frame' = Frame
BY DEF Running, Frame

LEMMA InCallRunning ==
  ASSUME CallsInv, calls # <<>>, NEW c \in Call, calls' = InCall(c), RunsItsOwn(c)
  PROVE  Running' = c.running /\ Frame' = c /\ calls' # <<>>
BY InCallOK DEF Running

LEMMA NotifyRunning ==
  ASSUME TypeInv, NEW event, Notify(event)
  PROVE  /\ Running' = None /\ calls' # <<>>
         /\ Frame'.event = event /\ Frame'.phase = "addons" /\ Frame'.next = First(alladdons)
         /\ Frame'.start = Range(alladdons) /\ Frame'.reached = {}
<1> DEFINE c == [event |-> event, phase |-> "addons", next |-> First(alladdons),
                 running |-> None, terr |-> IF alladdons = <<>> THEN None ELSE reserveterr,
                 start |-> Range(alladdons), reached |-> {}]
<1>1. calls' = <<c>> \o calls
  BY DEF Notify
<1>2. calls' # <<>> /\ Head(calls') = c
  <2> HIDE DEF c
  <2> QED BY <1>1 DEF TypeInv, CallsInv
<1> QED BY <1>2 DEF Running, Frame

\* What the steps of a loop leave in the innermost call
LEMMA AddOnReturned ==
  ASSUME TypeInv, calls # <<>>, calls' = InCall([Frame EXCEPT !.running = None])
  PROVE  /\ Running' = None /\ calls' # <<>>
         /\ Frame'.event = Frame.event /\ Frame'.phase = Frame.phase /\ Frame'.next = Frame.next
         /\ Frame'.start = Frame.start /\ Frame'.reached = Frame.reached
<1> DEFINE c == [Frame EXCEPT !.running = None]
<1>1. c \in Call /\ RunsItsOwn(c) /\ Frame \in Call
  BY FrameIsCall DEF Call, RunsItsOwn, TypeInv
<1>2. /\ c.running = None /\ c.event = Frame.event /\ c.phase = Frame.phase /\ c.next = Frame.next
      /\ c.start = Frame.start /\ c.reached = Frame.reached
  BY <1>1 DEF Call
<1> HIDE DEF c
<1>3. calls' = InCall(c)
  BY DEF c
<1> QED BY <1>1, <1>2, <1>3, InCallRunning DEF TypeInv

LEMMA AddOnCalled ==
  ASSUME TypeInv, CallAddOn
  PROVE  /\ Running' \in AddOn \cup {None} /\ calls' # <<>>
         /\ Running' # None => Running' = Frame.next
         /\ Frame'.event = Frame.event /\ Frame'.phase = "addons"
         /\ Frame'.next = After(alladdons, Frame.next)
         /\ Frame'.start = Frame.start /\ Frame'.reached = Frame.reached \cup {Frame.next}
<1> DEFINE call == Passed(alladdons)
           c == IF Frame.event = "ready" /\ Frame.next \notin notified THEN call
                ELSE [call EXCEPT !.running = Frame.next]
<1>1. /\ calls # <<>> /\ Frame.phase = "addons" /\ Frame.running = None
      /\ Frame.next \in Range(alladdons) /\ calls' = InCall(c)
  BY DEF CallAddOn, Called, InLoop, Walked
<1>2. /\ call \in Call /\ call.event = Frame.event /\ call.phase = "addons" /\ call.running = None
      /\ call.start = Frame.start /\ call.reached = Frame.reached \cup {Frame.next}
      /\ call.next = After(alladdons, Frame.next)
  BY <1>1, PassedFrame DEF TypeInv, ListsInv, Sink
<1>3. Frame.next \in AddOn
  BY <1>1, RangesAreSinks DEF TypeInv
<1> HIDE DEF call
<1>4. /\ c \in Call /\ RunsItsOwn(c)
      /\ c.event = Frame.event /\ c.phase = "addons" /\ c.running \in {Frame.next, None}
      /\ c.start = Frame.start /\ c.reached = Frame.reached \cup {Frame.next}
      /\ c.next = After(alladdons, Frame.next)
  BY <1>2, <1>3 DEF Call, RunsItsOwn, Sink
<1> HIDE DEF c
<1>5. Running' = c.running /\ Frame' = c /\ calls' # <<>>
  BY <1>1, <1>4, InCallRunning DEF TypeInv
<1> QED BY <1>3, <1>4, <1>5

LEMMA AddOnsLeft ==
  ASSUME TypeInv, AddOnsDone
  PROVE  LET G == Gone({}, dropped, activeterr', holders, calls)
             terrs == Without(allterrs, G)
             object == Frame.event = "object"
         IN  /\ Running' = None /\ calls' # <<>> /\ Running = None /\ calls # <<>>
             /\ Frame'.event = Frame.event /\ Frame'.phase = "territories" /\ Frame'.reached = {}
             /\ Frame'.running = None
             /\ IF object
                THEN Frame'.next \in NextHolder(holders) /\ Frame'.start = holders
                ELSE Frame'.next = First(terrs) /\ Frame'.start = Range(terrs)
<1> DEFINE G == Gone({}, dropped, activeterr', holders, calls)
           terrs == Without(allterrs, G)
           object == Frame.event = "object"
           moved(n) == [Frame EXCEPT !.phase = "territories", !.next = n, !.terr = None,
                                     !.start = IF object THEN holders ELSE Range(terrs),
                                     !.reached = {}]
<1>1. calls # <<>> /\ Frame.running = None /\ Running = None
  BY DEF AddOnsDone, Running
<1>2. PICK n \in IF object THEN NextHolder(holders) ELSE {First(terrs)} : calls' = InCall(moved(n))
  BY DEF AddOnsDone
<1>3. terrs \in Seq(Territory) /\ Range(terrs) \subseteq Territory
  <2>1. terrs \in Seq(Territory)
    BY WithoutKeeps DEF TypeInv, ListsInv
  <2> HIDE DEF terrs
  <2> QED BY <2>1 DEF Range
<1> HIDE DEF terrs
<1>4. n \in Sink \cup {End}
  <2>1. CASE object
    BY <1>2, <2>1 DEF NextHolder, TypeInv, OthersInv, Sink
  <2>2. CASE ~object
    BY <1>2, <1>3, <2>2, FirstIsSink DEF Sink
  <2> QED BY <2>1, <2>2
<1>5. Frame \in Call
  BY <1>1, FrameIsCall DEF TypeInv
<1>6. /\ moved(n) \in Call /\ RunsItsOwn(moved(n))
      /\ moved(n).running = None /\ moved(n).event = Frame.event
      /\ moved(n).phase = "territories" /\ moved(n).next = n /\ moved(n).reached = {}
      /\ moved(n).start = IF object THEN holders ELSE Range(terrs)
  BY <1>1, <1>3, <1>4, <1>5 DEF Call, RunsItsOwn, Sink, TypeInv, OthersInv
<1> HIDE DEF moved
<1>7. Running' = None /\ Frame' = moved(n) /\ calls' # <<>>
  BY <1>1, <1>2, <1>6, InCallRunning DEF TypeInv
<1> HIDE DEF object, G
<1>8. IF object THEN n \in NextHolder(holders) ELSE n = First(terrs)
  BY <1>2
<1> QED BY <1>1, <1>6, <1>7, <1>8 DEF terrs, object, G

LEMMA TerritoryCalled ==
  ASSUME TypeInv, CallTerritory
  PROVE  /\ Running = None /\ calls # <<>> /\ calls' # <<>> /\ Frame.event # "object"
         /\ Frame.phase = "territories" /\ Frame.next \in Range(allterrs)
         /\ Frame'.event = Frame.event /\ Frame'.phase = "territories"
         /\ Frame'.start = Frame.start
         /\ \/ /\ Running' = None /\ UNCHANGED activeterr
               /\ Frame'.next = After(allterrs, Frame.next)
               /\ Frame'.reached = Frame.reached \cup {Frame.next}
            \/ /\ Running' = Frame.next /\ Frame.next \in handled /\ activeterr' = Frame.next
               /\ Frame'.next = Frame.next /\ Frame'.reached = Frame.reached
<1>1. /\ calls # <<>> /\ Frame.phase = "territories" /\ Frame.running = None
      /\ Frame.next \in Range(allterrs) /\ Frame.event # "object" /\ Running = None
  BY DEF CallTerritory, InLoop, Walked, Running
<1>2. Frame.next \in Territory /\ Frame \in Call
  BY <1>1, RangesAreSinks, FrameIsCall DEF TypeInv
<1>3. CASE calls' = InCall(Passed(allterrs)) /\ UNCHANGED activeterr
  <2> DEFINE c == Passed(allterrs)
  <2>1. /\ c \in Call /\ c.event = Frame.event /\ c.phase = "territories" /\ c.running = None
        /\ c.start = Frame.start /\ c.reached = Frame.reached \cup {Frame.next}
        /\ c.next = After(allterrs, Frame.next)
    BY <1>1, PassedFrame DEF TypeInv, ListsInv, Sink
  <2> HIDE DEF c
  <2>2. RunsItsOwn(c)
    BY <2>1 DEF RunsItsOwn
  <2>3. calls' = InCall(c)
    BY <1>3 DEF c
  <2>4. Running' = None /\ Frame' = c /\ calls' # <<>>
    BY <1>1, <2>1, <2>2, <2>3, InCallRunning DEF TypeInv
  <2> QED BY <1>1, <1>3, <2>1, <2>4
<1>4. CASE /\ calls' = InCall([Frame EXCEPT !.running = Frame.next, !.terr = Frame.next])
           /\ Frame.next \in handled /\ activeterr' = Frame.next
  <2> DEFINE c == [Frame EXCEPT !.running = Frame.next, !.terr = Frame.next]
  <2>1. /\ c \in Call /\ RunsItsOwn(c)
        /\ c.event = Frame.event /\ c.phase = "territories" /\ c.running = Frame.next
        /\ c.start = Frame.start /\ c.reached = Frame.reached /\ c.next = Frame.next
    BY <1>1, <1>2 DEF Call, RunsItsOwn, Sink
  <2> HIDE DEF c
  <2>2. calls' = InCall(c)
    BY <1>4 DEF c
  <2>3. Running' = Frame.next /\ Frame' = c /\ calls' # <<>>
    BY <1>1, <2>1, <2>2, InCallRunning DEF TypeInv
  <2> QED BY <1>1, <1>4, <2>1, <2>3
<1> QED BY <1>3, <1>4 DEF CallTerritory

LEMMA HolderCalled ==
  ASSUME TypeInv, CallHolder
  PROVE  /\ Running = None /\ calls # <<>> /\ calls' # <<>> /\ Frame.event = "object"
         /\ Frame.phase = "territories" /\ Frame.next \in holders
         /\ Frame'.event = "object" /\ Frame'.phase = "territories" /\ Frame'.start = Frame.start
         /\ Frame'.reached = Frame.reached \cup {Frame.next}
         /\ Frame'.next \in NextHolder((holders \cap Frame.start) \ Frame'.reached)
         /\ Frame'.running = Running'
         /\ \/ Running' = None /\ UNCHANGED activeterr
            \/ Running' = Frame.next /\ activeterr' = Frame.next
<1> DEFINE t == Frame.next
           reached == Frame.reached \cup {t}
           terr == IF t \in handled THEN t ELSE None
           c(n) == [Frame EXCEPT !.next = n, !.reached = reached, !.running = terr, !.terr = terr]
<1>1. /\ calls # <<>> /\ Frame.phase = "territories" /\ Frame.event = "object" /\ t \in holders
      /\ Frame.running = None /\ Running = None
  BY DEF CallHolder, InLoop, Walked, Running
<1>2. PICK n \in NextHolder((holders \cap Frame.start) \ reached) : calls' = InCall(c(n))
  BY DEF CallHolder
<1>3. n \in Sink \cup {End} /\ t \in Territory /\ Frame \in Call
  BY <1>1, <1>2, FrameIsCall DEF NextHolder, TypeInv, OthersInv, Sink
<1>4. /\ c(n) \in Call /\ RunsItsOwn(c(n))
      /\ c(n).event = "object" /\ c(n).phase = "territories" /\ c(n).running = terr
      /\ c(n).start = Frame.start /\ c(n).reached = reached /\ c(n).next = n
  BY <1>1, <1>3, ZenonT(40) DEF Call, RunsItsOwn, Sink
<1> HIDE DEF c
<1>5. Running' = terr /\ Frame' = c(n) /\ calls' # <<>>
  BY <1>1, <1>2, <1>4, InCallRunning DEF TypeInv
<1>6. activeterr' = IF terr = None THEN activeterr ELSE t
  BY DEF CallHolder
<1> QED BY <1>1, <1>2, <1>3, <1>4, <1>5, <1>6, SinksAssumption

LEMMA HolderReturned ==
  ASSUME TypeInv, HolderReturns
  PROVE  /\ Running' = None /\ calls # <<>> /\ calls' # <<>>
         /\ Frame.phase = "territories"
         /\ Frame'.event = Frame.event /\ Frame'.phase = Frame.phase /\ Frame'.next = Frame.next
         /\ Frame'.start = Frame.start /\ Frame'.reached = Frame.reached
         /\ Frame'.running = None
<1> DEFINE c == [Frame EXCEPT !.running = None, !.terr = None]
<1>1. Running \in Territory /\ calls # <<>> /\ calls' = InCall(c)
  BY SinksAssumption DEF HolderReturns, Running
<1>2. c \in Call /\ RunsItsOwn(c) /\ Frame \in Call /\ RunsItsOwn(Frame) /\ Running = Frame.running
  BY <1>1, FrameIsCall DEF Call, RunsItsOwn, TypeInv
<1>3. /\ c.running = None /\ c.event = Frame.event /\ c.phase = Frame.phase /\ c.next = Frame.next
      /\ c.start = Frame.start /\ c.reached = Frame.reached
  BY <1>2 DEF Call
<1> HIDE DEF c
<1>4. Frame.phase = "territories"
  BY <1>1, <1>2, SinksAssumption DEF RunsItsOwn, Call
<1> QED BY <1>1, <1>2, <1>3, <1>4, InCallRunning DEF TypeInv

LEMMA TerritoryReturned ==
  ASSUME Undisturbed, TypeInv, TerritoryReturns,
         NEW left, left = [Frame EXCEPT !.running = None, !.terr = None],
         NEW G, G = Gone({}, dropped, baseterr, holders, InCall(left)),
         NEW terrs, terrs = Without(allterrs, G)
  PROVE  /\ Running' = None /\ calls # <<>> /\ calls' # <<>>
         /\ Frame.phase = "territories" /\ Frame.event # "object" /\ Frame.next = Running
         /\ Frame'.event = Frame.event /\ Frame'.phase = "territories" /\ Frame'.start = Frame.start
         /\ IF Running \in Range(terrs)
            THEN /\ Frame'.next = After(terrs, Frame.next)
                 /\ Frame'.reached = Frame.reached \cup {Frame.next}
            ELSE Frame'.next = Frame.next /\ Frame'.reached = Frame.reached
         /\ \A i \in DOMAIN InCall(left) : InCall(left)[i].running = None
<1> DEFINE p == Passed(terrs)
           onward == [p EXCEPT !.running = None, !.terr = None]
<1>1. /\ Running \in Territory /\ Frame.event # "object"
      /\ calls' = InCall(IF Running \in Range(terrs) THEN onward ELSE left)
  BY DEF TerritoryReturns
<1>2. calls # <<>>
  BY <1>1, SinksAssumption DEF Running
<1>3. Running = Frame.running /\ Frame \in Call /\ RunsItsOwn(Frame)
  BY <1>2, FrameIsCall DEF TypeInv
<1>4. /\ left \in Call /\ RunsItsOwn(left) /\ left.running = None
      /\ left.event = Frame.event /\ left.phase = Frame.phase /\ left.next = Frame.next
      /\ left.start = Frame.start /\ left.reached = Frame.reached
  BY <1>3 DEF Call, RunsItsOwn
<1>5. terrs \in Seq(Territory) /\ IsInjective(terrs)
  BY WithoutKeeps DEF ListsInv, TypeInv
<1>6. Frame.phase = "territories"
  BY <1>1, <1>3, SinksAssumption DEF RunsItsOwn, Call
<1>7. Frame.next = Running
  BY <1>1, <1>3, <1>6, SinksAssumption DEF RunsItsOwn
<1>8. \A i \in DOMAIN InCall(left) : InCall(left)[i].running = None
  <2>1. Len(calls) = 1 /\ calls \in Seq(Call)
    BY <1>2, OneCall DEF TypeInv, CallsInv
  <2>2. DOMAIN InCall(left) = {1} /\ InCall(left)[1] = left
    <3> DEFINE called == InCall(left)
    <3>1. called \in Seq(Call) /\ Len(called) = 1 /\ called[1] = left
      BY <1>2, <1>4, <2>1 DEF InCall
    <3> HIDE DEF called
    <3>2. DOMAIN called = {1}
      BY <3>1
    <3> QED BY <3>1, <3>2 DEF called
  <2> QED BY <1>4, <2>2
<1>9. CASE Running \in Range(terrs)
  <2>1. /\ p \in Call /\ p.event = Frame.event /\ p.phase = Frame.phase
        /\ p.start = Frame.start /\ p.reached = Frame.reached \cup {Frame.next}
        /\ p.next = After(terrs, Frame.next)
    BY <1>2, <1>5, <1>7, <1>9, PassedFrame DEF Sink, TypeInv
  <2> HIDE DEF p
  <2>2. /\ onward \in Call /\ RunsItsOwn(onward) /\ onward.running = None
        /\ onward.event = Frame.event /\ onward.phase = Frame.phase
        /\ onward.start = Frame.start /\ onward.reached = Frame.reached \cup {Frame.next}
        /\ onward.next = After(terrs, Frame.next)
    BY <2>1 DEF Call, RunsItsOwn
  <2> HIDE DEF onward
  <2>3. calls' = InCall(onward)
    BY <1>1, <1>9
  <2>4. Running' = None /\ Frame' = onward /\ calls' # <<>>
    BY <1>2, <2>2, <2>3, InCallRunning DEF TypeInv
  <2> QED BY <1>1, <1>2, <1>6, <1>7, <1>8, <1>9, <2>2, <2>4
<1>10. CASE Running \notin Range(terrs)
  <2>1. calls' = InCall(left)
    BY <1>1, <1>10
  <2>2. Running' = None /\ Frame' = left /\ calls' # <<>>
    BY <1>2, <1>4, <2>1, InCallRunning DEF TypeInv
  <2> QED BY <1>1, <1>2, <1>4, <1>6, <1>7, <1>8, <1>10, <2>2
<1> QED BY <1>9, <1>10

LEMMA OrphansStep ==
  ASSUME Undisturbed, TypeInv, TypeInv', HeldInv, [Next]_vars
  PROVE  OrphansInv'
<1> USE DEF HeldInv
<1>0. /\ AddOn \cap Territory = {} /\ None \notin AddOn \cup Territory
      /\ calls = <<>> => Running = None
      /\ calls' = <<>> => Running' = None
  BY SinksAssumption DEF Running
<1>1. ASSUME UNCHANGED <<calls, dropped, reserveterr, baseterr, activeterr>>, holders \subseteq holders'
      PROVE  OrphansInv'
  BY <1>1, SameCalls DEF OrphansInv
<1>2. ASSUME NEW t \in Territory, \E handler \in BOOLEAN : CreateTerritory(t, handler)
      PROVE  OrphansInv'
  BY <1>1, <1>2 DEF CreateTerritory
<1>3. ASSUME NEW t \in Territory, NEW a \in AddOn, CreateAddOn(a, t)
      PROVE  OrphansInv'
  <2>1. /\ UNCHANGED <<calls, holders, baseterr, activeterr>>
        /\ \/ UNCHANGED <<dropped, reserveterr>>
           \/ dropped' = dropped \cup {t} /\ reserveterr = None /\ reserveterr' = t
    BY <1>3 DEF CreateAddOn
  <2> QED BY <1>0, <2>1, SameCalls DEF OrphansInv
<1>4. ASSUME NEW t \in Territory, OpenObject(t)
      PROVE  OrphansInv'
  BY <1>1, <1>4 DEF OpenObject, lists
<1>5. ASSUME NEW t \in Territory, CloseObject(t)
      PROVE  OrphansInv'
  <2>1. /\ UNCHANGED <<calls, baseterr, activeterr>>
        /\ Erase(Gone({}, dropped, activeterr, holders', calls), dropped, notified)
    BY <1>5 DEF CloseObject
  <2>2. HoldsRunning(calls)
    BY <2>1, HoldsAfterwards
  <2>3. Erase(Gone({}, dropped, activeterr', holders', calls), dropped, notified)
    BY <2>1
  <2> QED BY <2>1, <2>2, <2>3, SweptOrphans
<1>6. ASSUME NEW t \in Territory, BeginTransaction(t)
      PROVE  OrphansInv'
  <2>1. /\ calls = <<>> /\ baseterr = None /\ baseterr' = t /\ activeterr' = t
        /\ UNCHANGED <<calls, dropped, reserveterr, holders>>
    BY <1>6 DEF BeginTransaction, lists
  <2> QED BY <1>0, <2>1 DEF OrphansInv, ActiveInv
<1>7. ASSUME NEW t \in Territory, AbortTransaction(t)
      PROVE  OrphansInv'
  <2> DEFINE G == {s \in dropped : s \notin holders \cup {reserveterr}}
  <2>1. /\ calls = <<>> /\ baseterr' = t /\ dropped' = (dropped \ G) \cup {t}
        /\ UNCHANGED <<calls, reserveterr, holders>>
    BY <1>7 DEF AbortTransaction
  <2> QED BY <1>0, <2>1 DEF OrphansInv
<1>8. ASSUME NEW s \in Sink, Destroy(s)
      PROVE  OrphansInv'
  <2>1. /\ UNCHANGED <<calls, holders, baseterr, activeterr>>
        /\ Erase(Gone({s}, dropped, activeterr, holders, calls), dropped, notified)
    BY <1>8 DEF Destroy
  <2>2. HoldsRunning(calls)
    BY <2>1, HoldsAfterwards
  <2>3. Erase(Gone({s}, dropped, activeterr', holders', calls), dropped, notified)
    BY <2>1
  <2> QED BY <2>1, <2>2, <2>3, SweptOrphans
<1>9. ASSUME NEW s \in Sink, Drop(s)
      PROVE  OrphansInv'
  <2> DEFINE orphans == dropped \cup {s}
  <2>1. /\ UNCHANGED <<calls, holders, baseterr, activeterr>>
        /\ Erase(Gone({}, orphans, activeterr, holders, calls), orphans, notified)
    BY <1>9 DEF Drop
  <2> HIDE DEF orphans
  <2>2. HoldsRunning(calls)
    BY <2>1, HoldsAfterwards
  <2>3. Erase(Gone({}, orphans, activeterr', holders', calls), orphans, notified)
    BY <2>1
  <2> QED BY <2>1, <2>2, <2>3, SweptOrphans
<1>10. ASSUME NEW event, Notify(event)
       PROVE  OrphansInv'
  <2>1. /\ UNCHANGED <<holders, baseterr>>
        /\ Erase(Gone({}, dropped, activeterr', holders, calls'), dropped, notified)
    BY <1>10 DEF Notify
  <2>2. Erase(Gone({}, dropped, activeterr', holders', calls'), dropped, notified)
    BY <2>1
  <2> QED BY <2>1, <2>2, HoldsAfterwards, SweptOrphans
<1>11. CASE EndTransaction
  <2> DEFINE G == {s \in dropped : s \notin holders \cup {reserveterr}}
  <2>1. /\ calls = <<>> /\ Erase(G, dropped, notified) /\ UNCHANGED <<calls, holders>>
    BY <1>11 DEF EndTransaction
  <2>2. dropped \cap AddOn = {}
    BY <1>0, <2>1 DEF OrphansInv
  <2>3. reserveterr' = reserveterr
    <3>1. G \cap AddOn = {}
      BY <2>2
    <3> HIDE DEF G
    <3> QED BY <2>1, <3>1, ReserveStays DEF Erase, TypeInv
  <2>4. dropped' = dropped \ G
    BY <2>1 DEF Erase
  <2> QED BY <2>1, <2>2, <2>3, <2>4 DEF OrphansInv
<1>12. CASE CallAddOn
  <2>1. /\ UNCHANGED <<dropped, reserveterr, baseterr, activeterr, holders>> /\ Running = None
    BY <1>12 DEF CallAddOn, InLoop, Running, lists
  <2> QED BY <1>0, <2>1 DEF OrphansInv
<1>13. CASE AddOnReturns
  <2>1. /\ UNCHANGED <<holders, baseterr, activeterr>>
        /\ \E told : Erase(Gone({}, dropped, activeterr, holders, calls'), dropped, told)
    BY <1>13, Zenon DEF AddOnReturns
  <2>2. PICK told : Erase(Gone({}, dropped, activeterr', holders', calls'), dropped, told)
    BY <2>1
  <2> QED BY <2>1, <2>2, HoldsAfterwards, SweptOrphans
<1>14. CASE AddOnFails
  <2>1. /\ UNCHANGED <<holders, baseterr, activeterr>> /\ calls' = <<>>
        /\ Erase(Gone({}, dropped, activeterr, holders, <<>>), dropped, notified)
    BY <1>14 DEF AddOnFails
  <2>2. Erase(Gone({}, dropped, activeterr', holders', calls'), dropped, notified)
    BY <2>1
  <2> QED BY <2>1, <2>2, HoldsAfterwards, SweptOrphans
<1>15. CASE AddOnsDone
  <2>1. /\ UNCHANGED <<holders, baseterr>>
        /\ Erase(Gone({}, dropped, activeterr', holders, calls), dropped, notified)
    BY <1>15 DEF AddOnsDone
  <2>2. HoldsRunning(calls)
    <3>1. \A i \in DOMAIN calls : calls[i].running = None
      BY <1>15, AddOnsLeft, HoldsNow DEF TypeInv
    <3> QED BY <3>1, HoldsNone
  <2>3. Erase(Gone({}, dropped, activeterr', holders', calls), dropped, notified)
    BY <2>1
  <2> QED BY <2>1, <2>2, <2>3, SweptOrphans
<1>16. CASE CallTerritory
  <2>1. /\ UNCHANGED <<holders, baseterr>>
        /\ \E told : Erase(Gone({}, dropped, activeterr', holders, calls'), dropped, told)
    BY <1>16, Zenon DEF CallTerritory
  <2>2. PICK told : Erase(Gone({}, dropped, activeterr', holders', calls'), dropped, told)
    BY <2>1
  <2> QED BY <2>1, <2>2, HoldsAfterwards, SweptOrphans
<1>17. CASE TerritoryReturns
  <2> DEFINE left == [Frame EXCEPT !.running = None, !.terr = None]
             called == InCall(left)
  <2>1. /\ UNCHANGED <<holders, baseterr>> /\ activeterr' = baseterr
        /\ Erase(Gone({}, dropped, baseterr, holders, called), dropped, notified)
    BY <1>17 DEF TerritoryReturns
  <2>2. \A i \in DOMAIN called : called[i].running = None
    BY <1>17, TerritoryReturned
  <2> HIDE DEF called
  <2>3. HoldsRunning(called)
    BY <2>2, HoldsNone
  <2>4. Erase(Gone({}, dropped, activeterr', holders', called), dropped, notified)
    BY <2>1
  <2> QED BY <2>1, <2>3, <2>4, SweptOrphans
<1>18. CASE CallHolder
  <2>1. /\ UNCHANGED <<holders, baseterr>>
        /\ Erase(Gone({}, dropped, activeterr', holders, calls'), dropped, notified)
    BY <1>18 DEF CallHolder
  <2>2. Erase(Gone({}, dropped, activeterr', holders', calls'), dropped, notified)
    BY <2>1
  <2> QED BY <2>1, <2>2, HoldsAfterwards, SweptOrphans
<1>19. CASE HolderReturns
  <2>1. /\ UNCHANGED <<holders, baseterr>> /\ activeterr' = baseterr
        /\ Erase(Gone({}, dropped, baseterr, holders, calls'), dropped, notified \cup {Running})
    BY <1>19 DEF HolderReturns
  <2>2. Erase(Gone({}, dropped, activeterr', holders', calls'), dropped, notified \cup {Running})
    BY <2>1
  <2> QED BY <2>1, <2>2, HoldsAfterwards, SweptOrphans
<1>20. CASE Notified
  <2>1. /\ UNCHANGED <<dropped, reserveterr, baseterr, activeterr, holders>>
        /\ calls # <<>> /\ Running = None /\ calls' = Tail(calls)
    BY <1>20 DEF Notified, Running, lists
  <2> QED BY <1>0, <2>1 DEF OrphansInv
<1>21. CASE UNCHANGED vars
  BY <1>1, <1>21 DEF vars, lists
<1>22. ASSUME NEW changed \in BOOLEAN, NEW write \in BOOLEAN, CommitTransaction(changed, write)
       PROVE  OrphansInv'
  BY <1>1, <1>22 DEF CommitTransaction, lists
<1>23. CASE Announce \/ PutProperty
  BY <1>10, <1>23 DEF Announce, PutProperty
<1> QED
  BY <1>2, <1>3, <1>4, <1>5, <1>6, <1>7, <1>8, <1>9, <1>11, <1>12, <1>13, <1>14, <1>15, <1>16,
     <1>17, <1>18, <1>19, <1>20, <1>21, <1>22, <1>23, StepCases

(* Erasing takes territories out and lets go of the reserve territory, at  *)
(* most.                                                                   *)
LEMMA EraseShrinks ==
  ASSUME NEW G, NEW orphans, NEW told, Erase(G, orphans, told)
  PROVE  /\ handled' \subseteq handled /\ dropped' \subseteq orphans
         /\ reserveterr' \in {reserveterr, None}
BY DEF Erase, Reserve

(* Steps that change nothing for the handler that runs *)
LEMMA ActiveStays ==
  ASSUME TypeInv, ActiveInv, UNCHANGED <<calls, baseterr, activeterr, agenda>>,
         handled' \subseteq handled, reserveterr' \in {reserveterr, None},
         Running \in Territory \cap dropped' /\ Frame.event # "object" =>
           Running \in {baseterr} \cup holders'
  PROVE  ActiveInv'
<1>1. None \notin handled
  BY SinksAssumption, RangesAreSinks DEF TypeInv, ListsInv
<1> QED BY <1>1, SameCalls DEF ActiveInv

(* Steps after which no handler of a territory runs *)
LEMMA ActiveRests ==
  ASSUME TypeInv, ActiveInv, Running' \notin Territory, baseterr # None, baseterr' = baseterr,
         handled' \subseteq handled, reserveterr' \in {reserveterr, None},
         \/ activeterr' \in {reserveterr, baseterr, None}
         \/ activeterr' = activeterr /\ Running \notin Territory
  PROVE  ActiveInv'
<1>1. None \notin handled
  BY SinksAssumption, RangesAreSinks DEF TypeInv, ListsInv
<1> QED BY <1>1 DEF ActiveInv

(* A considerate handler keeps what its own territory hangs on. *)
LEMMA SparesRunning ==
  ASSUME Undisturbed, TypeInv, NEW s, Spares(s), Running \in Territory, Frame.event # "object"
  PROVE  s # Running
<1>1. calls # <<>>
  BY SinksAssumption DEF Running
<1>2. 1 \in DOMAIN calls /\ calls[1] = Frame /\ Running = Frame.running
  BY <1>1, OneCall, FrameIsCall DEF TypeInv
<1> QED BY <1>2 DEF Spares, Undisturbed

LEMMA ActiveStep ==
  ASSUME Undisturbed, TypeInv, TypeInv', HeldInv, [Next]_vars
  PROVE  ActiveInv'
<1> USE DEF HeldInv
<1>0. /\ AddOn \cap Territory = {} /\ None \notin AddOn \cup Territory
      /\ calls = <<>> => Running = None
      /\ calls' = <<>> => Running' = None
      /\ handled \subseteq Range(allterrs) /\ handled \subseteq Territory
  BY SinksAssumption, RangesAreSinks DEF Running, TypeInv, ListsInv
<1>1. CASE UNCHANGED <<calls, baseterr, activeterr, agenda, dropped, holders, handled, reserveterr>>
  BY <1>1, ActiveStays DEF ActiveInv
<1>2. ASSUME NEW t \in Territory, NEW handler \in BOOLEAN, CreateTerritory(t, handler)
      PROVE  ActiveInv'
  <2>1. t \notin {reserveterr, activeterr} /\ handled' \subseteq handled \cup {t}
    BY <1>2 DEF CreateTerritory, Free
  <2>2. UNCHANGED <<calls, baseterr, activeterr, agenda, dropped, holders, reserveterr>>
    BY <1>2 DEF CreateTerritory
  <2> QED BY <2>1, <2>2, SameCalls DEF ActiveInv
<1>3. ASSUME NEW t \in Territory, NEW a \in AddOn, CreateAddOn(a, t)
      PROVE  ActiveInv'
  <2>1. /\ UNCHANGED <<calls, holders, handled, baseterr, activeterr, agenda>>
        /\ \/ UNCHANGED <<dropped, reserveterr>>
           \/ Free(t) /\ dropped' = dropped \cup {t} /\ reserveterr' = t
    BY <1>3 DEF CreateAddOn
  <2>2. CASE UNCHANGED <<dropped, reserveterr>>
    BY <1>1, <2>1, <2>2
  <2>3. CASE Free(t) /\ dropped' = dropped \cup {t} /\ reserveterr' = t
    <3>1. t \notin handled
      BY <1>0, <2>3, FreeIsNew
    <3>2. t # Running
      <4>1. CASE calls = <<>>
        BY <1>0, <4>1
      <4>2. CASE calls # <<>>
        <5>1. 1 \in DOMAIN calls /\ calls[1].running = Running
          BY <4>2, OneCall, FrameIsCall DEF TypeInv
        <5> QED BY <2>3, <5>1 DEF Free
      <4> QED BY <4>1, <4>2
    <3> QED BY <2>1, <2>3, <3>1, <3>2, SameCalls DEF ActiveInv
  <2> QED BY <2>1, <2>2, <2>3
<1>4. ASSUME NEW t \in Territory, OpenObject(t)
      PROVE  ActiveInv'
  BY <1>4, ActiveStays DEF OpenObject, lists, ActiveInv
<1>5. ASSUME NEW t \in Territory, CloseObject(t)
      PROVE  ActiveInv'
  <2>1. /\ UNCHANGED <<calls, baseterr, activeterr, agenda>> /\ holders' = holders \ {t}
        /\ t \in dropped => Spares(t)
        /\ Erase(Gone({}, dropped, activeterr, holders', calls), dropped, notified)
    BY <1>5 DEF CloseObject
  <2>2. /\ handled' \subseteq handled /\ dropped' \subseteq dropped
        /\ reserveterr' \in {reserveterr, None}
    BY <2>1, EraseShrinks
  <2>3. Running \in Territory \cap dropped' /\ Frame.event # "object" =>
          Running \in {baseterr} \cup holders'
    BY <2>1, <2>2, SparesRunning DEF ActiveInv
  <2> QED BY <2>1, <2>2, <2>3, ActiveStays
<1>6. ASSUME NEW t \in Territory, BeginTransaction(t)
      PROVE  ActiveInv'
  <2>1. /\ calls = <<>> /\ baseterr' = t /\ activeterr' = t
        /\ UNCHANGED <<calls, handled, reserveterr>>
    BY <1>6 DEF BeginTransaction, lists
  <2> QED BY <1>0, <2>1 DEF ActiveInv
<1>7. ASSUME NEW t \in Territory, AbortTransaction(t)
      PROVE  ActiveInv'
  <2>1. /\ calls = <<>> /\ baseterr' = t /\ activeterr' = t /\ UNCHANGED <<calls, reserveterr>>
        /\ handled' \subseteq handled
    BY <1>7 DEF AbortTransaction
  <2> QED BY <1>0, <2>1 DEF ActiveInv
<1>8. ASSUME NEW s \in Sink, Destroy(s)
      PROVE  ActiveInv'
  <2>1. /\ UNCHANGED <<calls, holders, baseterr, activeterr, agenda>>
        /\ Erase(Gone({s}, dropped, activeterr, holders, calls), dropped, notified)
    BY <1>8 DEF Destroy
  <2>2. /\ handled' \subseteq handled /\ dropped' \subseteq dropped
        /\ reserveterr' \in {reserveterr, None}
    BY <2>1, EraseShrinks
  <2> QED BY <2>1, <2>2, ActiveStays DEF ActiveInv
<1>9. ASSUME NEW s \in Sink, Drop(s)
      PROVE  ActiveInv'
  <2> DEFINE orphans == dropped \cup {s}
  <2>1. /\ UNCHANGED <<calls, holders, baseterr, activeterr, agenda>> /\ Spares(s)
        /\ Erase(Gone({}, orphans, activeterr, holders, calls), orphans, notified)
    BY <1>9 DEF Drop
  <2>2. /\ handled' \subseteq handled /\ dropped' \subseteq orphans
        /\ reserveterr' \in {reserveterr, None}
    <3> HIDE DEF orphans
    <3> QED BY <2>1, EraseShrinks
  <2>3. Running \in Territory \cap dropped' /\ Frame.event # "object" =>
          Running \in {baseterr} \cup holders'
    BY <2>1, <2>2, SparesRunning DEF ActiveInv
  <2> QED BY <2>1, <2>2, <2>3, ActiveStays
<1>10. ASSUME NEW event, Notify(event), calls = <<>>, baseterr # None
       PROVE  ActiveInv'
  <2>1. /\ baseterr' = baseterr /\ activeterr' \in {activeterr, reserveterr}
        /\ Erase(Gone({}, dropped, activeterr', holders, calls'), dropped, notified)
    BY <1>10 DEF Notify
  <2>2. Running' = None
    BY <1>10, NotifyRunning
  <2>3. handled' \subseteq handled /\ reserveterr' \in {reserveterr, None}
    BY <2>1, EraseShrinks
  <2> QED BY <1>0, <1>10, <2>1, <2>2, <2>3, ActiveRests
<1>11. CASE EndTransaction
  <2> DEFINE G == {s \in dropped : s \notin holders \cup {reserveterr}}
  <2>1. /\ calls = <<>> /\ Erase(G, dropped, notified) /\ UNCHANGED calls
        /\ baseterr' = None /\ activeterr' = None /\ agenda' = <<>>
    BY <1>11 DEF EndTransaction
  <2>2. handled' \subseteq handled /\ reserveterr' \in {reserveterr, None}
    <3> HIDE DEF G
    <3> QED BY <2>1, EraseShrinks
  <2> QED BY <1>0, <2>1, <2>2 DEF ActiveInv
<1>12. ASSUME calls # <<>> PROVE baseterr # None
  BY <1>12 DEF ActiveInv
<1>13. CASE CallAddOn
  <2>1. UNCHANGED <<handled, reserveterr, baseterr, activeterr>> /\ Running = None /\ calls # <<>>
    BY <1>13 DEF CallAddOn, InLoop, Running, lists
  <2>2. Running' \notin Territory
    BY <1>0, <1>13, AddOnCalled
  <2> QED BY <1>0, <1>12, <2>1, <2>2, ActiveRests
<1>14. CASE AddOnReturns
  <2>1. /\ UNCHANGED <<baseterr, activeterr>> /\ Running \in AddOn /\ calls # <<>>
        /\ calls' = InCall([Frame EXCEPT !.running = None])
        /\ \E told : Erase(Gone({}, dropped, activeterr, holders, calls'), dropped, told)
    BY <1>0, <1>14, Zenon DEF AddOnReturns
  <2>2. handled' \subseteq handled /\ reserveterr' \in {reserveterr, None}
    BY <2>1, EraseShrinks
  <2>3. Running' = None
    BY <2>1, AddOnReturned
  <2> QED BY <1>0, <1>12, <2>1, <2>2, <2>3, ActiveRests
<1>15. CASE AddOnFails
  <2>1. /\ UNCHANGED <<baseterr, activeterr>> /\ calls' = <<>> /\ Running \in AddOn /\ calls # <<>>
        /\ Erase(Gone({}, dropped, activeterr, holders, <<>>), dropped, notified)
    BY <1>0, <1>15 DEF AddOnFails
  <2>2. handled' \subseteq handled /\ reserveterr' \in {reserveterr, None}
    BY <2>1, EraseShrinks
  <2> QED BY <1>0, <1>12, <2>1, <2>2, ActiveRests
<1>16. CASE AddOnsDone
  <2>1. /\ baseterr' = baseterr /\ activeterr' \in {activeterr, baseterr}
        /\ Erase(Gone({}, dropped, activeterr', holders, calls), dropped, notified)
    BY <1>16 DEF AddOnsDone
  <2>2. handled' \subseteq handled /\ reserveterr' \in {reserveterr, None}
    BY <2>1, EraseShrinks
  <2>3. Running = None /\ Running' = None /\ calls # <<>>
    BY <1>16, AddOnsLeft
  <2> QED BY <1>0, <1>12, <2>1, <2>2, <2>3, ActiveRests
<1>17. CASE CallTerritory
  <2>1. /\ UNCHANGED <<holders, baseterr>>
        /\ \E told : Erase(Gone({}, dropped, activeterr', holders, calls'), dropped, told)
    BY <1>17, Zenon DEF CallTerritory
  <2>2. /\ handled' \subseteq handled /\ dropped' \subseteq dropped
        /\ reserveterr' \in {reserveterr, None}
    BY <2>1, EraseShrinks
  <2>3. Running = None /\ calls # <<>> /\ calls' # <<>> /\ Frame'.event # "object"
    BY <1>17, TerritoryCalled
  <2>4. CASE Running' = None /\ UNCHANGED activeterr
    BY <1>0, <1>12, <2>1, <2>2, <2>3, <2>4, ActiveRests
  <2>5. CASE Running' = Frame.next /\ Frame.next \in handled /\ activeterr' = Frame.next
    <3>1. Frame.next \in Territory /\ baseterr # None /\ None \notin handled
      BY <1>0, <1>12, <2>3, <2>5
    <3>2. Frame.next \in dropped => Frame.next \in {baseterr} \cup holders
      BY <1>0, <2>3, <2>5, <3>1 DEF OrphansInv, ActiveInv
    <3> QED BY <2>1, <2>2, <2>3, <2>5, <3>1, <3>2 DEF ActiveInv
  <2> QED BY <1>17, <2>4, <2>5, TerritoryCalled
<1>18. CASE TerritoryReturns
  <2>1. /\ baseterr' = baseterr /\ activeterr' = baseterr
        /\ \E G : Erase(G, dropped, notified)
    BY <1>18, Zenon DEF TerritoryReturns
  <2>2. handled' \subseteq handled /\ reserveterr' \in {reserveterr, None}
    BY <2>1, EraseShrinks
  <2>3. Running' = None /\ calls # <<>>
    BY <1>18, TerritoryReturned
  <2> QED BY <1>0, <1>12, <2>1, <2>2, <2>3, ActiveRests
<1>19. CASE CallHolder
  <2>1. /\ UNCHANGED <<holders, baseterr>>
        /\ Erase(Gone({}, dropped, activeterr', holders, calls'), dropped, notified)
    BY <1>19 DEF CallHolder
  <2>2. handled' \subseteq handled /\ reserveterr' \in {reserveterr, None}
    BY <2>1, EraseShrinks
  <2>3. Running = None /\ calls # <<>> /\ calls' # <<>> /\ Frame'.event = "object"
    BY <1>19, HolderCalled
  <2>4. CASE Running' = None /\ UNCHANGED activeterr
    BY <1>0, <1>12, <2>1, <2>2, <2>3, <2>4, ActiveRests
  <2>5. CASE Running' = Frame.next /\ activeterr' = Frame.next
    <3>1. Frame.next \in Territory /\ baseterr # None /\ None \notin handled
      BY <1>0, <1>12, <1>19, <2>3, HolderCalled DEF TypeInv, OthersInv
    <3> QED BY <2>1, <2>2, <2>3, <2>5, <3>1 DEF ActiveInv
  <2> QED BY <1>19, <2>4, <2>5, HolderCalled
<1>20. CASE HolderReturns
  <2>1. /\ baseterr' = baseterr /\ activeterr' = baseterr
        /\ Erase(Gone({}, dropped, baseterr, holders, calls'), dropped, notified \cup {Running})
    BY <1>20 DEF HolderReturns
  <2>2. handled' \subseteq handled /\ reserveterr' \in {reserveterr, None}
    BY <2>1, EraseShrinks
  <2>3. Running' = None /\ calls # <<>>
    BY <1>20, HolderReturned
  <2> QED BY <1>0, <1>12, <2>1, <2>2, <2>3, ActiveRests
<1>21. CASE Notified
  <2>1. /\ UNCHANGED <<handled, reserveterr, baseterr, activeterr>>
        /\ calls # <<>> /\ Running = None /\ calls' = Tail(calls)
    BY <1>21 DEF Notified, Running, lists
  <2>2. calls' = <<>>
    <3>1. Len(calls) = 1 /\ calls \in Seq(Call)
      BY <2>1, OneCall DEF TypeInv, CallsInv
    <3> QED BY <2>1, <3>1
  <2> QED BY <1>0, <1>12, <2>1, <2>2, ActiveRests
<1>22. CASE UNCHANGED vars
  BY <1>1, <1>22 DEF vars, lists
<1>23. ASSUME NEW changed \in BOOLEAN, NEW write \in BOOLEAN, CommitTransaction(changed, write)
       PROVE  ActiveInv'
  <2>1. baseterr # None /\ UNCHANGED <<calls, baseterr, activeterr, dropped, holders, handled, reserveterr>>
    BY <1>23 DEF CommitTransaction, lists
  <2> QED BY <2>1, SameCalls DEF ActiveInv
<1>24. CASE Announce \/ PutProperty
  <2>1. calls = <<>>
    <3>1. CASE PutProperty
      <4>1. Len(calls) < 1 /\ calls \in Seq(Call)
        BY <3>1 DEF PutProperty, Undisturbed, TypeInv, CallsInv
      <4>2. calls # <<>> => Len(calls) \in Nat \ {0}
        BY <4>1, EmptySeq
      <4> QED BY <4>1, <4>2
    <3> QED BY <1>24, <3>1 DEF Announce
  <2>2. baseterr # None
    BY <1>24 DEF Announce, PutProperty, ActiveInv
  <2> QED BY <1>10, <1>24, <2>1, <2>2 DEF Announce, PutProperty
<1> QED
  BY <1>2, <1>3, <1>4, <1>5, <1>6, <1>7, <1>8, <1>9, <1>11, <1>13, <1>14, <1>15, <1>16, <1>17,
     <1>18, <1>19, <1>20, <1>21, <1>22, <1>23, <1>24, StepCases

-----------------------------------------------------------------------------
(* Where the loops are *)

\* A loop over a list has reached those sinks from its beginning that come
\* before its iterator; what is new in the list has come in before them.
StandsIn(call, list) ==
  /\ call.reached \subseteq call.start
  /\ call.next # End => call.next \in (call.start \cap Range(list)) \ call.reached
  /\ \A s \in call.start \cap Range(list) :
       s \in call.reached <=> call.next = End \/ Before(list, s, call.next)
  /\ call.next # End => \A s \in Range(list) \ call.start : Before(list, s, call.next)

\* The loop over the holders of the object: those that have gone have been
\* reached.
StandsAmong(call, set) ==
  /\ call.next # End => call.next \in set \ call.reached
  /\ call.start \subseteq set \cup call.reached
  /\ call.next = End => call.start \subseteq call.reached

WalkInv == calls # <<>> =>
  /\ Frame.phase = "addons" =>
       StandsIn(Frame, alladdons) /\ Running \in Frame.reached \cup {None}
  /\ Frame.phase = "territories" /\ Frame.event # "object" => StandsIn(Frame, allterrs)
  /\ Frame.phase = "territories" /\ Frame.event = "object" =>
       StandsAmong(Frame, holders) /\ Running \in Frame.reached \cup {None}

LEMMA StandsAfterErasing ==
  ASSUME NEW T, NEW list \in Seq(T), NEW call, StandsIn(call, list), NEW G,
         call.next = End \/ call.next \notin G, NEW shorter, shorter = Without(list, G)
  PROVE  StandsIn(call, shorter)
<1>1. /\ Range(shorter) = Range(list) \ G
      /\ \A s, t : Before(shorter, s, t) <=> Before(list, s, t) /\ s \notin G /\ t \notin G
  BY WithoutKeeps
<1> QED BY <1>1 DEF StandsIn

LEMMA StandsWithNew ==
  ASSUME NEW T, NEW list \in Seq(T), NEW call, StandsIn(call, list),
         NEW x \in T \ Range(list), x \notin call.start, NEW longer, longer = InFront(x, list)
  PROVE  StandsIn(call, longer)
<1>1. /\ longer \in Seq(T) /\ longer # <<>>
      /\ Range(longer) = Range(list) \cup {x}
      /\ IsInjective(list) => IsInjective(longer)
      /\ \A s, t : Before(longer, s, t) <=> Before(list, s, t) \/ (s = x /\ t \in Range(list))
  BY InFrontOfList
<1> QED BY <1>1 DEF StandsIn

LEMMA StandsAtFirst ==
  ASSUME NEW T, End \notin T, NEW list \in Seq(T), IsInjective(list), NEW call,
         call.next = First(list), call.start = Range(list), call.reached = {}
  PROVE  StandsIn(call, list)
<1>1. CASE list = <<>>
  BY <1>1, FirstOfList DEF StandsIn
<1>2. CASE list # <<>>
  <2>1. /\ First(list) \in Range(list) /\ First(list) # End
        /\ \A t \in Range(list) : t = First(list) \/ Before(list, First(list), t)
    <3>1. Range(list) \subseteq T
      BY DEF Range
    <3> QED BY <1>2, <3>1, FirstOfList
  <2>2. \A s \in Range(list) : ~Before(list, s, First(list))
    BY <2>1, BeforeOrders
  <2> QED BY <2>1, <2>2 DEF StandsIn
<1> QED BY <1>1, <1>2

LEMMA StandsOnward ==
  ASSUME NEW T, End \notin T, NEW list \in Seq(T), IsInjective(list), NEW call, StandsIn(call, list),
         call.next # End, NEW moved, moved.next = After(list, call.next),
         moved.start = call.start, moved.reached = call.reached \cup {call.next}
  PROVE  StandsIn(moved, list)
<1>1. call.next \in Range(list) /\ call.next \in call.start \ call.reached
  BY DEF StandsIn
<1>2. Range(list) \subseteq T
  BY DEF Range
<1>3. CASE /\ After(list, call.next) = End
           /\ \A t \in Range(list) : t = call.next \/ Before(list, t, call.next)
  BY <1>1, <1>3 DEF StandsIn
<1>4. CASE /\ After(list, call.next) \in Range(list) /\ After(list, call.next) # call.next
           /\ \A t \in Range(list) :
                Before(list, t, After(list, call.next)) <=> t = call.next \/ Before(list, t, call.next)
  <2> DEFINE n == After(list, call.next)
  <2>1. n \in Range(list) /\ n # call.next /\ n # End /\ Before(list, call.next, n)
    BY <1>1, <1>2, <1>4
  <2>2. n \notin call.reached
    <3>1. Before(list, n, call.next) => FALSE
      BY <1>1, <2>1, BeforeOrders
    <3> QED BY <2>1, <3>1 DEF StandsIn
  <2>3. n \in call.start
    BY <1>1, <2>1, BeforeOrders DEF StandsIn
  <2> QED BY <1>1, <1>4, <2>1, <2>2, <2>3 DEF StandsIn
<1> QED BY <1>1, <1>3, <1>4, AfterInList

(* Handlers move no iterator. *)
LEMMA SameWalk ==
  ASSUME WalkInv, UNCHANGED calls,
         StandsIn(Frame, alladdons) /\ Running \in Frame.reached \cup {None} /\ Frame.phase = "addons"
           => StandsIn(Frame, alladdons'),
         StandsIn(Frame, allterrs) /\ Frame.phase = "territories" /\ Frame.event # "object"
           => StandsIn(Frame, allterrs'),
         StandsAmong(Frame, holders) /\ Running \in Frame.reached \cup {None}
             /\ calls # <<>> /\ Frame.phase = "territories" /\ Frame.event = "object"
           => StandsAmong(Frame, holders')
  PROVE  WalkInv'
BY SameCalls DEF WalkInv

LEMMA HoldersGrow ==
  ASSUME NEW call, NEW set, NEW larger, set \subseteq larger, StandsAmong(call, set)
  PROVE  StandsAmong(call, larger)
BY DEF StandsAmong

(* What is released while a handler runs, or by the loop itself, is not    *)
(* where the loop stands: no other add-on than the one that runs, and not  *)
(* the territory that is being called.                                     *)
LEMMA AddOnsBehindStay ==
  ASSUME TypeInv, HeldInv, calls # <<>>, Frame.phase = "addons", StandsIn(Frame, alladdons),
         Running \in Frame.reached \cup {None}, Frame.next # End,
         NEW S, S \cap AddOn \subseteq {Running}, NEW orphans, orphans \subseteq dropped \cup {Running} \cup Territory,
         NEW active, NEW interfaces, NEW called
  PROVE  Frame.next \notin Gone(S, orphans, active, interfaces, called)
<1>1. Frame.next \in AddOn /\ Frame.next \notin Frame.reached /\ Frame.next # Running
  BY RangesAreSinks, SinksAssumption DEF StandsIn, TypeInv
<1>2. Frame.next \notin S /\ Frame.next \notin orphans
  BY <1>1, SinksAssumption DEF HeldInv, OrphansInv
<1> QED BY <1>1, <1>2 DEF Gone

LEMMA TerritoryCalledStays ==
  ASSUME TypeInv, HeldInv, Running \in Territory, Frame.next = Running,
         NEW S, Running \notin S, NEW orphans, NEW interfaces, NEW called
  PROVE  Frame.next \notin Gone(S, orphans, activeterr, interfaces, called)
<1>1. activeterr = Running /\ Running \notin AddOn
  BY SinksAssumption DEF HeldInv, ActiveInv
<1> QED BY <1>1 DEF Gone, Held

(* Between the handlers nothing is left that only waits to be released.    *)
LEMMA NothingToRelease ==
  ASSUME TypeInv, HeldInv, Running = None, NEW called
  PROVE  Gone({}, dropped, activeterr, holders, called) = {}
<1> DEFINE D == {a \in dropped \cap AddOn : ~Held(a, None, activeterr, holders, called)}
<1>1. dropped \cap AddOn = {} /\ dropped \subseteq Territory
  BY RangesAreSinks, SinksAssumption DEF HeldInv, OrphansInv, TypeInv, ListsInv
<1>2. D = {}
  BY <1>1
<1>3. Reserve({}) = reserveterr
  BY ReserveStays DEF TypeInv
<1>4. \A t \in dropped : Held(t, Reserve({}), activeterr, holders, called)
  BY <1>1, <1>3, SinksAssumption DEF HeldInv, OrphansInv, Held
<1> QED BY <1>1, <1>2, <1>4 DEF Gone

LEMMA RunsAddOn ==
  ASSUME TypeInv, calls # <<>>, Running # None
  PROVE  /\ Frame.phase = "addons" => Running \in AddOn
         /\ Frame.phase = "territories" => Running \in Territory
         /\ Frame.phase = "territories" /\ Frame.event # "object" => Frame.next = Running
BY FrameIsCall DEF RunsItsOwn, TypeInv

(* A handler that destroys or releases s leaves the loops alone. *)
LEMMA ReleaseWalk ==
  ASSUME Undisturbed, TypeInv, HeldInv, WalkInv, MayAct, NEW s \in Sink, Spares(s),
         UNCHANGED <<calls, holders>>,
         NEW S, NEW orphans, NEW told, S \subseteq {s}, orphans \subseteq dropped \cup {s},
         Erase(Gone(S, orphans, activeterr, holders, calls), orphans, told)
  PROVE  WalkInv'
<1> DEFINE G == Gone(S, orphans, activeterr, holders, calls)
<1>0. alladdons' = Without(alladdons, G) /\ allterrs' = Without(allterrs, G)
  BY DEF Erase
<1>1. CASE calls = <<>>
  BY <1>1 DEF WalkInv
<1>2. CASE calls # <<>>
  <2>1. Running # None
    BY <1>2 DEF MayAct
  <2>2. 1 \in DOMAIN calls /\ calls[1] = Frame /\ Frame.running = Running
    BY <1>2, OneCall, FrameIsCall DEF TypeInv
  <2>3. /\ Frame.phase = "addons" /\ s \in AddOn => s = Running
        /\ Frame.event # "object" => s \notin {Running} \cap Territory
    BY <2>2 DEF Spares, Undisturbed
  <2>4. AddOn \cap Territory = {} /\ Sink = AddOn \cup Territory /\ dropped \subseteq Sink
    BY SinksAssumption, RangesAreSinks DEF Sink, TypeInv, ListsInv
  <2>5. ASSUME StandsIn(Frame, alladdons), Running \in Frame.reached \cup {None},
               Frame.phase = "addons"
        PROVE  StandsIn(Frame, alladdons')
    <3>1. S \cap AddOn \subseteq {Running} /\ orphans \subseteq dropped \cup {Running} \cup Territory
      BY <2>3, <2>4, <2>5
    <3>2. Frame.next = End \/ Frame.next \notin G
      BY <1>2, <2>5, <3>1, AddOnsBehindStay
    <3> HIDE DEF G
    <3> QED BY <1>0, <2>5, <3>2, StandsAfterErasing DEF TypeInv, ListsInv
  <2>6. ASSUME StandsIn(Frame, allterrs), Frame.phase = "territories", Frame.event # "object"
        PROVE  StandsIn(Frame, allterrs')
    <3>1. Running \in Territory /\ Frame.next = Running
      BY <1>2, <2>1, <2>6, RunsAddOn
    <3>2. Running \notin S
      BY <2>3, <2>6, <3>1
    <3>3. Frame.next \notin G
      BY <3>1, <3>2, TerritoryCalledStays
    <3> HIDE DEF G
    <3> QED BY <1>0, <2>6, <3>3, StandsAfterErasing DEF TypeInv, ListsInv
  <2> QED BY <2>5, <2>6, SameWalk
<1> QED BY <1>1, <1>2

(* The interface of an object is released: while its holders are called, by*)
(* the one that is called only.                                            *)
LEMMA CloseWalk ==
  ASSUME Undisturbed, TypeInv, HeldInv, WalkInv, NEW t \in Territory, CloseObject(t)
  PROVE  WalkInv'
<1> DEFINE G == Gone({}, dropped, activeterr, holders', calls)
<1>0. /\ alladdons' = Without(alladdons, G) /\ allterrs' = Without(allterrs, G)
      /\ holders' = holders \ {t} /\ MayAct /\ UNCHANGED calls
  BY DEF Erase, CloseObject
<1>1. CASE calls = <<>>
  BY <1>0, <1>1 DEF WalkInv
<1>2. CASE calls # <<>>
  <2>1. Running # None
    BY <1>0, <1>2 DEF MayAct
  <2>2. 1 \in DOMAIN calls /\ calls[1] = Frame /\ Frame.running = Running
    BY <1>2, OneCall, FrameIsCall DEF TypeInv
  <2>3. Frame.phase = "territories" /\ Frame.event = "object" => t = Running
    BY <2>2 DEF CloseObject, Undisturbed
  <2>5. ASSUME StandsIn(Frame, alladdons), Running \in Frame.reached \cup {None},
               Frame.phase = "addons"
        PROVE  StandsIn(Frame, alladdons')
    <3>1. {} \cap AddOn \subseteq {Running} /\ dropped \subseteq dropped \cup {Running} \cup Territory
      OBVIOUS
    <3>2. Frame.next = End \/ Frame.next \notin G
      BY <1>2, <2>5, <3>1, AddOnsBehindStay
    <3> HIDE DEF G
    <3> QED BY <1>0, <2>5, <3>2, StandsAfterErasing DEF TypeInv, ListsInv
  <2>6. ASSUME StandsIn(Frame, allterrs), Frame.phase = "territories", Frame.event # "object"
        PROVE  StandsIn(Frame, allterrs')
    <3>1. Running \in Territory /\ Frame.next = Running /\ Running \notin {}
      BY <1>2, <2>1, <2>6, RunsAddOn
    <3>2. Frame.next \notin G
      BY <3>1, TerritoryCalledStays
    <3> HIDE DEF G
    <3> QED BY <1>0, <2>6, <3>2, StandsAfterErasing DEF TypeInv, ListsInv
  <2>7. ASSUME StandsAmong(Frame, holders), Running \in Frame.reached \cup {None},
               Frame.phase = "territories", Frame.event = "object"
        PROVE  StandsAmong(Frame, holders')
    BY <1>0, <2>1, <2>3, <2>7 DEF StandsAmong
  <2> HIDE DEF G
  <2> QED BY <1>0, <2>5, <2>6, <2>7, SameWalk
<1> QED BY <1>1, <1>2

LEMMA CreateWalk ==
  ASSUME Undisturbed, TypeInv, WalkInv, UNCHANGED <<calls, holders>>,
         \/ UNCHANGED alladdons
         \/ \E a \in AddOn : Free(a) /\ alladdons' = InFront(a, alladdons),
         \/ UNCHANGED allterrs
         \/ \E t \in Territory : Free(t) /\ allterrs' = InFront(t, allterrs)
  PROVE  WalkInv'
<1>1. CASE calls = <<>>
  BY <1>1 DEF WalkInv
<1>2. CASE calls # <<>>
  <2>1. 1 \in DOMAIN calls /\ calls[1] = Frame
    BY <1>2, OneCall DEF TypeInv
  <2>2. \A s : Free(s) => s \notin Frame.start /\ s \notin Range(alladdons) \cup Range(allterrs)
    BY <2>1 DEF Free
  <2>3. ASSUME StandsIn(Frame, alladdons) PROVE StandsIn(Frame, alladdons')
    <3>1. CASE UNCHANGED alladdons
      BY <2>3, <3>1
    <3>2. ASSUME NEW a \in AddOn, Free(a), alladdons' = InFront(a, alladdons)
          PROVE  StandsIn(Frame, alladdons')
      <4>1. a \in AddOn \ Range(alladdons) /\ a \notin Frame.start
        BY <2>2, <3>2
      <4> QED BY <2>3, <3>2, <4>1, StandsWithNew DEF TypeInv, ListsInv
    <3> QED BY <3>1, <3>2
  <2>4. ASSUME StandsIn(Frame, allterrs) PROVE StandsIn(Frame, allterrs')
    <3>1. CASE UNCHANGED allterrs
      BY <2>4, <3>1
    <3>2. ASSUME NEW t \in Territory, Free(t), allterrs' = InFront(t, allterrs)
          PROVE  StandsIn(Frame, allterrs')
      <4>1. t \in Territory \ Range(allterrs) /\ t \notin Frame.start
        BY <2>2, <3>2
      <4> QED BY <2>4, <3>2, <4>1, StandsWithNew DEF TypeInv, ListsInv
    <3> QED BY <3>1, <3>2
  <2> QED BY <2>3, <2>4, SameWalk
<1> QED BY <1>1, <1>2

(* A loop begins at the first add-on of those that are there.              *)
LEMMA NotifyWalk ==
  ASSUME TypeInv, HeldInv, calls = <<>>, NEW event, Notify(event)
  PROVE  WalkInv'
<1> DEFINE G == Gone({}, dropped, activeterr', holders, calls')
<1>1. alladdons' = Without(alladdons, G)
  BY DEF Notify, Erase
<1>2. /\ Running' = None /\ Frame'.phase = "addons" /\ Frame'.next = First(alladdons)
      /\ Frame'.start = Range(alladdons) /\ Frame'.reached = {}
  BY NotifyRunning
<1>3. StandsIn(Frame', alladdons)
  BY <1>2, StandsAtFirst, SinksAssumption DEF TypeInv, ListsInv
<1>4. G \cap AddOn = {}
  <2>1. dropped \cap AddOn = {}
    BY SinksAssumption DEF HeldInv, OrphansInv, Running
  <2> QED BY <2>1 DEF Gone
<1>5. Frame'.next = End \/ Frame'.next \notin G
  <2> HIDE DEF G
  <2> QED BY <1>3, <1>4, RangesAreSinks DEF StandsIn, TypeInv
<1> HIDE DEF G
<1>6. StandsIn(Frame', alladdons')
  BY <1>1, <1>3, <1>5, StandsAfterErasing DEF TypeInv, ListsInv
<1> QED BY <1>2, <1>6 DEF WalkInv

LEMMA CallAddOnWalk ==
  ASSUME TypeInv, WalkInv, CallAddOn
  PROVE  WalkInv'
<1>1. /\ calls # <<>> /\ Frame.phase = "addons" /\ UNCHANGED alladdons /\ Frame.next \in Range(alladdons)
  BY DEF CallAddOn, InLoop, Walked, lists
<1>2. /\ Running' = Frame.next \/ Running' = None
      /\ Frame'.phase = "addons" /\ Frame'.next = After(alladdons, Frame.next)
      /\ Frame'.start = Frame.start /\ Frame'.reached = Frame.reached \cup {Frame.next}
  BY AddOnCalled
<1>3. StandsIn(Frame, alladdons) /\ Frame.next # End
  BY <1>1, RangesAreSinks, SinksAssumption DEF WalkInv, TypeInv
<1>4. StandsIn(Frame', alladdons)
  BY <1>2, <1>3, StandsOnward, SinksAssumption DEF TypeInv, ListsInv
<1> QED BY <1>1, <1>2, <1>4 DEF WalkInv

LEMMA AddOnReturnsWalk ==
  ASSUME TypeInv, HeldInv, WalkInv, AddOnReturns
  PROVE  WalkInv'
<1> DEFINE G == Gone({}, dropped, activeterr, holders, calls')
<1>1. /\ Running \in AddOn /\ calls' = InCall([Frame EXCEPT !.running = None])
      /\ alladdons' = Without(alladdons, G)
  BY DEF AddOnReturns, Erase
<1>2. calls # <<>> /\ Running # None
  BY <1>1, SinksAssumption DEF Running
<1>3. Frame.phase = "addons"
  BY <1>1, <1>2, FrameIsCall, RunsAddOn, SinksAssumption DEF TypeInv, Call
<1>4. StandsIn(Frame, alladdons) /\ Running \in Frame.reached \cup {None}
  BY <1>2, <1>3 DEF WalkInv
<1>5. Frame.next = End \/ Frame.next \notin G
  <2>1. {} \cap AddOn \subseteq {Running} /\ dropped \subseteq dropped \cup {Running} \cup Territory
    OBVIOUS
  <2> QED BY <1>2, <1>3, <1>4, <2>1, AddOnsBehindStay
<1> HIDE DEF G
<1>6. StandsIn(Frame, alladdons')
  BY <1>1, <1>4, <1>5, StandsAfterErasing DEF TypeInv, ListsInv
<1>7. /\ Running' = None /\ Frame'.phase = Frame.phase /\ Frame'.next = Frame.next
      /\ Frame'.start = Frame.start /\ Frame'.reached = Frame.reached
  BY <1>1, <1>2, AddOnReturned
<1>8. StandsIn(Frame', alladdons')
  BY <1>6, <1>7 DEF StandsIn
<1> QED BY <1>3, <1>7, <1>8 DEF WalkInv

LEMMA AddOnsDoneWalk ==
  ASSUME TypeInv, AddOnsDone
  PROVE  WalkInv'
<1> DEFINE G == Gone({}, dropped, activeterr', holders, calls)
           terrs == Without(allterrs, G)
<1>1. allterrs' = terrs /\ holders' = holders
  BY DEF AddOnsDone, Erase
<1>2. /\ Running' = None /\ Frame'.event = Frame.event /\ Frame'.phase = "territories"
      /\ Frame'.reached = {}
      /\ IF Frame.event = "object"
         THEN Frame'.next \in NextHolder(holders) /\ Frame'.start = holders
         ELSE Frame'.next = First(terrs) /\ Frame'.start = Range(terrs)
  BY AddOnsLeft
<1>3. terrs \in Seq(Territory) /\ IsInjective(terrs)
  BY WithoutKeeps DEF TypeInv, ListsInv
<1> HIDE DEF terrs
<1>4. CASE Frame.event = "object"
  <2>1. End \notin holders
    BY SinksAssumption DEF TypeInv, OthersInv
  <2>2. /\ Frame'.next \in holders \cup {End} /\ Frame'.start = holders /\ Frame'.reached = {}
        /\ Frame'.next = End => holders = {}
    BY <1>2, <1>4, <2>1 DEF NextHolder
  <2>3. StandsAmong(Frame', holders)
    BY <2>1, <2>2 DEF StandsAmong
  <2> QED BY <1>1, <1>2, <1>4, <2>3 DEF WalkInv
<1>5. CASE Frame.event # "object"
  <2>1. StandsIn(Frame', terrs)
    BY <1>2, <1>3, <1>5, StandsAtFirst, SinksAssumption
  <2> QED BY <1>1, <1>2, <1>5, <2>1 DEF WalkInv
<1> QED BY <1>4, <1>5

LEMMA CallTerritoryWalk ==
  ASSUME TypeInv, HeldInv, WalkInv, CallTerritory
  PROVE  WalkInv'
<1> DEFINE G == Gone({}, dropped, activeterr', holders, calls')
<1>1. allterrs' = Without(allterrs, G)
  BY DEF CallTerritory, Erase
<1>2. /\ Running = None /\ calls # <<>> /\ Frame.event # "object"
      /\ Frame.phase = "territories" /\ Frame.next \in Range(allterrs)
      /\ Frame'.event = Frame.event /\ Frame'.phase = "territories" /\ Frame'.start = Frame.start
  BY TerritoryCalled
<1>3. StandsIn(Frame, allterrs) /\ Frame.next # End /\ Frame.next \in Territory
  BY <1>2, RangesAreSinks, SinksAssumption DEF WalkInv, TypeInv
<1>4. CASE /\ UNCHANGED activeterr
           /\ Frame'.next = After(allterrs, Frame.next)
           /\ Frame'.reached = Frame.reached \cup {Frame.next}
  <2>1. StandsIn(Frame', allterrs)
    BY <1>2, <1>3, <1>4, StandsOnward, SinksAssumption DEF TypeInv, ListsInv
  <2>2. G = {}
    BY <1>2, <1>4, NothingToRelease
  <2> HIDE DEF G
  <2>3. StandsIn(Frame', allterrs')
    BY <1>1, <2>1, <2>2, StandsAfterErasing DEF TypeInv, ListsInv
  <2> QED BY <1>2, <2>3 DEF WalkInv
<1>5. CASE /\ activeterr' = Frame.next
           /\ Frame'.next = Frame.next /\ Frame'.reached = Frame.reached
  <2>1. Frame.next \notin G
    BY <1>3, <1>5, SinksAssumption DEF Gone, Held
  <2> HIDE DEF G
  <2>2. StandsIn(Frame, allterrs')
    BY <1>1, <1>3, <2>1, StandsAfterErasing DEF TypeInv, ListsInv
  <2>3. StandsIn(Frame', allterrs')
    BY <1>2, <1>5, <2>2 DEF StandsIn
  <2> QED BY <1>2, <2>3 DEF WalkInv
<1> QED BY <1>4, <1>5, TerritoryCalled

LEMMA TerritoryReturnsWalk ==
  ASSUME Undisturbed, TypeInv, HeldInv, WalkInv, TerritoryReturns
  PROVE  WalkInv'
<1> DEFINE left == [Frame EXCEPT !.running = None, !.terr = None]
           called == InCall(left)
           G == Gone({}, dropped, baseterr, holders, called)
           terrs == Without(allterrs, G)
<1>1. allterrs' = terrs /\ Running \in Territory
  BY DEF TerritoryReturns, Erase
<1>2. /\ Running' = None /\ calls # <<>>
      /\ Frame.phase = "territories" /\ Frame.event # "object" /\ Frame.next = Running
      /\ Frame'.event = Frame.event /\ Frame'.phase = "territories" /\ Frame'.start = Frame.start
      /\ IF Running \in Range(terrs)
         THEN /\ Frame'.next = After(terrs, Frame.next)
              /\ Frame'.reached = Frame.reached \cup {Frame.next}
         ELSE Frame'.next = Frame.next /\ Frame'.reached = Frame.reached
  BY TerritoryReturned
<1>3. StandsIn(Frame, allterrs) /\ Frame.next # End
  BY <1>1, <1>2, SinksAssumption DEF WalkInv
<1>4. Frame.next \notin G
  <2>1. Running \in dropped => Held(Running, Reserve({}), baseterr, holders, called)
    BY <1>1, <1>2 DEF HeldInv, ActiveInv, Held
  <2>2. \A R : Running \in dropped => Held(Running, R, baseterr, holders, called)
    BY <1>1, <1>2 DEF HeldInv, ActiveInv, Held
  <2> QED BY <1>1, <1>2, <2>2, SinksAssumption DEF Gone
<1>5. terrs \in Seq(Territory) /\ IsInjective(terrs) /\ StandsIn(Frame, terrs)
  <2>1. terrs \in Seq(Territory) /\ IsInjective(terrs)
    BY WithoutKeeps DEF TypeInv, ListsInv
  <2> HIDE DEF G
  <2>2. StandsIn(Frame, terrs)
    BY <1>3, <1>4, StandsAfterErasing DEF TypeInv, ListsInv
  <2> QED BY <2>1, <2>2
<1> HIDE DEF terrs
<1>6. Running \in Range(terrs)
  BY <1>2, <1>3, <1>5 DEF StandsIn
<1>7. StandsIn(Frame', terrs)
  BY <1>2, <1>3, <1>5, <1>6, StandsOnward, SinksAssumption
<1> QED BY <1>1, <1>2, <1>7 DEF WalkInv

LEMMA CallHolderWalk ==
  ASSUME TypeInv, WalkInv, CallHolder
  PROVE  WalkInv'
<1>1. /\ calls # <<>> /\ Frame.event = "object" /\ Frame.phase = "territories"
      /\ Frame'.event = "object" /\ Frame'.phase = "territories" /\ Frame'.start = Frame.start
      /\ Frame'.reached = Frame.reached \cup {Frame.next}
      /\ Frame'.next \in NextHolder((holders \cap Frame.start) \ Frame'.reached)
      /\ Running' = None \/ Running' = Frame.next
  BY HolderCalled
<1>2. StandsAmong(Frame, holders) /\ holders' = holders
  BY <1>1 DEF WalkInv, CallHolder
<1>3. StandsAmong(Frame', holders')
  <2>1. End \notin holders
    BY SinksAssumption DEF TypeInv, OthersInv
  <2> DEFINE left == (holders \cap Frame.start) \ Frame'.reached
  <2>2. Frame'.next \in NextHolder(left)
    BY <1>1
  <2>3. CASE left = {}
    <3>1. Frame'.next = End /\ holders \cap Frame.start \subseteq Frame'.reached
      BY <2>2, <2>3 DEF NextHolder
    <3>2. Frame.start \subseteq Frame'.reached
      BY <1>1, <1>2, <3>1 DEF StandsAmong
    <3> QED BY <1>1, <1>2, <3>1, <3>2 DEF StandsAmong
  <2>4. CASE left # {}
    <3>1. Frame'.next \in holders \ Frame'.reached /\ Frame'.next # End
      BY <2>1, <2>2, <2>4 DEF NextHolder
    <3>2. Frame.start \subseteq holders \cup Frame'.reached
      BY <1>1, <1>2 DEF StandsAmong
    <3> QED BY <1>1, <1>2, <3>1, <3>2 DEF StandsAmong
  <2> QED BY <2>3, <2>4
<1> QED BY <1>1, <1>3 DEF WalkInv

LEMMA HolderReturnsWalk ==
  ASSUME TypeInv, WalkInv, HolderReturns
  PROVE  WalkInv'
<1>1. /\ Running' = None /\ calls # <<>> /\ Frame.phase = "territories"
      /\ Frame'.event = Frame.event /\ Frame'.phase = Frame.phase /\ Frame'.next = Frame.next
      /\ Frame'.start = Frame.start /\ Frame'.reached = Frame.reached
  BY HolderReturned
<1>2. Frame.event = "object" /\ holders' = holders
  BY DEF HolderReturns
<1>3. StandsAmong(Frame', holders')
  BY <1>1, <1>2 DEF WalkInv, StandsAmong
<1> QED BY <1>1, <1>2, <1>3 DEF WalkInv

LEMMA WalkStep ==
  ASSUME Undisturbed, TypeInv, HeldInv, WalkInv, [Next]_vars
  PROVE  WalkInv'
<1>1. ASSUME NEW t \in Territory, NEW handler \in BOOLEAN, CreateTerritory(t, handler)
      PROVE  WalkInv'
  BY <1>1, CreateWalk DEF CreateTerritory, InFront
<1>2. ASSUME NEW t \in Territory, NEW a \in AddOn, CreateAddOn(a, t)
      PROVE  WalkInv'
  <2>1. UNCHANGED <<calls, holders>> /\ Free(a) /\ alladdons' = InFront(a, alladdons)
    BY <1>2 DEF CreateAddOn, InFront
  <2>2. UNCHANGED allterrs \/ (Free(t) /\ allterrs' = InFront(t, allterrs))
    BY <1>2 DEF CreateAddOn, InFront
  <2> QED BY <2>1, <2>2, CreateWalk
<1>3. ASSUME NEW t \in Territory, OpenObject(t)
      PROVE  WalkInv'
  <2>1. UNCHANGED <<calls, alladdons, allterrs>> /\ holders \subseteq holders'
    BY <1>3 DEF OpenObject, lists
  <2> QED BY <2>1, HoldersGrow, SameWalk
<1>4. ASSUME NEW t \in Territory, BeginTransaction(t) \/ AbortTransaction(t)
      PROVE  WalkInv'
  BY <1>4 DEF BeginTransaction, AbortTransaction, WalkInv
<1>5. ASSUME NEW s \in Sink, Destroy(s)
      PROVE  WalkInv'
  <2>1. /\ MayAct /\ Spares(s) /\ UNCHANGED <<calls, holders>>
        /\ Erase(Gone({s}, dropped, activeterr, holders, calls), dropped, notified)
    BY <1>5 DEF Destroy
  <2> QED BY <2>1, ReleaseWalk
<1>6. ASSUME NEW s \in Sink, Drop(s)
      PROVE  WalkInv'
  <2> DEFINE orphans == dropped \cup {s}
  <2>1. /\ MayAct /\ Spares(s) /\ UNCHANGED <<calls, holders>>
        /\ Erase(Gone({}, orphans, activeterr, holders, calls), orphans, notified)
    BY <1>6 DEF Drop
  <2>2. {} \subseteq {s} /\ orphans \subseteq dropped \cup {s}
    OBVIOUS
  <2> HIDE DEF orphans
  <2> QED BY <2>1, <2>2, ReleaseWalk
<1>7. ASSUME NEW changed \in BOOLEAN, NEW write \in BOOLEAN, CommitTransaction(changed, write)
      PROVE  WalkInv'
  BY <1>7 DEF CommitTransaction, WalkInv
<1>8. CASE Announce \/ PutProperty
  <2>1. calls = <<>>
    <3>1. CASE PutProperty
      <4>1. Len(calls) < 1 /\ calls \in Seq(Call)
        BY <3>1 DEF PutProperty, Undisturbed, TypeInv, CallsInv
      <4>2. calls # <<>> => Len(calls) \in Nat \ {0}
        BY <4>1, EmptySeq
      <4> QED BY <4>1, <4>2
    <3> QED BY <1>8, <3>1 DEF Announce
  <2> QED BY <1>8, <2>1, NotifyWalk DEF Announce, PutProperty
<1>9. CASE EndTransaction
  BY <1>9 DEF EndTransaction, WalkInv
<1>10. CASE AddOnFails
  BY <1>10 DEF AddOnFails, WalkInv
<1>11. CASE Notified
  <2>1. calls # <<>> /\ calls' = Tail(calls)
    BY <1>11 DEF Notified
  <2>2. calls' = <<>>
    <3>1. Len(calls) = 1 /\ calls \in Seq(Call)
      BY <2>1, OneCall DEF TypeInv, CallsInv
    <3> QED BY <2>1, <3>1
  <2> QED BY <2>2 DEF WalkInv
<1>12. CASE UNCHANGED vars
  BY <1>12, SameWalk DEF vars, lists
<1> QED
  BY <1>1, <1>2, <1>3, <1>4, <1>5, <1>6, <1>7, <1>8, <1>9, <1>10, <1>11, <1>12, CloseWalk,
     CallAddOnWalk, AddOnReturnsWalk, AddOnsDoneWalk, CallTerritoryWalk, TerritoryReturnsWalk,
     CallHolderWalk, HolderReturnsWalk, StepCases

LEMMA WalkInvariant ==
  ASSUME Undisturbed
  PROVE  Spec => [](TypeInv /\ HeldInv /\ WalkInv)
<1> DEFINE Inv == TypeInv /\ HeldInv /\ WalkInv
<1>1. Init => Inv
  <2> SUFFICES ASSUME Init PROVE Inv
    OBVIOUS
  <2>1. TypeInv
    BY TypeInit
  <2>2. HeldInv /\ WalkInv
    BY SinksAssumption DEF Init, HeldInv, OrphansInv, ActiveInv, WalkInv, Running
  <2> QED BY <2>1, <2>2
<1>2. Inv /\ [Next]_vars => Inv'
  <2> SUFFICES ASSUME Inv, [Next]_vars PROVE Inv'
    OBVIOUS
  <2>1. TypeInv'
    BY TypeStep
  <2>2. HeldInv'
    BY <2>1, OrphansStep, ActiveStep DEF HeldInv
  <2>3. WalkInv'
    BY WalkStep
  <2> QED BY <2>1, <2>2, <2>3
<1> QED BY <1>1, <1>2, PTL DEF Spec

LEMMA WalkedByFrame ==
  ASSUME Undisturbed, TypeInv, WalkInv, NEW i \in DOMAIN calls
  PROVE  /\ calls[i] = Frame /\ Frame \in Call
         /\ \/ Walked(Frame) = Range(alladdons) /\ StandsIn(Frame, alladdons)
            \/ Walked(Frame) = Range(allterrs) /\ StandsIn(Frame, allterrs)
            \/ Walked(Frame) = holders /\ StandsAmong(Frame, holders)
<1>1. calls # <<>>
  OBVIOUS
<1>2. calls[i] = Frame /\ Frame \in Call
  BY <1>1, OneCall, FrameIsCall DEF TypeInv
<1>3. Frame.phase \in {"addons", "territories"}
  BY <1>2 DEF Call
<1> QED BY <1>1, <1>2, <1>3 DEF WalkInv, Walked

(* GlobalNotify and objnotify never stand on a sink that has gone, whatever*)
(* handlers create, destroy and release, as long as they leave the loops   *)
(* alone and set no property of the project.                               *)
THEOREM IteratorsStay ==
  ASSUME Considerate = TRUE, MaxDepth = 1
  PROVE  Spec => []WalksStandOnMembers
<1>1. Undisturbed
  BY DEF Undisturbed
<1>2. TypeInv /\ HeldInv /\ WalkInv => WalksStandOnMembers
  <2> SUFFICES ASSUME TypeInv, WalkInv, NEW i \in DOMAIN calls
               PROVE  calls[i].next \in Walked(calls[i]) \cup {End}
    BY DEF WalksStandOnMembers
  <2> QED BY <1>1, WalkedByFrame DEF StandsIn, StandsAmong
<1>3. Spec => [](TypeInv /\ HeldInv /\ WalkInv)
  BY <1>1, WalkInvariant
<1> QED BY <1>2, <1>3, PTL

(* Each loop comes once to every sink that is there from its beginning to  *)
(* its end, and not to those that come in while it goes on.                *)
THEOREM NobodyLeftOut ==
  ASSUME Considerate = TRUE, MaxDepth = 1
  PROVE  Spec => []EachToldOnce
<1>1. Undisturbed
  BY DEF Undisturbed
<1>2. TypeInv /\ HeldInv /\ WalkInv => EachToldOnce
  <2> SUFFICES ASSUME TypeInv, WalkInv, NEW i \in DOMAIN calls
               PROVE  /\ calls[i].next \notin calls[i].reached
                      /\ calls[i].next = End =>
                           (calls[i].start \cap Walked(calls[i])) \subseteq calls[i].reached
    BY DEF EachToldOnce
  <2>1. End \notin Frame.reached
    <3>1. Frame \in Call
      BY <1>1, WalkedByFrame
    <3> QED BY <3>1, SinksAssumption DEF Call, Sink
  <2> QED BY <1>1, <2>1, WalkedByFrame DEF StandsIn, StandsAmong
<1>3. Spec => [](TypeInv /\ HeldInv /\ WalkInv)
  BY <1>1, WalkInvariant
<1> QED BY <1>2, <1>3, PTL

=============================================================================
