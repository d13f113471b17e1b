------------------------- MODULE CoreObjectsProofs -------------------------
(***************************************************************************)
(* Invariants of CoreObjects.  IInv ties rings, what is loaded and the     *)
(* lock counts together; PastInv, which is built on it, says what the      *)
(* storage has and what undo, redo and abort can return to.                *)
(***************************************************************************)
EXTENDS CoreObjectsProps, FunctionTheorems, TLAPS

-----------------------------------------------------------------------------
(* Sets that are taken apart *)

LEMMA SizeOfParts ==
  ASSUME NEW S, NEW P, NEW Q, IsFiniteSet(S), P \cap Q = {}, P \cup Q = S
  PROVE  /\ Cardinality(S) = Cardinality(P) + Cardinality(Q)
         /\ IsFiniteSet(P) /\ IsFiniteSet(Q)
         /\ Cardinality(S) \in Nat /\ Cardinality(P) \in Nat /\ Cardinality(Q) \in Nat
<1>1. IsFiniteSet(P) /\ IsFiniteSet(Q)
  <2>1. P \subseteq S /\ Q \subseteq S
    OBVIOUS
  <2> QED BY <2>1, FS_Subset
<1>2. Cardinality(P \cup Q) = Cardinality(P) + Cardinality(Q) - Cardinality(P \cap Q)
  BY <1>1, FS_Union
<1>3. Cardinality(P \cap Q) = 0 /\ Cardinality(P \cup Q) = Cardinality(S)
  BY FS_EmptySet
<1>4. Cardinality(S) \in Nat /\ Cardinality(P) \in Nat /\ Cardinality(Q) \in Nat
  BY <1>1, FS_CardinalityType
<1> QED BY <1>1, <1>2, <1>3, <1>4

LEMMA SameSize ==
  ASSUME NEW P, NEW Q, IsFiniteSet(P), NEW f \in [P -> Q],
         \A x, y \in P : f[x] = f[y] => x = y, \A z \in Q : \E x \in P : f[x] = z
  PROVE  /\ Cardinality(P) = Cardinality(Q) /\ IsFiniteSet(Q)
         /\ Cardinality(P) \in Nat
<1>1. f \in Bijection(P, Q)
  BY DEF Bijection, Injection, Surjection, IsInjective
<1>2. Cardinality(P) \in Nat
  BY FS_CardinalityType
<1> QED BY <1>1, <1>2, FS_Bijection, FS_Surjection DEF Bijection

-----------------------------------------------------------------------------
(* Places in rings *)

Rings == [Attr -> Seq(Target)]

Places(rings, o) == {pl \in Attr \X Nat : pl[2] \in DOMAIN rings[pl[1]] /\ rings[pl[1]][pl[2]] = o}

LEMMA MentionsArePlaces ==
  ASSUME NEW rings \in Rings, NEW o
  PROVE  Mentions(rings, o) = Cardinality(Places(rings, o))
<1> DEFINE places(a) == {<<a, k>> : k \in {i \in DOMAIN rings[a] : rings[a][i] = o}}
<1>1. Mentions(rings, o) = Cardinality(UNION {places(a) : a \in Attr})
  BY DEF Mentions, Rings
<1>2. \A a \in Attr : DOMAIN rings[a] \subseteq Nat
  BY DEF Rings
<1>3. \A a \in Attr : places(a) \subseteq Places(rings, o)
  BY <1>2 DEF Places
<1>4. ASSUME NEW pl \in Places(rings, o) PROVE pl[1] \in Attr /\ pl \in places(pl[1])
  <2>1. pl[1] \in Attr /\ pl = <<pl[1], pl[2]>> /\ pl[2] \in DOMAIN rings[pl[1]] /\ rings[pl[1]][pl[2]] = o
    BY DEF Places
  <2> QED BY <2>1
<1> HIDE DEF places
<1>5. UNION {places(a) : a \in Attr} = Places(rings, o)
  BY <1>3, <1>4
<1> QED BY <1>1, <1>5

LEMMA AttrIsFinite == IsFiniteSet(Attr)
<1>1. IsFiniteSet(Object \ {Root})
  BY FiniteAssumption, FS_Subset
<1> QED BY <1>1, FiniteAssumption, FS_Product DEF Attr

LEMMA PlacesAreFinite ==
  ASSUME NEW rings \in Rings, NEW o
  PROVE  IsFiniteSet(Places(rings, o)) /\ Cardinality(Places(rings, o)) \in Nat
<1> DEFINE row == [a \in Attr |-> {a} \X (1..Len(rings[a]))]
           rows == {row[a] : a \in Attr}
<1>1. IsFiniteSet(rows)
  <2>1. row \in Surjection(Attr, rows)
    BY DEF Surjection
  <2> QED BY <2>1, AttrIsFinite, FS_Surjection
<1>2. ASSUME NEW a \in Attr PROVE IsFiniteSet(row[a])
  <2>1. Len(rings[a]) \in Nat
    BY DEF Rings
  <2>2. IsFiniteSet(1..Len(rings[a])) /\ IsFiniteSet({a})
    <3>1. Len(rings[a]) \in Int
      BY <2>1
    <3>2. IsFiniteSet({a})
      BY FS_Singleton
    <3>3. IsFiniteSet(1..Len(rings[a]))
      BY <3>1, FS_Interval
    <3> QED BY <3>2, <3>3
  <2>3. IsFiniteSet({a} \X (1..Len(rings[a])))
    BY <2>2, FS_Product
  <2> QED BY <2>3
<1>3. IsFiniteSet(UNION rows)
  BY <1>1, <1>2, FS_UNION
<1>4. Places(rings, o) \subseteq UNION rows
  <2> SUFFICES ASSUME NEW pl \in Places(rings, o) PROVE pl \in row[pl[1]] /\ pl[1] \in Attr
    OBVIOUS
  <2>1. pl[1] \in Attr /\ pl = <<pl[1], pl[2]>> /\ pl[2] \in DOMAIN rings[pl[1]]
    BY DEF Places
  <2>2. DOMAIN rings[pl[1]] = 1..Len(rings[pl[1]])
    BY <2>1 DEF Rings
  <2> QED BY <2>1, <2>2
<1> HIDE DEF rows
<1>5. IsFiniteSet(Places(rings, o))
  BY <1>3, <1>4, FS_Subset
<1> QED BY <1>5, FS_CardinalityType

\* A ring that is another one with some values put in at a place of it
IsCut(old, new, cut, at) ==
  /\ at \in 1..(Len(new) + 1)
  /\ Len(old) = Len(new) + Len(cut)
  /\ \A k \in 1..Len(cut) : old[at + k - 1] = cut[k]
  /\ \A k \in 1..Len(new) : new[k] = IF k < at THEN old[k] ELSE old[k + Len(cut)]

\* Where the values of a ring that is cut are found again
CutFacts(old, new, cut, at, o) ==
  /\ at \in Nat /\ Len(cut) \in Nat
  /\ \A k \in 1..Len(cut) : cut[k] = o =>
       /\ at + k - 1 \in 1..Len(old) /\ old[at + k - 1] = o
       /\ at <= at + k - 1 /\ at + k - 1 < at + Len(cut)
  /\ \A k \in 1..Len(old) : old[k] = o /\ at <= k /\ k < at + Len(cut) =>
       k - at + 1 \in 1..Len(cut) /\ cut[k - at + 1] = o /\ at + (k - at + 1) - 1 = k
  /\ \A k \in 1..Len(new) : new[k] = o =>
       /\ k < at => k \in 1..Len(old) /\ old[k] = o
       /\ ~(k < at) => /\ k + Len(cut) \in 1..Len(old) /\ old[k + Len(cut)] = o
                       /\ ~(k + Len(cut) < at + Len(cut))
  /\ \A k \in 1..Len(old) : old[k] = o /\ ~(at <= k /\ k < at + Len(cut)) =>
       \E j \in 1..Len(new) : new[j] = o /\ k = IF j < at THEN j ELSE j + Len(cut)

LEMMA CutRing ==
  ASSUME NEW old \in Seq(Target), NEW new \in Seq(Target), NEW cut \in Seq(Target), NEW at, NEW o,
         IsCut(old, new, cut, at)
  PROVE  CutFacts(old, new, cut, at, o)
<1> DEFINE m == Len(new)
           c == Len(cut)
<1>1. /\ at \in Nat /\ at >= 1 /\ at <= m + 1 /\ m \in Nat /\ c \in Nat /\ Len(old) = m + c
      /\ \A k \in 1..c : old[at + k - 1] = cut[k]
      /\ \A k \in 1..m : new[k] = IF k < at THEN old[k] ELSE old[k + c]
  BY DEF IsCut
<1> HIDE DEF m, c
<1>2. ASSUME NEW k \in 1..c, cut[k] = o
      PROVE  /\ at + k - 1 \in 1..Len(old) /\ old[at + k - 1] = o
             /\ at <= at + k - 1 /\ at + k - 1 < at + c
  BY <1>1, <1>2
<1>3. ASSUME NEW k \in 1..Len(old), old[k] = o, at <= k, k < at + c
      PROVE  k - at + 1 \in 1..c /\ cut[k - at + 1] = o /\ at + (k - at + 1) - 1 = k
  <2>1. k - at + 1 \in 1..c /\ at + (k - at + 1) - 1 = k
    BY <1>1, <1>3
  <2>2. old[at + (k - at + 1) - 1] = cut[k - at + 1]
    BY <1>1, <2>1
  <2> QED BY <1>3, <2>1, <2>2
<1>4. ASSUME NEW k \in 1..m, new[k] = o
      PROVE  /\ k < at => k \in 1..Len(old) /\ old[k] = o
             /\ ~(k < at) => /\ k + c \in 1..Len(old) /\ old[k + c] = o
                             /\ ~(k + c < at + c)
  BY <1>1, <1>4
<1>5. ASSUME NEW k \in 1..Len(old), old[k] = o, ~(at <= k /\ k < at + c)
      PROVE  \E j \in 1..m : new[j] = o /\ k = IF j < at THEN j ELSE j + c
  <2>1. CASE k < at
    BY <1>1, <1>5, <2>1
  <2>2. CASE at + c <= k
    <3>1. k - c \in 1..m /\ ~(k - c < at) /\ k = (k - c) + c
      BY <1>1, <2>2
    <3> QED BY <1>1, <1>5, <3>1
  <2> QED BY <1>1, <1>5, <2>1, <2>2
<1> QED BY <1>1, <1>2, <1>3, <1>4, <1>5 DEF m, c, CutFacts

(* What rings lose and what they keep is what they had.                    *)
LEMMA CutPlaces ==
  ASSUME NEW old \in Rings, NEW new \in Rings, NEW cut \in Rings, NEW at \in [Attr -> Nat], NEW o,
         \A a \in Attr : IsCut(old[a], new[a], cut[a], at[a])
  PROVE  Mentions(old, o) = Mentions(new, o) + Mentions(cut, o)
<1> DEFINE inside(pl) == at[pl[1]] <= pl[2] /\ pl[2] < at[pl[1]] + Len(cut[pl[1]])
           P == {pl \in Places(old, o) : inside(pl)}
           Q == {pl \in Places(old, o) : ~inside(pl)}
           f == [pl \in Places(cut, o) |-> <<pl[1], at[pl[1]] + pl[2] - 1>>]
           g == [pl \in Places(new, o) |->
                   <<pl[1], IF pl[2] < at[pl[1]] THEN pl[2] ELSE pl[2] + Len(cut[pl[1]])>>]
<1>1. \A a \in Attr : /\ Len(old[a]) \in Nat /\ Len(new[a]) \in Nat /\ Len(cut[a]) \in Nat
                      /\ DOMAIN old[a] = 1..Len(old[a]) /\ DOMAIN new[a] = 1..Len(new[a])
                      /\ DOMAIN cut[a] = 1..Len(cut[a])
  BY DEF Rings
<1>2. \A rings, pl : pl \in Places(rings, o) <=>
        /\ pl \in Attr \X Nat /\ pl[2] \in DOMAIN rings[pl[1]] /\ rings[pl[1]][pl[2]] = o
  BY DEF Places
<1>0. ASSUME NEW a \in Attr PROVE CutFacts(old[a], new[a], cut[a], at[a], o)
  <2>1. old[a] \in Seq(Target) /\ new[a] \in Seq(Target) /\ cut[a] \in Seq(Target)
        /\ IsCut(old[a], new[a], cut[a], at[a])
    BY DEF Rings
  <2> QED BY <2>1, CutRing
<1>3. Cardinality(Places(cut, o)) = Cardinality(P)
  <2>1. ASSUME NEW a \in Attr, NEW k \in 1..Len(cut[a]), cut[a][k] = o
        PROVE  <<a, at[a] + k - 1>> \in P
    <3>1. /\ at[a] + k - 1 \in 1..Len(old[a]) /\ old[a][at[a] + k - 1] = o
          /\ at[a] <= at[a] + k - 1 /\ at[a] + k - 1 < at[a] + Len(cut[a])
      BY <1>0, <2>1 DEF CutFacts
    <3>2. at[a] + k - 1 \in Nat
      BY <3>1
    <3> QED BY <1>1, <1>2, <3>1, <3>2
  <2>2. ASSUME NEW a \in Attr, NEW k \in Nat, <<a, k>> \in P
        PROVE  <<a, k - at[a] + 1>> \in Places(cut, o) /\ at[a] \in Nat
    <3>1. at[a] <= k /\ k < at[a] + Len(cut[a]) /\ k \in 1..Len(old[a]) /\ old[a][k] = o
      BY <2>2, <1>1, <1>2
    <3>2. k - at[a] + 1 \in 1..Len(cut[a]) /\ cut[a][k - at[a] + 1] = o /\ at[a] \in Nat
      BY <1>0, <3>1 DEF CutFacts
    <3>3. k - at[a] + 1 \in Nat
      BY <3>2
    <3> QED BY <1>1, <1>2, <3>2, <3>3
  <2>3. f \in [Places(cut, o) -> P]
    BY <1>1, <1>2, <2>1
  <2>4. ASSUME NEW x \in Places(cut, o), NEW y \in Places(cut, o), f[x] = f[y] PROVE x = y
    <3>1. /\ x = <<x[1], x[2]>> /\ x[1] \in Attr /\ x[2] \in Nat
          /\ y = <<y[1], y[2]>> /\ y[1] \in Attr /\ y[2] \in Nat
      BY <1>2
    <3>2. x[1] = y[1] /\ at[x[1]] \in Nat
      BY <2>4, <3>1
    <3>3. at[x[1]] + x[2] - 1 = at[x[1]] + y[2] - 1
      BY <2>4, <3>2
    <3>4. x[2] = y[2]
      BY <3>1, <3>2, <3>3
    <3> QED BY <3>1, <3>2, <3>4
  <2>5. ASSUME NEW z \in P PROVE \E x \in Places(cut, o) : f[x] = z
    <3>1. z = <<z[1], z[2]>> /\ z[1] \in Attr /\ z[2] \in Nat
      BY <1>2
    <3> DEFINE x == <<z[1], z[2] - at[z[1]] + 1>>
    <3>2. x \in Places(cut, o) /\ at[z[1]] \in Nat
      BY <2>2, <3>1, <2>5
    <3>3. f[x] = z
      BY <3>1, <3>2
    <3> QED BY <3>2, <3>3
  <2> HIDE DEF f, P
  <2> QED BY <2>3, <2>4, <2>5, PlacesAreFinite, SameSize
<1>4. Cardinality(Places(new, o)) = Cardinality(Q)
  <2>1. ASSUME NEW a \in Attr, NEW k \in 1..Len(new[a]), new[a][k] = o
        PROVE  <<a, IF k < at[a] THEN k ELSE k + Len(cut[a])>> \in Q
    <3>1. /\ k < at[a] => k \in 1..Len(old[a]) /\ old[a][k] = o
          /\ ~(k < at[a]) => /\ k + Len(cut[a]) \in 1..Len(old[a]) /\ old[a][k + Len(cut[a])] = o
                             /\ ~(k + Len(cut[a]) < at[a] + Len(cut[a]))
      BY <1>0, <2>1 DEF CutFacts
    <3>2. CASE k < at[a]
      <4>1. k \in 1..Len(old[a]) /\ old[a][k] = o /\ ~(at[a] <= k) /\ k \in Nat
        BY <3>1, <3>2
      <4> QED BY <1>1, <1>2, <3>2, <4>1
    <3>3. CASE ~(k < at[a])
      <4> DEFINE j == k + Len(cut[a])
      <4>1. j \in 1..Len(old[a]) /\ old[a][j] = o /\ ~(j < at[a] + Len(cut[a])) /\ j \in Nat
        BY <3>1, <3>3
      <4> HIDE DEF j
      <4>2. <<a, j>> \in Q
        BY <1>1, <1>2, <4>1
      <4> QED BY <3>3, <4>2 DEF j
    <3> QED BY <3>2, <3>3
  <2>2. ASSUME NEW a \in Attr, NEW k \in Nat, <<a, k>> \in Q
        PROVE  \E j \in 1..Len(new[a]) : new[a][j] = o /\ k = IF j < at[a] THEN j ELSE j + Len(cut[a])
    <3>1. ~(at[a] <= k /\ k < at[a] + Len(cut[a])) /\ k \in 1..Len(old[a]) /\ old[a][k] = o
      BY <2>2, <1>1, <1>2
    <3> QED BY <1>0, <3>1 DEF CutFacts
  <2>3. g \in [Places(new, o) -> Q]
    BY <1>1, <1>2, <2>1
  <2>4. ASSUME NEW x \in Places(new, o), NEW y \in Places(new, o), g[x] = g[y] PROVE x = y
    <3>1. /\ x = <<x[1], x[2]>> /\ x[1] \in Attr /\ x[2] \in Nat
          /\ y = <<y[1], y[2]>> /\ y[1] \in Attr /\ y[2] \in Nat
      BY <1>2
    <3>2. x[1] = y[1] /\ at[x[1]] \in Nat /\ Len(cut[x[1]]) \in Nat
      BY <1>1, <2>4, <3>1
    <3>3. (IF x[2] < at[x[1]] THEN x[2] ELSE x[2] + Len(cut[x[1]]))
          = (IF y[2] < at[x[1]] THEN y[2] ELSE y[2] + Len(cut[x[1]]))
      BY <2>4, <3>2
    <3>4. x[2] = y[2]
      BY <3>1, <3>2, <3>3
    <3> QED BY <3>1, <3>2, <3>4
  <2>5. ASSUME NEW z \in Q PROVE \E x \in Places(new, o) : g[x] = z
    <3>1. z = <<z[1], z[2]>> /\ z[1] \in Attr /\ z[2] \in Nat
      BY <1>2
    <3>2. PICK j \in 1..Len(new[z[1]]) :
            new[z[1]][j] = o /\ z[2] = IF j < at[z[1]] THEN j ELSE j + Len(cut[z[1]])
      BY <2>2, <2>5, <3>1
    <3>3. <<z[1], j>> \in Places(new, o)
      BY <1>1, <1>2, <3>1, <3>2
    <3>4. g[<<z[1], j>>] = z
      BY <3>1, <3>2, <3>3
    <3> QED BY <3>3, <3>4
  <2> HIDE DEF g, Q
  <2> QED BY <2>3, <2>4, <2>5, PlacesAreFinite, SameSize
<1>5. Cardinality(Places(old, o)) = Cardinality(P) + Cardinality(Q)
  <2>1. P \cap Q = {} /\ P \cup Q = Places(old, o)
    OBVIOUS
  <2> HIDE DEF P, Q
  <2> QED BY <2>1, PlacesAreFinite, SizeOfParts
<1> HIDE DEF P, Q
<1>6. Cardinality(Places(old, o)) = Cardinality(Places(new, o)) + Cardinality(Places(cut, o))
  <2>1. /\ Cardinality(Places(old, o)) \in Nat /\ Cardinality(Places(new, o)) \in Nat
        /\ Cardinality(Places(cut, o)) \in Nat
    BY PlacesAreFinite
  <2> QED BY <1>3, <1>4, <1>5, <2>1
<1> QED BY <1>6, MentionsArePlaces

LEMMA MentionsType ==
  ASSUME NEW rings \in Rings, NEW o
  PROVE  Mentions(rings, o) \in Nat
BY MentionsArePlaces, PlacesAreFinite

(* Rings with at most one value *)
Aiming(A, t, o) == {a \in A : t[a] = o}

LEMMA MentionsOfSingles ==
  ASSUME NEW rings \in Rings, NEW A \in SUBSET Attr, NEW t, NEW o,
         \A a \in Attr : rings[a] = IF a \in A THEN <<t[a]>> ELSE <<>>
  PROVE  Mentions(rings, o) = Cardinality(Aiming(A, t, o))
<1> DEFINE P == {a \in A : t[a] = o}
           f == [a \in P |-> <<a, 1>>]
<1>1. \A pl : pl \in Places(rings, o) <=>
        /\ pl \in Attr \X Nat /\ pl[2] \in DOMAIN rings[pl[1]] /\ rings[pl[1]][pl[2]] = o
  BY DEF Places
<1>2. ASSUME NEW a \in P PROVE <<a, 1>> \in Places(rings, o)
  <2>1. a \in Attr /\ rings[a] = <<t[a]>> /\ t[a] = o
    OBVIOUS
  <2>2. 1 \in DOMAIN rings[a] /\ rings[a][1] = o /\ 1 \in Nat
    BY <2>1
  <2> QED BY <1>1, <2>1, <2>2
<1>3. ASSUME NEW pl \in Places(rings, o) PROVE pl[1] \in P /\ pl = <<pl[1], 1>>
  <2>1. /\ pl = <<pl[1], pl[2]>> /\ pl[1] \in Attr /\ pl[2] \in Nat
        /\ pl[2] \in DOMAIN rings[pl[1]] /\ rings[pl[1]][pl[2]] = o
    BY <1>1
  <2>2. rings[pl[1]] # <<>>
    BY <2>1
  <2>3. pl[1] \in A /\ rings[pl[1]] = <<t[pl[1]]>>
    BY <2>1, <2>2
  <2>4. DOMAIN <<t[pl[1]]>> = {1}
    OBVIOUS
  <2>5. pl[2] = 1
    BY <2>1, <2>3, <2>4
  <2> QED BY <2>1, <2>3, <2>5
<1>4. IsFiniteSet(P)
  BY AttrIsFinite, FS_Subset
<1>5. f \in [P -> Places(rings, o)]
  BY <1>2
<1>6. \A x, y \in P : f[x] = f[y] => x = y
  OBVIOUS
<1>7. \A z \in Places(rings, o) : \E x \in P : f[x] = z
  BY <1>3
<1> HIDE DEF f, P
<1>8. Cardinality(P) = Cardinality(Places(rings, o)) /\ Cardinality(P) \in Nat
  <2> DEFINE Q == Places(rings, o)
  <2>1. f \in [P -> Q] /\ \A z \in Q : \E x \in P : f[x] = z
    BY <1>5, <1>7
  <2> HIDE DEF Q
  <2>2. Cardinality(P) = Cardinality(Q) /\ Cardinality(P) \in Nat
    BY <1>4, <1>6, <2>1, SameSize
  <2> QED BY <2>2 DEF Q
<1> QED BY <1>8, MentionsArePlaces DEF P, Aiming

-----------------------------------------------------------------------------
(* What the counts are *)

\* The rings that keep several values: those that hold locks
Big(rings) == [a \in Attr |-> IF Len(rings[a]) >= 2 THEN rings[a] ELSE <<>>]

HeldIn(rings, o) == Cardinality({a \in AttrsOf(o) : Len(rings[a]) >= 2})
AimedIn(rings, o) == Mentions(Big(rings), o)

CountsOf(rings, reads, writes, extra) ==
  \A o \in Object : /\ reads[o] = HeldIn(rings, o) + extra[o]
                    /\ writes[o] = HeldIn(rings, o) + AimedIn(rings, o) + extra[o]

LEMMA BigType == ASSUME NEW rings \in Rings PROVE Big(rings) \in Rings
BY DEF Big, Rings

LEMMA OwnerType == \A a \in Attr : Owner[a] \in Object /\ Owner[a] # Root
BY DEF Attr, Owner

LEMMA CountsAre ==
  ASSUME NEW rings \in Rings, NEW o
  PROVE  /\ HeldIn(rings, o) \in Nat /\ AimedIn(rings, o) \in Nat
         /\ \A a \in AttrsOf(o) : Len(rings[a]) >= 2 => HeldIn(rings, o) >= 1
         /\ HeldIn(rings, o) >= 1 => \E a \in AttrsOf(o) : Len(rings[a]) >= 2
<1> DEFINE P == {a \in AttrsOf(o) : Len(rings[a]) >= 2}
<1>1. IsFiniteSet(P) /\ Cardinality(P) \in Nat
  <2>1. P \subseteq Attr
    BY DEF AttrsOf
  <2> QED BY <2>1, AttrIsFinite, FS_Subset, FS_CardinalityType
<1>2. Cardinality(P) = 0 <=> P = {}
  BY <1>1, FS_EmptySet
<1>3. AimedIn(rings, o) \in Nat
  BY BigType, MentionsType DEF AimedIn
<1>4. HeldIn(rings, o) = Cardinality(P)
  BY DEF HeldIn
<1>5. \A a \in AttrsOf(o) : Len(rings[a]) >= 2 => Cardinality(P) >= 1
  BY <1>1, <1>2
<1>6. Cardinality(P) >= 1 => \E a \in AttrsOf(o) : Len(rings[a]) >= 2
  BY <1>2
<1> HIDE DEF P
<1> QED BY <1>1, <1>3, <1>4, <1>5, <1>6

(* The counts of the module are those of the rings as they are.            *)
LEMMA CountsMatch ==
  ASSUME values \in Rings, CountsOf(values, read_count, write_count, refused)
  PROVE  CountsMatchRings
<1> DEFINE S == {b \in Attr : Len(values[b]) >= 2}
           part == [a \in S |-> values[a]]
           places(a, ring, o) == {<<a, k>> : k \in {i \in DOMAIN ring : ring[i] = o}}
<1>1. ASSUME NEW o PROVE Aimed(o) = AimedIn(values, o)
  <2>1. \A a \in S : places(a, part[a], o) = places(a, Big(values)[a], o)
    BY DEF Big
  <2>2. \A a \in Attr \ S : places(a, Big(values)[a], o) = {}
    BY DEF Big
  <2>3. Aimed(o) = Cardinality(UNION {places(a, part[a], o) : a \in S})
    BY DEF Aimed, Mentions
  <2>4. AimedIn(values, o) = Cardinality(UNION {places(a, Big(values)[a], o) : a \in Attr})
    BY DEF AimedIn, Mentions, Big
  <2>5. S \subseteq Attr
    OBVIOUS
  <2> HIDE DEF places, part, S
  <2>6. UNION {places(a, part[a], o) : a \in S} = UNION {places(a, Big(values)[a], o) : a \in Attr}
    BY <2>1, <2>2, <2>5
  <2> QED BY <2>3, <2>4, <2>6
<1>2. \A o : Held(o) = HeldIn(values, o)
  BY DEF Held, HeldIn
<1> QED BY <1>1, <1>2 DEF CountsMatchRings, CountsOf

-----------------------------------------------------------------------------
(* Rings and what keeps them in memory *)

RingMatches(ring, n) == IF ring = <<>> THEN n = 0 ELSE Len(ring) = 1 + n

LoadedOK == \A a \in Attr : values[a] # <<>> <=> IsLoaded(Owner[a])

CountTypes ==
  /\ values \in Rings
  /\ read_count \in [Object -> Nat]
  /\ write_count \in [Object -> Nat]

\* What Settle brings about
Settled(rings, keep) ==
  /\ CountTypes'
  /\ CountsOf(values', read_count', write_count', refused)
  /\ LoadedOK'
  /\ \A o \in Object : IsLoaded(o)' <=> o \in keep
  /\ \A a \in Attr, n \in Nat : RingMatches(rings[a], n) => RingMatches(values'[a], n)
  /\ \A a \in Attr : values'[a] = IF Owner[a] \in keep THEN rings[a] ELSE <<>>
  /\ uptodate' \subseteq uptodate

LEMMA SettleOK ==
  ASSUME NEW rings \in Rings, NEW reads \in [Object -> Nat], NEW writes \in [Object -> Nat],
         NEW locks \in SUBSET Object,
         refused \in [Object -> Nat],
         CountsOf(rings, reads, writes, refused),
         \A a \in Attr : Owner[a] \in locks \cup KeptBy(reads, writes) => rings[a] # <<>>,
         Settle(rings, reads, writes, locks)
  PROVE  Settled(rings, locks \cup KeptBy(reads, writes))
<1> DEFINE keep == locks \cup KeptBy(reads, writes)
<1>1. /\ read_count' = reads /\ write_count' = writes /\ locked' = locks
      /\ values' = [a \in Attr |-> IF Owner[a] \in keep THEN rings[a] ELSE <<>>]
      /\ uptodate' \subseteq uptodate
  BY DEF Settle, StillUpToDate
<1>2. \A a \in Attr : /\ Len(rings[a]) \in Nat
                      /\ rings[a] = <<>> <=> Len(rings[a]) = 0
  BY DEF Rings
<1>3. ASSUME NEW a \in Attr, Len(rings[a]) >= 2 PROVE Owner[a] \in keep
  <2>1. Owner[a] \in Object /\ a \in AttrsOf(Owner[a])
    BY OwnerType DEF AttrsOf
  <2>2. HeldIn(rings, Owner[a]) >= 1 /\ HeldIn(rings, Owner[a]) \in Nat
    BY <1>3, <2>1, CountsAre
  <2>3. reads[Owner[a]] = HeldIn(rings, Owner[a]) + refused[Owner[a]] /\ refused[Owner[a]] \in Nat
    BY <2>1 DEF CountsOf
  <2>4. reads[Owner[a]] > 0
    BY <2>2, <2>3
  <2> QED BY <2>1, <2>4 DEF KeptBy
<1>4. \A o \in Object : (o \in locked' \/ ~(reads[o] = 0 /\ writes[o] = 0)) <=> o \in keep
  <2>1. \A o \in Object : reads[o] \in Nat /\ writes[o] \in Nat
    OBVIOUS
  <2> QED BY <1>1, <2>1 DEF KeptBy
<1>5. \A o \in Object : IsLoaded(o)' <=> o \in keep
  BY <1>1, <1>4 DEF IsLoaded, IsEmpty
<1> HIDE DEF keep
<1>6. values' \in Rings
  BY <1>1 DEF Rings
<1>7. \A a \in Attr : values'[a] = IF Owner[a] \in keep THEN rings[a] ELSE <<>>
  BY <1>1
<1>8. \A a \in Attr : Len(rings[a]) >= 2 => values'[a] = rings[a]
  BY <1>3, <1>7
<1>9. \A a \in Attr : Len(values'[a]) >= 2 <=> Len(rings[a]) >= 2
  BY <1>2, <1>7, <1>8
<1>10. Big(values') = Big(rings)
  BY <1>8, <1>9 DEF Big
<1>11. \A o : HeldIn(values', o) = HeldIn(rings, o)
  <2>1. \A o : {a \in AttrsOf(o) : Len(values'[a]) >= 2} = {a \in AttrsOf(o) : Len(rings[a]) >= 2}
    BY <1>9 DEF AttrsOf
  <2> QED BY <2>1 DEF HeldIn
<1>12. CountsOf(values', read_count', write_count', refused)
  BY <1>1, <1>10, <1>11 DEF CountsOf, AimedIn
<1>13. LoadedOK'
  <2>1. \A a \in Attr : Owner[a] \in keep => rings[a] # <<>>
    BY DEF keep
  <2> QED BY <1>5, <1>7, <2>1, OwnerType DEF LoadedOK, Owner
<1>14. ASSUME NEW a \in Attr, NEW n \in Nat, RingMatches(rings[a], n) PROVE RingMatches(values'[a], n)
  <2>1. CASE Len(rings[a]) >= 2
    BY <1>8, <1>14, <2>1
  <2>2. CASE ~(Len(rings[a]) >= 2)
    <3>1. n = 0
      BY <1>2, <1>14, <2>2 DEF RingMatches
    <3> QED BY <1>7, <1>14, <3>1 DEF RingMatches
  <2> QED BY <2>1, <2>2
<1>15. CountTypes'
  BY <1>1, <1>6 DEF CountTypes
<1> QED BY <1>1, <1>5, <1>7, <1>12, <1>13, <1>14, <1>15 DEF Settled, keep

-----------------------------------------------------------------------------
(* Locks that go with values: what RemoveValueTry gives back               *)

LEMMA CountsAfterLoss ==
  ASSUME NEW rings \in Rings, NEW lost \in Rings, NEW at \in [Attr -> Nat],
         CountTypes, refused \in [Object -> Nat],
         CountsOf(values, read_count, write_count, refused),
         \A a \in Attr : IsCut(values[a], rings[a], lost[a], at[a]),
         \A a \in Attr : values[a] # <<>> => rings[a] # <<>>
  PROVE  /\ ReadsWithout(lost) \in [Object -> Nat]
         /\ WritesWithout(lost) \in [Object -> Nat]
         /\ CountsOf(rings, ReadsWithout(lost), WritesWithout(lost), refused)
         /\ KeptBy(ReadsWithout(lost), WritesWithout(lost)) \subseteq KeptBy(read_count, write_count)
<1> DEFINE freed == [a \in Attr |-> Frees(values[a], lost[a])]
           place == [a \in Attr |-> IF FreesSelf(values[a], lost[a]) \/ Len(values[a]) < 2
                                      THEN 1 ELSE at[a]]
<1>0. \A a \in Attr : values[a] \in Seq(Target) /\ rings[a] \in Seq(Target) /\ lost[a] \in Seq(Target)
  BY DEF CountTypes, Rings
<1>1. ASSUME NEW a \in Attr
      PROVE  /\ Len(values[a]) \in Nat /\ Len(rings[a]) \in Nat /\ Len(lost[a]) \in Nat
             /\ Len(values[a]) < 2 => Len(lost[a]) = 0 /\ Len(rings[a]) < 2
                                     /\ ~FreesSelf(values[a], lost[a])
             /\ FreesSelf(values[a], lost[a]) <=> Len(values[a]) >= 2 /\ Len(rings[a]) < 2
             /\ Len(rings[a]) >= 2 => Len(values[a]) >= 2
  <2> DEFINE l == Len(values[a])
             m == Len(rings[a])
             n == Len(lost[a])
  <2>1. l \in Nat /\ m \in Nat /\ n \in Nat
    BY <1>0
  <2>2. (values[a] = <<>> <=> l = 0) /\ (rings[a] = <<>> <=> m = 0)
    BY <1>0
  <2>3. l = m + n
    BY DEF IsCut
  <2>4. FreesSelf(values[a], lost[a]) <=> l >= 2 /\ l - n < 2
    BY DEF FreesSelf
  <2> HIDE DEF l, m, n
  <2>5. l > 0 => m > 0
    BY <2>1, <2>2
  <2>6. /\ l < 2 => n = 0 /\ m < 2
        /\ (l >= 2 /\ l - n < 2) <=> (l >= 2 /\ m < 2)
        /\ m >= 2 => l >= 2
    BY <2>1, <2>3, <2>5
  <2>7. FreesSelf(values[a], lost[a]) => ~(l < 2)
    BY <2>1, <2>4
  <2> QED BY <2>1, <2>4, <2>6, <2>7 DEF l, m, n
<1>2. freed \in Rings
  BY <1>0 DEF Frees, Rings
<1>3. place \in [Attr -> Nat]
  OBVIOUS
<1>4. ASSUME NEW a \in Attr PROVE IsCut(Big(values)[a], Big(rings)[a], freed[a], place[a])
  <2>1. Big(values)[a] = (IF Len(values[a]) >= 2 THEN values[a] ELSE <<>>)
        /\ Big(rings)[a] = (IF Len(rings[a]) >= 2 THEN rings[a] ELSE <<>>)
    BY DEF Big
  <2>2. CASE Len(values[a]) < 2
    <3>1. lost[a] = <<>> /\ ~FreesSelf(values[a], lost[a])
      BY <1>0, <1>1, <2>2
    <3>2. ~(Len(values[a]) >= 2) /\ ~(Len(rings[a]) >= 2)
      BY <1>1, <2>2
    <3>3. freed[a] = <<>> /\ Big(values)[a] = <<>> /\ Big(rings)[a] = <<>> /\ place[a] = 1
      BY <2>1, <2>2, <3>1, <3>2 DEF Frees
    <3>4. IsCut(<<>>, <<>>, <<>>, 1)
      BY DEF IsCut
    <3> QED BY <3>3, <3>4
  <2>3. CASE FreesSelf(values[a], lost[a])
    <3>1. Len(values[a]) >= 2 /\ ~(Len(rings[a]) >= 2)
      BY <1>1, <2>3
    <3>2. freed[a] = values[a] /\ Big(values)[a] = values[a] /\ Big(rings)[a] = <<>> /\ place[a] = 1
      BY <2>1, <2>3, <3>1 DEF Frees
    <3> DEFINE r == values[a]
    <3>3. r \in Seq(Target)
      BY <1>0
    <3> HIDE DEF r
    <3>4. IsCut(r, <<>>, r, 1)
      BY <3>3 DEF IsCut
    <3> QED BY <3>2, <3>4 DEF r
  <2>4. CASE Len(values[a]) >= 2 /\ ~FreesSelf(values[a], lost[a])
    <3>1. Len(rings[a]) >= 2 /\ ~(Len(values[a]) < 2)
      BY <1>1, <2>4
    <3>2. freed[a] = lost[a] /\ Big(values)[a] = values[a] /\ Big(rings)[a] = rings[a] /\ place[a] = at[a]
      BY <2>1, <2>4, <3>1 DEF Frees
    <3> QED BY <3>2
  <2> QED BY <1>1, <2>2, <2>3, <2>4
<1> HIDE DEF freed, place
<1>5. ASSUME NEW o \in Object
      PROVE  AimedIn(values, o) = AimedIn(rings, o) + Mentions(freed, o) /\ Mentions(freed, o) \in Nat
  <2>1. Big(values) \in Rings /\ Big(rings) \in Rings
    BY BigType DEF CountTypes
  <2> QED BY <1>2, <1>3, <1>4, <2>1, CutPlaces, MentionsType DEF AimedIn
<1>6. ASSUME NEW o \in Object
      PROVE  HeldIn(values, o) = HeldIn(rings, o) + SelfFreed(lost, o) /\ SelfFreed(lost, o) \in Nat
  <2> DEFINE S == {a \in AttrsOf(o) : Len(values[a]) >= 2}
             P == {a \in AttrsOf(o) : Len(rings[a]) >= 2}
             Q == {a \in AttrsOf(o) : FreesSelf(values[a], lost[a])}
  <2>1. P \cap Q = {} /\ P \cup Q = S
    <3>1. \A a \in AttrsOf(o) : a \in Attr
      BY DEF AttrsOf
    <3>2. \A a \in AttrsOf(o) : /\ a \in P => a \in S /\ a \notin Q
                                /\ a \in Q => a \in S
                                /\ a \in S => a \in P \/ a \in Q
      BY <1>1, <3>1
    <3> QED BY <3>2
  <2>2. IsFiniteSet(S)
    <3>1. S \subseteq Attr
      BY DEF AttrsOf
    <3> QED BY <3>1, AttrIsFinite, FS_Subset
  <2>3. HeldIn(values, o) = Cardinality(S) /\ HeldIn(rings, o) = Cardinality(P)
        /\ SelfFreed(lost, o) = Cardinality(Q)
    BY DEF HeldIn, SelfFreed
  <2> HIDE DEF S, P, Q
  <2>4. Cardinality(S) = Cardinality(P) + Cardinality(Q) /\ Cardinality(Q) \in Nat
    BY <2>1, <2>2, SizeOfParts, SMTT(30)
  <2> QED BY <2>3, <2>4
<1>7. ASSUME NEW o \in Object
      PROVE  /\ ReadsWithout(lost)[o] = HeldIn(rings, o) + refused[o]
             /\ WritesWithout(lost)[o] = HeldIn(rings, o) + AimedIn(rings, o) + refused[o]
             /\ ReadsWithout(lost)[o] \in Nat /\ WritesWithout(lost)[o] \in Nat
             /\ ReadsWithout(lost)[o] <= read_count[o] /\ WritesWithout(lost)[o] <= write_count[o]
  <2>1. /\ ReadsWithout(lost)[o] = read_count[o] - SelfFreed(lost, o)
        /\ WritesWithout(lost)[o] = write_count[o] - SelfFreed(lost, o) - Mentions(freed, o)
    BY DEF ReadsWithout, WritesWithout, freed
  <2>2. /\ read_count[o] = HeldIn(values, o) + refused[o]
        /\ write_count[o] = HeldIn(values, o) + AimedIn(values, o) + refused[o]
        /\ refused[o] \in Nat
    BY DEF CountsOf
  <2>3. HeldIn(rings, o) \in Nat /\ AimedIn(rings, o) \in Nat
    BY CountsAre
  <2> QED BY <1>5, <1>6, <2>1, <2>2, <2>3
<1>8. /\ ReadsWithout(lost) \in [Object -> Nat]
      /\ WritesWithout(lost) \in [Object -> Nat]
  <2>1. ReadsWithout(lost) = [o \in Object |-> ReadsWithout(lost)[o]]
        /\ WritesWithout(lost) = [o \in Object |-> WritesWithout(lost)[o]]
    BY DEF ReadsWithout, WritesWithout
  <2> QED BY <1>7, <2>1
<1>9. CountsOf(rings, ReadsWithout(lost), WritesWithout(lost), refused)
  BY <1>7 DEF CountsOf
<1>10. ASSUME NEW o \in KeptBy(ReadsWithout(lost), WritesWithout(lost))
       PROVE  o \in KeptBy(read_count, write_count)
  <2>1. o \in Object /\ read_count[o] \in Nat /\ write_count[o] \in Nat
    BY DEF KeptBy, CountTypes
  <2>2. ReadsWithout(lost)[o] > 0 \/ WritesWithout(lost)[o] > 0
    BY DEF KeptBy
  <2>3. read_count[o] > 0 \/ write_count[o] > 0
    BY <1>7, <2>1, <2>2
  <2> QED BY <2>1, <2>3 DEF KeptBy
<1> QED BY <1>8, <1>9, <1>10

\* What an object keeps when values are taken off rings
LEMMA KeptIsLoaded ==
  ASSUME CountTypes, NEW o \in Object, o \in locked \cup KeptBy(read_count, write_count)
  PROVE  IsLoaded(o)
BY DEF CountTypes, KeptBy, IsLoaded, IsEmpty

LEMMA LossOK ==
  ASSUME NEW rings \in Rings, NEW lost \in Rings, NEW at \in [Attr -> Nat],
         NEW locks \in SUBSET locked, locked \in SUBSET Object,
         CountTypes, refused \in [Object -> Nat], LoadedOK,
         CountsOf(values, read_count, write_count, refused),
         \A a \in Attr : IsCut(values[a], rings[a], lost[a], at[a]),
         \A a \in Attr : values[a] # <<>> => rings[a] # <<>>,
         Settle(rings, ReadsWithout(lost), WritesWithout(lost), locks)
  PROVE  /\ Settled(rings, locks \cup KeptBy(ReadsWithout(lost), WritesWithout(lost)))
         /\ \A o \in Object : IsLoaded(o)' => IsLoaded(o)
<1> DEFINE reads == ReadsWithout(lost)
           writes == WritesWithout(lost)
           keep == locks \cup KeptBy(reads, writes)
<1>1. /\ reads \in [Object -> Nat] /\ writes \in [Object -> Nat]
      /\ CountsOf(rings, reads, writes, refused)
      /\ KeptBy(reads, writes) \subseteq KeptBy(read_count, write_count)
  BY CountsAfterLoss
<1>2. keep \subseteq locked \cup KeptBy(read_count, write_count)
  BY <1>1
<1>3. \A o \in Object : o \in keep => IsLoaded(o)
  BY <1>2, KeptIsLoaded
<1>4. \A a \in Attr : Owner[a] \in keep => rings[a] # <<>>
  BY <1>3, OwnerType DEF LoadedOK
<1>5. locks \in SUBSET Object
  OBVIOUS
<1> HIDE DEF reads, writes
<1>6. Settle(rings, reads, writes, locks)
  BY DEF reads, writes
<1>7. Settled(rings, keep)
  BY <1>1, <1>4, <1>5, <1>6, SettleOK
<1>8. \A o \in Object : IsLoaded(o)' => o \in keep
  BY <1>7 DEF Settled
<1> QED BY <1>3, <1>7, <1>8 DEF reads, writes

-----------------------------------------------------------------------------
(* The inductive invariant *)

\* How many values the ring of a needs besides the first one
Older(a) == Count(Items(transactions), a) + Count(undos, a)

QueueOK ==
  /\ redo_count <= Len(undos) - (IF T!InTransaction THEN 1 ELSE 0)
  /\ T!InTransaction => undos[1] = {}

RingsOK == \A a \in Attr : RingMatches(values[a], Older(a))

DirtyOK ==
  /\ dirty = IF T!InTransaction THEN transactions[1].items ELSE {}
  /\ \A k \in 1..Len(transactions), a \in Attr :
       a \in transactions[k].items => Owner[a] \in finaltr_items

\* What takes part in the commit is locked by it or kept by older locks that
\* no step of this transaction gives back.
LocksOK ==
  /\ ~T!InTransaction => locked = {} /\ finaltr_items = {}
  /\ locked \subseteq finaltr_items
  /\ \A o \in finaltr_items \ locked :
       refused[o] > 0 \/ \E a \in AttrsOf(o) : Count(undos, a) > 0

\* Ids are not given out twice while something still refers to an object.
UsedOK ==
  /\ stored \subseteq used
  /\ \A o \in Object : IsLoaded(o) => o \in used

IInv ==
  /\ TypeOK
  /\ QueueOK
  /\ RingsOK
  /\ DirtyOK
  /\ CountsOf(values, read_count, write_count, refused)
  /\ LoadedOK
  /\ LocksOK
  /\ UsedOK

\* What it says in the terms of the lemmas
LEMMA Facts ==
  ASSUME IInv
  PROVE  /\ CountTypes
         /\ refused \in [Object -> Nat]
         /\ locked \in SUBSET Object
         /\ transactions \in Seq(LevelType)
         /\ undos \in Seq(SUBSET Attr)
         /\ redo_count \in Nat
         /\ \A a \in Attr : /\ Count(Items(transactions), a) \in Nat
                            /\ Count(undos, a) \in Nat
                            /\ Older(a) = Count(Items(transactions), a) + Count(undos, a)
                            /\ Older(a) \in Nat
                            /\ values[a] \in Seq(Target)
                            /\ Len(values[a]) \in Nat
                            /\ values[a] = <<>> => Older(a) = 0 /\ Len(values[a]) = 0
                            /\ values[a] # <<>> => Len(values[a]) = 1 + Older(a)
<1>1. /\ CountTypes /\ refused \in [Object -> Nat] /\ locked \in SUBSET Object
      /\ transactions \in Seq(LevelType) /\ undos \in Seq(SUBSET Attr) /\ redo_count \in Nat
  BY DEF IInv, TypeOK, CountTypes, Rings
<1>2. ASSUME NEW a \in Attr
      PROVE  Count(Items(transactions), a) \in Nat /\ Count(undos, a) \in Nat
  <2>1. Count(Items(transactions), a) \in Nat
    BY <1>1, LevelCount DEF LevelType
  <2>2. Count(undos, a) \in Nat
    BY <1>1, CountType
  <2> QED BY <2>1, <2>2
<1>3. \A a \in Attr : values[a] \in Seq(Target) /\ Len(values[a]) \in Nat
                      /\ (values[a] = <<>> => Len(values[a]) = 0)
  BY <1>1 DEF CountTypes, Rings
<1>4. \A a \in Attr : RingMatches(values[a], Older(a))
  BY DEF IInv, RingsOK
<1>5. \A a \in Attr : Older(a) = Count(Items(transactions), a) + Count(undos, a)
  BY DEF Older
<1>6. \A a \in Attr : /\ values[a] = <<>> => Older(a) = 0
                      /\ values[a] # <<>> => Len(values[a]) = 1 + Older(a)
  BY <1>4 DEF RingMatches
<1> QED BY <1>1, <1>2, <1>3, <1>5, <1>6

\* Between transactions
LEMMA Idle ==
  ASSUME IInv, ~T!InTransaction
  PROVE  /\ transactions = <<>> /\ dirty = {} /\ locked = {} /\ finaltr_items = {}
         /\ redo_count <= Len(undos)
         /\ \A a \in Attr : Older(a) = Count(undos, a)
<1>1. /\ transactions = <<>> /\ dirty = {} /\ locked = {} /\ finaltr_items = {}
      /\ redo_count <= Len(undos) - 0
  BY DEF IInv, T!InTransaction, DirtyOK, LocksOK, QueueOK
<1>2. \A a \in Attr : Count(Items(transactions), a) = 0
  BY <1>1, Facts, LevelCount DEF LevelType
<1>3. redo_count <= Len(undos)
  BY <1>1, Facts
<1> QED BY <1>1, <1>2, <1>3, Facts

(* The counts of an object that has a step to return to are positive.      *)
LEMMA StepKeepsLoaded ==
  ASSUME IInv, NEW a \in Attr, Count(undos, a) > 0
  PROVE  Len(values[a]) >= 2 /\ IsLoaded(Owner[a])
<1>1. Len(values[a]) >= 2 /\ values[a] # <<>>
  <2>1. Count(undos, a) \in Nat /\ Count(Items(transactions), a) \in Nat
        /\ Older(a) = Count(Items(transactions), a) + Count(undos, a)
    BY Facts
  <2>2. Older(a) >= 1
    BY <2>1
  <2>3. values[a] # <<>> /\ Len(values[a]) = 1 + Older(a) /\ Older(a) \in Nat
    BY <2>2, Facts
  <2> QED BY <2>2, <2>3
<1> QED BY <1>1 DEF IInv, LoadedOK

LEMMA FinalItemsAreLoaded ==
  ASSUME IInv
  PROVE  FinalItemsLoaded
<1>1. ASSUME NEW o \in finaltr_items PROVE IsLoaded(o)
  <2>1. o \in Object
    BY DEF IInv, TypeOK
  <2>2. CASE o \in locked
    BY <2>2 DEF IsLoaded
  <2>3. CASE o \notin locked /\ refused[o] > 0
    <3>1. read_count[o] = HeldIn(values, o) + refused[o]
      BY <2>1 DEF IInv, CountsOf
    <3>2. HeldIn(values, o) \in Nat /\ refused[o] \in Nat
      BY <2>1, Facts, CountsAre DEF CountTypes
    <3>3. read_count[o] > 0
      BY <2>3, <3>1, <3>2
    <3> QED BY <3>3 DEF IsLoaded, IsEmpty
  <2>4. CASE \E a \in AttrsOf(o) : Count(undos, a) > 0
    <3>1. PICK a \in AttrsOf(o) : Count(undos, a) > 0
      BY <2>4
    <3>2. a \in Attr /\ Owner[a] = o
      BY DEF AttrsOf
    <3> QED BY <3>1, <3>2, StepKeepsLoaded
  <2> QED BY <2>2, <2>3, <2>4 DEF IInv, LocksOK
<1> QED BY <1>1 DEF FinalItemsLoaded, IInv, LoadedOK

-----------------------------------------------------------------------------
LEMMA InitInv == Init => IInv
<1> SUFFICES ASSUME Init PROVE IInv
  OBVIOUS
<1>1. /\ values = [a \in Attr |-> <<>>] /\ transactions = <<>> /\ undos = <<>>
      /\ finaltr_items = {} /\ dirty = {} /\ locked = {} /\ redo_count = 0
      /\ read_count = [o \in Object |-> 0] /\ write_count = [o \in Object |-> 0]
      /\ refused = [o \in Object |-> 0] /\ uptodate = {} /\ created = {} /\ used = stored
  BY DEF Init
<1>2. stored \in SUBSET Object /\ storage \in [Attr -> Target]
  <2>1. PICK S \in SUBSET (Object \ {Root}) :
          stored = S \cup {Root} /\ storage \in [Attr -> stored \cup {Null}]
    BY DEF Init
  <2>2. stored \subseteq Object
    BY <2>1, ObjectsAssumption
  <2>3. \A a \in Attr : storage[a] \in Target
    BY <2>1, <2>2 DEF Target
  <2> QED BY <2>1, <2>2, <2>3
<1>3. TypeOK
  <2>1. <<>> \in Seq(LevelType) /\ <<>> \in Seq(SUBSET Attr) /\ <<>> \in Seq(Target)
    OBVIOUS
  <2>2. values \in [Attr -> Seq(Target)]
    BY <1>1, <2>1
  <2> QED BY <1>1, <1>2, <2>1, <2>2 DEF TypeOK
<1>4. QueueOK /\ DirtyOK /\ LocksOK
  BY <1>1 DEF QueueOK, DirtyOK, LocksOK, T!InTransaction
<1>5. RingsOK
  <2>1. \A a : Count(undos, a) = 0
    BY <1>1, CountOfEmpty
  <2>2. <<>> \in Seq(LevelOf(Attr))
    OBVIOUS
  <2>3. \A a : Count(Items(<<>>), a) = 0
    BY <2>2, LevelCount
  <2>4. \A a : Older(a) = 0
    BY <1>1, <2>1, <2>3 DEF Older
  <2> QED BY <1>1, <2>4 DEF RingsOK, RingMatches
<1>6. LoadedOK /\ UsedOK
  BY <1>1, OwnerType DEF LoadedOK, UsedOK, IsLoaded, IsEmpty
<1>7. CountsOf(values, read_count, write_count, refused)
  <2>1. values \in Rings /\ Big(values) \in Rings /\ \A a \in Attr : Big(values)[a] = <<>>
    BY <1>1, BigType DEF Big, Rings
  <2>2. ASSUME NEW o PROVE AimedIn(values, o) = 0 /\ HeldIn(values, o) = 0
    <3>1. Mentions(Big(values), o) = Cardinality(Aiming({}, Big(values), o))
      BY <2>1, MentionsOfSingles
    <3>2. Aiming({}, Big(values), o) = {} /\ {a \in AttrsOf(o) : Len(values[a]) >= 2} = {}
      BY <1>1 DEF AttrsOf, Aiming
    <3> QED BY <3>1, <3>2, FS_EmptySet DEF AimedIn, HeldIn
  <2> QED BY <1>1, <2>2 DEF CountsOf
<1> QED BY <1>3, <1>4, <1>5, <1>6, <1>7 DEF IInv

-----------------------------------------------------------------------------
(* Rings that lose values at one place *)

LEMMA CutAtEnd ==
  ASSUME NEW r \in Seq(Target), NEW c \in Nat, c <= Len(r)
  PROVE  /\ SubSeq(r, 1, Len(r) - c) \in Seq(Target)
         /\ Len(SubSeq(r, 1, Len(r) - c)) = Len(r) - c
         /\ SubSeq(r, Len(r) - c + 1, Len(r)) \in Seq(Target)
         /\ Len(r) - c + 1 \in Nat
         /\ IsCut(r, SubSeq(r, 1, Len(r) - c), SubSeq(r, Len(r) - c + 1, Len(r)), Len(r) - c + 1)
<1> DEFINE m == Len(r) - c
           front == SubSeq(r, 1, m)
           back == SubSeq(r, m + 1, Len(r))
<1>1. m \in Nat /\ m <= Len(r) /\ Len(r) \in Nat /\ Len(r) = m + c
  OBVIOUS
<1> HIDE DEF m
<1>2. front \in Seq(Target) /\ Len(front) = m /\ \A k \in 1..m : front[k] = r[k]
  BY <1>1
<1>3. back \in Seq(Target) /\ Len(back) = c /\ \A k \in 1..c : back[k] = r[m + k]
  <2>1. /\ m + 1 \in Int /\ Len(r) \in Int
        /\ \A k \in (m + 1)..Len(r) : r[k] \in Target
    BY <1>1
  <2>2. /\ back \in Seq(Target)
        /\ Len(back) = IF m + 1 <= Len(r) THEN Len(r) - (m + 1) + 1 ELSE 0
        /\ \A k \in 1..(Len(r) - (m + 1) + 1) : back[k] = r[m + 1 + k - 1]
    BY <2>1, SubSeqProperties
  <2> HIDE DEF back
  <2>3. Len(back) = c
    BY <1>1, <2>2
  <2>4. ASSUME NEW k \in 1..c PROVE back[k] = r[m + k]
    <3>1. k \in 1..(Len(r) - (m + 1) + 1) /\ m + 1 + k - 1 = m + k
      BY <1>1
    <3> QED BY <2>2, <3>1
  <2> QED BY <2>2, <2>3, <2>4
<1> HIDE DEF front, back
<1>4. IsCut(r, front, back, m + 1)
  <2>1. \A k \in 1..Len(back) : (m + 1) + k - 1 = m + k
    BY <1>1, <1>3
  <2> QED BY <1>1, <1>2, <1>3, <2>1 DEF IsCut
<1>5. m + 1 \in Nat
  BY <1>1
<1> QED BY <1>2, <1>3, <1>4, <1>5, Zenon DEF m, front, back

LEMMA CutFirst ==
  ASSUME NEW r \in Seq(Target), r # <<>>
  PROVE  /\ Tail(r) \in Seq(Target) /\ <<r[1]>> \in Seq(Target) /\ r[1] \in Target
         /\ Len(Tail(r)) = Len(r) - 1
         /\ IsCut(r, Tail(r), <<r[1]>>, 1)
<1>1. /\ Tail(r) \in Seq(Target) /\ <<r[1]>> \in Seq(Target) /\ r[1] \in Target
      /\ Len(Tail(r)) = Len(r) - 1 /\ Len(r) \in Nat /\ Len(r) >= 1
      /\ \A k \in 1..Len(Tail(r)) : Tail(r)[k] = r[k + 1]
      /\ Len(<<r[1]>>) = 1 /\ <<r[1]>>[1] = r[1]
  OBVIOUS
<1> DEFINE t == Tail(r)
           c == <<r[1]>>
<1> HIDE DEF t, c
<1>2. IsCut(r, t, c, 1)
  BY <1>1 DEF IsCut, t, c
<1> QED BY <1>1, <1>2 DEF t, c

LEMMA CutNothing ==
  ASSUME NEW r \in Seq(Target)
  PROVE  IsCut(r, r, <<>>, 1) /\ <<>> \in Seq(Target)
<1>1. Len(r) \in Nat /\ Len(<<>>) = 0 /\ <<>> \in Seq(Target) /\ 1..0 = {}
  OBVIOUS
<1>2. \A k \in 1..Len(r) : r[k] = r[k + 0] /\ ~(k < 1)
  BY <1>1
<1> QED BY <1>1, <1>2 DEF IsCut

LEMMA CutSecond ==
  ASSUME NEW r \in Seq(Target), Len(r) >= 2
  PROVE  /\ T!WithoutSecond(r) \in Seq(Target) /\ <<r[2]>> \in Seq(Target)
         /\ Len(T!WithoutSecond(r)) = Len(r) - 1
         /\ IsCut(r, T!WithoutSecond(r), <<r[2]>>, 2)
<1> DEFINE new == T!WithoutSecond(r)
           sub == SubSeq(r, 3, Len(r))
           c == <<r[2]>>
<1>1. Len(r) \in Nat /\ r[1] \in Target /\ r[2] \in Target /\ <<r[1]>> \in Seq(Target)
      /\ c \in Seq(Target) /\ Len(c) = 1 /\ c[1] = r[2]
  OBVIOUS
<1>2. sub \in Seq(Target) /\ Len(sub) = Len(r) - 2 /\ \A k \in 1..(Len(r) - 2) : sub[k] = r[k + 2]
  <2>1. /\ 3 \in Int /\ Len(r) \in Int
        /\ \A k \in 3..Len(r) : r[k] \in Target
    BY <1>1
  <2>2. /\ sub \in Seq(Target)
        /\ Len(sub) = IF 3 <= Len(r) THEN Len(r) - 3 + 1 ELSE 0
        /\ \A k \in 1..(Len(r) - 3 + 1) : sub[k] = r[3 + k - 1]
    BY <2>1, SubSeqProperties
  <2> HIDE DEF sub
  <2>3. Len(sub) = Len(r) - 2
    <3>1. \A m \in Nat : m >= 2 => (IF 3 <= m THEN m - 3 + 1 ELSE 0) = m - 2
      OBVIOUS
    <3> QED BY <1>1, <2>2, <3>1, Zenon
  <2>4. ASSUME NEW k \in 1..(Len(r) - 2) PROVE sub[k] = r[k + 2]
    <3>1. k \in 1..(Len(r) - 3 + 1) /\ 3 + k - 1 = k + 2
      BY <1>1
    <3> QED BY <2>2, <3>1
  <2> QED BY <2>2, <2>3, <2>4
<1>3. new = <<r[1]>> \o sub
  BY DEF T!WithoutSecond
<1> HIDE DEF new, sub, c
<1>4. /\ new \in Seq(Target) /\ Len(new) = Len(r) - 1 /\ new[1] = r[1]
      /\ \A k \in 2..(Len(r) - 1) : new[k] = sub[k - 1]
  BY <1>1, <1>2, <1>3
<1>5. ASSUME NEW k \in 1..(Len(r) - 1) PROVE new[k] = IF k < 2 THEN r[k] ELSE r[k + 1]
  <2>1. CASE k = 1
    BY <1>4, <2>1
  <2>2. CASE k # 1
    <3>1. k \in 2..(Len(r) - 1) /\ k - 1 \in 1..(Len(r) - 2) /\ (k - 1) + 2 = k + 1 /\ ~(k < 2)
      BY <1>1, <2>2
    <3> QED BY <1>2, <1>4, <3>1
  <2> QED BY <2>1, <2>2
<1>6. IsCut(r, new, c, 2)
  <2>1. 2 \in 1..(Len(new) + 1) /\ Len(r) = Len(new) + Len(c)
    BY <1>1, <1>4
  <2>2. \A k \in 1..Len(c) : r[2 + k - 1] = c[k]
    BY <1>1
  <2> QED BY <1>1, <1>4, <1>5, <2>1, <2>2 DEF IsCut
<1> QED BY <1>1, <1>4, <1>6 DEF new, c

-----------------------------------------------------------------------------
(* Between transactions                                                    *)

LEMMA SameCardinality == \A S : T!Cardinality(S) = Cardinality(S)
BY Zenon DEF T!Cardinality, Cardinality

LEMMA DiscardOK ==
  ASSUME IInv, ~T!InTransaction, NEW n \in 0..Len(undos), DiscardTo(n)
  PROVE  /\ Settled(T!DropLast(n), KeptBy(read_count', write_count'))
         /\ \A o \in Object : IsLoaded(o)' => IsLoaded(o)
         /\ \A a \in Attr : RingMatches(values'[a], Count(SubSeq(undos, 1, n), a))
         /\ locked' = {} /\ stored' \subseteq stored
<1> DEFINE rings == T!DropLast(n)
           lost == LostAfter(n)
           gone(a) == CountAfter(undos, n, a)
           left(a) == Count(SubSeq(undos, 1, n), a)
           at == [a \in Attr |-> Len(values[a]) - gone(a) + 1]
<1>1. undos \in Seq(SUBSET Attr) /\ SubSeq(undos, 1, n) \in Seq(SUBSET Attr)
  BY Facts
<1>2. \A a \in Attr : Cardinality(T!StepsAfter(n, a)) = gone(a)
  BY DEF T!StepsAfter, CountAfter, OccursAfter
<1>3. ASSUME NEW a \in Attr
      PROVE  gone(a) \in Nat /\ left(a) \in Nat /\ Count(undos, a) = left(a) + gone(a)
  BY <1>1, UpToType DEF CountUpTo
<1>4. \A a \in Attr : /\ rings[a] = SubSeq(values[a], 1, Len(values[a]) - gone(a))
                      /\ lost[a] = SubSeq(values[a], Len(values[a]) - gone(a) + 1, Len(values[a]))
  <2>1. \A a \in Attr :
          /\ rings[a] = SubSeq(values[a], 1, Len(values[a]) - Cardinality(T!StepsAfter(n, a)))
          /\ lost[a] = SubSeq(values[a], Len(values[a]) - Cardinality(T!StepsAfter(n, a)) + 1,
                             Len(values[a]))
    BY SameCardinality DEF T!DropLast, LostAfter
  <2> HIDE DEF rings, lost, gone
  <2> QED BY <1>2, <2>1, Zenon
<1>5. DOMAIN rings = Attr /\ DOMAIN lost = Attr /\ rings = [a \in Attr |-> rings[a]]
      /\ lost = [a \in Attr |-> lost[a]]
  BY DEF T!DropLast, LostAfter
<1> HIDE DEF rings, lost, gone, left
<1>6. ASSUME NEW a \in Attr
      PROVE  /\ gone(a) <= Len(values[a])
             /\ values[a] # <<>> => Len(values[a]) - gone(a) = 1 + left(a)
             /\ values[a] = <<>> => left(a) = 0 /\ Len(values[a]) - gone(a) = 0
  <2>1. Older(a) = Count(undos, a)
    BY Idle
  <2>2. Len(values[a]) \in Nat /\ (values[a] = <<>> => Older(a) = 0 /\ Len(values[a]) = 0)
        /\ (values[a] # <<>> => Len(values[a]) = 1 + Older(a))
    BY Facts
  <2> QED BY <1>3, <2>1, <2>2
<1>7. ASSUME NEW a \in Attr
      PROVE  /\ rings[a] \in Seq(Target) /\ lost[a] \in Seq(Target) /\ at[a] \in Nat
             /\ IsCut(values[a], rings[a], lost[a], at[a])
             /\ Len(rings[a]) = Len(values[a]) - gone(a)
  <2> DEFINE r == values[a]
             c == gone(a)
  <2>1. r \in Seq(Target) /\ c \in Nat /\ c <= Len(r)
    BY <1>3, <1>6, Facts
  <2>2. at[a] = Len(r) - c + 1 /\ rings[a] = SubSeq(r, 1, Len(r) - c)
        /\ lost[a] = SubSeq(r, Len(r) - c + 1, Len(r))
    BY <1>4
  <2> HIDE DEF r, c, at
  <2>3. /\ SubSeq(r, 1, Len(r) - c) \in Seq(Target)
        /\ Len(SubSeq(r, 1, Len(r) - c)) = Len(r) - c
        /\ SubSeq(r, Len(r) - c + 1, Len(r)) \in Seq(Target)
        /\ Len(r) - c + 1 \in Nat
        /\ IsCut(r, SubSeq(r, 1, Len(r) - c), SubSeq(r, Len(r) - c + 1, Len(r)), Len(r) - c + 1)
    BY <2>1, CutAtEnd
  <2> QED BY <2>2, <2>3 DEF r, c
<1>8. rings \in Rings /\ lost \in Rings /\ at \in [Attr -> Nat]
  BY <1>5, <1>7 DEF Rings
<1>9. ASSUME NEW a \in Attr
      PROVE  /\ values[a] # <<>> => rings[a] # <<>>
             /\ RingMatches(rings[a], left(a))
  <2>1. rings[a] = <<>> <=> Len(rings[a]) = 0
    BY <1>7
  <2>2. CASE values[a] = <<>>
    <3>1. left(a) = 0 /\ rings[a] = <<>>
      BY <1>6, <1>7, <2>1, <2>2
    <3> QED BY <2>2, <3>1 DEF RingMatches
  <2>3. CASE values[a] # <<>>
    <3>1. Len(rings[a]) = 1 + left(a)
      BY <1>6, <1>7, <2>3
    <3>2. rings[a] # <<>>
      BY <1>3, <2>1, <3>1
    <3> QED BY <3>1, <3>2 DEF RingMatches
  <2> QED BY <2>2, <2>3
<1>10. /\ Settle(rings, ReadsWithout(lost), WritesWithout(lost), {})
       /\ stored' \subseteq stored
  BY DEF DiscardTo, rings, lost
<1> HIDE DEF at
<1>11. /\ Settled(rings, {} \cup KeptBy(ReadsWithout(lost), WritesWithout(lost)))
       /\ \A o \in Object : IsLoaded(o)' => IsLoaded(o)
  <2>1. {} \in SUBSET locked /\ locked \in SUBSET Object /\ CountTypes /\ refused \in [Object -> Nat]
    BY Facts
  <2>2. LoadedOK /\ CountsOf(values, read_count, write_count, refused)
    BY DEF IInv
  <2> QED BY <1>7, <1>8, <1>9, <1>10, <2>1, <2>2, LossOK
<1>12. read_count' = ReadsWithout(lost) /\ write_count' = WritesWithout(lost) /\ locked' = {}
  BY <1>10 DEF Settle
<1>13. Settled(rings, KeptBy(read_count', write_count'))
  <2>1. {} \cup KeptBy(ReadsWithout(lost), WritesWithout(lost)) = KeptBy(read_count', write_count')
    BY <1>12
  <2> QED BY <1>11, <2>1
<1>14. \A a \in Attr : RingMatches(values'[a], left(a))
  BY <1>3, <1>9, <1>13 DEF Settled
<1> QED BY <1>10, <1>11, <1>12, <1>13, <1>14 DEF rings, left

\* What has to be shown of a step after which no transaction is open
LEMMA IdleAgainInv ==
  ASSUME IInv,
         transactions' = <<>>, dirty' = {}, locked' = {}, finaltr_items' = {},
         undos' \in Seq(SUBSET Attr), redo_count' \in Nat, redo_count' <= Len(undos'),
         CountTypes', CountsOf(values', read_count', write_count', refused'), LoadedOK',
         \A a \in Attr : RingMatches(values'[a], Count(undos', a)),
         \A o \in Object : IsLoaded(o)' => IsLoaded(o),
         stored' \subseteq stored, storage' \in [Attr -> Target],
         created' \in SUBSET Object, uptodate' \subseteq uptodate,
         UNCHANGED <<used, refused>>
  PROVE  IInv'
<1>1. TypeOK'
  <2>1. transactions' \in Seq(LevelType)
    OBVIOUS
  <2>2. /\ stored \in SUBSET Object /\ used \in SUBSET Object /\ refused \in [Object -> Nat]
        /\ uptodate \in SUBSET (Object \X Pointer)
    BY DEF IInv, TypeOK
  <2>3. stored' \in SUBSET Object /\ uptodate' \in SUBSET (Object \X Pointer)
    BY <2>2
  <2> QED BY <2>1, <2>2, <2>3 DEF TypeOK, CountTypes, Rings
<1>2. QueueOK' /\ DirtyOK' /\ LocksOK'
  <2>1. Len(undos') \in Nat
    OBVIOUS
  <2> QED BY <2>1 DEF QueueOK, DirtyOK, LocksOK, T!InTransaction
<1>3. RingsOK'
  <2>1. ASSUME NEW a \in Attr PROVE Older(a)' = Count(undos', a)
    <3>1. Count(undos', a) \in Nat
      BY CountType
    <3>2. Count(Items(transactions'), a) = 0
      <4>1. <<>> \in Seq(LevelOf(Attr))
        OBVIOUS
      <4>2. Count(Items(<<>>), a) = 0
        BY <4>1, LevelCount
      <4> QED BY <4>2
    <3> QED BY <3>1, <3>2 DEF Older
  <2> QED BY <2>1 DEF RingsOK
<1>4. UsedOK'
  BY DEF IInv, UsedOK
<1> QED BY <1>1, <1>2, <1>3, <1>4 DEF IInv

LEMMA FlushInv ==
  ASSUME IInv, NEW n \in 0..Len(undos), Flush(n)
  PROVE  IInv'
<1>1. /\ ~T!InTransaction /\ DiscardTo(n) /\ undos' = SubSeq(undos, 1, n)
      /\ redo_count' = T!RedoneAfterDiscard(n)
      /\ UNCHANGED <<transactions, dirty, storage, used, created, finaltr_items, refused>>
  BY DEF Flush
<1>2. /\ transactions' = <<>> /\ dirty' = {} /\ finaltr_items' = {}
      /\ redo_count <= Len(undos) /\ redo_count \in Nat /\ undos \in Seq(SUBSET Attr)
  BY <1>1, Idle, Facts
<1>3. /\ undos' \in Seq(SUBSET Attr) /\ Len(undos') = n
  BY <1>1, <1>2
<1>4. redo_count' \in Nat /\ redo_count' <= n
  BY <1>1, <1>2 DEF T!RedoneAfterDiscard
<1>5. /\ Settled(T!DropLast(n), KeptBy(read_count', write_count'))
      /\ \A o \in Object : IsLoaded(o)' => IsLoaded(o)
      /\ \A a \in Attr : RingMatches(values'[a], Count(undos', a))
      /\ locked' = {} /\ stored' \subseteq stored
  BY <1>1, DiscardOK
<1>6. /\ CountTypes' /\ CountsOf(values', read_count', write_count', refused') /\ LoadedOK'
      /\ uptodate' \subseteq uptodate
  BY <1>1, <1>5 DEF Settled
<1>7. storage' \in [Attr -> Target] /\ created' \in SUBSET Object
  BY <1>1 DEF IInv, TypeOK
<1> QED BY <1>1, <1>2, <1>3, <1>4, <1>5, <1>6, <1>7, IdleAgainInv

LEMMA BeginFinalInv ==
  ASSUME IInv, NEW readonly \in BOOLEAN, BeginFinalTr(readonly)
  PROVE  IInv'
<1> DEFINE level == T!Level(readonly)
<1>1. /\ ~T!InTransaction
      /\ transactions' = <<level>>
      /\ IF readonly
           THEN /\ undos' = <<{}>> \o undos
                /\ UNCHANGED <<redo_count, values, stored, lockVars, uptodate>>
           ELSE /\ undos' = <<{}>> \o SubSeq(undos, 1, T!Kept)
                /\ redo_count' = 0
                /\ DiscardTo(T!Kept)
                /\ UNCHANGED finaltr_items
      /\ UNCHANGED <<dirty, storage, used, created, refused>>
  BY DEF BeginFinalTr
<1>2. level \in LevelType /\ level.items = {}
  BY DEF T!Level, LevelType, LevelOf
<1>3. /\ transactions = <<>> /\ dirty = {} /\ locked = {} /\ finaltr_items = {}
      /\ redo_count <= Len(undos) /\ redo_count \in Nat /\ undos \in Seq(SUBSET Attr)
      /\ \A a \in Attr : Older(a) = Count(undos, a)
  BY <1>1, Idle, Facts
<1>4. PICK n \in 0..Len(undos) :
        /\ undos' = <<{}>> \o SubSeq(undos, 1, n)
        /\ redo_count' \in 0..n
        /\ CountTypes' /\ CountsOf(values', read_count', write_count', refused') /\ LoadedOK'
        /\ \A a \in Attr : RingMatches(values'[a], Count(SubSeq(undos, 1, n), a))
        /\ \A o \in Object : IsLoaded(o)' => IsLoaded(o)
        /\ locked' = {} /\ finaltr_items' = {}
        /\ stored' \subseteq stored /\ uptodate' \subseteq uptodate
  <2>1. CASE readonly
    <3>1. /\ undos' = <<{}>> \o undos
          /\ UNCHANGED <<redo_count, values, stored, lockVars, uptodate, refused>>
      BY <1>1, <2>1
    <3>2. SubSeq(undos, 1, Len(undos)) = undos /\ Len(undos) \in 0..Len(undos)
      BY <1>3
    <3>3. UNCHANGED <<finaltr_items, locked, read_count, write_count>>
      BY <3>1 DEF lockVars
    <3>4. CountTypes' /\ CountsOf(values', read_count', write_count', refused') /\ LoadedOK'
      BY <3>1, <3>3, Facts DEF IInv, CountTypes, LoadedOK, IsLoaded, IsEmpty
    <3>5. \A a \in Attr : RingMatches(values'[a], Count(undos, a))
      BY <1>3, <3>1 DEF IInv, RingsOK
    <3>6. \A o \in Object : IsLoaded(o)' => IsLoaded(o)
      BY <3>1, <3>3 DEF IsLoaded, IsEmpty
    <3>7. redo_count' \in 0..Len(undos)
      BY <1>3, <3>1
    <3> WITNESS Len(undos) \in 0..Len(undos)
    <3> QED BY <1>3, <3>1, <3>2, <3>3, <3>4, <3>5, <3>6, <3>7
  <2>2. CASE ~readonly
    <3>1. /\ undos' = <<{}>> \o SubSeq(undos, 1, T!Kept) /\ redo_count' = 0
          /\ DiscardTo(T!Kept) /\ UNCHANGED <<finaltr_items, refused>>
      BY <1>1, <2>2
    <3>2. T!Kept \in 0..Len(undos)
      BY <1>3, UndoAssumption DEF T!Kept
    <3>3. /\ Settled(T!DropLast(T!Kept), KeptBy(read_count', write_count'))
          /\ \A o \in Object : IsLoaded(o)' => IsLoaded(o)
          /\ \A a \in Attr : RingMatches(values'[a], Count(SubSeq(undos, 1, T!Kept), a))
          /\ locked' = {} /\ stored' \subseteq stored
      BY <1>1, <3>1, <3>2, DiscardOK
    <3>4. /\ CountTypes' /\ CountsOf(values', read_count', write_count', refused') /\ LoadedOK'
          /\ uptodate' \subseteq uptodate
      BY <3>1, <3>3 DEF Settled
    <3>5. redo_count' \in 0..T!Kept
      BY <3>1, <3>2
    <3> HIDE DEF T!Kept
    <3> WITNESS T!Kept \in 0..Len(undos)
    <3> QED BY <1>3, <3>1, <3>3, <3>4, <3>5
  <2> QED BY <2>1, <2>2
<1> DEFINE rest == SubSeq(undos, 1, n)
<1>5. rest \in Seq(SUBSET Attr) /\ Len(rest) = n
  BY <1>3
<1> HIDE DEF rest
<1>6. /\ undos' \in Seq(SUBSET Attr) /\ Len(undos') = n + 1 /\ undos'[1] = {}
  BY <1>4, <1>5 DEF rest
<1>7. transactions' \in Seq(LevelType) /\ transactions'[1] = level /\ Len(transactions') = 1
      /\ T!InTransaction'
  BY <1>1, <1>2 DEF T!InTransaction
<1>8. ASSUME NEW a \in Attr PROVE Older(a)' = Count(rest, a)
  <2>1. Count(Items(transactions'), a) = 0
    BY <1>1, <1>2, LevelCountOfOne DEF LevelType
  <2>2. undos' = <<{}>> \o rest
    BY <1>4 DEF rest
  <2>3. Count(undos', a) = Count(rest, a) + 0
    BY <1>5, <2>2, CountOfPrepend
  <2>4. Count(rest, a) \in Nat
    BY <1>5, CountType
  <2> QED BY <2>1, <2>3, <2>4 DEF Older
<1>9. TypeOK'
  <2>1. /\ stored \in SUBSET Object /\ used \in SUBSET Object /\ created \in SUBSET Object
        /\ refused \in [Object -> Nat] /\ uptodate \in SUBSET (Object \X Pointer)
        /\ storage \in [Attr -> Target]
    BY DEF IInv, TypeOK
  <2>2. stored' \in SUBSET Object /\ uptodate' \in SUBSET (Object \X Pointer)
    BY <1>4, <2>1
  <2>3. redo_count' \in Nat
    BY <1>4
  <2> QED BY <1>1, <1>3, <1>4, <1>6, <1>7, <2>1, <2>2, <2>3 DEF TypeOK, CountTypes, Rings
<1>10. QueueOK'
  <2>1. redo_count' <= Len(undos') - 1
    BY <1>4, <1>6
  <2> QED BY <1>6, <1>7, <2>1 DEF QueueOK
<1>11. RingsOK'
  BY <1>4, <1>8 DEF RingsOK, rest
<1>12. DirtyOK'
  <2>1. dirty' = {} /\ \A k \in 1..Len(transactions') : transactions'[k] = level
    BY <1>1, <1>3, <1>7
  <2> QED BY <1>2, <1>7, <2>1 DEF DirtyOK
<1>13. LocksOK'
  BY <1>4, <1>7 DEF LocksOK
<1>14. UsedOK'
  BY <1>1, <1>4 DEF IInv, UsedOK
<1> QED BY <1>4, <1>9, <1>10, <1>11, <1>12, <1>13, <1>14 DEF IInv

-----------------------------------------------------------------------------
(* Levels                                                                  *)

Rest == Tail(transactions)

LEMMA Stack ==
  ASSUME IInv, T!InTransaction
  PROVE  /\ transactions \in Seq(LevelType) /\ transactions # <<>> /\ Len(transactions) \in Nat
         /\ transactions[1] \in LevelType /\ dirty = transactions[1].items
         /\ dirty \in SUBSET Attr
         /\ transactions = <<transactions[1]>> \o Rest
         /\ Rest \in Seq(LevelType) /\ Len(Rest) = Len(transactions) - 1
         /\ \A k \in 1..Len(Rest) : Rest[k] = transactions[k + 1]
         /\ \A a \in Attr :
              /\ Count(Items(Rest), a) \in Nat
              /\ Older(a) = Count(Items(Rest), a) + (IF a \in dirty THEN 1 ELSE 0) + Count(undos, a)
         /\ \A a \in dirty : Owner[a] \in finaltr_items
<1>1. transactions \in Seq(LevelType) /\ transactions # <<>>
  BY DEF IInv, TypeOK, T!InTransaction
<1>2. dirty = transactions[1].items /\ dirty \in SUBSET Attr
  BY DEF IInv, TypeOK, DirtyOK
<1>3. /\ transactions[1] \in LevelType
      /\ transactions = <<transactions[1]>> \o Rest
      /\ Rest \in Seq(LevelType) /\ Len(Rest) = Len(transactions) - 1
      /\ \A k \in 1..Len(Rest) : Rest[k] = transactions[k + 1]
      /\ Len(transactions) \in Nat /\ Len(transactions) >= 1
  BY <1>1 DEF Rest
<1>4. ASSUME NEW a \in Attr
      PROVE  /\ Count(Items(Rest), a) \in Nat
             /\ Older(a) = Count(Items(Rest), a) + (IF a \in dirty THEN 1 ELSE 0) + Count(undos, a)
  <2>1. Count(Items(Rest), a) \in Nat
    BY <1>3, LevelCount DEF LevelType
  <2>2. Count(Items(transactions), a) = Count(Items(Rest), a)
          + (IF a \in transactions[1].items THEN 1 ELSE 0)
    BY <1>1, LevelCount DEF LevelType, Rest
  <2> QED BY <1>2, <2>1, <2>2, Facts
<1>5. \A a \in dirty : Owner[a] \in finaltr_items
  <2>1. 1 \in 1..Len(transactions)
    BY <1>3
  <2> QED BY <1>2, <2>1 DEF IInv, DirtyOK
<1> QED BY <1>1, <1>2, <1>3, <1>4, <1>5

LEMMA BeginNestedInv ==
  ASSUME IInv, NEW readonly \in BOOLEAN, BeginNestedTr(readonly)
  PROVE  IInv'
<1> DEFINE level == T!Level(readonly)
<1>1. /\ T!InTransaction /\ dirty' = dirty \ transactions[1].items
      /\ transactions' = <<level>> \o transactions
      /\ UNCHANGED <<finaltr_items, undos, redo_count, values, locked>>
      /\ UNCHANGED <<objectVars, read_count, write_count, uptodate, refused>>
  BY DEF BeginNestedTr, T!BeginNestedTr
<1>2. level \in LevelType /\ level.items = {}
  BY DEF T!Level, LevelType, LevelOf
<1>3. transactions \in Seq(LevelType) /\ transactions # <<>> /\ dirty' = {}
  BY <1>1, Stack
<1>4. /\ transactions' \in Seq(LevelType) /\ transactions' # <<>> /\ transactions'[1] = level
      /\ Len(transactions') = Len(transactions) + 1
      /\ \A k \in 2..Len(transactions') : transactions'[k] = transactions[k - 1]
  BY <1>1, <1>2, <1>3
<1>5. UNCHANGED <<storage, stored, used, created>>
  BY <1>1 DEF objectVars
<1>6. TypeOK'
  BY <1>1, <1>3, <1>4, <1>5 DEF IInv, TypeOK
<1>7. T!InTransaction'
  BY <1>4 DEF T!InTransaction
<1>8. QueueOK' /\ LocksOK'
  BY <1>1, <1>7 DEF IInv, QueueOK, LocksOK
<1>9. RingsOK'
  <2>1. ASSUME NEW a \in Attr PROVE Older(a)' = Older(a)
    <3>1. Count(Items(transactions'), a) = Count(Items(transactions), a) + 0
      BY <1>1, <1>2, <1>3, LevelCountOfPrepend DEF LevelType
    <3> QED BY <1>1, <3>1, Facts DEF Older
  <2> QED BY <1>1, <2>1 DEF IInv, RingsOK
<1>10. DirtyOK'
  <2>1. ASSUME NEW k \in 1..Len(transactions'), NEW a \in Attr, a \in transactions'[k].items
        PROVE  Owner[a] \in finaltr_items
    <3>1. k # 1
      BY <1>2, <1>4, <2>1
    <3>2. k \in 2..Len(transactions') /\ k - 1 \in 1..Len(transactions)
      BY <1>3, <1>4, <3>1
    <3> QED BY <1>4, <2>1, <3>2 DEF IInv, DirtyOK
  <2> QED BY <1>1, <1>2, <1>3, <1>4, <1>7, <2>1 DEF DirtyOK
<1>11. LoadedOK' /\ UsedOK' /\ CountsOf(values', read_count', write_count', refused')
  BY <1>1, <1>5 DEF IInv, LoadedOK, UsedOK, IsLoaded, IsEmpty
<1> QED BY <1>6, <1>8, <1>9, <1>10, <1>11 DEF IInv

\* What has to be shown of the end of a nested level
LEMMA LevelEndsInv ==
  ASSUME IInv, T!InTransaction, NEW level \in LevelType, NEW below \in Seq(LevelType),
         transactions' = <<level>> \o below, dirty' = level.items,
         \A a \in level.items : Owner[a] \in finaltr_items,
         \A k \in 1..Len(below), a \in Attr : a \in below[k].items => Owner[a] \in finaltr_items,
         CountTypes', CountsOf(values', read_count', write_count', refused'), LoadedOK',
         \A a \in Attr : RingMatches(values'[a], Count(Items(below), a)
                           + (IF a \in level.items THEN 1 ELSE 0) + Count(undos, a)),
         \A o \in Object : IsLoaded(o)' => IsLoaded(o),
         locked' = locked, uptodate' \subseteq uptodate,
         UNCHANGED <<undos, redo_count, objectVars, finaltr_items, refused>>
  PROVE  IInv'
<1>1. UNCHANGED <<storage, stored, used, created>>
  BY DEF objectVars
<1>2. /\ transactions' \in Seq(LevelType) /\ transactions' # <<>> /\ transactions'[1] = level
      /\ Len(transactions') = Len(below) + 1 /\ Len(below) \in Nat
      /\ \A k \in 2..Len(transactions') : transactions'[k] = below[k - 1]
  OBVIOUS
<1>3. level.items \in SUBSET Attr
  BY DEF LevelType, LevelOf
<1>4. TypeOK'
  <2>1. uptodate' \in SUBSET (Object \X Pointer)
    BY DEF IInv, TypeOK
  <2> QED BY <1>1, <1>2, <1>3, <2>1 DEF IInv, TypeOK, CountTypes, Rings
<1>5. T!InTransaction'
  BY <1>2 DEF T!InTransaction
<1>6. QueueOK' /\ LocksOK'
  BY <1>5 DEF IInv, QueueOK, LocksOK
<1>7. RingsOK'
  <2>1. ASSUME NEW a \in Attr
        PROVE  Older(a)' = Count(Items(below), a) + (IF a \in level.items THEN 1 ELSE 0) + Count(undos, a)
    <3>1. Count(Items(transactions'), a) = Count(Items(below), a) + (IF a \in level.items THEN 1 ELSE 0)
      BY LevelCountOfPrepend DEF LevelType
    <3> QED BY <3>1 DEF Older
  <2> QED BY <2>1 DEF RingsOK
<1>8. DirtyOK'
  <2>1. ASSUME NEW k \in 1..Len(transactions'), NEW a \in Attr, a \in transactions'[k].items
        PROVE  Owner[a] \in finaltr_items
    <3>1. CASE k = 1
      BY <1>2, <2>1, <3>1
    <3>2. CASE k # 1
      <4>1. k \in 2..Len(transactions') /\ k - 1 \in 1..Len(below)
        BY <1>2, <3>2
      <4> QED BY <1>2, <2>1, <4>1
    <3> QED BY <3>1, <3>2
  <2> QED BY <1>2, <1>5, <2>1 DEF DirtyOK
<1>9. UsedOK'
  BY <1>1 DEF IInv, UsedOK
<1> QED BY <1>4, <1>6, <1>7, <1>8, <1>9 DEF IInv

\* The first values of the rings of some attributes are taken off.
LEMMA FirstLostOK ==
  ASSUME IInv, NEW attrs \in SUBSET Attr, NEW locks \in SUBSET locked,
         \A a \in attrs : Older(a) >= 1,
         Settle(T!DropFirst(attrs), ReadsWithout(FirstLost(attrs)), WritesWithout(FirstLost(attrs)), locks),
         UNCHANGED refused
  PROVE  /\ CountTypes' /\ CountsOf(values', read_count', write_count', refused') /\ LoadedOK'
         /\ \A o \in Object : IsLoaded(o)' => IsLoaded(o)
         /\ \A a \in Attr : RingMatches(values'[a], Older(a) - (IF a \in attrs THEN 1 ELSE 0))
         /\ uptodate' \subseteq uptodate /\ locked' = locks
<1> DEFINE rings == T!DropFirst(attrs)
           lost == FirstLost(attrs)
           at == [a \in Attr |-> 1]
<1>1. /\ \A a \in Attr : rings[a] = IF a \in attrs THEN Tail(values[a]) ELSE values[a]
      /\ \A a \in Attr : lost[a] = IF a \in attrs THEN <<values[a][1]>> ELSE <<>>
      /\ rings = [a \in Attr |-> rings[a]] /\ lost = [a \in Attr |-> lost[a]]
  BY DEF T!DropFirst, FirstLost
<1> HIDE DEF rings, lost
<1>2. ASSUME NEW a \in Attr
      PROVE  /\ rings[a] \in Seq(Target) /\ lost[a] \in Seq(Target)
             /\ IsCut(values[a], rings[a], lost[a], 1)
             /\ values[a] # <<>> => rings[a] # <<>>
             /\ RingMatches(rings[a], Older(a) - (IF a \in attrs THEN 1 ELSE 0))
  <2>1. values[a] \in Seq(Target) /\ Len(values[a]) \in Nat /\ Older(a) \in Nat
        /\ (values[a] = <<>> => Older(a) = 0)
        /\ (values[a] # <<>> => Len(values[a]) = 1 + Older(a))
    BY Facts
  <2>2. CASE a \in attrs
    <3> DEFINE r == values[a]
               n == Older(a)
               s == Tail(r)
    <3>1. r # <<>> /\ Len(r) = 1 + n /\ n >= 1 /\ n \in Nat /\ r \in Seq(Target)
      BY <2>1, <2>2
    <3>2. rings[a] = s /\ lost[a] = <<r[1]>>
      BY <1>1, <2>2
    <3> HIDE DEF r, n
    <3>3. /\ s \in Seq(Target) /\ <<r[1]>> \in Seq(Target)
          /\ Len(s) = Len(r) - 1
          /\ IsCut(r, s, <<r[1]>>, 1)
      BY <3>1, CutFirst
    <3> HIDE DEF s
    <3>4. Len(s) = 1 + (n - 1) /\ Len(s) # 0
      BY <3>1, <3>3
    <3>5. s # <<>>
      BY <3>4
    <3>6. RingMatches(s, n - 1)
      BY <3>4, <3>5 DEF RingMatches
    <3> QED BY <2>2, <3>2, <3>3, <3>5, <3>6 DEF r, n
  <2>3. CASE a \notin attrs
    <3>1. RingMatches(values[a], Older(a) - 0)
      BY <2>1 DEF RingMatches
    <3> QED BY <1>1, <2>1, <2>3, <3>1, CutNothing
  <2> QED BY <2>2, <2>3
<1>3. rings \in Rings /\ lost \in Rings /\ at \in [Attr -> Nat] /\ \A a \in Attr : at[a] = 1
  BY <1>1, <1>2 DEF Rings
<1> HIDE DEF at
<1>4. /\ Settled(rings, locks \cup KeptBy(ReadsWithout(lost), WritesWithout(lost)))
      /\ \A o \in Object : IsLoaded(o)' => IsLoaded(o)
  <2>1. CountTypes /\ refused \in [Object -> Nat] /\ locked \in SUBSET Object
    BY Facts
  <2>2. LoadedOK /\ CountsOf(values, read_count, write_count, refused)
    BY DEF IInv
  <2>3. Settle(rings, ReadsWithout(lost), WritesWithout(lost), locks)
    BY DEF rings, lost
  <2>4. \A a \in Attr : IsCut(values[a], rings[a], lost[a], at[a])
    BY <1>2, <1>3
  <2>5. \A a \in Attr : values[a] # <<>> => rings[a] # <<>>
    BY <1>2
  <2> QED BY <1>3, <2>1, <2>2, <2>3, <2>4, <2>5, LossOK
<1>5. \A a \in Attr : Older(a) - (IF a \in attrs THEN 1 ELSE 0) \in Nat
  BY Facts
<1>6. locked' = locks
  BY DEF Settle
<1> QED BY <1>2, <1>4, <1>5, <1>6 DEF Settled

Below == Tail(Rest)

LEMMA TwoLevels ==
  ASSUME IInv, Len(transactions) >= 2
  PROVE  /\ T!InTransaction
         /\ transactions[1] \in LevelType /\ transactions[2] \in LevelType
         /\ dirty = transactions[1].items /\ dirty \in SUBSET Attr
         /\ transactions[2].items \in SUBSET Attr
         /\ Below \in Seq(LevelType)
         /\ Tail(transactions) = <<transactions[2]>> \o Below
         /\ SubSeq(transactions, 3, Len(transactions)) = Below
         /\ \A a \in Attr :
              /\ Count(Items(Below), a) \in Nat
              /\ Older(a) = Count(Items(Below), a) + (IF a \in transactions[2].items THEN 1 ELSE 0)
                            + (IF a \in dirty THEN 1 ELSE 0) + Count(undos, a)
         /\ \A a \in dirty \cup transactions[2].items : Owner[a] \in finaltr_items
         /\ \A k \in 1..Len(Below), a \in Attr :
              a \in Below[k].items => Owner[a] \in finaltr_items
<1>1. T!InTransaction
  <2>1. Len(<<>>) = 0
    OBVIOUS
  <2> QED BY <2>1 DEF T!InTransaction
<1>2. /\ dirty = transactions[1].items /\ dirty \in SUBSET Attr /\ transactions[1] \in LevelType
      /\ transactions \in Seq(LevelType) /\ Len(transactions) \in Nat
      /\ Rest \in Seq(LevelType) /\ Len(Rest) = Len(transactions) - 1
      /\ \A k \in 1..Len(Rest) : Rest[k] = transactions[k + 1]
      /\ \A a \in Attr :
           /\ Count(Items(Rest), a) \in Nat
           /\ Older(a) = Count(Items(Rest), a) + (IF a \in dirty THEN 1 ELSE 0) + Count(undos, a)
  BY <1>1, Stack
<1>3. /\ Rest # <<>> /\ Rest[1] \in LevelType /\ Below \in Seq(LevelType)
      /\ Rest = <<Rest[1]>> \o Below /\ Rest[1] = transactions[2]
      /\ Len(Below) = Len(Rest) - 1 /\ \A k \in 1..Len(Below) : Below[k] = Rest[k + 1]
  <2>1. Len(Rest) >= 1 /\ 1 \in 1..Len(Rest) /\ 1 + 1 = 2
    BY <1>2
  <2>2. Rest # <<>>
    BY <1>2, <2>1
  <2> QED BY <1>2, <2>1, <2>2 DEF Below
<1>4. transactions[2].items \in SUBSET Attr
  BY <1>3 DEF LevelType, LevelOf
<1>5. ASSUME NEW a \in Attr
      PROVE  /\ Count(Items(Below), a) \in Nat
             /\ Older(a) = Count(Items(Below), a) + (IF a \in transactions[2].items THEN 1 ELSE 0)
                           + (IF a \in dirty THEN 1 ELSE 0) + Count(undos, a)
  <2>1. Count(Items(Below), a) \in Nat
    BY <1>3, LevelCount DEF LevelType
  <2>2. Count(Items(Rest), a) = Count(Items(Below), a) + (IF a \in Rest[1].items THEN 1 ELSE 0)
    BY <1>2, <1>3, LevelCount DEF LevelType, Below
  <2> QED BY <1>2, <1>3, <2>1, <2>2, Facts
<1>6. ASSUME NEW k \in 1..Len(Below)
      PROVE  Below[k] = transactions[k + 2] /\ k + 2 \in 1..Len(transactions)
  <2>1. k + 1 \in 1..Len(Rest) /\ (k + 1) + 1 = k + 2 /\ k + 2 \in 1..Len(transactions)
    BY <1>2, <1>3
  <2> QED BY <1>2, <1>3, <2>1
<1>7. /\ \A a \in dirty \cup transactions[2].items : Owner[a] \in finaltr_items
      /\ \A k \in 1..Len(Below), a \in Attr : a \in Below[k].items => Owner[a] \in finaltr_items
  <2>1. 1 \in 1..Len(transactions) /\ 2 \in 1..Len(transactions)
    BY <1>2
  <2> QED BY <1>2, <1>4, <1>6, <2>1 DEF IInv, DirtyOK
<1>8. SubSeq(transactions, 3, Len(transactions)) = Below
  <2> DEFINE sub == SubSeq(transactions, 3, Len(transactions))
  <2>1. /\ 3 \in Int /\ Len(transactions) \in Int
        /\ \A k \in 3..Len(transactions) : transactions[k] \in LevelType
    BY <1>2
  <2>2. /\ sub \in Seq(LevelType)
        /\ Len(sub) = IF 3 <= Len(transactions) THEN Len(transactions) - 3 + 1 ELSE 0
        /\ \A k \in 1..(Len(transactions) - 3 + 1) : sub[k] = transactions[3 + k - 1]
    BY <2>1, SubSeqProperties
  <2> HIDE DEF sub
  <2>3. Len(sub) = Len(Below)
    <3>1. \A m \in Nat : m >= 2 => (IF 3 <= m THEN m - 3 + 1 ELSE 0) = m - 2
      OBVIOUS
    <3>2. Len(sub) = Len(transactions) - 2
      BY <1>2, <2>2, <3>1, Zenon
    <3> QED BY <1>2, <1>3, <3>2
  <2>4. ASSUME NEW k \in 1..Len(sub) PROVE sub[k] = Below[k]
    <3>1. k \in 1..(Len(transactions) - 3 + 1) /\ 3 + k - 1 = k + 2 /\ k \in 1..Len(Below)
      BY <1>2, <1>3, <2>3
    <3> QED BY <1>6, <2>2, <3>1
  <2>5. sub = Below
    BY <1>3, <2>2, <2>3, <2>4, SeqEqual
  <2> QED BY <2>5 DEF sub
<1> QED BY <1>1, <1>2, <1>3, <1>4, <1>5, <1>7, <1>8 DEF Rest

LEMMA AbortNestedInv ==
  ASSUME IInv, AbortNestedTr
  PROVE  IInv'
<1>1. /\ Len(transactions) >= 2
      /\ Settle(T!DropFirst(transactions[1].items), ReadsWithout(FirstLost(transactions[1].items)),
                WritesWithout(FirstLost(transactions[1].items)), locked)
      /\ dirty' = T!DirtyAfterAbort /\ transactions' = Tail(transactions)
      /\ UNCHANGED <<undos, redo_count, objectVars, finaltr_items, refused>>
  BY DEF AbortNestedTr
<1> DEFINE level == transactions[2]
<1>2. /\ T!InTransaction /\ level \in LevelType /\ Below \in Seq(LevelType)
      /\ dirty = transactions[1].items /\ dirty \in SUBSET Attr
      /\ transactions' = <<level>> \o Below
      /\ \A a \in level.items : Owner[a] \in finaltr_items
      /\ \A k \in 1..Len(Below), a \in Attr : a \in Below[k].items => Owner[a] \in finaltr_items
  BY <1>1, TwoLevels
<1>3. \A a \in Attr :
        /\ Count(Items(Below), a) \in Nat /\ Count(undos, a) \in Nat
        /\ Older(a) = Count(Items(Below), a) + (IF a \in level.items THEN 1 ELSE 0)
                      + (IF a \in dirty THEN 1 ELSE 0) + Count(undos, a)
  BY <1>1, TwoLevels, Facts
<1>4. dirty' = level.items
  BY <1>1, <1>2 DEF T!DirtyAfterAbort
<1>5. \A a \in dirty : Older(a) >= 1
  BY <1>2, <1>3
<1>6. /\ CountTypes' /\ CountsOf(values', read_count', write_count', refused') /\ LoadedOK'
      /\ \A o \in Object : IsLoaded(o)' => IsLoaded(o)
      /\ \A a \in Attr : RingMatches(values'[a], Older(a) - (IF a \in dirty THEN 1 ELSE 0))
      /\ uptodate' \subseteq uptodate /\ locked' = locked
  <2>1. locked \in SUBSET locked
    OBVIOUS
  <2>2. Settle(T!DropFirst(dirty), ReadsWithout(FirstLost(dirty)), WritesWithout(FirstLost(dirty)), locked)
    BY <1>1, <1>2
  <2> QED BY <1>1, <1>2, <1>5, <2>1, <2>2, FirstLostOK
<1> HIDE DEF level
<1>7. ASSUME NEW a \in Attr
      PROVE  RingMatches(values'[a], Count(Items(Below), a)
                            + (IF a \in level.items THEN 1 ELSE 0) + Count(undos, a))
  <2>1. Older(a) - (IF a \in dirty THEN 1 ELSE 0) = Count(Items(Below), a)
          + (IF a \in level.items THEN 1 ELSE 0) + Count(undos, a)
    BY <1>3
  <2> QED BY <1>6, <2>1
<1> QED BY <1>1, <1>2, <1>4, <1>6, <1>7, LevelEndsInv

LEMMA CommitNestedInv ==
  ASSUME IInv, CommitNestedTr
  PROVE  IInv'
<1> DEFINE both == transactions[2].items \cap dirty
           lost == [a \in Attr |-> IF a \in both THEN <<values[a][2]>> ELSE <<>>]
           rings == [a \in Attr |-> IF a \in both THEN T!WithoutSecond(values[a]) ELSE values[a]]
           at == [a \in Attr |-> IF a \in both THEN 2 ELSE 1]
           level == [items |-> transactions[1].items \cup transactions[2].items,
                     readonly |-> transactions[2].readonly]
<1>1. /\ Len(transactions) >= 2
      /\ Settle(rings, ReadsWithout(lost), WritesWithout(lost), locked)
      /\ dirty' = dirty \cup transactions[2].items
      /\ transactions' = <<level>> \o SubSeq(transactions, 3, Len(transactions))
      /\ UNCHANGED <<undos, redo_count, objectVars, finaltr_items, refused>>
  BY DEF CommitNestedTr
<1>2. /\ T!InTransaction /\ Below \in Seq(LevelType)
      /\ dirty = transactions[1].items /\ dirty \in SUBSET Attr
      /\ transactions[1] \in LevelType /\ transactions[2] \in LevelType
      /\ transactions[2].items \in SUBSET Attr
      /\ SubSeq(transactions, 3, Len(transactions)) = Below
      /\ \A a \in dirty \cup transactions[2].items : Owner[a] \in finaltr_items
      /\ \A k \in 1..Len(Below), a \in Attr : a \in Below[k].items => Owner[a] \in finaltr_items
  BY <1>1, TwoLevels
<1>3. \A a \in Attr :
        /\ Count(Items(Below), a) \in Nat /\ Count(undos, a) \in Nat
        /\ Older(a) = Count(Items(Below), a) + (IF a \in transactions[2].items THEN 1 ELSE 0)
                      + (IF a \in dirty THEN 1 ELSE 0) + Count(undos, a)
  BY <1>1, TwoLevels, Facts
<1>4. /\ level \in LevelType /\ level.items = dirty \cup transactions[2].items
      /\ dirty' = level.items /\ transactions' = <<level>> \o Below
  BY <1>1, <1>2 DEF LevelType, LevelOf
<1>5. /\ \A a \in Attr : rings[a] = IF a \in both THEN T!WithoutSecond(values[a]) ELSE values[a]
      /\ \A a \in Attr : lost[a] = IF a \in both THEN <<values[a][2]>> ELSE <<>>
      /\ \A a \in Attr : at[a] = IF a \in both THEN 2 ELSE 1
      /\ rings = [a \in Attr |-> rings[a]] /\ lost = [a \in Attr |-> lost[a]]
      /\ at \in [Attr -> Nat]
  OBVIOUS
<1> HIDE DEF rings, lost, at, level
<1>6. ASSUME NEW a \in Attr
      PROVE  /\ rings[a] \in Seq(Target) /\ lost[a] \in Seq(Target)
             /\ IsCut(values[a], rings[a], lost[a], at[a])
             /\ values[a] # <<>> => rings[a] # <<>>
             /\ RingMatches(rings[a], Older(a) - (IF a \in both THEN 1 ELSE 0))
  <2> DEFINE r == values[a]
             n == Older(a)
             s == T!WithoutSecond(r)
  <2>1. /\ r \in Seq(Target) /\ Len(r) \in Nat /\ n \in Nat
        /\ (r = <<>> => n = 0)
        /\ (r # <<>> => Len(r) = 1 + n)
    BY Facts
  <2>2. CASE a \in both
    <3>1. n >= 2
      BY <1>3, <2>2
    <3>2. rings[a] = s /\ lost[a] = <<r[2]>> /\ at[a] = 2
      BY <1>5, <2>2
    <3> HIDE DEF r, n
    <3>3. Len(r) = 1 + n /\ Len(r) >= 2
      BY <2>1, <3>1
    <3>4. /\ s \in Seq(Target) /\ <<r[2]>> \in Seq(Target)
          /\ Len(s) = Len(r) - 1 /\ IsCut(r, s, <<r[2]>>, 2)
      BY <2>1, <3>3, CutSecond
    <3> HIDE DEF s
    <3>5. Len(s) = 1 + (n - 1) /\ Len(s) # 0
      BY <2>1, <3>1, <3>3, <3>4
    <3>6. s # <<>>
      BY <3>5
    <3>7. RingMatches(s, n - 1)
      BY <3>5, <3>6 DEF RingMatches
    <3> QED BY <2>2, <3>2, <3>4, <3>6, <3>7 DEF r, n
  <2>3. CASE a \notin both
    <3>1. RingMatches(r, n - 0)
      BY <2>1 DEF RingMatches
    <3>2. rings[a] = r /\ lost[a] = <<>> /\ at[a] = 1
      BY <1>5, <2>3
    <3> QED BY <2>1, <2>3, <3>1, <3>2, CutNothing
  <2> QED BY <2>2, <2>3
<1>7. rings \in Rings /\ lost \in Rings
  BY <1>5, <1>6 DEF Rings
<1>8. /\ Settled(rings, locked \cup KeptBy(ReadsWithout(lost), WritesWithout(lost)))
      /\ \A o \in Object : IsLoaded(o)' => IsLoaded(o)
  <2>1. CountTypes /\ refused \in [Object -> Nat] /\ locked \in SUBSET Object /\ locked \in SUBSET locked
    BY Facts
  <2>2. LoadedOK /\ CountsOf(values, read_count, write_count, refused)
    BY DEF IInv
  <2>3. \A a \in Attr : IsCut(values[a], rings[a], lost[a], at[a])
    BY <1>6
  <2>4. \A a \in Attr : values[a] # <<>> => rings[a] # <<>>
    BY <1>6
  <2> QED BY <1>1, <1>5, <1>7, <2>1, <2>2, <2>3, <2>4, LossOK
<1>9. ASSUME NEW a \in Attr
      PROVE  RingMatches(values'[a], Count(Items(Below), a)
                            + (IF a \in level.items THEN 1 ELSE 0) + Count(undos, a))
  <2>1. Older(a) - (IF a \in both THEN 1 ELSE 0) = Count(Items(Below), a)
          + (IF a \in level.items THEN 1 ELSE 0) + Count(undos, a)
    <3>1. a \in level.items <=> a \in dirty \/ a \in transactions[2].items
      BY <1>4
    <3>2. a \in both <=> a \in dirty /\ a \in transactions[2].items
      OBVIOUS
    <3> HIDE DEF both
    <3> QED BY <1>3, <3>1, <3>2
  <2>2. Older(a) - (IF a \in both THEN 1 ELSE 0) \in Nat
    BY <1>3, <2>1
  <2> QED BY <1>6, <1>8, <2>1, <2>2 DEF Settled
<1>10. /\ CountTypes' /\ CountsOf(values', read_count', write_count', refused') /\ LoadedOK'
       /\ uptodate' \subseteq uptodate
  BY <1>1, <1>8 DEF Settled
<1>11. locked' = locked
  BY <1>1 DEF Settle
<1>12. \A a \in level.items : Owner[a] \in finaltr_items
  BY <1>2, <1>4
<1> QED BY <1>1, <1>2, <1>4, <1>8, <1>9, <1>10, <1>11, <1>12, LevelEndsInv

\* The outermost level and the step of the undo list that belongs to it
LEMMA LastLevel ==
  ASSUME IInv, Len(transactions) = 1
  PROVE  /\ T!InTransaction
         /\ T!Committed = dirty /\ dirty \in SUBSET Attr
         /\ locked \ finaltr_items = {}
         /\ Tail(undos) \in Seq(SUBSET Attr)
         /\ redo_count <= Len(Tail(undos))
         /\ \A a \in Attr :
              /\ Count(Tail(undos), a) \in Nat
              /\ Older(a) = Count(Tail(undos), a) + (IF a \in dirty THEN 1 ELSE 0)
<1>1. T!InTransaction
  <2>1. Len(<<>>) = 0
    OBVIOUS
  <2> QED BY <2>1 DEF T!InTransaction
<1>2. /\ dirty \in SUBSET Attr /\ \A a \in dirty : Owner[a] \in finaltr_items
      /\ Rest \in Seq(LevelType) /\ Len(Rest) = Len(transactions) - 1
      /\ \A a \in Attr :
           Older(a) = Count(Items(Rest), a) + (IF a \in dirty THEN 1 ELSE 0) + Count(undos, a)
  BY <1>1, Stack
<1>3. Rest = <<>>
  BY <1>2
<1>4. undos \in Seq(SUBSET Attr) /\ redo_count \in Nat /\ undos[1] = {} /\ redo_count <= Len(undos) - 1
  BY <1>1, Facts DEF IInv, QueueOK
<1>5. undos # <<>>
  BY <1>4
<1>6. Tail(undos) \in Seq(SUBSET Attr) /\ Len(Tail(undos)) = Len(undos) - 1
  BY <1>4, <1>5
<1>7. ASSUME NEW a \in Attr
      PROVE  /\ Count(Tail(undos), a) \in Nat
             /\ Older(a) = Count(Tail(undos), a) + (IF a \in dirty THEN 1 ELSE 0)
  <2>1. Count(undos, a) = Count(Tail(undos), a) + 0
    BY <1>4, <1>5, CountOfTail
  <2>2. Count(Tail(undos), a) \in Nat
    BY <1>6, CountType
  <2>3. Count(Items(Rest), a) = 0
    BY <1>2, <1>3, LevelCount DEF LevelType
  <2> QED BY <1>2, <2>1, <2>2, <2>3
<1>8. T!Committed = dirty
  BY <1>2 DEF T!Committed
<1>9. locked \ finaltr_items = {}
  BY DEF IInv, LocksOK
<1> QED BY <1>1, <1>2, <1>4, <1>6, <1>7, <1>8, <1>9

LEMMA CommitFinalInv ==
  ASSUME IInv, CommitFinalTr
  PROVE  IInv'
<1>1. /\ Len(transactions) = 1
      /\ stored' \subseteq stored
      /\ storage' = [a \in Attr |-> IF a \in T!Committed THEN values[a][1] ELSE storage[a]]
      /\ undos' = T!PushStep(T!Committed, Tail(undos))
      /\ dirty' = dirty \ T!Committed
      /\ Settle(values, read_count, write_count, locked \ finaltr_items)
      /\ finaltr_items' = {} /\ transactions' = <<>> /\ created' = {}
      /\ UNCHANGED <<redo_count, used, refused>>
  BY DEF CommitFinalTr
<1>2. /\ T!Committed = dirty /\ dirty \in SUBSET Attr /\ locked \ finaltr_items = {}
      /\ Tail(undos) \in Seq(SUBSET Attr) /\ redo_count <= Len(Tail(undos)) /\ redo_count \in Nat
      /\ \A a \in Attr :
           /\ Count(Tail(undos), a) \in Nat
           /\ Older(a) = Count(Tail(undos), a) + (IF a \in dirty THEN 1 ELSE 0)
  BY <1>1, LastLevel, Facts
<1> DEFINE tail == Tail(undos)
<1> HIDE DEF tail
<1>3. /\ undos' \in Seq(SUBSET Attr) /\ Len(undos') >= Len(tail)
      /\ \A a \in Attr : Count(undos', a) = Older(a)
  <2>1. undos' = IF dirty = {} THEN tail ELSE <<dirty>> \o tail
    BY <1>1, <1>2 DEF T!PushStep, tail
  <2>2. tail \in Seq(SUBSET Attr) /\ dirty \in SUBSET Attr
    BY <1>2 DEF tail
  <2>3. \A a \in Attr : Count(<<dirty>> \o tail, a) = Count(tail, a) + (IF a \in dirty THEN 1 ELSE 0)
    BY <2>2, CountOfPrepend
  <2>4. CASE dirty = {}
    BY <1>2, <2>1, <2>2, <2>4 DEF tail
  <2>5. CASE dirty # {}
    <3>1. undos' = <<dirty>> \o tail /\ <<dirty>> \o tail \in Seq(SUBSET Attr)
          /\ Len(<<dirty>> \o tail) = Len(tail) + 1 /\ Len(tail) \in Nat
      BY <2>1, <2>2, <2>5
    <3> QED BY <1>2, <2>3, <3>1 DEF tail
  <2> QED BY <2>4, <2>5
<1>4. redo_count' \in Nat /\ redo_count' <= Len(undos')
  <2>1. Len(tail) \in Nat /\ Len(undos') \in Nat
    BY <1>2, <1>3 DEF tail
  <2> QED BY <1>1, <1>2, <1>3, <2>1 DEF tail
<1>5. Settled(values, {} \cup KeptBy(read_count, write_count)) /\ locked' = {}
  <2>1. CountTypes /\ refused \in [Object -> Nat] /\ {} \in SUBSET Object
    BY Facts
  <2>2. Settle(values, read_count, write_count, {})
    BY <1>1, <1>2
  <2>3. CountsOf(values, read_count, write_count, refused) /\ LoadedOK
    BY DEF IInv
  <2>4. \A o \in Object : o \in {} \cup KeptBy(read_count, write_count) => IsLoaded(o)
    BY <2>1, KeptIsLoaded
  <2>5. \A a \in Attr : Owner[a] \in {} \cup KeptBy(read_count, write_count) => values[a] # <<>>
    BY <2>3, <2>4, OwnerType DEF LoadedOK
  <2>6. Settled(values, {} \cup KeptBy(read_count, write_count))
    BY <2>1, <2>2, <2>3, <2>5, SettleOK DEF CountTypes
  <2> QED BY <2>2, <2>6 DEF Settle
<1>6. \A o \in Object : IsLoaded(o)' => IsLoaded(o)
  <2>1. \A o \in Object : IsLoaded(o)' => o \in {} \cup KeptBy(read_count, write_count)
    BY <1>5 DEF Settled
  <2> QED BY <2>1, Facts, KeptIsLoaded
<1>7. /\ CountTypes' /\ CountsOf(values', read_count', write_count', refused') /\ LoadedOK'
      /\ uptodate' \subseteq uptodate
  BY <1>1, <1>5 DEF Settled
<1>8. \A a \in Attr : RingMatches(values'[a], Count(undos', a))
  <2>1. \A a \in Attr : RingMatches(values[a], Older(a)) /\ Older(a) \in Nat
    BY Facts DEF IInv, RingsOK
  <2> QED BY <1>3, <1>5, <2>1 DEF Settled
<1>9. storage' \in [Attr -> Target]
  <2>1. ASSUME NEW a \in Attr, a \in dirty PROVE values[a][1] \in Target
    <3>1. Older(a) >= 1
      BY <1>2, <2>1
    <3>2. values[a] \in Seq(Target) /\ values[a] # <<>>
      BY <3>1, Facts
    <3> QED BY <3>2
  <2>2. \A a \in Attr : storage[a] \in Target
    BY DEF IInv, TypeOK
  <2> QED BY <1>1, <1>2, <2>1, <2>2
<1>10. dirty' = {} /\ created' \in SUBSET Object
  BY <1>1, <1>2
<1> QED BY <1>1, <1>3, <1>4, <1>5, <1>6, <1>7, <1>8, <1>9, <1>10, IdleAgainInv

LEMMA AbortFinalInv ==
  ASSUME IInv, AbortFinalTr
  PROVE  IInv'
<1>1. /\ Len(transactions) = 1
      /\ Settle(T!DropFirst(T!Committed), ReadsWithout(FirstLost(T!Committed)),
                WritesWithout(FirstLost(T!Committed)), locked \ finaltr_items)
      /\ stored' \subseteq stored
      /\ undos' = Tail(undos)
      /\ dirty' = dirty \ T!Committed
      /\ finaltr_items' = {} /\ transactions' = <<>> /\ created' = {}
      /\ UNCHANGED <<redo_count, storage, used, refused>>
  BY DEF AbortFinalTr
<1>2. /\ T!Committed = dirty /\ dirty \in SUBSET Attr /\ locked \ finaltr_items = {}
      /\ Tail(undos) \in Seq(SUBSET Attr) /\ redo_count <= Len(Tail(undos)) /\ redo_count \in Nat
      /\ \A a \in Attr :
           /\ Count(Tail(undos), a) \in Nat
           /\ Older(a) = Count(Tail(undos), a) + (IF a \in dirty THEN 1 ELSE 0)
  BY <1>1, LastLevel, Facts
<1>3. \A a \in dirty : Older(a) >= 1
  BY <1>2
<1>4. /\ CountTypes' /\ CountsOf(values', read_count', write_count', refused') /\ LoadedOK'
      /\ \A o \in Object : IsLoaded(o)' => IsLoaded(o)
      /\ \A a \in Attr : RingMatches(values'[a], Older(a) - (IF a \in dirty THEN 1 ELSE 0))
      /\ uptodate' \subseteq uptodate /\ locked' = {}
  <2>1. {} \in SUBSET locked
    OBVIOUS
  <2>2. Settle(T!DropFirst(dirty), ReadsWithout(FirstLost(dirty)), WritesWithout(FirstLost(dirty)), {})
    BY <1>1, <1>2
  <2> QED BY <1>1, <1>2, <1>3, <2>1, <2>2, FirstLostOK
<1>5. \A a \in Attr : RingMatches(values'[a], Count(undos', a))
  <2>1. \A a \in Attr : Older(a) - (IF a \in dirty THEN 1 ELSE 0) = Count(undos', a)
    BY <1>1, <1>2
  <2> QED BY <1>4, <2>1
<1>6. storage' \in [Attr -> Target] /\ dirty' = {} /\ created' \in SUBSET Object
  BY <1>1, <1>2 DEF IInv, TypeOK
<1> QED BY <1>1, <1>2, <1>4, <1>5, <1>6, IdleAgainInv

-----------------------------------------------------------------------------
(* Undo and redo turn rings.                                               *)

LEMMA CutAdded ==
  ASSUME NEW s \in Seq(Target), NEW x \in Target
  PROVE  /\ <<x>> \o s \in Seq(Target) /\ s \o <<x>> \in Seq(Target) /\ <<x>> \in Seq(Target)
         /\ Len(<<x>> \o s) = Len(s) + 1 /\ Len(s \o <<x>>) = Len(s) + 1
         /\ IsCut(<<x>> \o s, s, <<x>>, 1)
         /\ IsCut(s \o <<x>>, s, <<x>>, Len(s) + 1)
<1> DEFINE h == <<x>> \o s
           l == s \o <<x>>
           c == <<x>>
           m == Len(s)
<1>1. /\ h \in Seq(Target) /\ Len(h) = m + 1 /\ h[1] = x /\ \A k \in 1..m : h[k + 1] = s[k]
      /\ l \in Seq(Target) /\ Len(l) = m + 1 /\ l[m + 1] = x /\ \A k \in 1..m : l[k] = s[k]
      /\ c \in Seq(Target) /\ Len(c) = 1 /\ c[1] = x
      /\ m \in Nat
  OBVIOUS
<1>2. m = Len(s)
  OBVIOUS
<1> HIDE DEF h, l, c, m
<1>3. IsCut(h, s, c, 1)
  <2>1. \A k \in 1..m : ~(k < 1) /\ s[k] = h[k + 1]
    BY <1>1
  <2> QED BY <1>1, <1>2, <2>1 DEF IsCut
<1>4. IsCut(l, s, c, m + 1)
  <2>1. \A k \in 1..m : k < m + 1 /\ s[k] = l[k]
    BY <1>1
  <2>2. \A k \in 1..1 : l[(m + 1) + k - 1] = c[k]
    BY <1>1
  <2> QED BY <1>1, <1>2, <2>1, <2>2 DEF IsCut
<1> QED BY <1>1, <1>2, <1>3, <1>4 DEF h, l, c

LEMMA Turned ==
  ASSUME NEW r \in Seq(Target), Len(r) >= 2
  PROVE  /\ \E base \in Seq(Target), cut \in Seq(Target), i \in Nat, j \in Nat :
              IsCut(r, base, cut, i) /\ IsCut(T!RotateLeft(r), base, cut, j)
         /\ \E base \in Seq(Target), cut \in Seq(Target), i \in Nat, j \in Nat :
              IsCut(r, base, cut, i) /\ IsCut(T!RotateRight(r), base, cut, j)
         /\ T!RotateLeft(r) \in Seq(Target) /\ Len(T!RotateLeft(r)) = Len(r)
         /\ T!RotateRight(r) \in Seq(Target) /\ Len(T!RotateRight(r)) = Len(r)
         /\ r[2] \in Target /\ r[Len(r)] \in Target
<1> DEFINE tail == Tail(r)
           front == SubSeq(r, 1, Len(r) - 1)
           x == r[1]
           y == r[Len(r)]
<1>1. /\ tail \in Seq(Target) /\ x \in Target /\ r = <<x>> \o tail /\ Len(tail) = Len(r) - 1
      /\ front \in Seq(Target) /\ y \in Target /\ r = front \o <<y>> /\ Len(front) = Len(r) - 1
      /\ r[2] \in Target /\ Len(r) \in Nat
  OBVIOUS
<1>2. T!RotateLeft(r) = tail \o <<x>> /\ T!RotateRight(r) = <<y>> \o front
  BY DEF T!RotateLeft, T!RotateRight
<1>3. y = r[Len(r)]
  OBVIOUS
<1> HIDE DEF tail, front, x, y
<1>4. /\ IsCut(r, tail, <<x>>, 1) /\ IsCut(tail \o <<x>>, tail, <<x>>, Len(tail) + 1)
      /\ <<x>> \in Seq(Target) /\ 1 \in Nat /\ Len(tail) + 1 \in Nat
      /\ tail \o <<x>> \in Seq(Target) /\ Len(tail \o <<x>>) = Len(tail) + 1
  BY <1>1, CutAdded
<1>5. /\ IsCut(r, front, <<y>>, Len(front) + 1) /\ IsCut(<<y>> \o front, front, <<y>>, 1)
      /\ <<y>> \in Seq(Target) /\ 1 \in Nat /\ Len(front) + 1 \in Nat
      /\ <<y>> \o front \in Seq(Target) /\ Len(<<y>> \o front) = Len(front) + 1
  BY <1>1, CutAdded
<1>6. Len(tail) + 1 = Len(r) /\ Len(front) + 1 = Len(r)
  BY <1>1
<1> QED BY <1>1, <1>2, <1>3, <1>4, <1>5, <1>6

\* Rings of the same lengths with the same values count the same.
LEMMA SameCounts ==
  ASSUME NEW rings \in Rings, NEW new \in Rings,
         \A a \in Attr : Len(new[a]) = Len(rings[a]),
         \A a \in Attr : new[a] = rings[a] \/
           \E base \in Seq(Target), cut \in Seq(Target), i \in Nat, j \in Nat :
             IsCut(rings[a], base, cut, i) /\ IsCut(new[a], base, cut, j),
         NEW o
  PROVE  HeldIn(new, o) = HeldIn(rings, o) /\ AimedIn(new, o) = AimedIn(rings, o)
<1>1. HeldIn(new, o) = HeldIn(rings, o)
  <2>1. {a \in AttrsOf(o) : Len(new[a]) >= 2} = {a \in AttrsOf(o) : Len(rings[a]) >= 2}
    BY DEF AttrsOf
  <2> QED BY <2>1 DEF HeldIn
<1> DEFINE Same(a, w) == /\ w.base \in Seq(Target) /\ w.cut \in Seq(Target) /\ w.i \in Nat /\ w.j \in Nat
                         /\ IsCut(Big(rings)[a], w.base, w.cut, w.i)
                         /\ IsCut(Big(new)[a], w.base, w.cut, w.j)
           pick == [a \in Attr |-> CHOOSE w : Same(a, w)]
<1>2. ASSUME NEW a \in Attr PROVE \E w : Same(a, w)
  <2>1. Big(rings)[a] = (IF Len(rings[a]) >= 2 THEN rings[a] ELSE <<>>)
        /\ Big(new)[a] = (IF Len(rings[a]) >= 2 THEN new[a] ELSE <<>>)
    BY DEF Big
  <2>2. CASE Big(new)[a] = Big(rings)[a]
    <3> DEFINE r == Big(rings)[a]
               w == [base |-> r, cut |-> <<>>, i |-> 1, j |-> 1]
    <3>1. r \in Seq(Target)
      BY BigType DEF Rings
    <3> HIDE DEF r
    <3>2. IsCut(r, r, <<>>, 1) /\ <<>> \in Seq(Target)
      BY <3>1, CutNothing
    <3>3. w.base = r /\ w.cut = <<>> /\ w.i = 1 /\ w.j = 1
      OBVIOUS
    <3> HIDE DEF w
    <3>4. Same(a, w)
      BY <2>2, <3>1, <3>2, <3>3 DEF r
    <3> QED BY <3>4
  <2>3. CASE Big(new)[a] # Big(rings)[a]
    <3>1. Big(rings)[a] = rings[a] /\ Big(new)[a] = new[a] /\ new[a] # rings[a]
      BY <2>1, <2>3
    <3>2. PICK base \in Seq(Target), cut \in Seq(Target), i \in Nat, j \in Nat :
            IsCut(rings[a], base, cut, i) /\ IsCut(new[a], base, cut, j)
      BY <3>1
    <3> DEFINE w == [base |-> base, cut |-> cut, i |-> i, j |-> j]
    <3>3. w.base = base /\ w.cut = cut /\ w.i = i /\ w.j = j
      OBVIOUS
    <3> HIDE DEF w
    <3>4. Same(a, w)
      BY <3>1, <3>2, <3>3
    <3> QED BY <3>4
  <2> QED BY <2>2, <2>3
<1>3. \A a \in Attr : Same(a, pick[a])
  <2>1. \A a \in Attr : pick[a] = CHOOSE w : Same(a, w)
    OBVIOUS
  <2> HIDE DEF Same, pick
  <2> QED BY <1>2, <2>1
<1> HIDE DEF pick
<1> DEFINE base == [a \in Attr |-> pick[a].base]
           cut == [a \in Attr |-> pick[a].cut]
           i == [a \in Attr |-> pick[a].i]
           j == [a \in Attr |-> pick[a].j]
<1>4. base \in Rings /\ cut \in Rings /\ i \in [Attr -> Nat] /\ j \in [Attr -> Nat]
  BY <1>3 DEF Rings
<1>5. \A a \in Attr : /\ IsCut(Big(rings)[a], base[a], cut[a], i[a])
                      /\ IsCut(Big(new)[a], base[a], cut[a], j[a])
  BY <1>3
<1> HIDE DEF base, cut, i, j
<1>6. Mentions(Big(rings), o) = Mentions(base, o) + Mentions(cut, o)
  BY <1>4, <1>5, BigType, CutPlaces
<1>7. Mentions(Big(new), o) = Mentions(base, o) + Mentions(cut, o)
  BY <1>4, <1>5, BigType, CutPlaces
<1> QED BY <1>1, <1>6, <1>7 DEF AimedIn

LEMMA TurnInv ==
  ASSUME IInv, ~T!InTransaction, NEW step \in SUBSET Attr,
         undos' \in Seq(SUBSET Attr), \A a \in Attr : Count(undos', a) = Count(undos, a),
         redo_count' \in Nat, redo_count' <= Len(undos'),
         values' \in Rings, storage' \in [Attr -> Target],
         \A a \in Attr \ step : values'[a] = values[a],
         \A a \in step :
           /\ Len(values[a]) >= 2 /\ Len(values'[a]) = Len(values[a])
           /\ \E base \in Seq(Target), cut \in Seq(Target), i \in Nat, j \in Nat :
                IsCut(values[a], base, cut, i) /\ IsCut(values'[a], base, cut, j),
         UNCHANGED <<transactions, dirty, stored, used, created, lockVars, uptodate, refused>>
  PROVE  IInv'
<1>1. UNCHANGED <<finaltr_items, locked, read_count, write_count>>
  BY DEF lockVars
<1>2. transactions = <<>> /\ dirty = {} /\ locked = {} /\ finaltr_items = {}
      /\ \A a \in Attr : Older(a) = Count(undos, a)
  BY Idle
<1>3. CountTypes
  BY Facts
<1>4. CountTypes'
  BY <1>1, <1>3 DEF CountTypes
<1>5. \A a \in Attr : /\ Len(values'[a]) = Len(values[a])
                      /\ values'[a] = <<>> <=> values[a] = <<>>
  <2>1. \A a \in Attr : Len(values'[a]) = Len(values[a])
    OBVIOUS
  <2>2. \A a \in Attr : values[a] \in Seq(Target) /\ values'[a] \in Seq(Target)
    BY <1>3 DEF CountTypes, Rings
  <2>3. \A a \in Attr : (values[a] = <<>> <=> Len(values[a]) = 0)
                        /\ (values'[a] = <<>> <=> Len(values'[a]) = 0)
    BY <2>2
  <2> QED BY <2>1, <2>3
<1>6. CountsOf(values', read_count', write_count', refused')
  <2>1. \A o : HeldIn(values', o) = HeldIn(values, o) /\ AimedIn(values', o) = AimedIn(values, o)
    BY <1>3, <1>5, SameCounts DEF CountTypes
  <2> QED BY <1>1, <2>1 DEF IInv, CountsOf
<1>7. \A a \in Attr : RingMatches(values'[a], Count(undos', a))
  <2>1. \A a \in Attr : RingMatches(values[a], Count(undos, a))
    BY <1>2 DEF IInv, RingsOK
  <2> QED BY <1>5, <2>1 DEF RingMatches
<1>8. LoadedOK' /\ \A o \in Object : IsLoaded(o)' => IsLoaded(o)
  BY <1>1, <1>5 DEF IInv, LoadedOK, IsLoaded, IsEmpty
<1>9. created' \in SUBSET Object
  BY DEF IInv, TypeOK
<1> QED BY <1>1, <1>2, <1>4, <1>6, <1>7, <1>8, <1>9, IdleAgainInv

LEMMA UndoInv ==
  ASSUME IInv, UndoTransaction
  PROVE  IInv'
<1> DEFINE step == undos[1]
<1>1. /\ ~T!InTransaction /\ Len(undos) > redo_count
      /\ storage' = [a \in Attr |-> IF a \in step THEN values[a][2] ELSE storage[a]]
      /\ values' = [a \in Attr |-> IF a \in step THEN T!RotateLeft(values[a]) ELSE values[a]]
      /\ undos' = T!RotateLeft(undos)
      /\ redo_count' = redo_count + 1
      /\ UNCHANGED <<transactions, dirty, stored, used, created, lockVars, uptodate, refused>>
  BY DEF UndoTransaction, T!MayUndo, T!Undone
<1>2. undos \in Seq(SUBSET Attr) /\ redo_count \in Nat
  BY Facts
<1>3. undos # <<>> /\ step \in SUBSET Attr /\ undos' = Tail(undos) \o <<undos[1]>>
  BY <1>1, <1>2 DEF T!RotateLeft
<1>4. /\ undos' \in Seq(SUBSET Attr) /\ Len(undos') = Len(undos)
      /\ \A a \in Attr : Count(undos', a) = Count(undos, a)
  <2>1. undos' \in Seq(SUBSET Attr) /\ Len(undos') = Len(undos)
    BY <1>2, <1>3
  <2> QED BY <1>2, <1>3, <2>1, CountOfRotation
<1>5. redo_count' \in Nat /\ redo_count' <= Len(undos')
  BY <1>1, <1>2, <1>4
<1>6. \A a \in step : Len(values[a]) >= 2
  <2>1. ASSUME NEW a \in step PROVE Count(undos, a) > 0
    <3>1. Count(undos, a) = Count(Tail(undos), a) + 1
      BY <1>2, <1>3, CountOfTail
    <3>2. Tail(undos) \in Seq(SUBSET Attr)
      BY <1>2, <1>3
    <3>3. Count(Tail(undos), a) \in Nat
      BY <3>2, CountType
    <3> QED BY <3>1, <3>3
  <2> QED BY <1>3, <2>1, StepKeepsLoaded
<1> HIDE DEF step
<1>7. ASSUME NEW a \in step
      PROVE  /\ values'[a] \in Seq(Target) /\ Len(values'[a]) = Len(values[a])
             /\ values[a][2] \in Target
             /\ \E base \in Seq(Target), cut \in Seq(Target), i \in Nat, j \in Nat :
                  IsCut(values[a], base, cut, i) /\ IsCut(values'[a], base, cut, j)
  <2> DEFINE r == values[a]
  <2>1. a \in Attr
    BY <1>3
  <2>2. r \in Seq(Target) /\ Len(r) >= 2
    BY <1>6, <2>1, Facts
  <2>3. values'[a] = T!RotateLeft(r)
    BY <1>1, <2>1
  <2> HIDE DEF r
  <2>4. /\ \E base \in Seq(Target), cut \in Seq(Target), i \in Nat, j \in Nat :
             IsCut(r, base, cut, i) /\ IsCut(T!RotateLeft(r), base, cut, j)
        /\ T!RotateLeft(r) \in Seq(Target) /\ Len(T!RotateLeft(r)) = Len(r)
        /\ r[2] \in Target
    BY <2>2, Turned
  <2> QED BY <2>3, <2>4 DEF r
<1>8. values' \in Rings /\ storage' \in [Attr -> Target]
      /\ \A a \in Attr \ step : values'[a] = values[a]
  <2>1. \A a \in Attr : values[a] \in Seq(Target)
    BY Facts
  <2>2. \A a \in Attr : storage[a] \in Target
    BY DEF IInv, TypeOK
  <2>3. \A a \in Attr \ step : values'[a] = values[a]
    BY <1>1
  <2>4. \A a \in Attr : values'[a] \in Seq(Target)
    BY <1>7, <2>1, <2>3
  <2>5. DOMAIN values' = Attr /\ values' = [a \in Attr |-> values'[a]]
    BY <1>1
  <2>6. values' \in Rings
    BY <2>4, <2>5 DEF Rings
  <2>7. storage' \in [Attr -> Target]
    BY <1>1, <1>7, <2>2
  <2> QED BY <2>3, <2>6, <2>7
<1> QED BY <1>1, <1>3, <1>4, <1>5, <1>6, <1>7, <1>8, TurnInv

LEMMA RedoInv ==
  ASSUME IInv, RedoTransaction
  PROVE  IInv'
<1> DEFINE step == undos[Len(undos)]
<1>1. /\ ~T!InTransaction /\ redo_count > 0
      /\ storage' = [a \in Attr |-> IF a \in step THEN values[a][Len(values[a])] ELSE storage[a]]
      /\ values' = [a \in Attr |-> IF a \in step THEN T!RotateRight(values[a]) ELSE values[a]]
      /\ undos' = T!RotateRight(undos)
      /\ redo_count' = redo_count - 1
      /\ UNCHANGED <<transactions, dirty, stored, used, created, lockVars, uptodate, refused>>
  BY DEF RedoTransaction, T!MayRedo, T!Redone
<1>2. undos \in Seq(SUBSET Attr) /\ redo_count \in Nat /\ redo_count <= Len(undos)
  BY <1>1, Facts, Idle
<1>3. /\ undos # <<>> /\ step \in SUBSET Attr
      /\ undos' = <<undos[Len(undos)]>> \o SubSeq(undos, 1, Len(undos) - 1)
      /\ Len(undos) \in Nat /\ Len(undos) >= 1
  BY <1>1, <1>2 DEF T!RotateRight
<1>4. /\ undos' \in Seq(SUBSET Attr) /\ Len(undos') = Len(undos)
      /\ \A a \in Attr : Count(undos', a) = Count(undos, a)
  <2>1. undos' \in Seq(SUBSET Attr) /\ Len(undos') = Len(undos)
    BY <1>2, <1>3
  <2> QED BY <1>2, <1>3, <2>1, CountOfRotation
<1>5. redo_count' \in Nat /\ redo_count' <= Len(undos')
  BY <1>1, <1>2, <1>4
<1> HIDE DEF step
<1>6. \A a \in step : Len(values[a]) >= 2
  <2> DEFINE front == SubSeq(undos, 1, Len(undos) - 1)
  <2>1. front \in Seq(SUBSET Attr)
    BY <1>2, <1>3
  <2>2. undos' = <<step>> \o front
    BY <1>3 DEF step
  <2> HIDE DEF front
  <2>3. ASSUME NEW a \in step PROVE Count(undos, a) > 0
    <3>1. Count(<<step>> \o front, a) = Count(front, a) + (IF a \in step THEN 1 ELSE 0)
      BY <1>3, <2>1, CountOfPrepend, SMTT(30)
    <3>2. Count(undos', a) = Count(front, a) + 1
      BY <2>2, <3>1
    <3>3. Count(front, a) \in Nat
      BY <2>1, CountType
    <3>4. a \in Attr
      BY <1>3
    <3> QED BY <1>4, <3>2, <3>3, <3>4
  <2> QED BY <1>3, <2>3, StepKeepsLoaded
<1>7. ASSUME NEW a \in step
      PROVE  /\ values'[a] \in Seq(Target) /\ Len(values'[a]) = Len(values[a])
             /\ values[a][Len(values[a])] \in Target
             /\ \E base \in Seq(Target), cut \in Seq(Target), i \in Nat, j \in Nat :
                  IsCut(values[a], base, cut, i) /\ IsCut(values'[a], base, cut, j)
  <2> DEFINE r == values[a]
  <2>1. a \in Attr
    BY <1>3
  <2>2. r \in Seq(Target) /\ Len(r) >= 2
    BY <1>6, <2>1, Facts
  <2>3. values'[a] = T!RotateRight(r)
    BY <1>1, <2>1
  <2> HIDE DEF r
  <2>4. /\ \E base \in Seq(Target), cut \in Seq(Target), i \in Nat, j \in Nat :
             IsCut(r, base, cut, i) /\ IsCut(T!RotateRight(r), base, cut, j)
        /\ T!RotateRight(r) \in Seq(Target) /\ Len(T!RotateRight(r)) = Len(r)
        /\ r[Len(r)] \in Target
    BY <2>2, Turned
  <2> QED BY <2>3, <2>4 DEF r
<1>8. values' \in Rings /\ storage' \in [Attr -> Target]
      /\ \A a \in Attr \ step : values'[a] = values[a]
  <2>1. \A a \in Attr : values[a] \in Seq(Target)
    BY Facts
  <2>2. \A a \in Attr : storage[a] \in Target
    BY DEF IInv, TypeOK
  <2>3. \A a \in Attr \ step : values'[a] = values[a]
    BY <1>1
  <2>4. \A a \in Attr : values'[a] \in Seq(Target)
    BY <1>7, <2>1, <2>3
  <2>5. DOMAIN values' = Attr /\ values' = [a \in Attr |-> values'[a]]
    BY <1>1
  <2>6. values' \in Rings
    BY <2>4, <2>5 DEF Rings
  <2>7. storage' \in [Attr -> Target]
    BY <1>1, <1>7, <2>2
  <2> QED BY <2>3, <2>6, <2>7
<1> QED BY <1>1, <1>3, <1>4, <1>5, <1>6, <1>7, <1>8, TurnInv

-----------------------------------------------------------------------------
(* Loading objects                                                         *)

\* The rings once objects have been loaded with one value for each pointer
Filled(objs, t) ==
  [a \in Attr |-> IF Owner[a] \in objs /\ values[a] = <<>> THEN <<t[a]>> ELSE values[a]]

LEMMA FilledOK ==
  ASSUME IInv, NEW objs \in SUBSET Object, NEW t \in [Attr -> Target]
  PROVE  /\ Filled(objs, t) \in Rings
         /\ \A a \in Attr : /\ Filled(objs, t)[a] # <<>> <=> IsLoaded(Owner[a]) \/ Owner[a] \in objs
                            /\ RingMatches(Filled(objs, t)[a], Older(a))
                            /\ Len(values[a]) >= 2 <=> Len(Filled(objs, t)[a]) >= 2
                            /\ Len(values[a]) >= 2 => Filled(objs, t)[a] = values[a]
         /\ \A o : /\ HeldIn(Filled(objs, t), o) = HeldIn(values, o)
                   /\ AimedIn(Filled(objs, t), o) = AimedIn(values, o)
<1> DEFINE rings == Filled(objs, t)
<1>1. \A a \in Attr :
        rings[a] = IF Owner[a] \in objs /\ values[a] = <<>> THEN <<t[a]>> ELSE values[a]
  BY DEF Filled
<1>2. rings = [a \in Attr |-> rings[a]]
  BY DEF Filled
<1> HIDE DEF rings
<1>3. ASSUME NEW a \in Attr
      PROVE  /\ rings[a] \in Seq(Target)
             /\ rings[a] # <<>> <=> IsLoaded(Owner[a]) \/ Owner[a] \in objs
             /\ RingMatches(rings[a], Older(a))
             /\ Len(values[a]) >= 2 <=> Len(rings[a]) >= 2
             /\ Len(values[a]) >= 2 => rings[a] = values[a]
  <2>1. /\ values[a] \in Seq(Target) /\ RingMatches(values[a], Older(a))
        /\ values[a] # <<>> <=> IsLoaded(Owner[a])
        /\ t[a] \in Target
        /\ values[a] = <<>> => Older(a) = 0 /\ Len(values[a]) = 0
    BY Facts DEF IInv, RingsOK, LoadedOK
  <2>2. CASE Owner[a] \in objs /\ values[a] = <<>>
    <3> DEFINE v == t[a]
    <3>1. rings[a] = <<v>> /\ v \in Target
      BY <1>1, <2>1, <2>2
    <3> HIDE DEF v
    <3>2. Len(<<v>>) = 1 /\ <<v>> # <<>> /\ <<v>> \in Seq(Target)
      BY <3>1
    <3>3. Len(values[a]) = 0 /\ Len(rings[a]) = 1 /\ Older(a) = 0
      BY <2>1, <2>2, <3>1, <3>2
    <3> QED BY <2>1, <2>2, <3>1, <3>2, <3>3 DEF RingMatches
  <2>3. CASE ~(Owner[a] \in objs /\ values[a] = <<>>)
    BY <1>1, <2>1, <2>3
  <2> QED BY <2>2, <2>3
<1>4. rings \in Rings
  BY <1>2, <1>3 DEF Rings
<1>5. Big(rings) = Big(values)
  BY <1>3 DEF Big
<1>6. ASSUME NEW o PROVE HeldIn(rings, o) = HeldIn(values, o)
  <2>1. {a \in AttrsOf(o) : Len(rings[a]) >= 2} = {a \in AttrsOf(o) : Len(values[a]) >= 2}
    BY <1>3 DEF AttrsOf
  <2> QED BY <2>1 DEF HeldIn
<1> QED BY <1>3, <1>4, <1>5, <1>6 DEF rings, AimedIn

\* A step in a transaction that only adds objects to those in memory
LEMMA LoadInv ==
  ASSUME IInv, T!InTransaction, NEW objs \in SUBSET Object, NEW t \in [Attr -> Target],
         values' = Filled(objs, t), locked' = locked \cup objs,
         finaltr_items' = finaltr_items \cup objs,
         UNCHANGED levelVars, storage' = storage,
         stored' \in SUBSET Object, created' \in SUBSET Object, used' \in SUBSET Object,
         stored' \subseteq used', used \cup objs \subseteq used',
         uptodate' \in SUBSET (Object \X Pointer),
         read_count' \in [Object -> Nat], write_count' \in [Object -> Nat],
         refused' \in [Object -> Nat], \A o \in Object : refused'[o] >= refused[o],
         CountsOf(values, read_count', write_count', refused'),
         \A o \in Object : IsLoaded(o)' <=> IsLoaded(o) \/ o \in objs
  PROVE  IInv'
<1>1. UNCHANGED <<transactions, undos, redo_count, dirty>>
  BY DEF levelVars
<1>2. /\ values' \in Rings
      /\ \A a \in Attr : /\ values'[a] # <<>> <=> IsLoaded(Owner[a]) \/ Owner[a] \in objs
                         /\ RingMatches(values'[a], Older(a))
      /\ \A o : HeldIn(values', o) = HeldIn(values, o) /\ AimedIn(values', o) = AimedIn(values, o)
  BY FilledOK
<1>3. TypeOK'
  BY <1>1, <1>2 DEF IInv, TypeOK, Rings
<1>4. QueueOK' /\ T!InTransaction'
  BY <1>1 DEF IInv, QueueOK, T!InTransaction
<1>5. RingsOK'
  BY <1>1, <1>2 DEF RingsOK, Older
<1>6. DirtyOK'
  BY <1>1 DEF IInv, DirtyOK, T!InTransaction
<1>7. CountsOf(values, read_count, write_count, refused)' /\ LoadedOK'
  BY <1>2, OwnerType DEF CountsOf, LoadedOK
<1>8. LocksOK'
  <2>1. locked' \subseteq finaltr_items'
    BY DEF IInv, LocksOK
  <2>2. ASSUME NEW o \in finaltr_items' \ locked'
        PROVE  refused'[o] > 0 \/ \E a \in AttrsOf(o) : Count(undos', a) > 0
    <3>1. o \in finaltr_items \ locked /\ o \in Object
      BY <2>2 DEF IInv, TypeOK
    <3>2. refused[o] > 0 \/ \E a \in AttrsOf(o) : Count(undos, a) > 0
      BY <3>1 DEF IInv, LocksOK
    <3>3. refused'[o] \in Nat /\ refused[o] \in Nat /\ refused'[o] >= refused[o]
      BY <3>1, Facts
    <3> QED BY <1>1, <3>2, <3>3
  <2> QED BY <1>4, <2>1, <2>2 DEF LocksOK
<1>9. UsedOK'
  BY DEF IInv, UsedOK
<1> QED BY <1>3, <1>4, <1>5, <1>6, <1>7, <1>8, <1>9 DEF IInv

LEMMA ReadInv ==
  ASSUME IInv, T!InTransaction, NEW objs \in SUBSET Object, Load(objs),
         finaltr_items' = finaltr_items \cup objs,
         UNCHANGED <<levelVars, objectVars, read_count, write_count, refused>>,
         uptodate' \in SUBSET (Object \X Pointer)
  PROVE  IInv'
<1>1. /\ values' = Filled(objs, storage) /\ locked' = locked \cup objs /\ objs \subseteq stored
      /\ UNCHANGED <<storage, stored, used, created>>
  BY DEF Load, Loading, Filled, Loadable, objectVars
<1>2. /\ storage \in [Attr -> Target] /\ stored \in SUBSET Object /\ used \in SUBSET Object
      /\ created \in SUBSET Object /\ read_count \in [Object -> Nat]
      /\ write_count \in [Object -> Nat] /\ refused \in [Object -> Nat] /\ stored \subseteq used
      /\ CountsOf(values, read_count, write_count, refused)
  BY DEF IInv, TypeOK, UsedOK
<1>3. \A o \in Object : refused'[o] >= refused[o]
  BY <1>2
<1>4. \A o \in Object : IsLoaded(o)' <=> IsLoaded(o) \/ o \in objs
  BY <1>1 DEF IsLoaded, IsEmpty
<1> QED BY <1>1, <1>2, <1>3, <1>4, LoadInv

LEMMA GetPointerInv ==
  ASSUME IInv, NEW o \in Object, GetPointer(o)
  PROVE  IInv'
<1>1. /\ T!InTransaction /\ Load({o}) /\ finaltr_items' = finaltr_items \cup {o}
      /\ UNCHANGED <<levelVars, objectVars, read_count, write_count, uptodate, refused>>
  BY DEF GetPointer
<1>2. {o} \in SUBSET Object /\ uptodate' \in SUBSET (Object \X Pointer)
  BY <1>1 DEF IInv, TypeOK
<1> QED BY <1>1, <1>2, ReadInv

LEMMA GetCollectionInv ==
  ASSUME IInv, NEW o \in Object, NEW p \in Pointer, GetCollection(o, p)
  PROVE  IInv'
<1> DEFINE here == IF IsLoaded(o) THEN {} ELSE {o}
<1>1. /\ T!InTransaction /\ Load(here) /\ finaltr_items' = finaltr_items \cup here
      /\ UNCHANGED <<levelVars, objectVars, read_count, write_count, refused>>
      /\ uptodate' \subseteq uptodate \cup {<<o, p>>}
  BY DEF GetCollection
<1>2. here \in SUBSET Object /\ uptodate' \in SUBSET (Object \X Pointer)
  BY <1>1 DEF IInv, TypeOK
<1> HIDE DEF here
<1> QED BY <1>1, <1>2, ReadInv

LEMMA ForgetInv ==
  ASSUME IInv, NEW o \in Object, Forget(o)
  PROVE  IInv'
<1>1. /\ uptodate' \subseteq uptodate
      /\ UNCHANGED <<transactions, undos, redo_count, dirty, storage, stored, used, created,
                     finaltr_items, locked, read_count, write_count, values, refused>>
  BY DEF Forget, levelVars, objectVars, lockVars
<1>2. TypeOK'
  BY <1>1 DEF IInv, TypeOK
<1>3. QueueOK' /\ RingsOK' /\ DirtyOK' /\ LocksOK' /\ UsedOK'
  BY <1>1 DEF IInv, QueueOK, RingsOK, DirtyOK, LocksOK, UsedOK, T!InTransaction, Older,
              IsLoaded, IsEmpty
<1>4. CountsOf(values, read_count, write_count, refused)' /\ LoadedOK'
  BY <1>1 DEF IInv, LoadedOK, IsLoaded, IsEmpty, CountsOf
<1> QED BY <1>2, <1>3, <1>4 DEF IInv

LEMMA CreateObjectInv ==
  ASSUME IInv, NEW o \in Object, CreateObject(o)
  PROVE  IInv'
<1>1. /\ T!InTransaction /\ o \notin used /\ used' = used \cup {o} /\ stored' = stored \cup {o}
      /\ created' = created \cup {o}
      /\ values' = [a \in Attr |-> IF Owner[a] = o THEN <<Null>> ELSE values[a]]
      /\ locked' = locked \cup {o} /\ finaltr_items' = finaltr_items \cup {o}
      /\ UNCHANGED <<levelVars, storage, read_count, write_count, uptodate, refused>>
  BY DEF CreateObject, T!InWriteTransaction
<1>2. ~IsLoaded(o)
  BY <1>1 DEF IInv, UsedOK
<1>3. \A a \in Attr : Owner[a] = o => values[a] = <<>>
  BY <1>2 DEF IInv, LoadedOK
<1> DEFINE t == [a \in Attr |-> Null]
<1>4. t \in [Attr -> Target] /\ values' = Filled({o}, t)
  BY <1>1, <1>3 DEF Filled, Target
<1> HIDE DEF t
<1>5. /\ stored \in SUBSET Object /\ used \in SUBSET Object
      /\ created \in SUBSET Object /\ read_count \in [Object -> Nat]
      /\ write_count \in [Object -> Nat] /\ refused \in [Object -> Nat] /\ stored \subseteq used
      /\ CountsOf(values, read_count, write_count, refused)
      /\ uptodate \in SUBSET (Object \X Pointer)
  BY DEF IInv, TypeOK, UsedOK
<1>6. \A x \in Object : refused'[x] >= refused[x]
  BY <1>1, <1>5
<1>7. \A x \in Object : IsLoaded(x)' <=> IsLoaded(x) \/ x \in {o}
  BY <1>1 DEF IsLoaded, IsEmpty
<1>8. /\ stored' \in SUBSET Object /\ used' \in SUBSET Object /\ created' \in SUBSET Object
      /\ stored' \subseteq used' /\ used \cup {o} \subseteq used' /\ {o} \in SUBSET Object
  BY <1>1, <1>5
<1>9. /\ read_count' \in [Object -> Nat] /\ write_count' \in [Object -> Nat]
      /\ refused' \in [Object -> Nat] /\ uptodate' \in SUBSET (Object \X Pointer)
      /\ CountsOf(values, read_count', write_count', refused')
  BY <1>1, <1>5
<1> QED BY <1>1, <1>4, <1>6, <1>7, <1>8, <1>9, LoadInv

\* An object whose lock attribute need not be loaded is as it was.
LEMMA NeedsLoadOK ==
  ASSUME read_count \in [Object -> Nat], write_count \in [Object -> Nat],
         NEW objs \in SUBSET Object, NeedsLoad(read_count', write_count') \subseteq objs,
         read_count' \in [Object -> Nat], write_count' \in [Object -> Nat],
         locked' = locked \cup objs
  PROVE  \A o \in Object : IsLoaded(o)' <=> IsLoaded(o) \/ o \in objs
<1> SUFFICES ASSUME NEW o \in Object PROVE IsLoaded(o)' <=> IsLoaded(o) \/ o \in objs
  OBVIOUS
<1>1. CASE o \in objs \/ o \in locked
  BY <1>1 DEF IsLoaded
<1>2. CASE o \notin objs /\ o \notin locked
  <2>1. <<read_count'[o] > 0, write_count'[o] > 0>> = <<read_count[o] > 0, write_count[o] > 0>>
    BY <1>2 DEF NeedsLoad, CombineLock
  <2>2. (read_count'[o] > 0 <=> read_count[o] > 0) /\ (write_count'[o] > 0 <=> write_count[o] > 0)
    BY <2>1
  <2>3. /\ read_count'[o] \in Nat /\ read_count[o] \in Nat
        /\ write_count'[o] \in Nat /\ write_count[o] \in Nat
    OBVIOUS
  <2>4. (read_count'[o] = 0 <=> read_count[o] = 0) /\ (write_count'[o] = 0 <=> write_count[o] = 0)
    BY <2>2, <2>3
  <2> QED BY <1>2, <2>4 DEF IsLoaded, IsEmpty
<1> QED BY <1>1, <1>2

LEMMA DeleteRefusedInv ==
  ASSUME IInv, NEW o \in Object, DeleteRefused(o)
  PROVE  IInv'
<1> DEFINE objs == NeedsLoad(read_count', write_count')
<1>1. /\ T!InTransaction
      /\ refused' = [refused EXCEPT ![o] = @ + 1]
      /\ read_count' = [read_count EXCEPT ![o] = @ + 1]
      /\ write_count' = [write_count EXCEPT ![o] = @ + 1]
      /\ Load(objs) /\ finaltr_items' = finaltr_items \cup objs
      /\ UNCHANGED <<levelVars, objectVars, uptodate>>
  BY DEF DeleteRefused, T!InWriteTransaction
<1>2. /\ storage \in [Attr -> Target] /\ stored \in SUBSET Object /\ used \in SUBSET Object
      /\ created \in SUBSET Object /\ read_count \in [Object -> Nat]
      /\ write_count \in [Object -> Nat] /\ refused \in [Object -> Nat] /\ stored \subseteq used
      /\ CountsOf(values, read_count, write_count, refused)
      /\ uptodate \in SUBSET (Object \X Pointer)
  BY DEF IInv, TypeOK, UsedOK
<1>3. objs \in SUBSET Object
  BY DEF NeedsLoad
<1> HIDE DEF objs
<1>4. /\ values' = Filled(objs, storage) /\ locked' = locked \cup objs /\ objs \subseteq stored
      /\ UNCHANGED <<storage, stored, used, created>>
  BY <1>1 DEF Load, Loading, Filled, Loadable, objectVars
<1>5. /\ read_count' \in [Object -> Nat] /\ write_count' \in [Object -> Nat]
      /\ refused' \in [Object -> Nat] /\ \A x \in Object : refused'[x] >= refused[x]
  BY <1>1, <1>2
<1>6. CountsOf(values, read_count', write_count', refused')
  <2> SUFFICES ASSUME NEW x \in Object
               PROVE  /\ read_count'[x] = HeldIn(values, x) + refused'[x]
                      /\ write_count'[x] = HeldIn(values, x) + AimedIn(values, x) + refused'[x]
    BY DEF CountsOf
  <2>1. /\ read_count[x] = HeldIn(values, x) + refused[x]
        /\ write_count[x] = HeldIn(values, x) + AimedIn(values, x) + refused[x]
    BY <1>2 DEF CountsOf
  <2>2. HeldIn(values, x) \in Nat /\ AimedIn(values, x) \in Nat /\ refused[x] \in Nat
    BY <1>2, Facts, CountsAre DEF CountTypes
  <2>3. CASE x = o
    <3>1. /\ refused'[x] = refused[x] + 1 /\ read_count'[x] = read_count[x] + 1
          /\ write_count'[x] = write_count[x] + 1
      BY <1>1, <1>2, <2>3
    <3> QED BY <2>1, <2>2, <3>1
  <2>4. CASE x # o
    BY <1>1, <1>2, <2>1, <2>4
  <2> QED BY <2>3, <2>4
<1>7. \A x \in Object : IsLoaded(x)' <=> IsLoaded(x) \/ x \in objs
  <2>1. NeedsLoad(read_count', write_count') \subseteq objs
    BY DEF objs
  <2> QED BY <1>2, <1>3, <1>4, <1>5, <2>1, NeedsLoadOK
<1> QED BY <1>1, <1>2, <1>3, <1>4, <1>5, <1>6, <1>7, LoadInv

-----------------------------------------------------------------------------
(* Writing pointers                                                        *)

\* The rings once v has been put in front on some pointers
Putting(rings, attrs, v) ==
  [a \in Attr |-> IF a \in attrs THEN Written(rings[a], a, v) ELSE rings[a]]

\* What a ring is before and after
PutFacts(before, after, attrs, v, a) ==
  /\ before \in Seq(Target) /\ after \in Seq(Target) /\ Len(before) \in Nat
  /\ a \notin attrs => after = before
  /\ a \in attrs =>
       /\ before # <<>> /\ Current(a) \in Target /\ before[1] = Current(a)
       /\ Len(after) >= 2
       /\ a \in dirty => /\ ~LocksSelf(a) /\ Len(before) >= 2
                         /\ after = <<v>> \o Tail(before) /\ Len(after) = Len(before)
       /\ a \notin dirty => after = <<v>> \o before /\ Len(after) = Len(before) + 1
       /\ LocksSelf(a) => before = <<Current(a)>> /\ Len(before) = 1
       /\ ~LocksSelf(a) => Len(before) >= 2

LEMMA PutRingsOK ==
  ASSUME IInv, T!InTransaction, NEW o \in Object, NEW attrs \in SUBSET AttrsOf(o), NEW v \in Target,
         NEW objs \in SUBSET Object, IsLoaded(o) \/ o \in objs, NEW a \in Attr
  PROVE  PutFacts(Filled(objs, storage)[a], Putting(Filled(objs, storage), attrs, v)[a], attrs, v, a)
<1> DEFINE L == Filled(objs, storage)
           before == L[a]
           after == Putting(L, attrs, v)[a]
<1>1. storage \in [Attr -> Target] /\ dirty \in SUBSET Attr
  BY DEF IInv, TypeOK
<1>2. /\ before \in Seq(Target) /\ Len(before) \in Nat /\ RingMatches(before, Older(a))
      /\ before # <<>> <=> IsLoaded(Owner[a]) \/ Owner[a] \in objs
      /\ Len(values[a]) >= 2 <=> Len(before) >= 2
      /\ before = IF Owner[a] \in objs /\ values[a] = <<>> THEN <<storage[a]>> ELSE values[a]
  <2>1. /\ L \in Rings /\ RingMatches(L[a], Older(a))
        /\ L[a] # <<>> <=> IsLoaded(Owner[a]) \/ Owner[a] \in objs
        /\ Len(values[a]) >= 2 <=> Len(L[a]) >= 2
    BY <1>1, FilledOK
  <2>2. L[a] = IF Owner[a] \in objs /\ values[a] = <<>> THEN <<storage[a]>> ELSE values[a]
    BY DEF Filled
  <2> HIDE DEF L
  <2>3. L[a] \in Seq(Target)
    BY <2>1 DEF Rings
  <2> QED BY <2>1, <2>2, <2>3
<1>3. after = IF a \in attrs THEN (IF a \in dirty THEN <<v>> \o Tail(before) ELSE <<v>> \o before)
                             ELSE before
  BY DEF Putting, Written
<1> HIDE DEF L, before, after
<1>4. CASE a \notin attrs
  BY <1>2, <1>3, <1>4 DEF PutFacts, L, before, after
<1>5. CASE a \in attrs
  <2>1. Owner[a] = o /\ before # <<>>
    BY <1>2, <1>5 DEF AttrsOf
  <2>2. /\ <<v>> \o before \in Seq(Target) /\ Len(<<v>> \o before) = Len(before) + 1
        /\ Tail(before) \in Seq(Target) /\ Len(Tail(before)) = Len(before) - 1
        /\ <<v>> \o Tail(before) \in Seq(Target) /\ Len(<<v>> \o Tail(before)) = Len(before)
        /\ before[1] \in Target /\ Len(before) >= 1
        /\ Len(before) = 1 => before = <<before[1]>>
    BY <1>2, <2>1
  <2>3. Len(before) = 1 + Older(a) /\ Older(a) \in Nat
    BY <1>2, <2>1, Facts DEF RingMatches
  <2>4. before[1] = Current(a)
    <3>1. CASE values[a] = <<>>
      <4>1. before = <<storage[a]>>
        BY <1>2, <2>1, <3>1
      <4> QED BY <3>1, <4>1 DEF Current
    <3>2. CASE values[a] # <<>>
      <4>1. before = values[a]
        BY <1>2, <3>2
      <4> QED BY <3>2, <4>1 DEF Current
    <3> QED BY <3>1, <3>2
  <2>5. a \in dirty => Len(before) >= 2
    <3>1. SUFFICES ASSUME a \in dirty PROVE Len(before) >= 2
      OBVIOUS
    <3>2. /\ Count(Items(Rest), a) \in Nat
          /\ Older(a) = Count(Items(Rest), a) + (IF a \in dirty THEN 1 ELSE 0) + Count(undos, a)
      BY Stack
    <3>3. Count(undos, a) \in Nat
      BY Facts
    <3>4. Older(a) >= 1
      BY <3>1, <3>2, <3>3
    <3> QED BY <2>3, <3>4
  <2>6. LocksSelf(a) <=> a \notin dirty /\ Len(before) <= 1
    <3>1. Len(values[a]) \in Nat
      BY Facts
    <3>2. Len(values[a]) <= 1 <=> Len(before) <= 1
      BY <1>2, <3>1
    <3> QED BY <3>2 DEF LocksSelf
  <2>7. LocksSelf(a) => Len(before) = 1
    BY <1>2, <2>2, <2>6
  <2>8. ~LocksSelf(a) => Len(before) >= 2
    BY <1>2, <2>5, <2>6
  <2>9. /\ a \in dirty => after = <<v>> \o Tail(before)
        /\ a \notin dirty => after = <<v>> \o before
    BY <1>3, <1>5
  <2>10. /\ after \in Seq(Target)
         /\ a \in dirty => Len(after) = Len(before)
         /\ a \notin dirty => Len(after) = Len(before) + 1
    BY <2>2, <2>9
  <2>11. Len(after) >= 2
    <3>1. Len(before) \in Nat
      BY <1>2
    <3>2. Len(before) >= 1
      BY <2>2
    <3>3. /\ a \in dirty => Len(after) = Len(before)
          /\ a \notin dirty => Len(after) = Len(before) + 1
      BY <2>10
    <3> QED BY <2>5, <3>1, <3>2, <3>3
  <2>12. LocksSelf(a) => before = <<Current(a)>>
    BY <2>2, <2>4, <2>7
  <2>13. Current(a) \in Target
    BY <2>2, <2>4
  <2>14. PutFacts(before, after, attrs, v, a)
    BY <1>2, <1>5, <2>1, <2>4, <2>5, <2>6, <2>7, <2>8, <2>9, <2>10, <2>11, <2>12, <2>13 DEF PutFacts
  <2> QED BY <2>14 DEF L, before, after
<1> QED BY <1>4, <1>5

\* The pointers that get a first second value
Selfs(attrs) == {a \in attrs : LocksSelf(a)}

LEMMA PutHeld ==
  ASSUME NEW L \in Rings, NEW new \in Rings, NEW o \in Object, NEW attrs \in SUBSET AttrsOf(o), NEW v,
         \A a \in Attr : PutFacts(L[a], new[a], attrs, v, a), NEW x \in Object
  PROVE  /\ HeldIn(new, x) = HeldIn(L, x) + (IF x = o THEN Cardinality(Selfs(attrs)) ELSE 0)
         /\ Cardinality(Selfs(attrs)) \in Nat
         /\ Cardinality(Selfs(attrs)) = 0 <=> Selfs(attrs) = {}
<1> DEFINE S == {a \in AttrsOf(x) : Len(new[a]) >= 2}
           P == {a \in AttrsOf(x) : Len(L[a]) >= 2}
           Q == Selfs(attrs)
<1>1. IsFiniteSet(S) /\ IsFiniteSet(Q)
  <2>1. S \subseteq Attr /\ Q \subseteq Attr
    BY DEF AttrsOf, Selfs
  <2> QED BY <2>1, AttrIsFinite, FS_Subset
<1>2. Cardinality(Q) \in Nat /\ (Cardinality(Q) = 0 <=> Q = {})
  BY <1>1, FS_CardinalityType, FS_EmptySet
<1>3. HeldIn(L, x) \in Nat /\ HeldIn(L, x) = Cardinality(P) /\ HeldIn(new, x) = Cardinality(S)
  BY CountsAre DEF HeldIn
<1>4. \A a \in AttrsOf(x) : a \in Attr /\ Owner[a] = x
  BY DEF AttrsOf
<1>5. \A a \in attrs : a \in Attr /\ Owner[a] = o
  BY DEF AttrsOf
<1>6. CASE x = o
  <2>1. \A a \in AttrsOf(x) : /\ a \in P => a \in S /\ a \notin Q
                              /\ a \in S => a \in P \/ a \in Q
    <3> SUFFICES ASSUME NEW a \in AttrsOf(x) PROVE /\ a \in P => a \in S /\ a \notin Q
                                                   /\ a \in S => a \in P \/ a \in Q
      OBVIOUS
    <3>1. PutFacts(L[a], new[a], attrs, v, a)
      BY <1>4
    <3>2. CASE a \notin attrs
      BY <3>1, <3>2 DEF PutFacts, Selfs
    <3>3. CASE a \in attrs
      <4>1. Len(new[a]) >= 2 /\ (LocksSelf(a) => Len(L[a]) = 1) /\ (~LocksSelf(a) => Len(L[a]) >= 2)
        BY <3>1, <3>3 DEF PutFacts
      <4>2. /\ a \in P <=> Len(L[a]) >= 2
            /\ a \in S <=> Len(new[a]) >= 2
            /\ a \in Q <=> LocksSelf(a)
        BY <3>3 DEF Selfs
      <4> DEFINE m == Len(L[a])
                 big == Len(new[a]) >= 2
                 self == LocksSelf(a)
      <4>3. /\ big /\ (self => m = 1) /\ (~self => m >= 2)
            /\ (a \in P <=> m >= 2) /\ (a \in S <=> big) /\ (a \in Q <=> self)
        BY <4>1, <4>2
      <4> HIDE DEF P, S, Q, m, big, self
      <4>4. self => ~(m >= 2)
        BY <4>3
      <4> QED BY <4>3, <4>4, Zenon
    <3> QED BY <3>2, <3>3
  <2>2. \A a \in Q : a \in AttrsOf(x) /\ a \in S
    <3> SUFFICES ASSUME NEW a \in Q PROVE a \in AttrsOf(x) /\ a \in S
      OBVIOUS
    <3>1. a \in attrs
      BY DEF Selfs
    <3>2. a \in Attr /\ Owner[a] = x /\ PutFacts(L[a], new[a], attrs, v, a)
      BY <1>5, <1>6, <3>1
    <3>3. Len(new[a]) >= 2
      BY <3>1, <3>2 DEF PutFacts
    <3> QED BY <3>2, <3>3 DEF AttrsOf
  <2>3. P \cap Q = {} /\ P \cup Q = S
    BY <2>1, <2>2
  <2> HIDE DEF S, P, Q
  <2>4. Cardinality(S) = Cardinality(P) + Cardinality(Q)
    BY <1>1, <2>3, SizeOfParts
  <2> QED BY <1>2, <1>3, <1>6, <2>4 DEF Q
<1>7. CASE x # o
  <2>1. \A a \in AttrsOf(x) : new[a] = L[a]
    <3> SUFFICES ASSUME NEW a \in AttrsOf(x) PROVE new[a] = L[a]
      OBVIOUS
    <3>1. a \in Attr /\ a \notin attrs
      BY <1>4, <1>5, <1>7
    <3> QED BY <3>1 DEF PutFacts
  <2>2. S = P
    BY <2>1
  <2> HIDE DEF S, P, Q
  <2> QED BY <1>2, <1>3, <1>7, <2>2 DEF Q
<1> QED BY <1>6, <1>7

LEMMA PutAimed ==
  ASSUME NEW L \in Rings, NEW new \in Rings, NEW attrs \in SUBSET Attr, NEW v \in Target,
         \A a \in Attr : PutFacts(L[a], new[a], attrs, v, a), NEW x
  PROVE  /\ AimedIn(new, x) = AimedIn(L, x) + LocksTargets(attrs, v, x)
         /\ LocksTargets(attrs, v, x) \in Int
<1> DEFINE A == attrs \cap dirty
           B == Selfs(attrs)
           base == [a \in Attr |-> IF a \in A THEN Tail(L[a]) ELSE Big(L)[a]]
           olds == [a \in Attr |-> IF a \in A THEN <<Current(a)>> ELSE <<>>]
           mid == [a \in Attr |-> IF a \in B THEN <<Current(a)>> ELSE base[a]]
           curs == [a \in Attr |-> IF a \in B THEN <<Current(a)>> ELSE <<>>]
           vs == [a \in Attr |-> IF a \in attrs THEN <<v>> ELSE <<>>]
           one == [a \in Attr |-> 1]
<1>1. \A a \in Attr : /\ base[a] = IF a \in A THEN Tail(L[a]) ELSE Big(L)[a]
                      /\ olds[a] = IF a \in A THEN <<Current(a)>> ELSE <<>>
                      /\ mid[a] = IF a \in B THEN <<Current(a)>> ELSE base[a]
                      /\ curs[a] = IF a \in B THEN <<Current(a)>> ELSE <<>>
                      /\ vs[a] = IF a \in attrs THEN <<v>> ELSE <<>>
                      /\ one[a] = 1
  OBVIOUS
<1>2. /\ base = [a \in Attr |-> base[a]] /\ olds = [a \in Attr |-> olds[a]]
      /\ mid = [a \in Attr |-> mid[a]] /\ curs = [a \in Attr |-> curs[a]]
      /\ vs = [a \in Attr |-> vs[a]] /\ one \in [Attr -> Nat]
  OBVIOUS
<1>3. /\ A \subseteq attrs /\ B \subseteq attrs /\ A \cap B = {} /\ A \subseteq dirty
      /\ \A a \in attrs \ A : a \notin dirty
      /\ \A a \in attrs \ B : ~LocksSelf(a)
      /\ \A a \in B : LocksSelf(a) /\ a \notin dirty
  BY DEF Selfs, LocksSelf
<1>4. \A a \in Attr : /\ Big(L)[a] = IF Len(L[a]) >= 2 THEN L[a] ELSE <<>>
                      /\ Big(new)[a] = IF Len(new[a]) >= 2 THEN new[a] ELSE <<>>
  BY DEF Big
<1> HIDE DEF A, B, base, olds, mid, curs, vs, one
<1>5. ASSUME NEW a \in Attr
      PROVE  /\ base[a] \in Seq(Target) /\ olds[a] \in Seq(Target) /\ mid[a] \in Seq(Target)
             /\ curs[a] \in Seq(Target) /\ vs[a] \in Seq(Target)
             /\ IsCut(Big(L)[a], base[a], olds[a], 1)
             /\ IsCut(mid[a], base[a], curs[a], 1)
             /\ IsCut(Big(new)[a], mid[a], vs[a], 1)
  <2> DEFINE r == L[a]
             n == new[a]
             c == Current(a)
  <2>1. PutFacts(r, n, attrs, v, a)
    OBVIOUS
  <2>2. /\ Big(L)[a] = (IF Len(r) >= 2 THEN r ELSE <<>>)
        /\ Big(new)[a] = (IF Len(n) >= 2 THEN n ELSE <<>>)
    BY <1>4
  <2>3. /\ base[a] = IF a \in A THEN Tail(r) ELSE Big(L)[a]
        /\ olds[a] = IF a \in A THEN <<c>> ELSE <<>>
        /\ mid[a] = IF a \in B THEN <<c>> ELSE base[a]
        /\ curs[a] = IF a \in B THEN <<c>> ELSE <<>>
    BY <1>1
  <2>4. Big(L)[a] \in Seq(Target)
    BY BigType DEF Rings
  <2> HIDE DEF r, n
  <2>5. r \in Seq(Target) /\ n \in Seq(Target) /\ Len(r) \in Nat
    BY <2>1 DEF PutFacts
  <2>6. <<>> \in Seq(Target) /\ \A s \in Seq(Target) : IsCut(s, s, <<>>, 1)
    BY CutNothing
  <2>7. \A s \in Seq(Target), y \in Target :
          IsCut(<<y>> \o s, s, <<y>>, 1) /\ <<y>> \in Seq(Target) /\ <<y>> \o s \in Seq(Target)
    BY CutAdded
  <2>8. CASE a \notin attrs
    <3>1. n = r /\ a \notin A /\ a \notin B
      BY <1>3, <2>1, <2>8 DEF PutFacts
    <3>2. /\ base[a] = Big(L)[a] /\ olds[a] = <<>> /\ mid[a] = Big(L)[a] /\ curs[a] = <<>>
          /\ vs[a] = <<>> /\ Big(new)[a] = Big(L)[a]
      BY <1>1, <2>2, <2>3, <2>8, <3>1
    <3> QED BY <2>4, <2>6, <3>2
  <2>9. CASE a \in A
    <3>1. /\ r # <<>> /\ c \in Target /\ r[1] = c /\ Len(n) >= 2 /\ Len(r) >= 2
          /\ n = <<v>> \o Tail(r) /\ a \notin B /\ a \in attrs
      BY <1>3, <2>1, <2>9 DEF PutFacts
    <3> DEFINE t == Tail(r)
    <3>2. t \in Seq(Target) /\ r = <<c>> \o t
      BY <2>5, <3>1
    <3> HIDE DEF c
    <3>3. /\ base[a] = t /\ olds[a] = <<c>> /\ mid[a] = t /\ curs[a] = <<>>
          /\ vs[a] = <<v>> /\ Big(new)[a] = <<v>> \o t /\ Big(L)[a] = <<c>> \o t
      BY <1>1, <2>2, <2>3, <2>9, <3>1, <3>2
    <3> HIDE DEF t
    <3> QED BY <2>6, <2>7, <3>1, <3>2, <3>3
  <2>10. CASE a \in B
    <3>1. /\ c \in Target /\ Len(n) >= 2 /\ r = <<c>> /\ Len(r) = 1 /\ n = <<v>> \o r /\ a \notin A
          /\ a \in attrs
      BY <1>3, <2>1, <2>10 DEF PutFacts
    <3> HIDE DEF c
    <3>2. <<c>> \o <<>> = <<c>> /\ <<c>> \in Seq(Target)
      BY <3>1
    <3>3. Big(L)[a] = <<>> /\ Big(new)[a] = n
      BY <2>2, <3>1
    <3>4. /\ base[a] = <<>> /\ olds[a] = <<>> /\ mid[a] = <<c>> /\ curs[a] = <<c>>
          /\ vs[a] = <<v>> /\ Big(new)[a] = <<v>> \o <<c>>
      <4>1. base[a] = <<>> /\ olds[a] = <<>> /\ vs[a] = <<v>> /\ Big(new)[a] = <<v>> \o <<c>>
        BY <1>1, <2>3, <3>1, <3>3
      <4>2. mid[a] = <<c>> /\ curs[a] = <<c>>
        BY <1>1, <2>3, <2>10
      <4> QED BY <4>1, <4>2
    <3>5. IsCut(<<c>>, <<>>, <<c>>, 1) /\ IsCut(<<v>> \o <<c>>, <<c>>, <<v>>, 1) /\ <<v>> \in Seq(Target)
      BY <2>6, <2>7, <3>1, <3>2
    <3>6. IsCut(<<>>, <<>>, <<>>, 1)
      BY <2>6
    <3> QED BY <2>6, <3>2, <3>3, <3>4, <3>5, <3>6
  <2>11. CASE a \in attrs /\ a \notin A /\ a \notin B
    <3>1. Len(n) >= 2 /\ n = <<v>> \o r /\ Len(r) >= 2
      BY <1>3, <2>1, <2>11 DEF PutFacts
    <3>2. /\ base[a] = r /\ olds[a] = <<>> /\ mid[a] = r /\ curs[a] = <<>>
          /\ vs[a] = <<v>> /\ Big(new)[a] = <<v>> \o r /\ Big(L)[a] = r
      BY <1>1, <2>2, <2>3, <2>11, <3>1
    <3> QED BY <2>5, <2>6, <2>7, <3>2
  <2> QED BY <2>8, <2>9, <2>10, <2>11
<1>6. base \in Rings /\ olds \in Rings /\ mid \in Rings /\ curs \in Rings /\ vs \in Rings
      /\ Big(L) \in Rings /\ Big(new) \in Rings
  BY <1>2, <1>5, BigType DEF Rings
<1>7. /\ Mentions(Big(L), x) = Mentions(base, x) + Mentions(olds, x)
      /\ Mentions(mid, x) = Mentions(base, x) + Mentions(curs, x)
      /\ Mentions(Big(new), x) = Mentions(mid, x) + Mentions(vs, x)
  <2> DEFINE bl == Big(L)
             bn == Big(new)
  <2>1. bl \in Rings /\ bn \in Rings
    BY <1>6
  <2>2. \A a \in Attr : /\ IsCut(bl[a], base[a], olds[a], one[a])
                        /\ IsCut(mid[a], base[a], curs[a], one[a])
                        /\ IsCut(bn[a], mid[a], vs[a], one[a])
    BY <1>1, <1>5
  <2> HIDE DEF bl, bn
  <2>3. Mentions(bl, x) = Mentions(base, x) + Mentions(olds, x)
    BY <1>2, <1>6, <2>1, <2>2, CutPlaces
  <2>4. Mentions(mid, x) = Mentions(base, x) + Mentions(curs, x)
    BY <1>2, <1>6, <2>2, CutPlaces
  <2>5. Mentions(bn, x) = Mentions(mid, x) + Mentions(vs, x)
    BY <1>2, <1>6, <2>1, <2>2, CutPlaces
  <2> QED BY <2>3, <2>4, <2>5 DEF bl, bn
<1>8. /\ Mentions(base, x) \in Nat /\ Mentions(olds, x) \in Nat
       /\ Mentions(curs, x) \in Nat /\ Mentions(vs, x) \in Nat
  BY <1>6, MentionsType
<1>9. Mentions(olds, x) = Cardinality({a \in attrs \cap dirty : Current(a) = x})
  <2> DEFINE t == [a \in Attr |-> Current(a)]
  <2>1. \A a \in Attr : olds[a] = IF a \in A THEN <<t[a]>> ELSE <<>>
    BY <1>1
  <2>2. A \in SUBSET Attr /\ A = attrs \cap dirty
    BY DEF A
  <2>3. Aiming(A, t, x) = {a \in A : Current(a) = x}
    BY <2>2 DEF Aiming
  <2> HIDE DEF t
  <2>4. Mentions(olds, x) = Cardinality(Aiming(A, t, x))
    BY <1>6, <2>1, <2>2, MentionsOfSingles
  <2> QED BY <2>2, <2>3, <2>4
<1>10. Mentions(curs, x) = Cardinality({a \in attrs : LocksSelf(a) /\ Current(a) = x})
  <2> DEFINE t == [a \in Attr |-> Current(a)]
  <2>1. \A a \in Attr : curs[a] = IF a \in B THEN <<t[a]>> ELSE <<>>
    BY <1>1
  <2>2. B \in SUBSET Attr /\ curs \in Rings
    BY <1>3, <1>6
  <2>3. Aiming(B, t, x) = {a \in attrs : LocksSelf(a) /\ Current(a) = x}
    BY DEF B, Selfs, Aiming
  <2> HIDE DEF t
  <2>4. Mentions(curs, x) = Cardinality(Aiming(B, t, x))
    BY <2>1, <2>2, MentionsOfSingles
  <2> QED BY <2>3, <2>4
<1>11. Mentions(vs, x) = IF v = x THEN Cardinality(attrs) ELSE 0
  <2> DEFINE t == [a \in Attr |-> v]
  <2>1. \A a \in Attr : vs[a] = IF a \in attrs THEN <<t[a]>> ELSE <<>>
    BY <1>1
  <2>2. Aiming(attrs, t, x) = IF v = x THEN attrs ELSE {}
    BY DEF Aiming
  <2> HIDE DEF t
  <2>3. Mentions(vs, x) = Cardinality(Aiming(attrs, t, x))
    BY <1>6, <2>1, MentionsOfSingles
  <2> QED BY <2>2, <2>3, FS_EmptySet
<1> QED BY <1>7, <1>8, <1>9, <1>10, <1>11 DEF AimedIn, LocksTargets

\* The counts that PutAll arrives at
PutReads(o, attrs) ==
  [x \in Object |-> read_count[x] + (IF x = o THEN Cardinality(Selfs(attrs)) ELSE 0)]
PutWrites(o, attrs, v) ==
  [x \in Object |-> write_count[x] + (IF x = o THEN Cardinality(Selfs(attrs)) ELSE 0)
                    + LocksTargets(attrs, v, x)]

\* What PutAll does, in the terms of the lemmas
LEMMA PutAllDoes ==
  ASSUME NEW o \in Object, NEW attrs \in SUBSET Attr, NEW v, PutAll(o, attrs, v)
  PROVE  LET objs == NeedsLoad(PutReads(o, attrs), PutWrites(o, attrs, v))
                     \cup (IF IsLoaded(o) THEN {} ELSE {o})
         IN  /\ objs \subseteq stored
             /\ read_count' = PutReads(o, attrs) /\ write_count' = PutWrites(o, attrs, v)
             /\ locked' = locked \cup objs
             /\ finaltr_items' = finaltr_items \cup objs \cup {o}
             /\ values' = Putting(Filled(objs, storage), attrs, v)
             /\ dirty' = dirty \cup (attrs \ dirty)
             /\ transactions' = [transactions EXCEPT ![1].items = @ \cup (attrs \ dirty)]
             /\ UNCHANGED <<undos, redo_count, storage, used, created, stored, uptodate>>
BY DEF PutAll, PutReads, PutWrites, Selfs, Loadable, Loading, Filled, Putting

\* An object that takes part in the commit although this step loads nothing
\* of it is in memory because of older locks.
LEMMA WrittenIsKept ==
  ASSUME IInv, T!InTransaction, NEW o \in Object, NEW attrs \in SUBSET AttrsOf(o),
         attrs # {} \/ Attr = {},
         IsLoaded(o), o \notin finaltr_items,
         (\E a \in attrs : LocksSelf(a)) => read_count[o] > 0
  PROVE  refused[o] > 0 \/ \E a \in AttrsOf(o) : Count(undos, a) > 0
<1>1. /\ read_count[o] \in Nat /\ write_count[o] \in Nat /\ refused[o] \in Nat
      /\ HeldIn(values, o) \in Nat /\ AimedIn(values, o) \in Nat
      /\ read_count[o] = HeldIn(values, o) + refused[o]
      /\ write_count[o] = HeldIn(values, o) + AimedIn(values, o) + refused[o]
  BY Facts, CountsAre DEF IInv, CountsOf, CountTypes
<1>2. o \notin locked
  BY DEF IInv, LocksOK
<1>3. CASE refused[o] > 0
  BY <1>3
<1>4. CASE HeldIn(values, o) >= 1
  <2>1. PICK a \in AttrsOf(o) : Len(values[a]) >= 2
    BY <1>4, CountsAre, Facts DEF CountTypes
  <2>2. a \in Attr /\ Owner[a] = o
    BY DEF AttrsOf
  <2>3. /\ Older(a) = Count(Items(transactions), a) + Count(undos, a)
        /\ Count(Items(transactions), a) \in Nat /\ Count(undos, a) \in Nat
        /\ Older(a) >= 1
    <3>1. /\ Older(a) = Count(Items(transactions), a) + Count(undos, a)
          /\ Count(Items(transactions), a) \in Nat /\ Count(undos, a) \in Nat
          /\ values[a] = <<>> => Len(values[a]) = 0
          /\ values[a] # <<>> => Len(values[a]) = 1 + Older(a)
      BY <2>2, Facts
    <3> DEFINE m == Len(values[a])
    <3>2. m >= 2 /\ (m = 0 \/ m = 1 + Older(a))
      BY <2>1, <3>1
    <3> HIDE DEF m
    <3> QED BY <3>1, <3>2
  <2>4. Count(Items(transactions), a) = 0
    <3>1. /\ Items(transactions) \in Seq(SUBSET Attr)
          /\ Len(Items(transactions)) = Len(transactions)
          /\ \A k \in 1..Len(transactions) : Items(transactions)[k] = transactions[k].items
      BY Facts, ItemsType DEF LevelType
    <3>2. \A k \in 1..Len(transactions) : a \notin transactions[k].items
      BY <2>2 DEF IInv, DirtyOK
    <3>3. \A k \in 1..Len(Items(transactions)) : a \notin Items(transactions)[k]
      BY <3>1, <3>2
    <3> QED BY <3>1, <3>3, CountType
  <2> QED BY <2>3, <2>4
<1>5. CASE refused[o] = 0 /\ HeldIn(values, o) = 0
  <2>1. read_count[o] = 0 /\ write_count[o] = AimedIn(values, o)
    BY <1>1, <1>5
  <2>2. write_count[o] # 0
    BY <1>2, <2>1 DEF IsLoaded, IsEmpty
  <2>3. CASE Attr = {}
    <3>1. Big(values) \in Rings
      BY Facts, BigType DEF CountTypes
    <3>2. AimedIn(values, o) = Cardinality(Aiming({}, Big(values), o))
      BY <2>3, <3>1, MentionsOfSingles DEF AimedIn
    <3>3. Aiming({}, Big(values), o) = {}
      BY DEF Aiming
    <3> QED BY <2>1, <2>2, <3>2, <3>3, FS_EmptySet
  <2>4. CASE attrs # {}
    <3>1. PICK a \in attrs : TRUE
      BY <2>4
    <3>2. a \in Attr /\ Owner[a] = o /\ a \in AttrsOf(o)
      BY DEF AttrsOf
    <3>3. a \notin dirty
      BY <3>2, Stack
    <3>4. ~(Len(values[a]) >= 2)
      <4>1. Len(values[a]) >= 2 => HeldIn(values, o) >= 1
        BY <3>2, CountsAre, Facts DEF CountTypes
      <4> QED BY <1>5, <4>1
    <3>5. LocksSelf(a)
      <4>1. Len(values[a]) \in Nat
        BY <3>2, Facts
      <4> DEFINE m == Len(values[a])
      <4>2. m \in Nat /\ ~(m >= 2)
        BY <3>4, <4>1
      <4> HIDE DEF m
      <4>3. m <= 1
        BY <4>2
      <4> QED BY <3>3, <4>3 DEF m, LocksSelf
    <3> QED BY <2>1, <3>1, <3>5
  <2> QED BY <2>3, <2>4
<1> QED BY <1>1, <1>3, <1>4, <1>5

LEMMA PutAllInv ==
  ASSUME IInv, T!InTransaction, NEW o \in Object, NEW attrs \in SUBSET AttrsOf(o), NEW v \in Target,
         attrs # {} \/ Attr = {}, PutAll(o, attrs, v), UNCHANGED refused
  PROVE  IInv'
<1> DEFINE objs == NeedsLoad(PutReads(o, attrs), PutWrites(o, attrs, v))
                   \cup (IF IsLoaded(o) THEN {} ELSE {o})
           new == attrs \ dirty
           L == Filled(objs, storage)
           level == [transactions[1] EXCEPT !.items = dirty \cup new]
<1>1. attrs \in SUBSET Attr /\ \A a \in attrs : a \in Attr /\ Owner[a] = o
  BY DEF AttrsOf
<1>2. /\ objs \subseteq stored
      /\ read_count' = PutReads(o, attrs) /\ write_count' = PutWrites(o, attrs, v)
      /\ locked' = locked \cup objs
      /\ finaltr_items' = finaltr_items \cup objs \cup {o}
      /\ values' = Putting(L, attrs, v)
      /\ dirty' = dirty \cup new
      /\ transactions' = [transactions EXCEPT ![1].items = @ \cup new]
      /\ UNCHANGED <<undos, redo_count, storage, used, created, stored, uptodate>>
  BY <1>1, PutAllDoes
<1>3. /\ NeedsLoad(read_count', write_count') \subseteq objs
      /\ IsLoaded(o) \/ o \in objs
      /\ objs \in SUBSET Object
  BY <1>2 DEF NeedsLoad
<1> HIDE DEF objs
<1>4. /\ storage \in [Attr -> Target] /\ stored \in SUBSET Object /\ used \in SUBSET Object
      /\ finaltr_items \in SUBSET Object /\ locked \in SUBSET Object
      /\ created \in SUBSET Object /\ read_count \in [Object -> Nat]
      /\ write_count \in [Object -> Nat] /\ refused \in [Object -> Nat] /\ stored \subseteq used
      /\ CountsOf(values, read_count, write_count, refused)
      /\ uptodate \in SUBSET (Object \X Pointer) /\ redo_count \in Nat
      /\ undos \in Seq(SUBSET Attr) /\ dirty \in SUBSET Attr
  BY DEF IInv, TypeOK, UsedOK
<1>5. /\ L \in Rings
      /\ \A a \in Attr : /\ L[a] # <<>> <=> IsLoaded(Owner[a]) \/ Owner[a] \in objs
                         /\ RingMatches(L[a], Older(a))
      /\ \A x : HeldIn(L, x) = HeldIn(values, x) /\ AimedIn(L, x) = AimedIn(values, x)
  BY <1>3, <1>4, FilledOK
<1>6. \A a \in Attr : PutFacts(L[a], values'[a], attrs, v, a)
  BY <1>2, <1>3, PutRingsOK
<1> HIDE DEF L
<1>7. values' \in Rings
  <2>1. \A a \in Attr : values'[a] \in Seq(Target)
    BY <1>6 DEF PutFacts
  <2>2. values' = [a \in Attr |-> values'[a]]
    BY <1>2 DEF Putting
  <2> QED BY <2>1, <2>2 DEF Rings
<1>8. \A x \in Object :
        /\ HeldIn(values', x) = HeldIn(values, x) + (IF x = o THEN Cardinality(Selfs(attrs)) ELSE 0)
        /\ AimedIn(values', x) = AimedIn(values, x) + LocksTargets(attrs, v, x)
        /\ LocksTargets(attrs, v, x) \in Int
        /\ Cardinality(Selfs(attrs)) \in Nat
        /\ Cardinality(Selfs(attrs)) = 0 <=> Selfs(attrs) = {}
  <2> SUFFICES ASSUME NEW x \in Object
               PROVE  /\ HeldIn(values', x) = HeldIn(values, x)
                                              + (IF x = o THEN Cardinality(Selfs(attrs)) ELSE 0)
                      /\ AimedIn(values', x) = AimedIn(values, x) + LocksTargets(attrs, v, x)
                      /\ LocksTargets(attrs, v, x) \in Int
                      /\ Cardinality(Selfs(attrs)) \in Nat
                      /\ Cardinality(Selfs(attrs)) = 0 <=> Selfs(attrs) = {}
    OBVIOUS
  <2> DEFINE vals == values'
  <2>1. vals \in Rings /\ \A a \in Attr : PutFacts(L[a], vals[a], attrs, v, a)
    BY <1>6, <1>7
  <2> HIDE DEF vals
  <2>2. /\ HeldIn(vals, x) = HeldIn(L, x) + (IF x = o THEN Cardinality(Selfs(attrs)) ELSE 0)
        /\ Cardinality(Selfs(attrs)) \in Nat
        /\ Cardinality(Selfs(attrs)) = 0 <=> Selfs(attrs) = {}
    BY <1>5, <2>1, PutHeld
  <2>3. /\ AimedIn(vals, x) = AimedIn(L, x) + LocksTargets(attrs, v, x)
        /\ LocksTargets(attrs, v, x) \in Int
    BY <1>1, <1>5, <2>1, PutAimed
  <2> QED BY <1>5, <2>2, <2>3 DEF vals
<1>9. ASSUME NEW x \in Object
      PROVE  /\ read_count'[x] = HeldIn(values', x) + refused[x]
             /\ write_count'[x] = HeldIn(values', x) + AimedIn(values', x) + refused[x]
             /\ read_count'[x] \in Nat /\ write_count'[x] \in Nat
             /\ x = o => read_count'[x] = read_count[x] + Cardinality(Selfs(attrs))
  <2> DEFINE s == IF x = o THEN Cardinality(Selfs(attrs)) ELSE 0
             l == LocksTargets(attrs, v, x)
  <2>1. read_count'[x] = read_count[x] + s /\ write_count'[x] = write_count[x] + s + l
    BY <1>2 DEF PutReads, PutWrites
  <2>2. /\ HeldIn(values', x) = HeldIn(values, x) + s
        /\ AimedIn(values', x) = AimedIn(values, x) + l
        /\ s \in Nat /\ l \in Int
    BY <1>8
  <2>3. x = o => s = Cardinality(Selfs(attrs))
    OBVIOUS
  <2> HIDE DEF s, l
  <2>4. /\ read_count[x] = HeldIn(values, x) + refused[x]
        /\ write_count[x] = HeldIn(values, x) + AimedIn(values, x) + refused[x]
        /\ refused[x] \in Nat
    BY <1>4 DEF CountsOf
  <2>5. /\ HeldIn(values, x) \in Nat /\ AimedIn(values, x) \in Nat
        /\ HeldIn(values', x) \in Nat /\ AimedIn(values', x) \in Nat
    BY <1>7, Facts, CountsAre DEF CountTypes
  <2> QED BY <2>1, <2>2, <2>3, <2>4, <2>5
<1>10. CountTypes' /\ CountsOf(values, read_count, write_count, refused)'
  <2>1. read_count' = [x \in Object |-> read_count'[x]] /\ write_count' = [x \in Object |-> write_count'[x]]
    BY <1>2 DEF PutReads, PutWrites
  <2>2. read_count' \in [Object -> Nat] /\ write_count' \in [Object -> Nat]
    BY <1>9, <2>1
  <2> QED BY <1>7, <1>9, <2>2 DEF CountTypes, CountsOf
<1>11. \A x \in Object : IsLoaded(x)' <=> IsLoaded(x) \/ x \in objs
  BY <1>2, <1>3, <1>4, <1>10, NeedsLoadOK DEF CountTypes
<1>12. LoadedOK'
  <2>1. ASSUME NEW a \in Attr PROVE values'[a] # <<>> <=> L[a] # <<>>
    <3>1. CASE a \in attrs
      <4>1. L[a] # <<>> /\ Len(values'[a]) >= 2
        BY <1>6, <3>1 DEF PutFacts
      <4>2. values'[a] # <<>>
        BY <4>1
      <4> QED BY <4>1, <4>2
    <3>2. CASE a \notin attrs
      BY <1>6, <3>2 DEF PutFacts
    <3> QED BY <3>1, <3>2
  <2> QED BY <1>5, <1>11, <2>1, OwnerType DEF LoadedOK
<1>13. UsedOK'
  BY <1>2, <1>4, <1>11 DEF IInv, UsedOK
<1>14. /\ transactions' = <<level>> \o Rest /\ level \in LevelType /\ level.items = dirty \cup new
       /\ Rest \in Seq(LevelType) /\ Len(transactions') = Len(transactions)
       /\ transactions' \in Seq(LevelType) /\ transactions' # <<>>
       /\ \A k \in 1..Len(transactions) :
            transactions'[k].items = transactions[k].items \cup (IF k = 1 THEN new ELSE {})
  <2>1. /\ transactions \in Seq(LevelType) /\ transactions # <<>> /\ transactions[1] \in LevelType
        /\ dirty = transactions[1].items /\ Rest \in Seq(LevelType)
        /\ Rest = Tail(transactions)
    BY Stack DEF Rest
  <2>2. level \in LevelType /\ level.items = dirty \cup new
    BY <1>1, <1>4, <2>1 DEF LevelType, LevelOf
  <2>3. transactions' = [transactions EXCEPT ![1] = level]
    BY <1>2, <2>1
  <2> HIDE DEF level
  <2>4. /\ Len(transactions') = Len(transactions) /\ transactions' \in Seq(LevelType)
        /\ transactions' # <<>> /\ transactions'[1] = level
        /\ \A k \in 2..Len(transactions) : transactions'[k] = transactions[k]
    BY <2>1, <2>2, <2>3
  <2>5. transactions' = <<level>> \o Rest
    <3>1. Tail(transactions') = Rest
      BY <2>1, <2>4
    <3>2. transactions' = <<transactions'[1]>> \o Tail(transactions')
      BY <2>4
    <3> QED BY <2>4, <3>1, <3>2
  <2>6. ASSUME NEW k \in 1..Len(transactions)
        PROVE  transactions'[k].items = transactions[k].items \cup (IF k = 1 THEN new ELSE {})
    <3>1. CASE k = 1
      BY <2>1, <2>2, <2>4, <3>1
    <3>2. CASE k # 1
      <4>1. k \in 2..Len(transactions)
        BY <3>2
      <4> QED BY <2>4, <3>2, <4>1
    <3> QED BY <3>1, <3>2
  <2> QED BY <2>1, <2>2, <2>4, <2>5, <2>6
<1> HIDE DEF level
<1>15. RingsOK'
  <2> SUFFICES ASSUME NEW a \in Attr PROVE RingMatches(values'[a], Older(a)')
    BY DEF RingsOK
  <2>1. /\ Older(a) = Count(Items(Rest), a) + (IF a \in dirty THEN 1 ELSE 0) + Count(undos, a)
        /\ Count(Items(Rest), a) \in Nat /\ Count(undos, a) \in Nat
    BY Stack, Facts
  <2>2. Count(Items(transactions'), a) = Count(Items(Rest), a) + (IF a \in level.items THEN 1 ELSE 0)
    BY <1>14, LevelCountOfPrepend DEF LevelType
  <2>3. Older(a)' = Older(a) + (IF a \in new THEN 1 ELSE 0)
    <3>1. Older(a)' = Count(Items(transactions'), a) + Count(undos, a)
      BY <1>2 DEF Older
    <3>2. a \in level.items <=> a \in dirty \/ a \in new
      BY <1>14
    <3>3. a \in new => a \notin dirty
      OBVIOUS
    <3> HIDE DEF new
    <3> QED BY <2>1, <2>2, <3>1, <3>2, <3>3
  <2>4. PutFacts(L[a], values'[a], attrs, v, a) /\ RingMatches(L[a], Older(a)) /\ Older(a) \in Nat
    BY <1>5, <1>6, <2>1
  <2>5. CASE a \notin attrs
    BY <2>3, <2>4, <2>5 DEF PutFacts
  <2>6. CASE a \in attrs
    <3>1. /\ L[a] # <<>> /\ Len(values'[a]) >= 2
          /\ Len(values'[a]) = Len(L[a]) + (IF a \in new THEN 1 ELSE 0)
      <4>1. Len(L[a]) \in Nat /\ L[a] # <<>> /\ Len(values'[a]) >= 2
            /\ (a \in dirty => Len(values'[a]) = Len(L[a]))
            /\ (a \notin dirty => Len(values'[a]) = Len(L[a]) + 1)
        BY <2>4, <2>6 DEF PutFacts
      <4>2. a \in new <=> a \notin dirty
        BY <2>6
      <4> DEFINE m == Len(L[a])
                 n == Len(values'[a])
      <4>3. m \in Nat /\ (a \in dirty => n = m) /\ (a \notin dirty => n = m + 1)
        BY <4>1
      <4> HIDE DEF new, m, n
      <4>4. n = m + (IF a \in new THEN 1 ELSE 0)
        BY <4>2, <4>3
      <4> QED BY <4>1, <4>4 DEF m, n
    <3>2. Len(L[a]) = 1 + Older(a)
      BY <2>4, <3>1 DEF RingMatches
    <3>3. values'[a] # <<>>
      <4>1. Len(values'[a]) >= 2
        BY <3>1
      <4> QED BY <4>1
    <3>4. Len(values'[a]) = 1 + Older(a)'
      <4> HIDE DEF new
      <4> QED BY <2>3, <2>4, <3>1, <3>2
    <3> QED BY <3>3, <3>4 DEF RingMatches
  <2> QED BY <2>5, <2>6
<1>16. DirtyOK' /\ QueueOK' /\ T!InTransaction'
  <2>1. T!InTransaction'
    BY <1>14 DEF T!InTransaction
  <2>2. dirty' = transactions'[1].items
    <3>1. 1 \in 1..Len(transactions) /\ dirty = transactions[1].items
      BY Stack
    <3> QED BY <1>2, <1>14, <3>1
  <2>3. ASSUME NEW k \in 1..Len(transactions'), NEW a \in Attr, a \in transactions'[k].items
        PROVE  Owner[a] \in finaltr_items'
    <3>1. a \in transactions[k].items \/ a \in new
      BY <1>14, <2>3
    <3>2. a \in new => Owner[a] = o
      BY <1>1
    <3> HIDE DEF new
    <3>3. a \in transactions[k].items => Owner[a] \in finaltr_items
      BY <1>14 DEF IInv, DirtyOK
    <3> QED BY <1>2, <3>1, <3>2, <3>3
  <2>4. DirtyOK'
    BY <2>1, <2>2, <2>3 DEF DirtyOK
  <2>5. QueueOK'
    BY <1>2, <2>1 DEF IInv, QueueOK
  <2> QED BY <2>1, <2>4, <2>5
<1>17. LocksOK'
  <2>1. locked' \subseteq finaltr_items'
    BY <1>2 DEF IInv, LocksOK
  <2>2. ASSUME NEW x \in finaltr_items' \ locked'
        PROVE  refused'[x] > 0 \/ \E a \in AttrsOf(x) : Count(undos', a) > 0
    <3>1. CASE x \in finaltr_items
      BY <1>2, <2>2, <3>1 DEF IInv, LocksOK
    <3>2. CASE x \notin finaltr_items
      <4>1. x = o /\ o \notin objs /\ o \notin locked /\ IsLoaded(o) /\ o \notin finaltr_items
        BY <1>2, <1>3, <2>2, <3>2
      <4>2. (\E a \in attrs : LocksSelf(a)) => read_count[o] > 0
        <5>1. SUFFICES ASSUME \E a \in attrs : LocksSelf(a) PROVE read_count[o] > 0
          OBVIOUS
        <5>2. Selfs(attrs) # {}
          BY <5>1 DEF Selfs
        <5>3. read_count'[o] = read_count[o] + Cardinality(Selfs(attrs))
              /\ Cardinality(Selfs(attrs)) \in Nat /\ Cardinality(Selfs(attrs)) # 0
          BY <1>8, <1>9, <5>2
        <5>4. CombineLock(read_count'[o], write_count'[o]) = CombineLock(read_count[o], write_count[o])
          BY <1>3, <4>1 DEF NeedsLoad
        <5>5. read_count'[o] > 0 <=> read_count[o] > 0
          BY <5>4 DEF CombineLock
        <5>6. read_count[o] \in Nat
          BY <1>4
        <5> QED BY <5>3, <5>5, <5>6
      <4>3. refused[o] > 0 \/ \E a \in AttrsOf(o) : Count(undos, a) > 0
        BY <4>1, <4>2, WrittenIsKept
      <4> QED BY <1>2, <4>1, <4>3
    <3> QED BY <3>1, <3>2
  <2> QED BY <1>16, <2>1, <2>2 DEF LocksOK
<1>18. TypeOK'
  <2>1. dirty' \in SUBSET Attr /\ locked' \in SUBSET Object /\ finaltr_items' \in SUBSET Object
    BY <1>1, <1>2, <1>3, <1>4
  <2> QED BY <1>2, <1>4, <1>10, <1>14, <2>1 DEF TypeOK, CountTypes, Rings
<1> QED BY <1>10, <1>12, <1>13, <1>15, <1>16, <1>17, <1>18 DEF IInv

LEMMA PutPointerInv ==
  ASSUME IInv, NEW a \in Attr, NEW v \in Target, PutPointer(a, v)
  PROVE  IInv'
<1>1. T!InTransaction /\ PutAll(Owner[a], {a}, v) /\ UNCHANGED refused
  BY DEF PutPointer, T!InWriteTransaction
<1>2. Owner[a] \in Object /\ {a} \in SUBSET AttrsOf(Owner[a]) /\ {a} # {}
  BY OwnerType DEF AttrsOf
<1> QED BY <1>1, <1>2, PutAllInv

LEMMA DeleteInv ==
  ASSUME IInv, NEW o \in Object, Delete(o)
  PROVE  IInv'
<1>1. T!InTransaction /\ PutAll(o, AttrsOf(o), Null) /\ UNCHANGED refused /\ o # Root
  BY DEF Delete, T!InWriteTransaction
<1>2. AttrsOf(o) # {} \/ Attr = {}
  <2> SUFFICES ASSUME NEW a \in Attr PROVE AttrsOf(o) # {}
    OBVIOUS
  <2>1. <<o, a[2]>> \in Attr
    BY <1>1 DEF Attr
  <2>2. Owner[<<o, a[2]>>] = o
    BY <2>1 DEF Owner
  <2> QED BY <2>1, <2>2 DEF AttrsOf
<1>3. Null \in Target
  BY DEF Target
<1> QED BY <1>1, <1>2, <1>3, PutAllInv

LEMMA StepInv ==
  ASSUME IInv, [Next]_vars
  PROVE  IInv'
<1>1. ASSUME NEW readonly \in BOOLEAN, BeginFinalTr(readonly) PROVE IInv'
  BY <1>1, BeginFinalInv
<1>2. ASSUME NEW readonly \in BOOLEAN, BeginNestedTr(readonly) PROVE IInv'
  BY <1>2, BeginNestedInv
<1>3. CASE CommitNestedTr
  BY <1>3, CommitNestedInv
<1>4. CASE CommitFinalTr
  BY <1>4, CommitFinalInv
<1>5. CASE AbortNestedTr
  BY <1>5, AbortNestedInv
<1>6. CASE AbortFinalTr
  BY <1>6, AbortFinalInv
<1>7. ASSUME NEW o \in Object, GetPointer(o) PROVE IInv'
  BY <1>7, GetPointerInv
<1>8. ASSUME NEW o \in Object, Forget(o) PROVE IInv'
  BY <1>8, ForgetInv
<1>9. ASSUME NEW o \in Object, CreateObject(o) PROVE IInv'
  BY <1>9, CreateObjectInv
<1>10. ASSUME NEW o \in Object, Delete(o) PROVE IInv'
  BY <1>10, DeleteInv
<1>11. ASSUME NEW o \in Object, DeleteRefused(o) PROVE IInv'
  BY <1>11, DeleteRefusedInv
<1>12. ASSUME NEW o \in Object, NEW p \in Pointer, GetCollection(o, p) PROVE IInv'
  BY <1>12, GetCollectionInv
<1>13. ASSUME NEW a \in Attr, NEW v \in Target, PutPointer(a, v) PROVE IInv'
  BY <1>13, PutPointerInv
<1>14. CASE UndoTransaction
  BY <1>14, UndoInv
<1>15. CASE RedoTransaction
  BY <1>15, RedoInv
<1>16. CASE FlushUndoQueue
  <2>1. undos \in Seq(SUBSET Attr)
    BY Facts
  <2>2. 0 \in 0..Len(undos)
    BY <2>1
  <2> QED BY <1>16, <2>2, FlushInv DEF FlushUndoQueue
<1>17. CASE FlushRedoQueue
  <2> DEFINE n == Len(undos) - redo_count
  <2>1. Flush(n)
    BY <1>17 DEF FlushRedoQueue
  <2>2. ~T!InTransaction
    BY <2>1 DEF Flush
  <2>3. undos \in Seq(SUBSET Attr) /\ redo_count \in Nat /\ redo_count <= Len(undos)
    BY <2>2, Facts, Idle
  <2>4. n \in 0..Len(undos)
    BY <2>3
  <2> HIDE DEF n
  <2> QED BY <2>1, <2>4, FlushInv
<1>18. CASE UNCHANGED vars
  <2>1. UNCHANGED <<transactions, undos, redo_count, dirty, storage, stored, used, created,
                    finaltr_items, locked, read_count, write_count, values, uptodate, refused>>
    BY <1>18 DEF vars, levelVars, objectVars, lockVars
  <2>2. TypeOK'
    BY <2>1 DEF IInv, TypeOK
  <2>3. QueueOK' /\ RingsOK' /\ DirtyOK' /\ LocksOK' /\ UsedOK'
    BY <2>1 DEF IInv, QueueOK, RingsOK, DirtyOK, LocksOK, UsedOK, T!InTransaction, Older,
                IsLoaded, IsEmpty
  <2>4. CountsOf(values, read_count, write_count, refused)' /\ LoadedOK'
    BY <2>1 DEF IInv, LoadedOK, IsLoaded, IsEmpty, CountsOf
  <2> QED BY <2>2, <2>3, <2>4 DEF IInv
<1> QED BY <1>1, <1>2, <1>3, <1>4, <1>5, <1>6, <1>7, <1>8, <1>9, <1>10, <1>11, <1>12, <1>13,
           <1>14, <1>15, <1>16, <1>17, <1>18 DEF Next

-----------------------------------------------------------------------------
(* The inductive invariant holds in every state of the specification: how  *)
(* many values a ring has, what is loaded and how the lock counts come     *)
(* about are tied together by every operation of CCoreProject.             *)
THEOREM Invariance == Spec => []IInv
<1>1. Init => IInv
  BY InitInv
<1>2. IInv /\ [Next]_vars => IInv'
  BY StepInv
<1> QED BY <1>1, <1>2, PTL DEF Spec

(* Every variable keeps its type: a ring never gets a value that is        *)
(* neither an object nor NULL, and no lock count of CCoreLockAttribute is  *)
(* ever taken below zero.                                                  *)
THEOREM TypeCorrect == Spec => []TypeOK
<1>1. IInv => TypeOK
  BY DEF IInv
<1> QED BY <1>1, Invariance, PTL

(* The lock counts, which InsertFrontValue, ChangeFrontValue and the       *)
(* RemoveValue functions adjust by one at a time, are always what the      *)
(* rings call for, whatever clients do and however many objects, pointers, *)
(* levels and steps there are.                                             *)
THEOREM CountsAlwaysMatch == Spec => []CountsMatchRings
<1>1. IInv => CountsMatchRings
  BY CountsMatch, Facts DEF IInv, CountTypes
<1> QED BY <1>1, Invariance, PTL

(* What takes part in the final commit is in memory when CCoreObject looks *)
(* at its pointers, and an object's pointers are in memory exactly as long *)
(* as its lock attribute is.                                               *)
THEOREM FinalItemsAlwaysLoaded == Spec => []FinalItemsLoaded
<1>1. IInv => FinalItemsLoaded
  BY FinalItemsAreLoaded
<1> QED BY <1>1, Invariance, PTL

-----------------------------------------------------------------------------
(* What undo, redo and abort can return to                                 *)

\* How many open levels have written a: the ring has one value for each of
\* them before those that the undo list needs
OpenWrites(a) == Count(Items(transactions), a)

\* The values of a that are older than the transaction
PastOf(a) == {values[a][k] : k \in (OpenWrites(a) + 1)..Len(values[a])}

\* The storage has the newest of these.
StorageAgrees == \A a \in Attr : values[a] # <<>> => storage[a] = values[a][OpenWrites(a) + 1]

\* What has left the storage has left it without pointers, and nothing in
\* the storage points to it while it is in memory.
GoneOK ==
  \A x \in Object \ stored :
    /\ \A a \in AttrsOf(x) : storage[a] = Null
    /\ IsLoaded(x) \/ x \notin used => \A a \in Attr : storage[a] # x

\* Nothing that is older than the transaction knows what it has created.
CreatedOK ==
  /\ ~T!InTransaction => created = {}
  /\ created \subseteq (stored \cap finaltr_items) \ {Root}
  /\ \A o \in created :
       /\ \A a \in AttrsOf(o) : Count(undos, a) = 0 /\ storage[a] = Null
       /\ \A a \in Attr : storage[a] # o /\ o \notin PastOf(a)

\* What a complete collection does not have in memory, the storage does not
\* list in it.
UpToDateOK ==
  \A o \in Object, p \in Pointer : <<o, p>> \in uptodate =>
    \A x \in stored \ {Root} : ~IsLoaded(x) => storage[<<x, p>>] # o

\* A step of the undo list has written a pointer of o or one that led to o.
Returnable(o) == \E a \in Attr : Count(undos, a) > 0 /\ (Owner[a] = o \/ o \in PastOf(a))

\* What is in the storage without pointers is there for a reason.
GarbageOK ==
  \A o \in stored \ ({Root} \cup created) :
    (\A a \in AttrsOf(o) : storage[a] = Null) => refused[o] > 0 \/ Returnable(o)

PastInv ==
  /\ Root \in stored
  /\ StorageAgrees
  /\ RingTargetsStored
  /\ GoneOK
  /\ CreatedOK
  /\ UpToDateOK
  /\ GarbageOK

\* A ring, the numbers of values it has, and what is older than the transaction
RingFacts(ring, open, older, past) ==
  /\ ring \in Seq(Target) /\ open \in Nat /\ older \in Nat /\ Len(ring) \in Nat
  /\ ring = <<>> => open = 0 /\ older = 0 /\ past = {}
  /\ ring # <<>> => Len(ring) = open + older + 1
  /\ ring # <<>> => past = {ring[open + k] : k \in 1..(older + 1)}

LEMMA PastOfRing ==
  ASSUME NEW ring \in Seq(Target), NEW open \in Nat, NEW older \in Nat,
         ring = <<>> => open = 0 /\ older = 0,
         ring # <<>> => Len(ring) = open + older + 1
  PROVE  RingFacts(ring, open, older, {ring[k] : k \in (open + 1)..Len(ring)})
<1>1. Len(ring) \in Nat /\ (ring = <<>> => Len(ring) = 0)
  OBVIOUS
<1>2. CASE ring = <<>>
  <2>1. (open + 1)..Len(ring) = {}
    BY <1>1, <1>2
  <2> QED BY <1>1, <1>2, <2>1 DEF RingFacts
<1>3. CASE ring # <<>>
  <2>1. \A k \in (open + 1)..Len(ring) : k - open \in 1..(older + 1) /\ open + (k - open) = k
    BY <1>3
  <2>2. \A k \in 1..(older + 1) : open + k \in (open + 1)..Len(ring)
    BY <1>3
  <2>3. {ring[k] : k \in (open + 1)..Len(ring)} = {ring[open + k] : k \in 1..(older + 1)}
    <3>1. ASSUME NEW v
          PROVE  (\E k \in (open + 1)..Len(ring) : v = ring[k]) <=> (\E k \in 1..(older + 1) : v = ring[open + k])
      BY <2>1, <2>2
    <3> QED BY <3>1
  <2> QED BY <1>1, <1>3, <2>3 DEF RingFacts
<1> QED BY <1>2, <1>3

LEMMA FactsNow ==
  ASSUME IInv, NEW a \in Attr
  PROVE  RingFacts(values[a], OpenWrites(a), Count(undos, a), PastOf(a))
<1>1. /\ values[a] \in Seq(Target) /\ Count(Items(transactions), a) \in Nat /\ Count(undos, a) \in Nat
      /\ Older(a) = Count(Items(transactions), a) + Count(undos, a)
      /\ (values[a] = <<>> => Older(a) = 0) /\ (values[a] # <<>> => Len(values[a]) = 1 + Older(a))
  BY Facts
<1>2. /\ values[a] = <<>> => OpenWrites(a) = 0 /\ Count(undos, a) = 0
      /\ values[a] # <<>> => Len(values[a]) = OpenWrites(a) + Count(undos, a) + 1
      /\ OpenWrites(a) \in Nat
  BY <1>1 DEF OpenWrites
<1> QED BY <1>1, <1>2, PastOfRing DEF PastOf

LEMMA FactsThen ==
  ASSUME IInv', NEW a \in Attr
  PROVE  RingFacts(values'[a], OpenWrites(a)', Count(undos', a), PastOf(a)')
<1>1. values' \in [Attr -> Seq(Target)] /\ transactions' \in Seq(LevelType) /\ undos' \in Seq(SUBSET Attr)
  BY DEF IInv, TypeOK
<1>2. values'[a] \in Seq(Target) /\ Count(Items(transactions'), a) \in Nat /\ Count(undos', a) \in Nat
  BY <1>1, LevelCount, CountType DEF LevelType
<1>3. RingMatches(values'[a], Older(a)')
  BY DEF IInv, RingsOK
<1>4. Older(a)' = OpenWrites(a)' + Count(undos', a) /\ OpenWrites(a)' \in Nat
  BY <1>2 DEF Older, OpenWrites
<1>5. /\ values'[a] = <<>> => OpenWrites(a)' = 0 /\ Count(undos', a) = 0
      /\ values'[a] # <<>> => Len(values'[a]) = OpenWrites(a)' + Count(undos', a) + 1
  BY <1>2, <1>3, <1>4 DEF RingMatches
<1>6. PastOf(a)' = {values'[a][k] : k \in (OpenWrites(a)' + 1)..Len(values'[a])}
  BY DEF PastOf
<1> QED BY <1>2, <1>4, <1>5, <1>6, PastOfRing

-----------------------------------------------------------------------------
(* Which rings an object has a place in                                    *)

\* No ring that keeps several values belongs to o or has it in it.
Unheld(rings, o) ==
  \A a \in Attr : Len(rings[a]) >= 2 => Owner[a] # o /\ \A k \in DOMAIN rings[a] : rings[a][k] # o

LEMMA EmptyIsUnheld ==
  ASSUME NEW rings \in Rings, NEW o \in Object, NEW reads, NEW writes, NEW extra \in [Object -> Nat],
         CountsOf(rings, reads, writes, extra)
  PROVE  (reads[o] = 0 /\ writes[o] = 0) <=> (Unheld(rings, o) /\ extra[o] = 0)
<1>1. /\ reads[o] = HeldIn(rings, o) + extra[o]
      /\ writes[o] = HeldIn(rings, o) + AimedIn(rings, o) + extra[o]
      /\ extra[o] \in Nat
  BY DEF CountsOf
<1>2. /\ HeldIn(rings, o) \in Nat /\ AimedIn(rings, o) \in Nat
      /\ HeldIn(rings, o) >= 1 <=> \E a \in AttrsOf(o) : Len(rings[a]) >= 2
  BY CountsAre
<1>3. HeldIn(rings, o) = 0 <=> \A a \in Attr : Len(rings[a]) >= 2 => Owner[a] # o
  BY <1>2 DEF AttrsOf
<1>4. AimedIn(rings, o) = 0
        <=> \A a \in Attr : Len(rings[a]) >= 2 => \A k \in DOMAIN rings[a] : rings[a][k] # o
  <2>1. Big(rings) \in Rings /\ \A a \in Attr : Big(rings)[a] = IF Len(rings[a]) >= 2 THEN rings[a] ELSE <<>>
    BY BigType DEF Big
  <2>2. AimedIn(rings, o) = Cardinality(Places(Big(rings), o)) /\ IsFiniteSet(Places(Big(rings), o))
    BY <2>1, MentionsArePlaces, PlacesAreFinite DEF AimedIn
  <2>3. AimedIn(rings, o) = 0 <=> Places(Big(rings), o) = {}
    BY <2>2, FS_EmptySet
  <2>4. ASSUME Places(Big(rings), o) = {}, NEW a \in Attr, Len(rings[a]) >= 2, NEW k \in DOMAIN rings[a]
        PROVE  rings[a][k] # o
    <3>1. k \in Nat
      BY DEF Rings
    <3>2. <<a, k>> \notin Places(Big(rings), o)
      BY <2>4
    <3>3. Big(rings)[a] = rings[a]
      BY <2>1, <2>4
    <3> QED BY <3>1, <3>2, <3>3 DEF Places
  <2>5. ASSUME \A a \in Attr : Len(rings[a]) >= 2 => \A k \in DOMAIN rings[a] : rings[a][k] # o
        PROVE  Places(Big(rings), o) = {}
    <3> SUFFICES ASSUME NEW pl \in Places(Big(rings), o) PROVE FALSE
      OBVIOUS
    <3>1. pl[1] \in Attr /\ pl[2] \in DOMAIN Big(rings)[pl[1]] /\ Big(rings)[pl[1]][pl[2]] = o
      BY DEF Places
    <3>2. Len(rings[pl[1]]) >= 2 /\ Big(rings)[pl[1]] = rings[pl[1]]
      <4>1. DOMAIN <<>> = {}
        OBVIOUS
      <4> QED BY <2>1, <3>1, <4>1
    <3> QED BY <2>5, <3>1, <3>2
  <2> QED BY <2>3, <2>4, <2>5
<1>5. (reads[o] = 0 /\ writes[o] = 0) <=> (HeldIn(rings, o) = 0 /\ AimedIn(rings, o) = 0 /\ extra[o] = 0)
  BY <1>1, <1>2
<1> QED BY <1>3, <1>4, <1>5 DEF Unheld

-----------------------------------------------------------------------------
(* Steps that leave alone what is older than the transaction               *)

\* In these rings it is where the levels that are open after the step begin.
AgedTo(rings) ==
  \A a \in Attr : rings[a] # <<>> =>
    \A k \in 1..(Count(undos, a) + 1) :
      rings[a][OpenWrites(a)' + k] = IF values[a] = <<>> THEN storage[a] ELSE values[a][OpenWrites(a) + k]

LEMMA AgedKeeps ==
  ASSUME IInv, IInv', StorageAgrees, storage' = storage, AgedTo(values'),
         \A a \in Attr : Count(undos', a) = Count(undos, a)
  PROVE  /\ StorageAgrees'
         /\ \A a \in Attr : PastOf(a)' \subseteq PastOf(a) \cup {storage[a]}
         /\ \A a \in Attr : Count(undos, a) > 0 => PastOf(a)' = PastOf(a)
<1>1. ASSUME NEW a \in Attr
      PROVE  /\ values'[a] # <<>> => storage[a] = values'[a][OpenWrites(a)' + 1]
             /\ PastOf(a)' \subseteq PastOf(a) \cup {storage[a]}
             /\ Count(undos, a) > 0 => PastOf(a)' = PastOf(a)
  <2> DEFINE ring == values[a]
             new == values'[a]
             open == OpenWrites(a)
             next == OpenWrites(a)'
             n == Count(undos, a)
             past == PastOf(a)
             later == PastOf(a)'
  <2>1. RingFacts(ring, open, n, past)
    BY FactsNow
  <2>2. RingFacts(new, next, n, later)
    BY FactsThen
  <2>3. new # <<>> => \A k \in 1..(n + 1) :
          new[next + k] = IF ring = <<>> THEN storage[a] ELSE ring[open + k]
    BY DEF AgedTo
  <2>4. ring # <<>> => storage[a] = ring[open + 1]
    BY DEF StorageAgrees
  <2>5. n \in Nat /\ 1 \in 1..(n + 1)
    BY <2>1 DEF RingFacts
  <2> HIDE DEF ring, new, open, next, n, past, later
  <2>6. new # <<>> => storage[a] = new[next + 1]
    BY <2>3, <2>4, <2>5
  <2>7. CASE new = <<>>
    <3>1. later = {} /\ n = 0
      BY <2>2, <2>7 DEF RingFacts
    <3> QED BY <2>6, <3>1 DEF new, next, n, past, later
  <2>8. CASE new # <<>> /\ ring = <<>>
    <3>1. n = 0 /\ later = {new[next + k] : k \in 1..(n + 1)}
      BY <2>1, <2>2, <2>8 DEF RingFacts
    <3>2. \A k \in 1..(n + 1) : new[next + k] = storage[a]
      BY <2>3, <2>8
    <3> QED BY <2>6, <3>1, <3>2 DEF new, next, n, past, later
  <2>9. CASE new # <<>> /\ ring # <<>>
    <3>1. later = {new[next + k] : k \in 1..(n + 1)} /\ past = {ring[open + k] : k \in 1..(n + 1)}
      BY <2>1, <2>2, <2>9 DEF RingFacts
    <3>2. \A k \in 1..(n + 1) : new[next + k] = ring[open + k]
      BY <2>3, <2>9
    <3>3. later = past
      BY <3>1, <3>2
    <3> QED BY <2>6, <3>3 DEF new, next, n, past, later
  <2> QED BY <2>7, <2>8, <2>9
<1>2. StorageAgrees'
  BY <1>1 DEF StorageAgrees
<1> QED BY <1>1, <1>2

LEMMA ReturnableStays ==
  ASSUME NEW o, \A a \in Attr : Count(undos', a) = Count(undos, a),
         \A a \in Attr : Count(undos, a) > 0 => PastOf(a)' = PastOf(a), Returnable(o)
  PROVE  Returnable(o)'
<1>1. PICK a \in Attr : Count(undos, a) > 0 /\ (Owner[a] = o \/ o \in PastOf(a))
  BY DEF Returnable
<1>2. Count(undos', a) > 0 /\ PastOf(a)' = PastOf(a)
  BY <1>1
<1>3. Count(undos', a) > 0 /\ (Owner[a] = o \/ o \in PastOf(a)')
  BY <1>1, <1>2
<1> QED BY <1>3 DEF Returnable

LEMMA GarbageStays ==
  ASSUME GarbageOK, storage' = storage, \A a \in Attr : Count(undos', a) = Count(undos, a),
         \A a \in Attr : Count(undos, a) > 0 => PastOf(a)' = PastOf(a),
         refused \in [Object -> Nat], refused' \in [Object -> Nat], stored \subseteq Object,
         \A o \in Object : refused'[o] >= refused[o],
         stored' \ created' \subseteq stored \ created
  PROVE  GarbageOK'
<1> SUFFICES ASSUME NEW o \in stored' \ ({Root} \cup created'), \A a \in AttrsOf(o) : storage'[a] = Null
             PROVE  refused'[o] > 0 \/ Returnable(o)'
  BY DEF GarbageOK
<1>1. o \in stored \ ({Root} \cup created) /\ \A a \in AttrsOf(o) : storage[a] = Null
  OBVIOUS
<1>2. refused[o] > 0 \/ Returnable(o)
  BY <1>1 DEF GarbageOK
<1>3. refused[o] > 0 => refused'[o] > 0
  BY <1>1
<1> QED BY <1>2, <1>3, ReturnableStays

(* A step that creates nothing and ends no transaction                     *)
LEMMA InsideOK ==
  ASSUME IInv, IInv', PastInv, T!InTransaction => T!InTransaction', AgedTo(values'),
         \A a \in Attr : Count(undos', a) = Count(undos, a),
         \A o \in Object : refused'[o] >= refused[o],
         finaltr_items \subseteq finaltr_items',
         UNCHANGED <<storage, stored, created>>
  PROVE  StorageAgrees' /\ CreatedOK' /\ GarbageOK' /\ (Root \in stored)'
<1>1. /\ StorageAgrees'
      /\ \A a \in Attr : PastOf(a)' \subseteq PastOf(a) \cup {storage[a]}
      /\ \A a \in Attr : Count(undos, a) > 0 => PastOf(a)' = PastOf(a)
  BY AgedKeeps DEF PastInv
<1>2. CreatedOK'
  <2>1. /\ ~T!InTransaction => created = {}
        /\ created \subseteq (stored \cap finaltr_items) \ {Root}
        /\ \A o \in created :
             /\ \A a \in AttrsOf(o) : Count(undos, a) = 0 /\ storage[a] = Null
             /\ \A a \in Attr : storage[a] # o /\ o \notin PastOf(a)
    BY DEF PastInv, CreatedOK
  <2>2. (~T!InTransaction' => created' = {}) /\ created' \subseteq (stored' \cap finaltr_items') \ {Root}
    BY <2>1
  <2>3. ASSUME NEW o \in created'
        PROVE  /\ \A a \in AttrsOf(o) : Count(undos', a) = 0 /\ storage'[a] = Null
               /\ \A a \in Attr : storage'[a] # o /\ o \notin PastOf(a)'
    <3>1. /\ \A a \in AttrsOf(o) : Count(undos, a) = 0 /\ storage[a] = Null
          /\ \A a \in Attr : storage[a] # o /\ o \notin PastOf(a)
      BY <2>1
    <3>2. \A a \in AttrsOf(o) : Count(undos', a) = 0 /\ storage'[a] = Null
      BY <3>1 DEF AttrsOf
    <3> QED BY <1>1, <3>1, <3>2
  <2> QED BY <2>2, <2>3 DEF CreatedOK
<1>3. GarbageOK'
  <2>1. refused \in [Object -> Nat] /\ refused' \in [Object -> Nat] /\ stored \subseteq Object
    BY DEF IInv, TypeOK
  <2>2. stored' \ created' \subseteq stored \ created
    OBVIOUS
  <2>3. GarbageOK
    BY DEF PastInv
  <2> QED BY <1>1, <2>1, <2>2, <2>3, GarbageStays
<1>4. Root \in stored
  BY DEF PastInv
<1> QED BY <1>1, <1>2, <1>3, <1>4

-----------------------------------------------------------------------------
(* Objects that leave the storage                                          *)

\* What a ring with several values can have in it after a step
LEMMA TargetsStay ==
  ASSUME IInv', RingTargetsStored, stored' \subseteq stored,
         \A a \in Attr : Len(values'[a]) >= 2 =>
           /\ Len(values[a]) >= 2
           /\ \A k \in DOMAIN values'[a] : \E j \in DOMAIN values[a] : values'[a][k] = values[a][j],
         \A o \in stored \ stored' : Unheld(values', o)
  PROVE  RingTargetsStored'
<1> SUFFICES ASSUME NEW a \in Attr, Len(values'[a]) >= 2
             PROVE  /\ Owner[a] \in stored'
                    /\ \A k \in DOMAIN values'[a] : values'[a][k] \in stored' \cup {Null}
  BY DEF RingTargetsStored
<1>1. /\ Len(values[a]) >= 2 /\ Owner[a] \in stored
      /\ \A k \in DOMAIN values[a] : values[a][k] \in stored \cup {Null}
  BY DEF RingTargetsStored
<1>2. Owner[a] \in stored'
  BY <1>1 DEF Unheld
<1>3. ASSUME NEW k \in DOMAIN values'[a] PROVE values'[a][k] \in stored' \cup {Null}
  <2>1. PICK j \in DOMAIN values[a] : values'[a][k] = values[a][j]
    OBVIOUS
  <2>2. values'[a][k] \in stored \cup {Null}
    BY <1>1, <2>1
  <2> QED BY <2>2 DEF Unheld
<1> QED BY <1>2, <1>3

LEMMA GoneStays ==
  ASSUME PastInv, IInv, used \subseteq used',
         \A a \in Attr : \/ storage'[a] = storage[a]
                         \/ Len(values[a]) >= 2 /\ \E k \in DOMAIN values[a] : storage'[a] = values[a][k],
         \A x \in Object \ (stored \cup stored') : IsLoaded(x)' => IsLoaded(x),
         \A x \in stored \ stored' :
           /\ \A a \in AttrsOf(x) : storage'[a] = Null
           /\ IsLoaded(x)' => \A a \in Attr : storage'[a] # x
  PROVE  GoneOK'
<1> SUFFICES ASSUME NEW x \in Object \ stored'
             PROVE  /\ \A a \in AttrsOf(x) : storage'[a] = Null
                    /\ IsLoaded(x)' \/ x \notin used' => \A a \in Attr : storage'[a] # x
  BY DEF GoneOK
<1>1. CASE x \in stored
  BY <1>1 DEF IInv, UsedOK
<1>2. CASE x \notin stored
  <2>1. /\ \A a \in AttrsOf(x) : storage[a] = Null
        /\ IsLoaded(x) \/ x \notin used => \A a \in Attr : storage[a] # x
        /\ IsLoaded(x)' => IsLoaded(x)
    BY <1>2 DEF PastInv, GoneOK
  <2>2. x # Null
    BY ObjectsAssumption
  <2>3. ASSUME NEW a \in Attr, Len(values[a]) >= 2, NEW k \in DOMAIN values[a], storage'[a] = values[a][k]
        PROVE  Owner[a] # x /\ storage'[a] # x
    BY <1>2, <2>2, <2>3 DEF PastInv, RingTargetsStored
  <2>4. \A a \in Attr : storage'[a] = storage[a] \/ (Owner[a] # x /\ storage'[a] # x)
    BY <2>3
  <2> QED BY <2>1, <2>4 DEF AttrsOf
<1> QED BY <1>1, <1>2

-----------------------------------------------------------------------------
(* Objects that are unloaded                                               *)

LEMMA SettleUnloads ==
  ASSUME IInv, IInv', PastInv, NEW rings, NEW reads, NEW writes, NEW locks,
         Settle(rings, reads, writes, locks),
         \A a \in Attr : values[a] # <<>> => rings[a] # <<>>,
         \A a \in Attr : values[a] = <<>> => storage'[a] = storage[a],
         \A a \in Attr : values[a] # <<>> /\ values'[a] = <<>> => storage'[a] = rings[a][1],
         stored' \subseteq stored
  PROVE  /\ UpToDateOK'
         /\ \A a \in Attr : values'[a] = <<>> \/ values'[a] = rings[a]
<1> DEFINE keep == locks \cup KeptBy(reads, writes)
<1>1. /\ values' = [a \in Attr |-> IF Owner[a] \in keep THEN rings[a] ELSE <<>>]
      /\ uptodate' = StillUpToDate(rings, keep)
  BY DEF Settle
<1> HIDE DEF keep
<1>2. ASSUME NEW o \in Object, NEW p \in Pointer, <<o, p>> \in uptodate',
             NEW x \in stored' \ {Root}, ~IsLoaded(x)'
      PROVE  storage'[<<x, p>>] # o
  <2> DEFINE a == <<x, p>>
  <2>1. a \in Attr /\ Owner[a] = x /\ a[2] = p
    BY <1>2 DEF IInv, TypeOK, Attr, Owner
  <2> HIDE DEF a
  <2>2. values'[a] = <<>>
    BY <1>2, <2>1 DEF IInv, LoadedOK
  <2>3. <<o, p>> \in uptodate
    BY <1>1, <1>2 DEF StillUpToDate
  <2>4. CASE values[a] = <<>>
    <3>1. ~IsLoaded(x) /\ storage'[a] = storage[a] /\ x \in stored \ {Root}
      BY <2>1, <2>4 DEF IInv, LoadedOK
    <3>2. storage[<<x, p>>] # o
      BY <2>3, <3>1 DEF PastInv, UpToDateOK
    <3> QED BY <3>1, <3>2 DEF a
  <2>5. CASE values[a] # <<>>
    <3>1. rings[a] # <<>> /\ storage'[a] = rings[a][1]
      BY <2>1, <2>2, <2>5
    <3>2. Owner[a] \notin keep
      BY <1>1, <2>1, <2>2, <3>1
    <3>3. <<rings[a][1], a[2]>> \notin uptodate'
      BY <1>1, <2>1, <3>1, <3>2 DEF StillUpToDate
    <3>4. rings[a][1] # o
      BY <1>2, <2>1, <3>3
    <3> QED BY <3>1, <3>4 DEF a
  <2> QED BY <2>4, <2>5
<1>3. UpToDateOK'
  BY <1>2 DEF UpToDateOK
<1> QED BY <1>1, <1>3

LEMMA UpToDateStays ==
  ASSUME PastInv, stored' \subseteq stored,
         \A o \in Object, p \in Pointer : <<o, p>> \in uptodate' =>
           \/ <<o, p>> \in uptodate
           \/ \A x \in Listed(o, p) : IsLoaded(x)',
         \A x \in stored : ~IsLoaded(x)' =>
           ~IsLoaded(x) /\ \A p \in Pointer : storage'[<<x, p>>] = storage[<<x, p>>]
  PROVE  UpToDateOK'
<1> SUFFICES ASSUME NEW o \in Object, NEW p \in Pointer, <<o, p>> \in uptodate',
                    NEW x \in stored' \ {Root}, ~IsLoaded(x)'
             PROVE  storage'[<<x, p>>] # o
  BY DEF UpToDateOK
<1>1. /\ x \in stored \ {Root} /\ ~IsLoaded(x) /\ storage'[<<x, p>>] = storage[<<x, p>>]
  OBVIOUS
<1>2. CASE <<o, p>> \in uptodate
  BY <1>1, <1>2 DEF PastInv, UpToDateOK
<1>3. CASE \A y \in Listed(o, p) : IsLoaded(y)'
  BY <1>1, <1>3 DEF Listed
<1> QED BY <1>2, <1>3

-----------------------------------------------------------------------------
(* Steps that load objects or only read                                    *)

\* The first values of a ring that is loaded now, and of one that was
LEMMA FilledAges ==
  ASSUME IInv, IInv', StorageAgrees, NEW objs \in SUBSET Object, values' = Filled(objs, storage),
         \A a \in Attr : Count(undos', a) = Count(undos, a)
  PROVE  AgedTo(values')
<1> SUFFICES ASSUME NEW a \in Attr, values'[a] # <<>>, NEW k \in 1..(Count(undos, a) + 1)
             PROVE  values'[a][OpenWrites(a)' + k]
                      = IF values[a] = <<>> THEN storage[a] ELSE values[a][OpenWrites(a) + k]
  BY DEF AgedTo
<1> DEFINE ring == values[a]
           new == values'[a]
           open == OpenWrites(a)
           next == OpenWrites(a)'
           n == Count(undos, a)
<1>1. /\ ring = <<>> => n = 0
      /\ ring # <<>> => Len(ring) = open + n + 1
      /\ open \in Nat /\ n \in Nat
  BY FactsNow DEF RingFacts
<1>2. Len(new) = next + n + 1 /\ next \in Nat
  BY FactsThen DEF RingFacts
<1>3. new = IF Owner[a] \in objs /\ ring = <<>> THEN <<storage[a]>> ELSE ring
  BY DEF Filled
<1>4. new # <<>> /\ k \in 1..(n + 1)
  OBVIOUS
<1> HIDE DEF ring, new, open, next, n
<1>5. new[next + k] = IF ring = <<>> THEN storage[a] ELSE ring[open + k]
  <2>1. CASE ring = <<>>
    <3>1. new = <<storage[a]>> /\ n = 0
      BY <1>1, <1>3, <1>4, <2>1
    <3>2. Len(<<storage[a]>>) = 1 /\ <<storage[a]>>[1] = storage[a]
      OBVIOUS
    <3>3. next = 0 /\ k = 1 /\ next + k = 1
      BY <1>2, <1>4, <3>1, <3>2
    <3> QED BY <2>1, <3>1, <3>2, <3>3
  <2>2. CASE ring # <<>>
    <3>1. new = ring
      BY <1>3, <2>2
    <3>2. next = open
      BY <1>1, <1>2, <2>2, <3>1
    <3> QED BY <2>2, <3>1, <3>2
  <2> QED BY <2>1, <2>2
<1> QED BY <1>5 DEF ring, new, open, next, n

LEMMA LoadPast ==
  ASSUME IInv, IInv', PastInv, T!InTransaction => T!InTransaction',
         NEW objs \in SUBSET Object, objs \subseteq stored, values' = Filled(objs, storage),
         \A a \in Attr : Count(undos', a) = Count(undos, a),
         \A o \in Object : refused'[o] >= refused[o],
         finaltr_items \subseteq finaltr_items',
         UNCHANGED <<storage, stored, created, used>>,
         \A o \in Object : IsLoaded(o)' <=> IsLoaded(o) \/ o \in objs,
         \A o \in Object, p \in Pointer : <<o, p>> \in uptodate' =>
           \/ <<o, p>> \in uptodate
           \/ \A x \in Listed(o, p) : IsLoaded(x)'
  PROVE  PastInv'
<1>1. stored \subseteq Object /\ storage \in [Attr -> Target]
  BY DEF IInv, TypeOK
<1>2. AgedTo(values')
  BY FilledAges DEF PastInv
<1>3. StorageAgrees' /\ CreatedOK' /\ GarbageOK' /\ (Root \in stored)'
  BY <1>2, InsideOK
<1>4. RingTargetsStored'
  <2>1. \A a \in Attr : Len(values'[a]) >= 2 => Len(values[a]) >= 2 /\ values'[a] = values[a]
    BY <1>1, FilledOK
  <2>2. RingTargetsStored
    BY DEF PastInv
  <2> QED BY <2>1, <2>2 DEF RingTargetsStored
<1>5. GoneOK'
  BY <1>1, GoneStays
<1>6. UpToDateOK'
  BY <1>1, UpToDateStays
<1> QED BY <1>3, <1>4, <1>5, <1>6 DEF PastInv

\* Nothing is loaded, and nothing has been: the rings are as they were.
LEMMA SamePast ==
  ASSUME IInv, IInv', PastInv, T!InTransaction => T!InTransaction',
         \A a \in Attr : Count(undos', a) = Count(undos, a),
         finaltr_items \subseteq finaltr_items', uptodate' \subseteq uptodate,
         UNCHANGED <<values, refused, storage, stored, created, used, locked, read_count, write_count>>
  PROVE  PastInv'
<1>1. values' = Filled({}, storage)
  <2>1. values = [a \in Attr |-> values[a]]
    BY DEF IInv, TypeOK
  <2> QED BY <2>1 DEF Filled
<1>2. \A o \in Object : refused'[o] >= refused[o]
  BY DEF IInv, TypeOK
<1>3. \A o \in Object : IsLoaded(o)' <=> IsLoaded(o) \/ o \in {}
  BY DEF IsLoaded, IsEmpty
<1>4. {} \in SUBSET Object /\ {} \subseteq stored
  OBVIOUS
<1> QED BY <1>1, <1>2, <1>3, <1>4, LoadPast

LEMMA GetPointerPast ==
  ASSUME IInv, IInv', PastInv, NEW o \in Object, GetPointer(o)
  PROVE  PastInv'
<1>1. /\ T!InTransaction /\ values' = Filled({o}, storage) /\ {o} \subseteq stored
      /\ locked' = locked \cup {o} /\ finaltr_items' = finaltr_items \cup {o}
      /\ UNCHANGED <<transactions, undos, storage, stored, used, created, read_count,
                     write_count, uptodate, refused>>
  BY DEF GetPointer, Load, Loading, Filled, Loadable, objectVars, levelVars
<1>2. T!InTransaction' /\ \A a \in Attr : Count(undos', a) = Count(undos, a)
  BY <1>1 DEF T!InTransaction
<1>3. \A x \in Object : refused'[x] >= refused[x]
  BY <1>1 DEF IInv, TypeOK
<1>4. \A x \in Object : IsLoaded(x)' <=> IsLoaded(x) \/ x \in {o}
  BY <1>1 DEF IsLoaded, IsEmpty
<1>5. \A x \in Object, p \in Pointer : <<x, p>> \in uptodate' => <<x, p>> \in uptodate
  BY <1>1
<1>6. {o} \in SUBSET Object
  OBVIOUS
<1> QED BY <1>1, <1>2, <1>3, <1>4, <1>5, <1>6, LoadPast

LEMMA GetCollectionPast ==
  ASSUME IInv, IInv', PastInv, NEW o \in Object, NEW p \in Pointer, GetCollection(o, p)
  PROVE  PastInv'
<1> DEFINE here == IF IsLoaded(o) THEN {} ELSE {o}
<1>1. /\ T!InTransaction /\ values' = Filled(here, storage) /\ here \subseteq stored
      /\ locked' = locked \cup here /\ finaltr_items' = finaltr_items \cup here
      /\ UNCHANGED <<transactions, undos, storage, stored, used, created, read_count,
                     write_count, refused>>
      /\ uptodate' = IF \A x \in Listed(o, p) : x \in here \/ IsLoaded(x)
                       THEN uptodate \cup {<<o, p>>}
                       ELSE uptodate \ {<<o, p>>}
  BY DEF GetCollection, Load, Loading, Filled, Loadable, objectVars, levelVars
<1>2. T!InTransaction' /\ \A a \in Attr : Count(undos', a) = Count(undos, a)
  BY <1>1 DEF T!InTransaction
<1>3. \A x \in Object : refused'[x] >= refused[x]
  BY <1>1 DEF IInv, TypeOK
<1>4. here \in SUBSET Object
  OBVIOUS
<1> HIDE DEF here
<1>5. \A x \in Object : IsLoaded(x)' <=> IsLoaded(x) \/ x \in here
  BY <1>1 DEF IsLoaded, IsEmpty
<1>6. ASSUME NEW x \in Object, NEW q \in Pointer, <<x, q>> \in uptodate', <<x, q>> \notin uptodate
      PROVE  \A y \in Listed(x, q) : IsLoaded(y)'
  <2>1. x = o /\ q = p /\ \A y \in Listed(o, p) : y \in here \/ IsLoaded(y)
    BY <1>1, <1>6
  <2>2. Listed(o, p) \subseteq Object
    BY DEF Listed, IInv, TypeOK
  <2> QED BY <1>5, <2>1, <2>2
<1> QED BY <1>1, <1>2, <1>3, <1>4, <1>5, <1>6, LoadPast

LEMMA ForgetPast ==
  ASSUME IInv, IInv', PastInv, NEW o \in Object, Forget(o)
  PROVE  PastInv'
<1>1. /\ uptodate' \subseteq uptodate
      /\ UNCHANGED <<transactions, undos, storage, stored, used, created, finaltr_items, locked,
                     read_count, write_count, values, refused>>
  BY DEF Forget, levelVars, objectVars, lockVars
<1>2. T!InTransaction => T!InTransaction'
  BY <1>1 DEF T!InTransaction
<1>3. finaltr_items \subseteq finaltr_items'
  BY <1>1
<1> QED BY <1>1, <1>2, <1>3, SamePast

LEMMA DeleteRefusedPast ==
  ASSUME IInv, IInv', PastInv, NEW o \in Object, DeleteRefused(o)
  PROVE  PastInv'
<1> DEFINE objs == NeedsLoad(read_count', write_count')
<1>1. /\ T!InTransaction
      /\ refused' = [refused EXCEPT ![o] = @ + 1]
      /\ Load(objs) /\ finaltr_items' = finaltr_items \cup objs
      /\ UNCHANGED <<levelVars, objectVars, uptodate>>
  BY DEF DeleteRefused, T!InWriteTransaction
<1>2. objs \in SUBSET Object
  BY DEF NeedsLoad
<1>3. NeedsLoad(read_count', write_count') \subseteq objs
  OBVIOUS
<1> HIDE DEF objs
<1>4. /\ values' = Filled(objs, storage) /\ locked' = locked \cup objs /\ objs \subseteq stored
      /\ UNCHANGED <<transactions, undos, storage, stored, used, created>>
  BY <1>1 DEF Load, Loading, Filled, Loadable, objectVars, levelVars
<1>5. /\ read_count \in [Object -> Nat] /\ write_count \in [Object -> Nat]
      /\ refused \in [Object -> Nat]
      /\ read_count' \in [Object -> Nat] /\ write_count' \in [Object -> Nat]
  BY DEF IInv, TypeOK
<1>6. \A x \in Object : refused'[x] >= refused[x]
  BY <1>1, <1>5
<1>7. \A x \in Object : IsLoaded(x)' <=> IsLoaded(x) \/ x \in objs
  BY <1>2, <1>3, <1>4, <1>5, NeedsLoadOK
<1>8. T!InTransaction' /\ \A a \in Attr : Count(undos', a) = Count(undos, a)
  BY <1>1, <1>4 DEF T!InTransaction
<1>9. \A x \in Object, p \in Pointer : <<x, p>> \in uptodate' => <<x, p>> \in uptodate
  BY <1>1
<1>10. finaltr_items \subseteq finaltr_items'
  BY <1>1
<1> QED BY <1>2, <1>4, <1>6, <1>7, <1>8, <1>9, <1>10, LoadPast

LEMMA BeginNestedPast ==
  ASSUME IInv, IInv', PastInv, NEW readonly \in BOOLEAN, BeginNestedTr(readonly)
  PROVE  PastInv'
<1>1. /\ transactions' = <<T!Level(readonly)>> \o transactions
      /\ UNCHANGED <<finaltr_items, undos, values, locked, storage, stored, used, created,
                     read_count, write_count, uptodate, refused>>
  BY DEF BeginNestedTr, T!BeginNestedTr, objectVars
<1>2. T!InTransaction'
  <2>1. transactions \in Seq(LevelType)
    BY Facts
  <2>2. transactions' # <<>>
    BY <1>1, <2>1
  <2> QED BY <2>2 DEF T!InTransaction
<1>3. uptodate' \subseteq uptodate /\ finaltr_items \subseteq finaltr_items'
  BY <1>1
<1> QED BY <1>1, <1>2, <1>3, SamePast

-----------------------------------------------------------------------------
(* The end of a level                                                      *)

\* A ring that has lost values has none that it did not have.
LEMMA CutMembers ==
  ASSUME NEW old \in Seq(Target), NEW new \in Seq(Target), NEW cut \in Seq(Target), NEW at,
         IsCut(old, new, cut, at)
  PROVE  /\ Len(new) <= Len(old)
         /\ \A k \in DOMAIN new : \E j \in DOMAIN old : new[k] = old[j]
<1>1. /\ Len(old) = Len(new) + Len(cut) /\ Len(new) \in Nat /\ Len(cut) \in Nat
      /\ \A k \in 1..Len(new) : new[k] = IF k < at THEN old[k] ELSE old[k + Len(cut)]
      /\ DOMAIN new = 1..Len(new) /\ DOMAIN old = 1..Len(old)
  BY DEF IsCut
<1> DEFINE m == Len(new)
           c == Len(cut)
           n == Len(old)
<1> HIDE DEF m, c, n
<1>2. n = m + c /\ m \in Nat /\ c \in Nat
  BY <1>1 DEF m, c, n
<1>3. m <= n /\ \A k \in 1..m : k \in 1..n /\ k + c \in 1..n
  BY <1>2
<1> QED BY <1>1, <1>3 DEF m, c, n

\* Rings that have lost values and kept what is older than the transaction
LEMMA SettleAged ==
  ASSUME IInv, IInv', PastInv, NEW rings, NEW reads, NEW writes, NEW locks,
         Settle(rings, reads, writes, locks), AgedTo(rings),
         \A a \in Attr : values[a] # <<>> <=> rings[a] # <<>>,
         \A a \in Attr : Count(undos', a) = Count(undos, a),
         storage' = storage, stored' \subseteq stored
  PROVE  AgedTo(values') /\ UpToDateOK'
<1>1. /\ \A a \in Attr : values'[a] # <<>> => values'[a] = rings[a]
      /\ \A a \in Attr : values'[a] = IF Owner[a] \in locks \cup KeptBy(reads, writes)
                                        THEN rings[a] ELSE <<>>
  BY DEF Settle
<1>2. AgedTo(values')
  BY <1>1 DEF AgedTo
<1>3. ASSUME NEW a \in Attr, values[a] # <<>>, values'[a] = <<>>
      PROVE  storage'[a] = rings[a][1]
  <2>1. rings[a] # <<>> /\ storage[a] = values[a][OpenWrites(a) + 1]
    BY <1>3 DEF PastInv, StorageAgrees
  <2>2. OpenWrites(a)' \in Nat /\ Count(undos', a) \in Nat /\ OpenWrites(a)' = 0
    <3>1. RingFacts(values'[a], OpenWrites(a)', Count(undos', a), PastOf(a)')
      BY FactsThen
    <3> QED BY <1>3, <3>1 DEF RingFacts
  <2>3. 1 \in 1..(Count(undos, a) + 1)
    BY <2>2
  <2>4. rings[a][OpenWrites(a)' + 1] = values[a][OpenWrites(a) + 1]
    BY <1>3, <2>1, <2>3 DEF AgedTo
  <2>5. OpenWrites(a)' + 1 = 1
    BY <2>2
  <2> QED BY <2>1, <2>4, <2>5
<1>4. UpToDateOK'
  <2>1. \A a \in Attr : values[a] # <<>> => rings[a] # <<>>
    OBVIOUS
  <2> QED BY <1>3, <2>1, SettleUnloads
<1> QED BY <1>2, <1>4

\* What the end of a nested level has to show
LEMMA LevelPast ==
  ASSUME IInv, IInv', PastInv, T!InTransaction',
         NEW rings \in Rings, NEW lost \in Rings, NEW at, NEW reads, NEW writes, NEW locks,
         Settle(rings, reads, writes, locks), AgedTo(rings),
         \A a \in Attr : IsCut(values[a], rings[a], lost[a], at[a]),
         \A a \in Attr : values[a] # <<>> <=> rings[a] # <<>>,
         \A o \in Object : IsLoaded(o)' => IsLoaded(o),
         UNCHANGED <<undos, storage, stored, used, created, finaltr_items, refused>>
  PROVE  PastInv' /\ AgedTo(values')
<1>1. \A a \in Attr : Count(undos', a) = Count(undos, a)
  OBVIOUS
<1>2. AgedTo(values') /\ UpToDateOK'
  BY <1>1, SettleAged
<1>3. \A o \in Object : refused'[o] >= refused[o]
  BY DEF IInv, TypeOK
<1>4. StorageAgrees' /\ CreatedOK' /\ GarbageOK' /\ (Root \in stored)'
  BY <1>1, <1>2, <1>3, InsideOK
<1>5. ASSUME NEW a \in Attr, Len(values'[a]) >= 2
      PROVE  /\ Len(values[a]) >= 2
             /\ \A k \in DOMAIN values'[a] : \E j \in DOMAIN values[a] : values'[a][k] = values[a][j]
  <2>1. values'[a] = rings[a]
    <3>1. values'[a] = IF Owner[a] \in locks \cup KeptBy(reads, writes) THEN rings[a] ELSE <<>>
      BY DEF Settle
    <3>2. Len(<<>>) = 0
      OBVIOUS
    <3>3. values'[a] # <<>>
      BY <1>5, <3>2
    <3> QED BY <3>1, <3>3
  <2>2. /\ values[a] \in Seq(Target) /\ rings[a] \in Seq(Target) /\ lost[a] \in Seq(Target)
        /\ IsCut(values[a], rings[a], lost[a], at[a])
    BY Facts DEF Rings
  <2>3. /\ Len(rings[a]) <= Len(values[a])
        /\ \A k \in DOMAIN rings[a] : \E j \in DOMAIN values[a] : rings[a][k] = values[a][j]
    BY <2>2, CutMembers
  <2>4. Len(rings[a]) >= 2 /\ Len(rings[a]) \in Nat /\ Len(values[a]) \in Nat
    BY <1>5, <2>1, <2>2
  <2>5. Len(values[a]) >= 2
    BY <2>3, <2>4
  <2> QED BY <2>1, <2>3, <2>5
<1>6. RingTargetsStored'
  <2>1. stored' \subseteq stored /\ \A o \in stored \ stored' : Unheld(values', o)
    OBVIOUS
  <2>2. RingTargetsStored
    BY DEF PastInv
  <2> QED BY <1>5, <2>1, <2>2, TargetsStay
<1>7. GoneOK'
  <2>1. used \subseteq used' /\ (\A a \in Attr : storage'[a] = storage[a]) /\ stored \ stored' = {}
    OBVIOUS
  <2>2. \A x \in Object \ (stored \cup stored') : IsLoaded(x)' => IsLoaded(x)
    OBVIOUS
  <2> QED BY <2>1, <2>2, GoneStays
<1> QED BY <1>2, <1>4, <1>6, <1>7 DEF PastInv

\* How many values the rings that lose their first value are written with
LEMMA FirstAged ==
  ASSUME IInv, NEW attrs \in SUBSET Attr,
         \A a \in attrs : OpenWrites(a) >= 1,
         \A a \in Attr : OpenWrites(a)' = OpenWrites(a) - (IF a \in attrs THEN 1 ELSE 0)
  PROVE  /\ AgedTo(T!DropFirst(attrs))
         /\ T!DropFirst(attrs) \in Rings /\ FirstLost(attrs) \in Rings
         /\ \A a \in Attr : IsCut(values[a], T!DropFirst(attrs)[a], FirstLost(attrs)[a], [x \in Attr |-> 1][a])
         /\ \A a \in Attr : values[a] # <<>> <=> T!DropFirst(attrs)[a] # <<>>
<1> DEFINE rings == T!DropFirst(attrs)
           lost == FirstLost(attrs)
           at == [x \in Attr |-> 1]
<1>1. /\ \A a \in Attr : rings[a] = IF a \in attrs THEN Tail(values[a]) ELSE values[a]
      /\ \A a \in Attr : lost[a] = IF a \in attrs THEN <<values[a][1]>> ELSE <<>>
      /\ rings = [a \in Attr |-> rings[a]] /\ lost = [a \in Attr |-> lost[a]]
      /\ \A a \in Attr : at[a] = 1
  BY DEF T!DropFirst, FirstLost
<1> HIDE DEF rings, lost, at
<1>2. ASSUME NEW a \in Attr
      PROVE  /\ rings[a] \in Seq(Target) /\ lost[a] \in Seq(Target)
             /\ IsCut(values[a], rings[a], lost[a], 1)
             /\ values[a] # <<>> <=> rings[a] # <<>>
             /\ rings[a] # <<>> => \A k \in 1..(Count(undos, a) + 1) :
                  rings[a][OpenWrites(a)' + k]
                    = IF values[a] = <<>> THEN storage[a] ELSE values[a][OpenWrites(a) + k]
  <2> DEFINE r == values[a]
             open == OpenWrites(a)
             next == OpenWrites(a)'
             n == Count(undos, a)
  <2>1. /\ r \in Seq(Target) /\ open \in Nat /\ n \in Nat
        /\ (r = <<>> => open = 0) /\ (r # <<>> => Len(r) = open + n + 1)
    BY FactsNow DEF RingFacts
  <2>2. next = open - (IF a \in attrs THEN 1 ELSE 0) /\ (a \in attrs => open >= 1)
    OBVIOUS
  <2>3. rings[a] = IF a \in attrs THEN Tail(r) ELSE r
    BY <1>1
  <2>4. lost[a] = IF a \in attrs THEN <<r[1]>> ELSE <<>>
    BY <1>1
  <2> HIDE DEF r, open, next, n
  <2>5. CASE a \in attrs
    <3>1. r # <<>> /\ Len(r) = open + n + 1 /\ open >= 1
      BY <2>1, <2>2, <2>5
    <3>2. /\ Tail(r) \in Seq(Target) /\ <<r[1]>> \in Seq(Target)
          /\ Len(Tail(r)) = Len(r) - 1 /\ IsCut(r, Tail(r), <<r[1]>>, 1)
      BY <2>1, <3>1, CutFirst
    <3>3. Len(Tail(r)) = open + n /\ Len(Tail(r)) # 0
      <4>1. (open + n + 1) - 1 = open + n /\ open + n # 0
        BY <2>1, <3>1
      <4>2. Len(Tail(r)) = (open + n + 1) - 1
        BY <3>1, <3>2, Zenon
      <4> QED BY <4>1, <4>2, Zenon
    <3>4. Tail(r) # <<>>
      <4>1. Len(<<>>) = 0
        OBVIOUS
      <4> QED BY <3>3, <4>1, Zenon
    <3>5. ASSUME NEW k \in 1..(n + 1) PROVE Tail(r)[next + k] = r[open + k]
      <4>1. next + k \in 1..Len(Tail(r)) /\ (next + k) + 1 = open + k
        BY <2>1, <2>2, <2>5, <3>1, <3>3
      <4>2. \A j \in 1..Len(Tail(r)) : Tail(r)[j] = r[j + 1]
        BY <2>1, <3>1
      <4> QED BY <4>1, <4>2
    <3>6. rings[a] = Tail(r) /\ lost[a] = <<r[1]>>
      BY <2>3, <2>4, <2>5
    <3> QED BY <3>1, <3>2, <3>4, <3>5, <3>6 DEF r, open, next, n
  <2>6. CASE a \notin attrs
    <3>1. rings[a] = r /\ lost[a] = <<>> /\ next = open
      BY <2>1, <2>2, <2>3, <2>4, <2>6
    <3>2. IsCut(r, r, <<>>, 1) /\ <<>> \in Seq(Target)
      BY <2>1, CutNothing
    <3> QED BY <2>1, <3>1, <3>2 DEF r, open, next, n
  <2> QED BY <2>5, <2>6
<1>3. rings \in Rings /\ lost \in Rings
  BY <1>1, <1>2 DEF Rings
<1>4. AgedTo(rings)
  BY <1>2 DEF AgedTo
<1>5. \A a \in Attr : IsCut(values[a], rings[a], lost[a], at[a])
  BY <1>1, <1>2
<1>6. \A a \in Attr : values[a] # <<>> <=> rings[a] # <<>>
  BY <1>2
<1> QED BY <1>3, <1>4, <1>5, <1>6 DEF rings, lost, at

LEMMA AbortNestedPast ==
  ASSUME IInv, IInv', PastInv, AbortNestedTr
  PROVE  PastInv' /\ AgedTo(values')
<1>1. /\ Len(transactions) >= 2
      /\ Settle(T!DropFirst(transactions[1].items), ReadsWithout(FirstLost(transactions[1].items)),
                WritesWithout(FirstLost(transactions[1].items)), locked)
      /\ transactions' = Tail(transactions)
      /\ UNCHANGED <<undos, storage, stored, used, created, finaltr_items, refused>>
  BY DEF AbortNestedTr, objectVars
<1>2. /\ T!InTransaction /\ dirty = transactions[1].items /\ dirty \in SUBSET Attr
      /\ Tail(transactions) = <<transactions[2]>> \o Below
      /\ Below \in Seq(LevelType) /\ transactions[2] \in LevelType
  BY <1>1, TwoLevels
<1>3. T!InTransaction'
  <2>1. \A x \in LevelType, b \in Seq(LevelType) : <<x>> \o b # <<>>
    OBVIOUS
  <2>2. transactions' # <<>>
    BY <1>1, <1>2, <2>1, Zenon
  <2> QED BY <2>2 DEF T!InTransaction
<1>4. ASSUME NEW a \in Attr
      PROVE  /\ OpenWrites(a) \in Nat /\ OpenWrites(a)' \in Nat
             /\ OpenWrites(a) = OpenWrites(a)' + (IF a \in dirty THEN 1 ELSE 0)
  <2>1. transactions \in Seq(LevelType) /\ transactions # <<>>
    BY <1>2, Stack
  <2>2. Count(Items(transactions), a)
          = Count(Items(Tail(transactions)), a) + (IF a \in transactions[1].items THEN 1 ELSE 0)
    BY <2>1, LevelCount DEF LevelType
  <2>3. OpenWrites(a)' = Count(Items(Tail(transactions)), a)
    BY <1>1 DEF OpenWrites
  <2>4. OpenWrites(a) \in Nat /\ OpenWrites(a)' \in Nat
    BY FactsNow, FactsThen DEF RingFacts
  <2> QED BY <1>2, <2>2, <2>3, <2>4 DEF OpenWrites
<1>5. /\ \A a \in dirty : OpenWrites(a) >= 1
      /\ \A a \in Attr : OpenWrites(a)' = OpenWrites(a) - (IF a \in dirty THEN 1 ELSE 0)
  BY <1>2, <1>4
<1> DEFINE rings == T!DropFirst(dirty)
           lost == FirstLost(dirty)
           at == [x \in Attr |-> 1]
<1>6. /\ AgedTo(rings) /\ rings \in Rings /\ lost \in Rings
      /\ \A a \in Attr : IsCut(values[a], rings[a], lost[a], at[a])
      /\ \A a \in Attr : values[a] # <<>> <=> rings[a] # <<>>
  BY <1>2, <1>5, FirstAged
<1>7. \A o \in Object : IsLoaded(o)' => IsLoaded(o)
  <2>1. locked \in SUBSET locked
    OBVIOUS
  <2>2. Settle(T!DropFirst(dirty), ReadsWithout(FirstLost(dirty)), WritesWithout(FirstLost(dirty)), locked)
    BY <1>1, <1>2
  <2>3. \A a \in dirty : Older(a) >= 1
    <3>1. \A a \in Attr : Older(a) = OpenWrites(a) + Count(undos, a) /\ Count(undos, a) \in Nat
      BY Facts DEF OpenWrites
    <3> QED BY <1>2, <1>4, <1>5, <3>1
  <2> QED BY <1>1, <1>2, <2>1, <2>2, <2>3, FirstLostOK
<1>8. Settle(rings, ReadsWithout(lost), WritesWithout(lost), locked)
  BY <1>1, <1>2
<1> HIDE DEF rings, lost, at
<1> QED BY <1>1, <1>3, <1>6, <1>7, <1>8, LevelPast

LEMMA CommitNestedPast ==
  ASSUME IInv, IInv', PastInv, CommitNestedTr
  PROVE  PastInv' /\ AgedTo(values')
<1> DEFINE both == transactions[2].items \cap dirty
           lost == [a \in Attr |-> IF a \in both THEN <<values[a][2]>> ELSE <<>>]
           rings == [a \in Attr |-> IF a \in both THEN T!WithoutSecond(values[a]) ELSE values[a]]
           at == [a \in Attr |-> IF a \in both THEN 2 ELSE 1]
           level == [items |-> transactions[1].items \cup transactions[2].items,
                     readonly |-> transactions[2].readonly]
<1>1. /\ Len(transactions) >= 2
      /\ Settle(rings, ReadsWithout(lost), WritesWithout(lost), locked)
      /\ transactions' = <<level>> \o SubSeq(transactions, 3, Len(transactions))
      /\ UNCHANGED <<undos, storage, stored, used, created, finaltr_items, refused>>
  BY DEF CommitNestedTr, objectVars
<1>2. /\ T!InTransaction /\ Below \in Seq(LevelType)
      /\ dirty = transactions[1].items /\ dirty \in SUBSET Attr
      /\ transactions[1] \in LevelType /\ transactions[2] \in LevelType
      /\ transactions[2].items \in SUBSET Attr
      /\ SubSeq(transactions, 3, Len(transactions)) = Below
      /\ \A a \in Attr :
           /\ Count(Items(Below), a) \in Nat
           /\ Older(a) = Count(Items(Below), a) + (IF a \in transactions[2].items THEN 1 ELSE 0)
                         + (IF a \in dirty THEN 1 ELSE 0) + Count(undos, a)
  BY <1>1, TwoLevels
<1>3. /\ level \in LevelType /\ level.items = dirty \cup transactions[2].items
      /\ transactions' = <<level>> \o Below
  BY <1>1, <1>2 DEF LevelType, LevelOf
<1>4. /\ \A a \in Attr : rings[a] = IF a \in both THEN T!WithoutSecond(values[a]) ELSE values[a]
      /\ \A a \in Attr : lost[a] = IF a \in both THEN <<values[a][2]>> ELSE <<>>
      /\ \A a \in Attr : at[a] = IF a \in both THEN 2 ELSE 1
      /\ rings = [a \in Attr |-> rings[a]] /\ lost = [a \in Attr |-> lost[a]]
  OBVIOUS
<1> HIDE DEF rings, lost, at, level
<1>5. T!InTransaction'
  <2>1. transactions' # <<>>
    BY <1>2, <1>3
  <2> QED BY <2>1 DEF T!InTransaction
<1>6. ASSUME NEW a \in Attr
      PROVE  /\ OpenWrites(a) \in Nat /\ OpenWrites(a)' \in Nat
             /\ OpenWrites(a)' = OpenWrites(a) - (IF a \in both THEN 1 ELSE 0)
             /\ a \in both => OpenWrites(a) >= 2
  <2>1. OpenWrites(a)' = Count(Items(Below), a) + (IF a \in level.items THEN 1 ELSE 0)
    <3>1. Count(Items(<<level>> \o Below), a) = Count(Items(Below), a) + (IF a \in level.items THEN 1 ELSE 0)
      BY <1>2, <1>3, LevelCountOfPrepend DEF LevelType
    <3> QED BY <1>3, <3>1 DEF OpenWrites
  <2>2. OpenWrites(a) = Count(Items(Below), a) + (IF a \in transactions[2].items THEN 1 ELSE 0)
                         + (IF a \in dirty THEN 1 ELSE 0)
    <3>1. /\ Older(a) = Count(Items(transactions), a) + Count(undos, a)
          /\ Count(Items(transactions), a) \in Nat /\ Count(undos, a) \in Nat
      BY Facts
    <3> QED BY <1>2, <3>1 DEF OpenWrites
  <2>3. /\ a \in level.items <=> a \in dirty \/ a \in transactions[2].items
        /\ a \in both <=> a \in dirty /\ a \in transactions[2].items
    BY <1>3
  <2>4. Count(Items(Below), a) \in Nat
    BY <1>2
  <2> HIDE DEF both
  <2> QED BY <2>1, <2>2, <2>3, <2>4
<1>7. ASSUME NEW a \in Attr
      PROVE  /\ rings[a] \in Seq(Target) /\ lost[a] \in Seq(Target)
             /\ IsCut(values[a], rings[a], lost[a], at[a])
             /\ values[a] # <<>> <=> rings[a] # <<>>
             /\ rings[a] # <<>> => \A k \in 1..(Count(undos, a) + 1) :
                  rings[a][OpenWrites(a)' + k]
                    = IF values[a] = <<>> THEN storage[a] ELSE values[a][OpenWrites(a) + k]
  <2> DEFINE r == values[a]
             open == OpenWrites(a)
             next == OpenWrites(a)'
             n == Count(undos, a)
             s == T!WithoutSecond(r)
  <2>1. /\ r \in Seq(Target) /\ open \in Nat /\ n \in Nat
        /\ (r = <<>> => open = 0) /\ (r # <<>> => Len(r) = open + n + 1)
    BY FactsNow DEF RingFacts
  <2>2. next = open - (IF a \in both THEN 1 ELSE 0) /\ (a \in both => open >= 2)
    BY <1>6
  <2>3. rings[a] = IF a \in both THEN s ELSE r
    BY <1>4
  <2>4. lost[a] = IF a \in both THEN <<r[2]>> ELSE <<>>
    BY <1>4
  <2>5. at[a] = IF a \in both THEN 2 ELSE 1
    BY <1>4
  <2> HIDE DEF r, open, next, n, both
  <2>6. CASE a \in both
    <3>1. r # <<>> /\ Len(r) = open + n + 1 /\ open >= 2 /\ Len(r) >= 2 /\ next = open - 1
      <4>1. r # <<>> /\ Len(r) = open + n + 1 /\ open >= 2
        BY <2>1, <2>2, <2>6
      <4>2. open + n + 1 >= 2 /\ next = open - 1
        BY <2>1, <2>2, <2>6
      <4> QED BY <4>1, <4>2
    <3>2. /\ s \in Seq(Target) /\ <<r[2]>> \in Seq(Target)
          /\ Len(s) = Len(r) - 1 /\ IsCut(r, s, <<r[2]>>, 2)
      BY <2>1, <3>1, CutSecond
    <3> HIDE DEF s
    <3>3. Len(s) = open + n /\ Len(s) # 0
      <4>1. (open + n + 1) - 1 = open + n /\ open + n # 0
        BY <2>1, <3>1
      <4>2. Len(s) = (open + n + 1) - 1
        BY <3>1, <3>2, Zenon
      <4> QED BY <4>1, <4>2, Zenon
    <3>4. s # <<>>
      <4>1. Len(<<>>) = 0
        OBVIOUS
      <4> QED BY <3>3, <4>1, Zenon
    <3>5. \A k \in 1..Len(s) : s[k] = IF k < 2 THEN r[k] ELSE r[k + Len(<<r[2]>>)]
      BY <3>2 DEF IsCut
    <3>6. ASSUME NEW k \in 1..(n + 1) PROVE s[next + k] = r[open + k]
      <4>1. next + k \in 1..(open + n) /\ (next + k) + 1 = open + k /\ ~(next + k < 2)
        BY <2>1, <3>1
      <4>2. Len(<<r[2]>>) = 1
        OBVIOUS
      <4>3. s[next + k] = r[(next + k) + 1]
        BY <3>3, <3>5, <4>1, <4>2
      <4> QED BY <4>1, <4>3
    <3>7. rings[a] = s /\ lost[a] = <<r[2]>> /\ at[a] = 2
      BY <2>3, <2>4, <2>5, <2>6
    <3> QED BY <3>1, <3>2, <3>4, <3>6, <3>7 DEF r, open, next, n
  <2>7. CASE a \notin both
    <3>1. rings[a] = r /\ lost[a] = <<>> /\ at[a] = 1 /\ next = open
      BY <2>1, <2>2, <2>3, <2>4, <2>5, <2>7
    <3>2. IsCut(r, r, <<>>, 1) /\ <<>> \in Seq(Target)
      BY <2>1, CutNothing
    <3> QED BY <2>1, <3>1, <3>2 DEF r, open, next, n
  <2> QED BY <2>6, <2>7
<1>8. rings \in Rings /\ lost \in Rings
  BY <1>4, <1>7 DEF Rings
<1>9. AgedTo(rings)
  BY <1>7 DEF AgedTo
<1>10. /\ \A a \in Attr : IsCut(values[a], rings[a], lost[a], at[a])
       /\ \A a \in Attr : values[a] # <<>> <=> rings[a] # <<>>
  BY <1>7
<1>11. \A o \in Object : IsLoaded(o)' => IsLoaded(o)
  <2>1. CountTypes /\ refused \in [Object -> Nat] /\ locked \in SUBSET Object /\ locked \in SUBSET locked
    BY Facts
  <2>2. LoadedOK /\ CountsOf(values, read_count, write_count, refused)
    BY DEF IInv
  <2>3. at \in [Attr -> Nat]
    BY DEF at
  <2>4. \A a \in Attr : values[a] # <<>> => rings[a] # <<>>
    BY <1>10
  <2> QED BY <1>1, <1>8, <1>10, <2>1, <2>2, <2>3, <2>4, LossOK
<1> QED BY <1>1, <1>5, <1>8, <1>9, <1>10, <1>11, LevelPast

-----------------------------------------------------------------------------
(* Which objects the undo list can bring back between transactions         *)

\* With no open level, the whole ring is older than the transaction.
HasPlace(rings, o) ==
  \E a \in Attr : Len(rings[a]) >= 2 /\ (Owner[a] = o \/ \E k \in DOMAIN rings[a] : rings[a][k] = o)

LEMMA PlacesInRings ==
  ASSUME NEW rings, NEW o
  PROVE  Unheld(rings, o) <=> ~HasPlace(rings, o)
BY DEF Unheld, HasPlace

LEMMA WholeRing ==
  ASSUME NEW ring, NEW older, NEW past, NEW o, RingFacts(ring, 0, older, past)
  PROVE  /\ Len(ring) >= 2 <=> older > 0
         /\ older > 0 => (o \in past <=> \E k \in DOMAIN ring : ring[k] = o)
<1>1. /\ ring \in Seq(Target) /\ older \in Nat /\ Len(ring) \in Nat
      /\ ring = <<>> => older = 0
      /\ ring # <<>> => Len(ring) = older + 1
      /\ ring # <<>> => past = {ring[k] : k \in 1..(older + 1)}
  <2>1. \A k \in Nat : 0 + k = k
    OBVIOUS
  <2>2. 1..(older + 1) \subseteq Nat
    OBVIOUS
  <2>3. {ring[0 + k] : k \in 1..(older + 1)} = {ring[k] : k \in 1..(older + 1)}
    BY <2>1, <2>2
  <2> QED BY <2>3 DEF RingFacts
<1>2. CASE ring = <<>>
  <2>1. Len(ring) = 0 /\ older = 0
    BY <1>1, <1>2
  <2> QED BY <2>1
<1>3. CASE ring # <<>>
  <2>1. Len(ring) = older + 1 /\ DOMAIN ring = 1..(older + 1) /\ past = {ring[k] : k \in 1..(older + 1)}
    BY <1>1, <1>3
  <2>2. Len(ring) >= 2 <=> older > 0
    BY <1>1, <2>1
  <2>3. o \in past <=> \E k \in DOMAIN ring : ring[k] = o
    BY <2>1
  <2> QED BY <2>2, <2>3
<1> QED BY <1>2, <1>3

LEMMA NowReturnable ==
  ASSUME IInv, ~T!InTransaction, NEW o
  PROVE  Returnable(o) <=> HasPlace(values, o)
<1>1. ASSUME NEW a \in Attr
      PROVE  /\ Len(values[a]) >= 2 <=> Count(undos, a) > 0
             /\ Count(undos, a) > 0 => (o \in PastOf(a) <=> \E k \in DOMAIN values[a] : values[a][k] = o)
  <2>1. RingFacts(values[a], OpenWrites(a), Count(undos, a), PastOf(a))
    BY FactsNow
  <2>2. OpenWrites(a) = 0
    <3>1. /\ Older(a) = Count(Items(transactions), a) + Count(undos, a)
          /\ Count(Items(transactions), a) \in Nat /\ Count(undos, a) \in Nat
          /\ Older(a) = Count(undos, a)
      BY Facts, Idle
    <3> QED BY <3>1 DEF OpenWrites
  <2>3. RingFacts(values[a], 0, Count(undos, a), PastOf(a))
    BY <2>1, <2>2
  <2> QED BY <2>3, WholeRing
<1> QED BY <1>1 DEF Returnable, HasPlace

LEMMA ThenReturnable ==
  ASSUME IInv', \A a \in Attr : OpenWrites(a)' = 0, NEW o
  PROVE  Returnable(o)' <=> HasPlace(values', o)
<1>1. ASSUME NEW a \in Attr
      PROVE  /\ Len(values'[a]) >= 2 <=> Count(undos', a) > 0
             /\ Count(undos', a) > 0 => (o \in PastOf(a)' <=> \E k \in DOMAIN values'[a] : values'[a][k] = o)
  <2>1. RingFacts(values'[a], OpenWrites(a)', Count(undos', a), PastOf(a)')
    BY FactsThen
  <2>2. RingFacts(values'[a], 0, Count(undos', a), PastOf(a)')
    BY <2>1
  <2> QED BY <2>2, WholeRing
<1> QED BY <1>1 DEF Returnable, HasPlace

LEMMA NoOpenWrites ==
  ASSUME transactions' = <<>> \/ \E level \in LevelType : transactions' = <<level>> /\ level.items = {}
  PROVE  \A a \in Attr : OpenWrites(a)' = 0
<1> SUFFICES ASSUME NEW a \in Attr PROVE Count(Items(transactions'), a) = 0
  BY DEF OpenWrites
<1>1. CASE transactions' = <<>>
  <2>1. <<>> \in Seq(LevelOf(Attr))
    OBVIOUS
  <2> QED BY <1>1, <2>1, LevelCount
<1>2. CASE \E level \in LevelType : transactions' = <<level>> /\ level.items = {}
  BY <1>2, LevelCountOfOne DEF LevelType
<1> QED BY <1>1, <1>2

\* An object is empty when it has no place, unless a deletion was refused.
LEMMA NowEmpty ==
  ASSUME IInv, NEW o \in Object
  PROVE  IsEmpty(o) <=> ~HasPlace(values, o) /\ refused[o] = 0
<1>1. values \in Rings /\ refused \in [Object -> Nat] /\ CountsOf(values, read_count, write_count, refused)
  BY Facts DEF CountTypes, IInv
<1>2. (read_count[o] = 0 /\ write_count[o] = 0) <=> (Unheld(values, o) /\ refused[o] = 0)
  BY <1>1, EmptyIsUnheld
<1> QED BY <1>2, PlacesInRings DEF IsEmpty

LEMMA ThenEmpty ==
  ASSUME IInv', NEW o \in Object
  PROVE  (read_count'[o] = 0 /\ write_count'[o] = 0) <=> ~HasPlace(values', o) /\ refused'[o] = 0
<1>1. /\ values' \in Rings /\ refused' \in [Object -> Nat]
      /\ CountsOf(values', read_count', write_count', refused')
  BY DEF IInv, TypeOK, Rings
<1>2. (read_count'[o] = 0 /\ write_count'[o] = 0) <=> (Unheld(values', o) /\ refused'[o] = 0)
  BY <1>1, EmptyIsUnheld
<1> QED BY <1>2, PlacesInRings

-----------------------------------------------------------------------------
(* The end of the outermost level                                          *)

LEMMA AbortFinalPast ==
  ASSUME IInv, IInv', PastInv, AbortFinalTr
  PROVE  PastInv' /\ AgedTo(values')
<1>1. /\ Len(transactions) = 1
      /\ Settle(T!DropFirst(T!Committed), ReadsWithout(FirstLost(T!Committed)),
                WritesWithout(FirstLost(T!Committed)), locked \ finaltr_items)
      /\ stored' = stored \ created /\ undos' = Tail(undos)
      /\ transactions' = <<>> /\ created' = {}
      /\ UNCHANGED <<storage, used, refused>>
  BY DEF AbortFinalTr
<1>2. /\ T!Committed = dirty /\ dirty \in SUBSET Attr /\ locked \ finaltr_items = {}
      /\ \A a \in Attr :
           /\ Count(Tail(undos), a) \in Nat
           /\ Older(a) = Count(Tail(undos), a) + (IF a \in dirty THEN 1 ELSE 0)
  BY <1>1, LastLevel
<1>3. undos \in Seq(SUBSET Attr) /\ undos # <<>> /\ undos[1] = {}
  <2>1. undos \in Seq(SUBSET Attr) /\ undos[1] = {} /\ redo_count \in Nat /\ redo_count <= Len(undos) - 1
    BY <1>1, LastLevel, Facts DEF IInv, QueueOK
  <2>2. undos # <<>>
    BY <2>1
  <2> QED BY <2>1, <2>2
<1>4. \A a \in Attr : Count(undos', a) = Count(undos, a) /\ Count(undos, a) \in Nat
  <2>1. \A a \in Attr : Count(undos, a) = Count(Tail(undos), a) + 0
    BY <1>3, CountOfTail
  <2> QED BY <1>1, <1>2, <2>1
<1>5. ASSUME NEW a \in Attr
      PROVE  /\ OpenWrites(a)' = 0 /\ OpenWrites(a) = IF a \in dirty THEN 1 ELSE 0
  <2>1. OpenWrites(a)' = 0
    BY <1>1, NoOpenWrites
  <2>2. /\ Older(a) = OpenWrites(a) + Count(undos, a) /\ OpenWrites(a) \in Nat /\ Count(undos, a) \in Nat
    BY Facts DEF OpenWrites
  <2> QED BY <1>1, <1>2, <1>4, <2>1, <2>2
<1> DEFINE rings == T!DropFirst(dirty)
           lost == FirstLost(dirty)
           at == [x \in Attr |-> 1]
<1>6. /\ AgedTo(rings) /\ rings \in Rings /\ lost \in Rings
      /\ \A a \in Attr : IsCut(values[a], rings[a], lost[a], at[a])
      /\ \A a \in Attr : values[a] # <<>> <=> rings[a] # <<>>
  <2>1. /\ \A a \in dirty : OpenWrites(a) >= 1
        /\ \A a \in Attr : OpenWrites(a)' = OpenWrites(a) - (IF a \in dirty THEN 1 ELSE 0)
    BY <1>2, <1>5
  <2> QED BY <1>2, <2>1, FirstAged
<1>7. \A o \in Object : IsLoaded(o)' => IsLoaded(o)
  <2>1. {} \in SUBSET locked
    OBVIOUS
  <2>2. Settle(T!DropFirst(dirty), ReadsWithout(FirstLost(dirty)), WritesWithout(FirstLost(dirty)), {})
    BY <1>1, <1>2
  <2>3. \A a \in dirty : Older(a) >= 1
    BY <1>2
  <2> QED BY <1>1, <1>2, <2>1, <2>2, <2>3, FirstLostOK
<1>8. Settle(rings, ReadsWithout(lost), WritesWithout(lost), {})
  BY <1>1, <1>2
<1> HIDE DEF rings, lost, at
<1>9. AgedTo(values') /\ UpToDateOK'
  <2>1. stored' \subseteq stored
    BY <1>1
  <2> QED BY <1>1, <1>4, <1>6, <1>8, <2>1, SettleAged
<1>10. /\ StorageAgrees'
       /\ \A a \in Attr : Count(undos, a) > 0 => PastOf(a)' = PastOf(a)
  BY <1>1, <1>4, <1>9, AgedKeeps DEF PastInv
<1>11. /\ Root \in stored /\ RingTargetsStored /\ GarbageOK /\ created \subseteq Object
       /\ stored \subseteq Object
       /\ \A o \in created :
            /\ \A a \in AttrsOf(o) : Count(undos, a) = 0 /\ storage[a] = Null
            /\ \A a \in Attr : storage[a] # o /\ o \notin PastOf(a)
  BY DEF PastInv, CreatedOK, IInv, TypeOK
<1>12. GarbageOK'
  <2>1. \A o \in Object : refused'[o] >= refused[o]
    BY <1>1 DEF IInv, TypeOK
  <2>2. refused \in [Object -> Nat] /\ refused' \in [Object -> Nat]
    BY DEF IInv, TypeOK
  <2>3. stored' \ created' \subseteq stored \ created
    BY <1>1
  <2> QED BY <1>1, <1>4, <1>10, <1>11, <2>1, <2>2, <2>3, GarbageStays
<1>13. CreatedOK'
  BY <1>1 DEF CreatedOK
<1>14. ASSUME NEW o \in created PROVE Unheld(values', o) /\ o # Root
  <2>1. ASSUME NEW a \in Attr, Len(values'[a]) >= 2, Owner[a] = o \/ \E k \in DOMAIN values'[a] : values'[a][k] = o
        PROVE  FALSE
    <3>1. RingFacts(values'[a], 0, Count(undos', a), PastOf(a)')
      <4>1. RingFacts(values'[a], OpenWrites(a)', Count(undos', a), PastOf(a)')
        BY FactsThen
      <4> QED BY <1>5, <4>1
    <3>2. Count(undos', a) > 0 /\ (Owner[a] = o \/ o \in PastOf(a)')
      BY <2>1, <3>1, WholeRing
    <3>3. Count(undos, a) > 0 /\ PastOf(a)' = PastOf(a)
      BY <1>4, <1>10, <3>2
    <3>4. Owner[a] # o
      BY <1>4, <1>11, <3>3 DEF AttrsOf
    <3> QED BY <1>11, <3>2, <3>3, <3>4
  <2>2. Unheld(values', o)
    BY <2>1 DEF Unheld
  <2>3. o # Root
    BY DEF PastInv, CreatedOK
  <2> QED BY <2>2, <2>3
<1>15. RingTargetsStored'
  <2>1. ASSUME NEW a \in Attr, Len(values'[a]) >= 2
        PROVE  /\ Len(values[a]) >= 2
               /\ \A k \in DOMAIN values'[a] : \E j \in DOMAIN values[a] : values'[a][k] = values[a][j]
    <3>1. values'[a] = rings[a]
      <4>1. values'[a] = IF Owner[a] \in {} \cup KeptBy(ReadsWithout(lost), WritesWithout(lost))
                           THEN rings[a] ELSE <<>>
        BY <1>8 DEF Settle
      <4>2. Len(<<>>) = 0
        OBVIOUS
      <4>3. values'[a] # <<>>
        BY <2>1, <4>2
      <4> QED BY <4>1, <4>3
    <3>2. /\ values[a] \in Seq(Target) /\ rings[a] \in Seq(Target) /\ lost[a] \in Seq(Target)
          /\ IsCut(values[a], rings[a], lost[a], at[a])
      BY <1>6, Facts DEF Rings
    <3>3. /\ Len(rings[a]) <= Len(values[a])
          /\ \A k \in DOMAIN rings[a] : \E j \in DOMAIN values[a] : rings[a][k] = values[a][j]
      BY <3>2, CutMembers
    <3>4. Len(rings[a]) >= 2 /\ Len(rings[a]) \in Nat /\ Len(values[a]) \in Nat
      BY <2>1, <3>1, <3>2
    <3>5. Len(values[a]) >= 2
      BY <3>3, <3>4
    <3> QED BY <3>1, <3>3, <3>5
  <2>2. stored' \subseteq stored /\ \A o \in stored \ stored' : Unheld(values', o)
    BY <1>1, <1>14
  <2> QED BY <1>11, <2>1, <2>2, TargetsStay
<1>16. GoneOK'
  <2>1. used \subseteq used' /\ \A a \in Attr : storage'[a] = storage[a]
    BY <1>1
  <2>2. \A x \in Object \ (stored \cup stored') : IsLoaded(x)' => IsLoaded(x)
    BY <1>7
  <2>3. \A x \in stored \ stored' :
          /\ \A a \in AttrsOf(x) : storage'[a] = Null
          /\ IsLoaded(x)' => \A a \in Attr : storage'[a] # x
    BY <1>1, <1>11 DEF AttrsOf
  <2> QED BY <2>1, <2>2, <2>3, GoneStays
<1>17. (Root \in stored)'
  BY <1>1, <1>11, <1>14
<1> QED BY <1>9, <1>10, <1>12, <1>13, <1>15, <1>16, <1>17 DEF PastInv

LEMMA CommitFinalPast ==
  ASSUME IInv, IInv', PastInv, CommitFinalTr
  PROVE  PastInv'
<1> DEFINE gone == {o \in finaltr_items \ {Root} : HasEmptyPointersAndLocks(o)}
<1>1. /\ Len(transactions) = 1
      /\ stored' = stored \ gone
      /\ storage' = [a \in Attr |-> IF a \in T!Committed THEN values[a][1] ELSE storage[a]]
      /\ undos' = T!PushStep(T!Committed, Tail(undos))
      /\ Settle(values, read_count, write_count, locked \ finaltr_items)
      /\ transactions' = <<>> /\ created' = {}
      /\ UNCHANGED <<used, refused>>
  BY DEF CommitFinalTr
<1>2. /\ T!Committed = dirty /\ dirty \in SUBSET Attr /\ locked \ finaltr_items = {} /\ T!InTransaction
      /\ \A a \in dirty : Owner[a] \in finaltr_items
      /\ \A a \in Attr :
           /\ Count(Tail(undos), a) \in Nat
           /\ Older(a) = Count(Tail(undos), a) + (IF a \in dirty THEN 1 ELSE 0)
  BY <1>1, LastLevel, Stack
<1>3. /\ read_count' = read_count /\ write_count' = write_count /\ locked' = {}
      /\ \A a \in Attr : values'[a] = values[a] \/ values'[a] = <<>>
  BY <1>1, <1>2 DEF Settle
<1>4. /\ \A o \in Object : o \in finaltr_items => IsLoaded(o)
      /\ \A a \in Attr : values[a] # <<>> <=> IsLoaded(Owner[a])
  BY FinalItemsAreLoaded DEF FinalItemsLoaded
\* The values that the commit has saved are those in front.
<1>5. ASSUME NEW a \in Attr
      PROVE  /\ OpenWrites(a)' = 0 /\ OpenWrites(a) \in Nat /\ Count(undos, a) \in Nat
             /\ OpenWrites(a) = IF a \in dirty THEN 1 ELSE 0
             /\ values[a] # <<>> => storage'[a] = values[a][1]
             /\ values[a] = <<>> => storage'[a] = storage[a] /\ a \notin dirty
             /\ a \in dirty => Len(values[a]) >= 2
  <2>1. OpenWrites(a)' = 0
    BY <1>1, NoOpenWrites
  <2>2. /\ Older(a) = OpenWrites(a) + Count(undos, a) /\ OpenWrites(a) \in Nat /\ Count(undos, a) \in Nat
        /\ (values[a] = <<>> => Older(a) = 0)
        /\ (values[a] # <<>> => Len(values[a]) = 1 + Older(a))
    BY Facts DEF OpenWrites
  <2>3. OpenWrites(a) = IF a \in dirty THEN 1 ELSE 0
    <3>1. undos \in Seq(SUBSET Attr) /\ undos[1] = {} /\ redo_count \in Nat /\ redo_count <= Len(undos) - 1
      BY <1>1, LastLevel, Facts DEF IInv, QueueOK
    <3>2. undos # <<>>
      BY <3>1
    <3>3. Count(undos, a) = Count(Tail(undos), a) + 0
      BY <3>1, <3>2, CountOfTail
    <3> QED BY <1>2, <2>2, <3>3
  <2>4. values[a] # <<>> => storage[a] = values[a][OpenWrites(a) + 1]
    BY DEF PastInv, StorageAgrees
  <2>5. values[a] # <<>> => storage'[a] = values[a][1]
    <3>1. CASE a \in dirty
      BY <1>1, <1>2, <3>1
    <3>2. CASE a \notin dirty
      <4>1. OpenWrites(a) + 1 = 1
        BY <2>3, <3>2
      <4> QED BY <1>1, <1>2, <2>4, <3>2, <4>1
    <3> QED BY <3>1, <3>2
  <2>6. a \in dirty => Older(a) >= 1
    BY <2>2, <2>3
  <2>7. a \in dirty => Len(values[a]) >= 2
    <3>1. a \in dirty => Len(values[a]) = 1 + Older(a) /\ Older(a) >= 1
      <4>1. ~(0 >= 1)
        OBVIOUS
      <4> QED BY <2>2, <2>6, <4>1
    <3>2. Older(a) \in Nat
      BY <2>2
    <3> DEFINE m == Len(values[a])
    <3> HIDE DEF m
    <3>3. a \in dirty => m = 1 + Older(a) /\ Older(a) >= 1
      BY <3>1 DEF m
    <3>4. a \in dirty => m >= 2
      BY <3>2, <3>3
    <3> QED BY <3>4 DEF m
  <2>8. values[a] = <<>> => storage'[a] = storage[a] /\ a \notin dirty
    <3>1. values[a] = <<>> => a \notin dirty
      <4>1. ~(0 >= 1)
        OBVIOUS
      <4> QED BY <2>2, <2>6, <4>1
    <3> QED BY <1>1, <1>2, <3>1
  <2> QED BY <2>1, <2>2, <2>3, <2>5, <2>7, <2>8
\* What a step needs stays in memory.
<1>6. ASSUME NEW a \in Attr, Len(values[a]) >= 2
      PROVE  values'[a] = values[a]
  <2>1. Owner[a] \in Object
    BY OwnerType
  <2>2. a \in AttrsOf(Owner[a])
    BY DEF AttrsOf
  <2>3. HeldIn(values, Owner[a]) >= 1 /\ HeldIn(values, Owner[a]) \in Nat
    BY <1>6, <2>1, <2>2, Facts, CountsAre DEF CountTypes
  <2>4. read_count[Owner[a]] = HeldIn(values, Owner[a]) + refused[Owner[a]] /\ refused[Owner[a]] \in Nat
    BY <2>1, Facts DEF IInv, CountsOf
  <2>5. read_count[Owner[a]] > 0
    BY <2>3, <2>4
  <2>6. Owner[a] \in KeptBy(read_count, write_count)
    BY <2>1, <2>5 DEF KeptBy
  <2> QED BY <1>1, <2>6 DEF Settle
<1>7. ASSUME NEW a \in Attr, Len(values'[a]) >= 2
      PROVE  values'[a] = values[a] /\ Len(values[a]) >= 2
  <2>1. Len(<<>>) = 0 /\ ~(0 >= 2)
    OBVIOUS
  <2>2. values'[a] # <<>>
    BY <1>7, <2>1
  <2> QED BY <1>3, <1>7, <2>2
<1>8. ASSUME NEW x PROVE HasPlace(values', x) <=> HasPlace(values, x)
  BY <1>6, <1>7 DEF HasPlace
<1>9. \A o \in Object : IsLoaded(o)' => IsLoaded(o)
  BY <1>3 DEF IsLoaded, IsEmpty
<1>10. /\ Root \in stored /\ RingTargetsStored /\ GarbageOK /\ stored \subseteq Object
       /\ created \subseteq finaltr_items /\ finaltr_items \subseteq Object
  BY DEF PastInv, CreatedOK, IInv, TypeOK
<1>11. ASSUME NEW o \in gone
       PROVE  /\ o \in Object /\ o # Root /\ ~HasPlace(values', o) /\ ~IsLoaded(o)'
              /\ \A a \in AttrsOf(o) : storage'[a] = Null
  <2>1. o \in finaltr_items /\ o # Root /\ HasEmptyPointers(o) /\ IsEmpty(o) /\ o \in Object
    BY <1>10 DEF HasEmptyPointersAndLocks
  <2>2. ~HasPlace(values', o)
    BY <1>8, <2>1, NowEmpty
  <2>3. ~IsLoaded(o)'
    BY <1>3, <2>1 DEF IsLoaded, IsEmpty
  <2>4. ASSUME NEW a \in AttrsOf(o) PROVE storage'[a] = Null
    <3>1. a \in Attr /\ Owner[a] = o
      BY DEF AttrsOf
    <3>2. values[a] # <<>> /\ Current(a) = Null
      BY <1>4, <2>1, <3>1 DEF HasEmptyPointers
    <3> QED BY <1>5, <3>1, <3>2 DEF Current
  <2> QED BY <2>1, <2>2, <2>3, <2>4
<1>12. \A o \in Object : (o \in finaltr_items /\ o # Root /\ o \notin gone) =>
         ~(HasEmptyPointers(o) /\ IsEmpty(o))
  BY DEF HasEmptyPointersAndLocks
<1> HIDE DEF gone
<1>13. StorageAgrees'
  <2>1. ASSUME NEW a \in Attr, values'[a] # <<>> PROVE storage'[a] = values'[a][OpenWrites(a)' + 1]
    <3>1. values'[a] = values[a] /\ values[a] # <<>>
      BY <1>3, <2>1
    <3>2. OpenWrites(a)' + 1 = 1
      BY <1>5
    <3> QED BY <1>5, <3>1, <3>2
  <2> QED BY <2>1 DEF StorageAgrees
<1>14. RingTargetsStored'
  <2>1. stored' \subseteq stored
    BY <1>1
  <2>2. \A o \in stored \ stored' : Unheld(values', o)
    BY <1>1, <1>11, PlacesInRings
  <2>3. \A a \in Attr : Len(values'[a]) >= 2 =>
           /\ Len(values[a]) >= 2
           /\ \A k \in DOMAIN values'[a] : \E j \in DOMAIN values[a] : values'[a][k] = values[a][j]
    BY <1>7
  <2> QED BY <1>10, <2>1, <2>2, <2>3, TargetsStay
<1>15. GoneOK'
  <2>1. used \subseteq used'
    BY <1>1
  <2>2. ASSUME NEW a \in Attr
        PROVE  \/ storage'[a] = storage[a]
               \/ Len(values[a]) >= 2 /\ \E k \in DOMAIN values[a] : storage'[a] = values[a][k]
    <3>1. CASE a \in dirty
      <4>1. Len(values[a]) >= 2 /\ values[a] \in Seq(Target)
        BY <1>5, <3>1, Facts
      <4>2. 1 \in DOMAIN values[a] /\ values[a] # <<>>
        BY <4>1
      <4> QED BY <1>5, <4>1, <4>2
    <3>2. CASE a \notin dirty
      BY <1>1, <1>2, <3>2
    <3> QED BY <3>1, <3>2
  <2>3. \A x \in Object \ (stored \cup stored') : IsLoaded(x)' => IsLoaded(x)
    BY <1>9
  <2>4. \A x \in stored \ stored' :
           /\ \A a \in AttrsOf(x) : storage'[a] = Null
           /\ IsLoaded(x)' => \A a \in Attr : storage'[a] # x
    BY <1>1, <1>11
  <2> QED BY <2>1, <2>2, <2>3, <2>4, GoneStays
<1>16. CreatedOK'
  BY <1>1 DEF CreatedOK
<1>17. UpToDateOK'
  <2>1. \A a \in Attr : values[a] # <<>> /\ values'[a] = <<>> => storage'[a] = values[a][1]
    BY <1>5
  <2>2. \A a \in Attr : values[a] = <<>> => storage'[a] = storage[a]
    BY <1>5
  <2>3. stored' \subseteq stored
    BY <1>1
  <2> QED BY <1>1, <2>1, <2>2, <2>3, SettleUnloads
<1>18. GarbageOK'
  <2> SUFFICES ASSUME NEW o \in stored' \ ({Root} \cup created'), \A a \in AttrsOf(o) : storage'[a] = Null
               PROVE  refused'[o] > 0 \/ Returnable(o)'
    BY DEF GarbageOK
  <2>1. o \in stored /\ o \in Object /\ o # Root /\ o \notin gone
    BY <1>1, <1>10
  <2>2. refused[o] \in Nat /\ refused' = refused
    BY <1>1, <2>1, Facts
  <2>3. Returnable(o)' <=> HasPlace(values, o)
    BY <1>5, <1>8, ThenReturnable
  <2>4. CASE o \in finaltr_items
    <3>1. HasEmptyPointers(o)
      <4>1. ASSUME NEW a \in AttrsOf(o) PROVE Current(a) = Null
        <5>1. a \in Attr /\ Owner[a] = o /\ storage'[a] = Null
          BY DEF AttrsOf
        <5>2. values[a] # <<>>
          BY <1>4, <2>1, <2>4, <5>1
        <5> QED BY <1>5, <5>1, <5>2 DEF Current
      <4> QED BY <4>1 DEF HasEmptyPointers
    <3>2. ~IsEmpty(o)
      BY <1>12, <2>1, <2>4, <3>1
    <3>3. HasPlace(values, o) \/ refused[o] # 0
      BY <2>1, <3>2, NowEmpty
    <3> QED BY <2>2, <2>3, <3>3
  <2>5. CASE o \notin finaltr_items
    <3>1. ASSUME NEW a \in AttrsOf(o) PROVE storage[a] = Null
      <4>1. a \in Attr /\ Owner[a] = o /\ a \notin dirty /\ storage'[a] = Null
        BY <1>2, <2>5 DEF AttrsOf
      <4> QED BY <1>1, <1>2, <4>1
    <3>2. refused[o] > 0 \/ Returnable(o)
      BY <1>10, <2>1, <2>5, <3>1 DEF GarbageOK
    <3>3. ASSUME Returnable(o) PROVE HasPlace(values, o)
      <4>1. PICK a \in Attr : Count(undos, a) > 0 /\ (Owner[a] = o \/ o \in PastOf(a))
        BY <3>3 DEF Returnable
      <4>2. Len(values[a]) >= 2 /\ values[a] \in Seq(Target)
        BY <4>1, StepKeepsLoaded, Facts
      <4>3. o \in PastOf(a) => \E k \in DOMAIN values[a] : values[a][k] = o
        <5>1. \A k \in (OpenWrites(a) + 1)..Len(values[a]) : k \in DOMAIN values[a]
          BY <1>5, <4>2
        <5> QED BY <5>1 DEF PastOf
      <4> QED BY <4>1, <4>2, <4>3 DEF HasPlace
    <3> QED BY <2>2, <2>3, <3>2, <3>3
  <2> QED BY <2>4, <2>5
<1>19. (Root \in stored)'
  BY <1>1, <1>10, <1>11
<1> QED BY <1>13, <1>14, <1>15, <1>16, <1>17, <1>18, <1>19 DEF PastInv

-----------------------------------------------------------------------------
(* Discarding steps, undo and redo                                         *)

LEMMA DiscardPast ==
  ASSUME IInv, IInv', PastInv, ~T!InTransaction, NEW n \in 0..Len(undos), DiscardTo(n),
         \A a \in Attr : OpenWrites(a)' = 0,
         UNCHANGED <<storage, used, created, refused>>
  PROVE  PastInv'
<1> DEFINE rings == T!DropLast(n)
           reads == ReadsWithout(LostAfter(n))
           writes == WritesWithout(LostAfter(n))
           gone == Unreachable(reads, writes)
<1>1. Settle(rings, reads, writes, {}) /\ stored' = stored \ gone
  BY DEF DiscardTo
<1>2. read_count' = reads /\ write_count' = writes /\ locked' = {}
  BY <1>1 DEF Settle
<1>3. \A a \in Attr : values'[a] = <<>> \/ values'[a] = rings[a]
  BY <1>1 DEF Settle
<1>4. \A o \in Object : IsLoaded(o)' => IsLoaded(o)
  BY DiscardOK
<1>5. /\ Root \in stored /\ RingTargetsStored /\ GarbageOK /\ StorageAgrees /\ stored \subseteq Object
      /\ created = {} /\ refused \in [Object -> Nat]
  BY DEF PastInv, CreatedOK, IInv, TypeOK
<1>6. ASSUME NEW a \in Attr
      PROVE  /\ OpenWrites(a) = 0
             /\ values[a] # <<>> => storage[a] = values[a][1]
             /\ values[a] # <<>> <=> IsLoaded(Owner[a])
  <2>1. OpenWrites(a) = 0
    <3>1. /\ Older(a) = Count(Items(transactions), a) + Count(undos, a)
          /\ Count(Items(transactions), a) \in Nat /\ Count(undos, a) \in Nat
          /\ Older(a) = Count(undos, a)
      BY Facts, Idle
    <3> QED BY <3>1 DEF OpenWrites
  <2>2. OpenWrites(a) + 1 = 1
    BY <2>1
  <2> QED BY <1>5, <2>1, <2>2 DEF StorageAgrees, IInv, LoadedOK
\* The rings keep their front.
<1>7. ASSUME NEW a \in Attr
      PROVE  /\ rings[a] \in Seq(Target) /\ Len(rings[a]) <= Len(values[a]) /\ Len(rings[a]) \in Nat
             /\ Len(values[a]) \in Nat /\ DOMAIN rings[a] \subseteq DOMAIN values[a]
             /\ \A k \in DOMAIN rings[a] : rings[a][k] = values[a][k]
             /\ values[a] # <<>> => rings[a] # <<>> /\ rings[a][1] = values[a][1]
  <2> DEFINE r == values[a]
             lost == Cardinality(T!StepsAfter(n, a))
             m == Len(r) - lost
             s == rings[a]
  <2>1. undos \in Seq(SUBSET Attr) /\ r \in Seq(Target)
    BY Facts
  <2>2. /\ lost \in Nat /\ Count(SubSeq(undos, 1, n), a) \in Nat
        /\ Count(undos, a) = Count(SubSeq(undos, 1, n), a) + lost
    <3>1. lost = CountAfter(undos, n, a)
      BY DEF T!StepsAfter, CountAfter, OccursAfter
    <3> HIDE DEF lost
    <3> QED BY <2>1, <3>1, UpToType DEF CountUpTo
  <2>3. Older(a) = Count(undos, a) /\ (r = <<>> => Older(a) = 0) /\ (r # <<>> => Len(r) = 1 + Older(a))
    BY Idle, Facts
  <2>4. s = SubSeq(r, 1, m)
    BY SameCardinality DEF T!DropLast
  <2>5. Len(r) \in Nat /\ (r = <<>> => Len(r) = 0)
    BY <2>1
  <2> HIDE DEF r, lost, s
  <2>6. m \in Nat /\ m <= Len(r) /\ (r # <<>> => m >= 1)
    BY <2>2, <2>3, <2>5
  <2> HIDE DEF m
  <2>7. s \in Seq(Target) /\ Len(s) = m /\ \A k \in 1..m : s[k] = r[k]
    BY <2>1, <2>4, <2>6
  <2>8. DOMAIN s = 1..m /\ DOMAIN r = 1..Len(r) /\ 1..m \subseteq 1..Len(r)
    BY <2>1, <2>5, <2>6, <2>7
  <2>9. r # <<>> => s # <<>> /\ s[1] = r[1]
    <3>1. r # <<>> => 1 \in 1..m /\ m # 0
      BY <2>6
    <3>2. Len(<<>>) = 0
      OBVIOUS
    <3> QED BY <2>7, <3>1, <3>2
  <2> QED BY <2>5, <2>6, <2>7, <2>8, <2>9 DEF r, s
<1>8. ASSUME NEW a \in Attr, Len(values'[a]) >= 2
      PROVE  /\ Len(values[a]) >= 2
             /\ \A k \in DOMAIN values'[a] : \E j \in DOMAIN values[a] : values'[a][k] = values[a][j]
  <2>1. Len(<<>>) = 0 /\ ~(0 >= 2)
    OBVIOUS
  <2>2. values'[a] = rings[a]
    BY <1>3, <1>8, <2>1
  <2>3. Len(rings[a]) >= 2 /\ Len(rings[a]) <= Len(values[a]) /\ Len(rings[a]) \in Nat /\ Len(values[a]) \in Nat
    BY <1>7, <1>8, <2>2
  <2>4. Len(values[a]) >= 2
    BY <2>3
  <2> QED BY <1>7, <2>2, <2>4
<1>9. \A o \in gone : /\ o \in stored /\ o \in Object /\ o # Root /\ ~IsEmpty(o) /\ HasEmptyPointers(o)
                      /\ read_count'[o] = 0 /\ write_count'[o] = 0
  BY <1>2, <1>5 DEF Unreachable
<1>10. \A o \in stored \ {Root} : ~IsEmpty(o) /\ HasEmptyPointers(o) /\ o \notin gone =>
         ~(read_count'[o] = 0 /\ write_count'[o] = 0)
  BY <1>2 DEF Unreachable
<1>11. \A a \in Attr : values[a] # <<>> /\ values'[a] = <<>> => storage'[a] = rings[a][1]
  BY <1>6, <1>7
<1>12. \A a \in Attr : values[a] # <<>> => rings[a] # <<>>
  BY <1>7
<1> HIDE DEF gone, rings, reads, writes
<1>13. StorageAgrees'
  <2>1. ASSUME NEW a \in Attr, values'[a] # <<>> PROVE storage'[a] = values'[a][OpenWrites(a)' + 1]
    <3>1. values'[a] = rings[a] /\ OpenWrites(a)' + 1 = 1
      BY <1>3, <2>1
    <3>2. values[a] # <<>>
      <4>1. Len(rings[a]) # 0 /\ Len(rings[a]) <= Len(values[a])
        BY <1>7, <2>1, <3>1
      <4>2. Len(<<>>) = 0 /\ \A i \in Nat : i <= 0 => i = 0
        OBVIOUS
      <4> QED BY <1>7, <4>1, <4>2
    <3> QED BY <1>6, <1>7, <3>1, <3>2
  <2> QED BY <2>1 DEF StorageAgrees
<1>14. RingTargetsStored'
  <2>1. stored' \subseteq stored
    BY <1>1
  <2>2. \A o \in stored \ stored' : Unheld(values', o)
    BY <1>1, <1>9, ThenEmpty, PlacesInRings
  <2> QED BY <1>5, <1>8, <2>1, <2>2, TargetsStay
<1>15. GoneOK'
  <2>1. used \subseteq used' /\ \A a \in Attr : storage'[a] = storage[a]
    OBVIOUS
  <2>2. \A x \in Object \ (stored \cup stored') : IsLoaded(x)' => IsLoaded(x)
    BY <1>4
  <2>3. ASSUME NEW x \in stored \ stored'
        PROVE  /\ \A a \in AttrsOf(x) : storage'[a] = Null
               /\ IsLoaded(x)' => \A a \in Attr : storage'[a] # x
    <3>1. x \in gone
      BY <1>1, <2>3
    <3>2. ~IsLoaded(x)'
      BY <1>2, <1>9, <3>1 DEF IsLoaded, IsEmpty
    <3>3. ASSUME NEW a \in AttrsOf(x) PROVE storage'[a] = Null
      <4>1. a \in Attr /\ Owner[a] = x
        BY DEF AttrsOf
      <4>2. values[a] # <<>>
        BY <1>6, <1>9, <3>1, <4>1 DEF IsLoaded
      <4>3. Current(a) = Null
        BY <1>9, <3>1 DEF HasEmptyPointers
      <4> QED BY <1>6, <4>1, <4>2, <4>3 DEF Current
    <3> QED BY <3>2, <3>3
  <2> QED BY <2>1, <2>2, <2>3, GoneStays
<1>16. CreatedOK'
  BY <1>5 DEF CreatedOK
<1>17. UpToDateOK'
  <2>1. stored' \subseteq stored /\ \A a \in Attr : values[a] = <<>> => storage'[a] = storage[a]
    BY <1>1
  <2> QED BY <1>1, <1>11, <1>12, <2>1, SettleUnloads
<1>18. GarbageOK'
  <2> SUFFICES ASSUME NEW o \in stored' \ ({Root} \cup created'), \A a \in AttrsOf(o) : storage'[a] = Null
               PROVE  refused'[o] > 0 \/ Returnable(o)'
    BY DEF GarbageOK
  <2>1. o \in stored /\ o \in Object /\ o # Root /\ o \notin gone /\ o \notin created
    BY <1>1, <1>5
  <2>2. refused[o] > 0 \/ Returnable(o)
    BY <1>5, <2>1 DEF GarbageOK
  <2>3. ~IsEmpty(o)
    <3>1. Returnable(o) => HasPlace(values, o)
      BY NowReturnable
    <3>2. refused[o] > 0 => refused[o] # 0
      BY <1>5, <2>1
    <3> QED BY <2>1, <2>2, <3>1, <3>2, NowEmpty
  <2>4. HasEmptyPointers(o)
    <3>1. ASSUME NEW a \in AttrsOf(o) PROVE Current(a) = Null
      <4>1. a \in Attr /\ storage[a] = Null
        BY DEF AttrsOf
      <4> QED BY <1>6, <4>1 DEF Current
    <3> QED BY <3>1 DEF HasEmptyPointers
  <2>5. HasPlace(values', o) \/ refused'[o] # 0
    BY <1>10, <2>1, <2>3, <2>4, ThenEmpty
  <2>6. HasPlace(values', o) => Returnable(o)'
    BY ThenReturnable
  <2>7. refused'[o] \in Nat
    BY <1>5, <2>1
  <2> QED BY <2>5, <2>6, <2>7
<1>19. (Root \in stored)'
  BY <1>1, <1>5, <1>9
<1> QED BY <1>13, <1>14, <1>15, <1>16, <1>17, <1>18, <1>19 DEF PastInv

LEMMA FlushPast ==
  ASSUME IInv, IInv', PastInv, NEW n \in 0..Len(undos), Flush(n)
  PROVE  PastInv'
<1>1. /\ ~T!InTransaction /\ DiscardTo(n)
      /\ UNCHANGED <<transactions, storage, used, created, refused>>
  BY DEF Flush
<1>2. transactions' = <<>>
  BY <1>1, Idle
<1>3. \A a \in Attr : OpenWrites(a)' = 0
  BY <1>2, NoOpenWrites
<1> QED BY <1>1, <1>3, DiscardPast

LEMMA BeginFinalPast ==
  ASSUME IInv, IInv', PastInv, NEW readonly \in BOOLEAN, BeginFinalTr(readonly)
  PROVE  PastInv'
<1> DEFINE level == T!Level(readonly)
<1>1. /\ ~T!InTransaction /\ transactions' = <<level>>
      /\ IF readonly
           THEN /\ undos' = <<{}>> \o undos
                /\ UNCHANGED <<values, stored, lockVars, uptodate>>
           ELSE /\ DiscardTo(T!Kept)
                /\ UNCHANGED finaltr_items
      /\ UNCHANGED <<storage, used, created, refused>>
  BY DEF BeginFinalTr
<1>2. undos \in Seq(SUBSET Attr) /\ redo_count \in Nat /\ redo_count <= Len(undos)
  BY <1>1, Facts, Idle
<1>3. \A a \in Attr : OpenWrites(a)' = 0
  <2>1. level \in LevelType /\ level.items = {}
    BY DEF T!Level, LevelType, LevelOf
  <2> QED BY <1>1, <2>1, NoOpenWrites
<1>4. CASE readonly
  <2>1. /\ undos' = <<{}>> \o undos
        /\ UNCHANGED <<values, refused, storage, stored, created, used, locked, read_count,
                       write_count, finaltr_items, uptodate>>
    BY <1>1, <1>4 DEF lockVars
  <2>2. \A a \in Attr : Count(undos', a) = Count(undos, a)
    <3>1. \A a : Count(<<{}>> \o undos, a) = Count(undos, a) + 0
      BY <1>2, CountOfPrepend
    <3>2. \A a : Count(undos, a) \in Nat
      BY <1>2, CountType
    <3> QED BY <2>1, <3>1, <3>2
  <2>3. T!InTransaction => T!InTransaction'
    BY <1>1
  <2>4. finaltr_items \subseteq finaltr_items' /\ uptodate' \subseteq uptodate
    BY <2>1
  <2> QED BY <2>1, <2>2, <2>3, <2>4, SamePast
<1>5. CASE ~readonly
  <2>1. DiscardTo(T!Kept)
    BY <1>1, <1>5
  <2>2. T!Kept \in 0..Len(undos)
    BY <1>2, UndoAssumption DEF T!Kept
  <2> QED BY <1>1, <1>3, <2>1, <2>2, DiscardPast
<1> QED BY <1>4, <1>5

\* Undo and redo put another value of the ring in front.
LEMMA TurnedMembers ==
  ASSUME NEW r \in Seq(Target), Len(r) >= 2
  PROVE  /\ \A v : (\E k \in DOMAIN T!RotateLeft(r) : T!RotateLeft(r)[k] = v) <=> \E k \in DOMAIN r : r[k] = v
         /\ \A v : (\E k \in DOMAIN T!RotateRight(r) : T!RotateRight(r)[k] = v) <=> \E k \in DOMAIN r : r[k] = v
         /\ T!RotateLeft(r)[1] = r[2] /\ T!RotateRight(r)[1] = r[Len(r)]
         /\ 2 \in DOMAIN r /\ Len(r) \in DOMAIN r
<1> DEFINE n == Len(r)
           left == T!RotateLeft(r)
           right == T!RotateRight(r)
           front == SubSeq(r, 1, Len(r) - 1)
<1>1. n \in Nat /\ n >= 2 /\ DOMAIN r = 1..n /\ n - 1 \in Nat /\ n - 1 <= n
  OBVIOUS
<1>2. /\ Tail(r) \in Seq(Target) /\ Len(Tail(r)) = n - 1 /\ r[1] \in Target
      /\ \A k \in 1..(n - 1) : Tail(r)[k] = r[k + 1]
  <2>1. r # <<>>
    BY <1>1
  <2> QED BY <1>1, <2>1
<1>3. front \in Seq(Target) /\ Len(front) = n - 1 /\ (\A k \in 1..(n - 1) : front[k] = r[k]) /\ r[n] \in Target
  BY <1>1
<1>4. left = Tail(r) \o <<r[1]>> /\ right = <<r[n]>> \o front
  BY DEF T!RotateLeft, T!RotateRight
<1> DEFINE t == Tail(r)
<1> HIDE DEF n, left, right, front, t
<1>5. DOMAIN left = 1..n /\ \A k \in 1..n : left[k] = IF k = n THEN r[1] ELSE r[k + 1]
  <2>1. t \in Seq(Target) /\ Len(t) = n - 1 /\ r[1] \in Target /\ (\A k \in 1..(n - 1) : t[k] = r[k + 1])
        /\ left = t \o <<r[1]>>
    BY <1>2, <1>4 DEF t
  <2>2. /\ Len(t \o <<r[1]>>) = n /\ t \o <<r[1]>> \in Seq(Target)
        /\ \A k \in 1..n : (t \o <<r[1]>>)[k] = IF k <= n - 1 THEN t[k] ELSE <<r[1]>>[k - (n - 1)]
    BY <1>1, <2>1
  <2>3. \A k \in 1..n : (k = n => ~(k <= n - 1) /\ k - (n - 1) = 1) /\ (k # n => k <= n - 1 /\ k \in 1..(n - 1))
    BY <1>1
  <2> QED BY <2>1, <2>2, <2>3
<1>6. DOMAIN right = 1..n /\ \A k \in 1..n : right[k] = IF k = 1 THEN r[n] ELSE r[k - 1]
  <2>1. /\ Len(<<r[n]>> \o front) = n /\ <<r[n]>> \o front \in Seq(Target)
        /\ \A k \in 1..n : (<<r[n]>> \o front)[k] = IF k <= 1 THEN <<r[n]>>[k] ELSE front[k - 1]
    BY <1>1, <1>3
  <2>2. \A k \in 1..n : (k = 1 => k <= 1) /\ (k # 1 => ~(k <= 1) /\ k - 1 \in 1..(n - 1))
    BY <1>1
  <2> QED BY <1>3, <1>4, <2>1, <2>2
<1>7. /\ \A k \in 1..n : (k = n => 1 \in 1..n) /\ (k # n => k + 1 \in 1..n /\ (k + 1) - 1 = k /\ k + 1 # 1)
      /\ \A k \in 1..n : (k = 1 => n \in 1..n) /\ (k # 1 => k - 1 \in 1..n /\ (k - 1) + 1 = k /\ k - 1 # n)
      /\ 1 \in 1..n /\ 2 \in 1..n /\ n \in 1..n /\ 1 # n /\ 1 + 1 = 2
  BY <1>1
<1>8. \A v : (\E k \in 1..n : left[k] = v) <=> \E k \in 1..n : r[k] = v
  <2>1. ASSUME NEW k \in 1..n PROVE \E j \in 1..n : left[k] = r[j]
    BY <1>5, <1>7
  <2>2. ASSUME NEW k \in 1..n PROVE \E j \in 1..n : r[k] = left[j]
    <3>1. CASE k = 1
      BY <1>5, <1>7, <3>1
    <3>2. CASE k # 1
      <4>1. k - 1 \in 1..n /\ (k - 1) + 1 = k /\ k - 1 # n
        BY <1>7, <3>2
      <4>2. left[k - 1] = r[k]
        BY <1>5, <4>1
      <4> QED BY <4>1, <4>2
    <3> QED BY <3>1, <3>2
  <2> QED BY <2>1, <2>2
<1>9. \A v : (\E k \in 1..n : right[k] = v) <=> \E k \in 1..n : r[k] = v
  <2>1. ASSUME NEW k \in 1..n PROVE \E j \in 1..n : right[k] = r[j]
    BY <1>6, <1>7
  <2>2. ASSUME NEW k \in 1..n PROVE \E j \in 1..n : r[k] = right[j]
    <3>1. CASE k = n
      BY <1>6, <1>7, <3>1
    <3>2. CASE k # n
      <4>1. k + 1 \in 1..n /\ (k + 1) - 1 = k /\ k + 1 # 1
        BY <1>7, <3>2
      <4>2. right[k + 1] = r[k]
        BY <1>6, <4>1
      <4> QED BY <4>1, <4>2
    <3> QED BY <3>1, <3>2
  <2> QED BY <2>1, <2>2
<1>10. left[1] = r[2] /\ right[1] = r[n]
  BY <1>5, <1>6, <1>7
<1> QED BY <1>1, <1>5, <1>6, <1>7, <1>8, <1>9, <1>10 DEF n, left, right

\* A turned ring has the same values, and the storage takes its front.
LEMMA TurnPast ==
  ASSUME IInv, IInv', PastInv, ~T!InTransaction, NEW step \in SUBSET Attr,
         \A a \in Attr : Count(undos', a) = Count(undos, a),
         \A a \in Attr \ step : values'[a] = values[a] /\ storage'[a] = storage[a],
         \A a \in step :
           /\ Len(values[a]) >= 2 /\ Len(values'[a]) = Len(values[a])
           /\ storage'[a] = values'[a][1]
           /\ \E k \in DOMAIN values[a] : storage'[a] = values[a][k]
           /\ \A v : (\E k \in DOMAIN values'[a] : values'[a][k] = v)
                       <=> \E k \in DOMAIN values[a] : values[a][k] = v,
         UNCHANGED <<transactions, stored, used, created, finaltr_items, locked,
                     read_count, write_count, uptodate, refused>>
  PROVE  PastInv'
<1>1. /\ Root \in stored /\ RingTargetsStored /\ GarbageOK /\ StorageAgrees
      /\ created = {} /\ refused \in [Object -> Nat]
  BY DEF PastInv, CreatedOK, IInv, TypeOK
<1>2. transactions = <<>>
  BY Idle
<1>3. \A a \in Attr : OpenWrites(a)' = 0
  BY <1>2, NoOpenWrites
<1>4. \A a \in Attr : OpenWrites(a) = 0
  BY <1>2, <1>3 DEF OpenWrites
<1>5. \A a \in Attr : values[a] # <<>> => storage[a] = values[a][1]
  <2>1. 0 + 1 = 1
    OBVIOUS
  <2> QED BY <1>1, <1>4, <2>1 DEF StorageAgrees
<1>6. StorageAgrees'
  <2>1. ASSUME NEW a \in Attr, values'[a] # <<>> PROVE storage'[a] = values'[a][1]
    <3>1. CASE a \in step
      BY <3>1
    <3>2. CASE a \notin step
      BY <1>5, <2>1, <3>2
    <3> QED BY <3>1, <3>2
  <2>2. 0 + 1 = 1
    OBVIOUS
  <2> QED BY <1>3, <2>1, <2>2 DEF StorageAgrees
<1>7. ASSUME NEW a \in Attr, Len(values'[a]) >= 2
      PROVE  /\ Len(values[a]) >= 2
             /\ \A k \in DOMAIN values'[a] : \E j \in DOMAIN values[a] : values'[a][k] = values[a][j]
  <2>1. CASE a \in step
    <3>1. \A v : (\E k \in DOMAIN values'[a] : values'[a][k] = v)
                   => \E k \in DOMAIN values[a] : values[a][k] = v
      BY <2>1
    <3>2. ASSUME NEW k \in DOMAIN values'[a]
          PROVE  \E j \in DOMAIN values[a] : values'[a][k] = values[a][j]
      <4>1. \E j \in DOMAIN values'[a] : values'[a][j] = values'[a][k]
        OBVIOUS
      <4> QED BY <3>1, <4>1
    <3> QED BY <2>1, <3>2
  <2>2. CASE a \notin step
    BY <1>7, <2>2
  <2> QED BY <2>1, <2>2
<1>8. RingTargetsStored'
  BY <1>1, <1>7, TargetsStay
<1>9. \A x \in Object : IsLoaded(x)' <=> IsLoaded(x)
  BY DEF IsLoaded, IsEmpty
<1>10. GoneOK'
  <2>1. \A a \in Attr : \/ storage'[a] = storage[a]
                        \/ Len(values[a]) >= 2 /\ \E k \in DOMAIN values[a] : storage'[a] = values[a][k]
    OBVIOUS
  <2> QED BY <1>9, <2>1, GoneStays
<1>11. CreatedOK'
  BY <1>1 DEF CreatedOK
<1>12. UpToDateOK'
  <2>1. ASSUME NEW x \in stored \ {Root}, ~IsLoaded(x), NEW p \in Pointer
        PROVE  storage'[<<x, p>>] = storage[<<x, p>>]
    <3> DEFINE a == <<x, p>>
    <3>1. x \in Object
      BY DEF IInv, TypeOK
    <3>2. a \in Attr /\ Owner[a] = x
      BY <2>1, <3>1 DEF Attr, Owner
    <3> HIDE DEF a
    <3>3. values[a] = <<>>
      BY <2>1, <3>2 DEF IInv, LoadedOK
    <3>4. Len(<<>>) = 0 /\ ~(0 >= 2)
      OBVIOUS
    <3>5. a \notin step
      BY <3>3, <3>4
    <3> QED BY <3>2, <3>5 DEF a
  <2> SUFFICES ASSUME NEW o \in Object, NEW p \in Pointer, <<o, p>> \in uptodate',
                      NEW x \in stored' \ {Root}, ~IsLoaded(x)'
               PROVE  storage'[<<x, p>>] # o
    BY DEF UpToDateOK
  <2>2. x \in stored \ {Root} /\ ~IsLoaded(x) /\ <<o, p>> \in uptodate
    <3>1. x \in Object
      BY DEF IInv, TypeOK
    <3> QED BY <1>9, <3>1
  <2>3. storage[<<x, p>>] # o
    BY <2>2 DEF PastInv, UpToDateOK
  <2> QED BY <2>1, <2>2, <2>3
<1>13. GarbageOK'
  <2> SUFFICES ASSUME NEW o \in stored \ {Root}, \A a \in AttrsOf(o) : storage'[a] = Null
               PROVE  refused'[o] > 0 \/ Returnable(o)'
    BY DEF GarbageOK
  <2>1. HasPlace(values, o) => HasPlace(values', o)
    BY DEF HasPlace
  <2>2. CASE \E a \in AttrsOf(o) : a \in step
    <3>1. PICK a \in Attr : Owner[a] = o /\ a \in step
      BY <2>2 DEF AttrsOf
    <3>2. HasPlace(values, o)
      BY <3>1 DEF HasPlace
    <3> QED BY <1>3, <2>1, <3>2, ThenReturnable
  <2>3. CASE \A a \in AttrsOf(o) : a \notin step
    <3>1. \A a \in AttrsOf(o) : storage[a] = Null
      BY <2>3 DEF AttrsOf
    <3>2. refused[o] > 0 \/ Returnable(o)
      BY <1>1, <3>1 DEF GarbageOK
    <3>3. Returnable(o) => HasPlace(values, o)
      BY NowReturnable
    <3>4. HasPlace(values', o) => Returnable(o)'
      BY <1>3, ThenReturnable
    <3> QED BY <2>1, <3>2, <3>3, <3>4
  <2> QED BY <2>2, <2>3
<1> QED BY <1>1, <1>6, <1>8, <1>10, <1>11, <1>12, <1>13 DEF PastInv

LEMMA UndoPast ==
  ASSUME IInv, IInv', PastInv, UndoTransaction
  PROVE  PastInv'
<1> DEFINE step == undos[1]
<1>1. /\ ~T!InTransaction /\ Len(undos) > redo_count
      /\ storage' = [a \in Attr |-> IF a \in step THEN values[a][2] ELSE storage[a]]
      /\ values' = [a \in Attr |-> IF a \in step THEN T!RotateLeft(values[a]) ELSE values[a]]
      /\ undos' = T!RotateLeft(undos)
      /\ UNCHANGED <<transactions, stored, used, created, finaltr_items, locked,
                     read_count, write_count, uptodate, refused>>
  BY DEF UndoTransaction, T!MayUndo, T!Undone, lockVars
<1>2. undos \in Seq(SUBSET Attr) /\ redo_count \in Nat
  BY Facts
<1>3. undos # <<>> /\ step \in SUBSET Attr /\ undos' = Tail(undos) \o <<undos[1]>>
  BY <1>1, <1>2 DEF T!RotateLeft
<1>4. \A a \in Attr : Count(undos', a) = Count(undos, a)
  BY <1>2, <1>3, CountOfRotation
<1>5. \A a \in step : Len(values[a]) >= 2
  <2>1. ASSUME NEW a \in step PROVE Count(undos, a) > 0
    <3>1. Count(undos, a) = Count(Tail(undos), a) + 1
      BY <1>2, <1>3, CountOfTail
    <3>2. Tail(undos) \in Seq(SUBSET Attr)
      BY <1>2, <1>3
    <3>3. Count(Tail(undos), a) \in Nat
      BY <3>2, CountType
    <3> QED BY <3>1, <3>3
  <2> QED BY <1>3, <2>1, StepKeepsLoaded
<1> HIDE DEF step
<1>6. ASSUME NEW a \in step
      PROVE  /\ Len(values'[a]) = Len(values[a])
             /\ storage'[a] = values'[a][1]
             /\ \E k \in DOMAIN values[a] : storage'[a] = values[a][k]
             /\ \A v : (\E k \in DOMAIN values'[a] : values'[a][k] = v)
                         <=> \E k \in DOMAIN values[a] : values[a][k] = v
  <2> DEFINE r == values[a]
             s == T!RotateLeft(r)
  <2>1. a \in Attr
    BY <1>3
  <2>2. r \in Seq(Target) /\ Len(r) >= 2
    BY <1>5, <2>1, Facts
  <2>3. values'[a] = s /\ storage'[a] = r[2]
    BY <1>1, <2>1
  <2> HIDE DEF r
  <2>4. Len(s) = Len(r)
    BY <2>2, Turned
  <2>5. /\ \A v : (\E k \in DOMAIN s : s[k] = v) <=> \E k \in DOMAIN r : r[k] = v
        /\ s[1] = r[2] /\ 2 \in DOMAIN r
    BY <2>2, TurnedMembers
  <2> HIDE DEF s
  <2> QED BY <2>3, <2>4, <2>5 DEF r
<1>7. \A a \in Attr \ step : values'[a] = values[a] /\ storage'[a] = storage[a]
  BY <1>1
<1> QED BY <1>1, <1>3, <1>4, <1>5, <1>6, <1>7, TurnPast

LEMMA RedoPast ==
  ASSUME IInv, IInv', PastInv, RedoTransaction
  PROVE  PastInv'
<1> DEFINE step == undos[Len(undos)]
<1>1. /\ ~T!InTransaction /\ redo_count > 0
      /\ storage' = [a \in Attr |-> IF a \in step THEN values[a][Len(values[a])] ELSE storage[a]]
      /\ values' = [a \in Attr |-> IF a \in step THEN T!RotateRight(values[a]) ELSE values[a]]
      /\ undos' = T!RotateRight(undos)
      /\ UNCHANGED <<transactions, stored, used, created, finaltr_items, locked,
                     read_count, write_count, uptodate, refused>>
  BY DEF RedoTransaction, T!MayRedo, T!Redone, lockVars
<1>2. undos \in Seq(SUBSET Attr) /\ redo_count \in Nat /\ redo_count <= Len(undos)
  BY <1>1, Facts, Idle
<1>3. /\ undos # <<>> /\ step \in SUBSET Attr
      /\ undos' = <<undos[Len(undos)]>> \o SubSeq(undos, 1, Len(undos) - 1)
      /\ Len(undos) \in Nat /\ Len(undos) >= 1
  BY <1>1, <1>2 DEF T!RotateRight
<1>4. \A a \in Attr : Count(undos', a) = Count(undos, a)
  BY <1>2, <1>3, CountOfRotation
<1> HIDE DEF step
<1>5. \A a \in step : Len(values[a]) >= 2
  <2> DEFINE front == SubSeq(undos, 1, Len(undos) - 1)
  <2>1. front \in Seq(SUBSET Attr)
    BY <1>2, <1>3
  <2>2. undos' = <<step>> \o front
    BY <1>3 DEF step
  <2> HIDE DEF front
  <2>3. ASSUME NEW a \in step PROVE Count(undos, a) > 0
    <3>1. Count(<<step>> \o front, a) = Count(front, a) + (IF a \in step THEN 1 ELSE 0)
      BY <1>3, <2>1, CountOfPrepend, SMTT(30)
    <3>2. Count(undos', a) = Count(front, a) + 1
      BY <2>2, <3>1
    <3>3. Count(front, a) \in Nat
      BY <2>1, CountType
    <3>4. a \in Attr
      BY <1>3
    <3> QED BY <1>4, <3>2, <3>3, <3>4
  <2> QED BY <1>3, <2>3, StepKeepsLoaded
<1>6. ASSUME NEW a \in step
      PROVE  /\ Len(values'[a]) = Len(values[a])
             /\ storage'[a] = values'[a][1]
             /\ \E k \in DOMAIN values[a] : storage'[a] = values[a][k]
             /\ \A v : (\E k \in DOMAIN values'[a] : values'[a][k] = v)
                         <=> \E k \in DOMAIN values[a] : values[a][k] = v
  <2> DEFINE r == values[a]
             s == T!RotateRight(r)
             m == Len(r)
  <2>1. a \in Attr
    BY <1>3
  <2>2. r \in Seq(Target) /\ Len(r) >= 2
    BY <1>5, <2>1, Facts
  <2>3. values'[a] = s /\ storage'[a] = r[m]
    BY <1>1, <2>1
  <2> HIDE DEF r
  <2>4. Len(s) = Len(r)
    BY <2>2, Turned
  <2>5. /\ \A v : (\E k \in DOMAIN s : s[k] = v) <=> \E k \in DOMAIN r : r[k] = v
        /\ s[1] = r[m] /\ m \in DOMAIN r
    BY <2>2, TurnedMembers
  <2> HIDE DEF s, m
  <2> QED BY <2>3, <2>4, <2>5 DEF r
<1>7. \A a \in Attr \ step : values'[a] = values[a] /\ storage'[a] = storage[a]
  BY <1>1
<1> QED BY <1>1, <1>3, <1>4, <1>5, <1>6, <1>7, TurnPast

\* Nothing has written yet, and what is not in the storage points nowhere.
LEMMA InitPast == Init => PastInv
<1> SUFFICES ASSUME Init PROVE PastInv
  OBVIOUS
<1>1. IInv
  BY InitInv
<1>2. PICK S \in SUBSET (Object \ {Root}) :
        /\ stored = S \cup {Root}
        /\ storage \in [Attr -> stored \cup {Null}]
        /\ \A o \in Object \ {Root} : o \in S <=> \E a \in AttrsOf(o) : storage[a] # Null
  BY DEF Init
<1>3. /\ values = [a \in Attr |-> <<>>] /\ undos = <<>> /\ used = stored /\ created = {}
      /\ uptodate = {} /\ locked = {}
      /\ read_count = [o \in Object |-> 0] /\ write_count = [o \in Object |-> 0]
  BY DEF Init
<1>4. \A a \in Attr : values[a] = <<>> /\ ~(Len(values[a]) >= 2)
  <2>1. Len(<<>>) = 0 /\ ~(0 >= 2)
    OBVIOUS
  <2> QED BY <1>3, <2>1
<1>5. Root \in stored /\ StorageAgrees /\ RingTargetsStored /\ CreatedOK /\ UpToDateOK
  BY <1>2, <1>3, <1>4 DEF StorageAgrees, RingTargetsStored, CreatedOK, UpToDateOK
<1>6. GoneOK
  <2> SUFFICES ASSUME NEW x \in Object \ stored
               PROVE  (\A a \in AttrsOf(x) : storage[a] = Null) /\ \A a \in Attr : storage[a] # x
    BY DEF GoneOK
  <2>1. \A a \in AttrsOf(x) : storage[a] = Null
    BY <1>2
  <2>2. \A a \in Attr : storage[a] # x
    BY <1>2, ObjectsAssumption
  <2> QED BY <2>1, <2>2
<1>7. GarbageOK
  BY <1>2 DEF GarbageOK
<1> QED BY <1>5, <1>6, <1>7 DEF PastInv

\* A new object has no pointers in the storage, and nothing knows it.
LEMMA CreateObjectPast ==
  ASSUME IInv, IInv', PastInv, NEW o \in Object, CreateObject(o)
  PROVE  PastInv' /\ values' = Filled({o}, storage)
<1>1. /\ T!InTransaction /\ o \notin used /\ used' = used \cup {o} /\ stored' = stored \cup {o}
      /\ created' = created \cup {o}
      /\ values' = [a \in Attr |-> IF Owner[a] = o THEN <<Null>> ELSE values[a]]
      /\ locked' = locked \cup {o} /\ finaltr_items' = finaltr_items \cup {o}
      /\ UNCHANGED <<transactions, undos, storage, read_count, write_count, uptodate, refused>>
  BY DEF CreateObject, T!InWriteTransaction, levelVars
<1>2. /\ ~IsLoaded(o) /\ stored \subseteq used /\ stored \subseteq Object /\ refused \in [Object -> Nat]
      /\ refused' \in [Object -> Nat]
      /\ Root \in stored /\ RingTargetsStored /\ StorageAgrees /\ GoneOK /\ CreatedOK /\ UpToDateOK
      /\ GarbageOK
  BY <1>1 DEF IInv, UsedOK, TypeOK, PastInv
<1>3. o \notin stored /\ o # Root
  BY <1>1, <1>2
<1>4. (\A a \in AttrsOf(o) : storage[a] = Null) /\ \A a \in Attr : storage[a] # o
  BY <1>1, <1>2, <1>3 DEF GoneOK
<1>5. \A a \in Attr : Owner[a] = o => values[a] = <<>>
  BY <1>2 DEF IInv, LoadedOK
<1>6. values' = Filled({o}, storage)
  <2>1. ASSUME NEW a \in Attr
        PROVE  (IF Owner[a] = o THEN <<Null>> ELSE values[a])
                 = IF Owner[a] \in {o} /\ values[a] = <<>> THEN <<storage[a]>> ELSE values[a]
    BY <1>4, <1>5 DEF AttrsOf
  <2> QED BY <1>1, <2>1 DEF Filled
<1>7. /\ \A a \in Attr : Count(undos', a) = Count(undos, a)
      /\ {o} \in SUBSET Object /\ storage' = storage
  BY <1>1
<1>8. AgedTo(values')
  BY <1>2, <1>6, <1>7, FilledAges
<1>9. /\ StorageAgrees'
      /\ \A a \in Attr : PastOf(a)' \subseteq PastOf(a) \cup {storage[a]}
      /\ \A a \in Attr : Count(undos, a) > 0 => PastOf(a)' = PastOf(a)
  BY <1>2, <1>7, <1>8, AgedKeeps
<1>10. RingTargetsStored'
  <2>1. \A a \in Attr : Len(values'[a]) >= 2 => Len(values[a]) >= 2 /\ values'[a] = values[a]
    <3>1. Len(<<Null>>) = 1 /\ ~(1 >= 2)
      OBVIOUS
    <3> QED BY <1>1, <3>1
  <2> QED BY <1>1, <1>2, <2>1 DEF RingTargetsStored
<1>11. GoneOK'
  <2>1. \A x \in Object \ stored' : x # o /\ x \notin stored
    BY <1>1
  <2>2. \A x \in Object \ stored' : IsLoaded(x)' \/ x \notin used' => IsLoaded(x) \/ x \notin used
    BY <1>1, <2>1 DEF IsLoaded, IsEmpty
  <2> QED BY <1>1, <1>2, <2>1, <2>2 DEF GoneOK
<1>12. \A a \in Attr : o \notin PastOf(a)
  <2> SUFFICES ASSUME NEW a \in Attr, o \in PastOf(a) PROVE FALSE
    OBVIOUS
  <2>1. RingFacts(values[a], OpenWrites(a), Count(undos, a), PastOf(a))
    BY <1>2, FactsNow
  <2> DEFINE ring == values[a]
             open == OpenWrites(a)
             n == Count(undos, a)
  <2>2. /\ ring # <<>> /\ Len(ring) = open + n + 1 /\ open \in Nat /\ n \in Nat /\ ring \in Seq(Target)
        /\ PastOf(a) = {ring[open + k] : k \in 1..(n + 1)}
    BY <2>1 DEF RingFacts
  <2>3. PICK k \in 1..(n + 1) : o = ring[open + k]
    BY <2>2
  <2>4. storage[a] = ring[open + 1]
    BY <1>2, <2>2 DEF StorageAgrees
  <2>5. Len(ring) >= 2 => \A i \in DOMAIN ring : ring[i] \in stored \cup {Null}
    BY <1>2 DEF RingTargetsStored
  <2>6. o # Null /\ o \notin stored /\ storage[a] # o
    BY <1>3, <1>4, ObjectsAssumption
  <2> HIDE DEF ring, open, n
  <2>7. CASE Len(ring) >= 2
    <3>1. open + k \in DOMAIN ring
      BY <2>2, <2>3
    <3> QED BY <2>3, <2>5, <2>6, <2>7, <3>1
  <2>8. CASE ~(Len(ring) >= 2)
    <3>1. k = 1
      BY <2>2, <2>3, <2>8
    <3> QED BY <2>3, <2>4, <2>6, <3>1
  <2> QED BY <2>7, <2>8
<1>13. CreatedOK'
  <2>1. created \subseteq (stored \cap finaltr_items) \ {Root}
        /\ \A x \in created :
             /\ \A a \in AttrsOf(x) : Count(undos, a) = 0 /\ storage[a] = Null
             /\ \A a \in Attr : storage[a] # x /\ x \notin PastOf(a)
    BY <1>2 DEF CreatedOK
  <2>2. T!InTransaction'
    BY <1>1 DEF T!InTransaction
  <2>3. created' \subseteq (stored' \cap finaltr_items') \ {Root}
    BY <1>1, <1>3, <2>1
  <2>4. \A a \in AttrsOf(o) : Count(undos, a) = 0
    <3> SUFFICES ASSUME NEW a \in AttrsOf(o) PROVE Count(undos, a) = 0
      OBVIOUS
    <3>1. a \in Attr /\ Owner[a] = o
      BY DEF AttrsOf
    <3>2. ~(Count(undos, a) > 0) /\ Count(undos, a) \in Nat
      BY <1>2, <3>1, StepKeepsLoaded, Facts
    <3> QED BY <3>2
  <2>5. ASSUME NEW x \in created'
        PROVE  /\ \A a \in AttrsOf(x) : Count(undos, a) = 0 /\ storage[a] = Null
               /\ \A a \in Attr : storage[a] # x /\ x \notin PastOf(a)
    BY <1>1, <1>4, <1>12, <2>1, <2>4
  <2>6. ASSUME NEW x \in created', NEW a \in Attr PROVE x \notin PastOf(a)'
    BY <1>9, <2>5, <2>6
  <2>7. ASSUME NEW x \in created'
        PROVE  /\ \A a \in AttrsOf(x) : Count(undos', a) = 0 /\ storage'[a] = Null
               /\ \A a \in Attr : storage'[a] # x /\ x \notin PastOf(a)'
    BY <1>1, <2>5, <2>6
  <2> QED BY <2>2, <2>3, <2>7 DEF CreatedOK
<1>14. UpToDateOK'
  <2> SUFFICES ASSUME NEW y \in Object, NEW p \in Pointer, <<y, p>> \in uptodate',
                      NEW x \in stored' \ {Root}, ~IsLoaded(x)'
               PROVE  storage'[<<x, p>>] # y
    BY DEF UpToDateOK
  <2>1. x # o /\ x \in stored \ {Root} /\ ~IsLoaded(x)
    BY <1>1 DEF IsLoaded, IsEmpty
  <2> QED BY <1>1, <1>2, <2>1 DEF UpToDateOK
<1>15. GarbageOK'
  <2>1. \A x \in Object : refused'[x] >= refused[x]
    BY <1>1, <1>2
  <2>2. stored' \ created' \subseteq stored \ created
    BY <1>1
  <2> QED BY <1>2, <1>7, <1>9, <2>1, <2>2, GarbageStays
<1> QED BY <1>1, <1>2, <1>6, <1>9, <1>10, <1>11, <1>13, <1>14, <1>15 DEF PastInv

-----------------------------------------------------------------------------
(* Writing                                                                 *)

\* A write puts its value before those that are older than the transaction.
LEMMA PutAges ==
  ASSUME IInv, IInv', StorageAgrees, T!InTransaction, NEW o \in Object,
         NEW attrs \in SUBSET AttrsOf(o), NEW v \in Target,
         NEW objs \in SUBSET Object, IsLoaded(o) \/ o \in objs,
         values' = Putting(Filled(objs, storage), attrs, v), undos' = undos
  PROVE  AgedTo(values')
<1> SUFFICES ASSUME NEW a \in Attr, values'[a] # <<>>, NEW k \in 1..(Count(undos, a) + 1)
             PROVE  values'[a][OpenWrites(a)' + k]
                      = IF values[a] = <<>> THEN storage[a] ELSE values[a][OpenWrites(a) + k]
  BY DEF AgedTo
<1> DEFINE ring == values[a]
           before == Filled(objs, storage)[a]
           after == values'[a]
           open == OpenWrites(a)
           next == OpenWrites(a)'
           n == Count(undos, a)
           old == IF ring = <<>> THEN storage[a] ELSE ring[open + k]
<1>1. /\ ring = <<>> => open = 0 /\ n = 0
      /\ ring # <<>> => Len(ring) = open + n + 1
      /\ open \in Nat /\ n \in Nat
  BY FactsNow DEF RingFacts
<1>2. Len(after) = next + n + 1 /\ next \in Nat
  <2>1. RingFacts(values'[a], OpenWrites(a)', Count(undos', a), PastOf(a)')
    BY FactsThen
  <2> QED BY <2>1 DEF RingFacts
<1>3. before = IF Owner[a] \in objs /\ ring = <<>> THEN <<storage[a]>> ELSE ring
  BY DEF Filled
<1>4. PutFacts(before, after, attrs, v, a)
  BY PutRingsOK
<1>5. a \in dirty => open >= 1
  <2>1. /\ Older(a) = Count(Items(Rest), a) + (IF a \in dirty THEN 1 ELSE 0) + Count(undos, a)
        /\ Count(Items(Rest), a) \in Nat
    BY Stack
  <2>2. Older(a) = open + n
    BY DEF Older, OpenWrites
  <2> HIDE DEF open, n
  <2> QED BY <1>1, <2>1, <2>2 DEF n
<1>6. after # <<>> /\ k \in 1..(n + 1)
  OBVIOUS
<1>7. before \in Seq(Target) /\ after \in Seq(Target)
  BY <1>4 DEF PutFacts
<1> HIDE DEF ring, before, after, open, next, n
<1>8. before # <<>> => Len(before) = open + n + 1 /\ before[open + k] = old
  <2>1. CASE ring = <<>>
    <3>1. ASSUME before # <<>> PROVE before = <<storage[a]>>
      BY <1>3, <2>1, <3>1
    <3>2. Len(<<storage[a]>>) = 1 /\ <<storage[a]>>[1] = storage[a]
      OBVIOUS
    <3>3. open + n + 1 = 1 /\ open + k = 1
      BY <1>1, <1>6, <2>1
    <3> QED BY <2>1, <3>1, <3>2, <3>3
  <2>2. CASE ring # <<>>
    BY <1>1, <1>3, <2>2
  <2> QED BY <2>1, <2>2
<1> HIDE DEF old
<1>9. after[next + k] = old
  <2>1. CASE a \notin attrs
    <3>1. after = before
      BY <1>4, <2>1 DEF PutFacts
    <3>2. before # <<>> /\ Len(before) = next + n + 1 /\ Len(before) = open + n + 1
      <4>1. before # <<>>
        BY <1>6, <3>1, Zenon
      <4>2. Len(before) = next + n + 1
        BY <1>2, <3>1, Zenon
      <4> QED BY <1>8, <4>1, <4>2, Zenon
    <3>3. \A i, j, m \in Nat : i + m + 1 = j + m + 1 => i = j
      OBVIOUS
    <3>4. next = open
      BY <1>1, <1>2, <3>2, <3>3
    <3> QED BY <1>8, <3>1, <3>2, <3>4
  <2>2. CASE a \in attrs /\ a \in dirty
    <3>1. before # <<>> /\ after = <<v>> \o Tail(before) /\ Len(after) = Len(before)
      BY <1>4, <2>2 DEF PutFacts
    <3>2. next = open /\ open + k >= 2 /\ open + k \in 1..Len(before)
      <4> DEFINE l == Len(before)
      <4>1. l = open + n + 1 /\ l = next + n + 1 /\ open >= 1
        BY <1>2, <1>5, <1>8, <2>2, <3>1
      <4> HIDE DEF l
      <4>2. next = open /\ open + k >= 2 /\ open + k \in 1..l
        BY <1>1, <1>2, <1>6, <4>1
      <4> QED BY <4>2 DEF l
    <3>3. \A i \in 2..Len(before) : (<<v>> \o Tail(before))[i] = before[i]
      BY <1>7, <3>1
    <3> QED BY <1>8, <3>1, <3>2, <3>3
  <2>3. CASE a \in attrs /\ a \notin dirty
    <3>1. before # <<>> /\ after = <<v>> \o before /\ Len(after) = Len(before) + 1
      BY <1>4, <2>3 DEF PutFacts
    <3>2. next = open + 1 /\ open + k \in 1..Len(before) /\ next + k = (open + k) + 1
      <4> DEFINE l == Len(before)
                 m == Len(after)
      <4>1. l = open + n + 1 /\ m = l + 1 /\ m = next + n + 1
        BY <1>2, <1>8, <3>1
      <4> HIDE DEF l, m
      <4>2. next = open + 1 /\ open + k \in 1..l /\ next + k = (open + k) + 1
        BY <1>1, <1>2, <1>6, <4>1
      <4> QED BY <4>2 DEF l
    <3>3. \A i \in 1..Len(before) : (<<v>> \o before)[i + 1] = before[i]
      BY <1>7, <3>1
    <3> QED BY <1>8, <3>1, <3>2, <3>3
  <2> QED BY <2>1, <2>2, <2>3
<1> QED BY <1>9 DEF ring, after, open, next, n, old

\* What a ring has in it after a write
LEMMA PutMembers ==
  ASSUME NEW before, NEW after, NEW attrs, NEW v \in Target, NEW a \in attrs,
         PutFacts(before, after, attrs, v, a)
  PROVE  /\ \A k \in DOMAIN after : after[k] = v \/ \E j \in DOMAIN before : after[k] = before[j]
         /\ a \notin dirty => 2 \in DOMAIN after /\ after[2] = before[1]
<1>1. before \in Seq(Target) /\ after \in Seq(Target) /\ before # <<>>
  BY DEF PutFacts
<1>2. CASE a \in dirty
  <2>1. after = <<v>> \o Tail(before) /\ Len(after) = Len(before)
    BY <1>2 DEF PutFacts
  <2>2. \A k \in 2..Len(before) : (<<v>> \o Tail(before))[k] = before[k]
    BY <1>1
  <2>3. (<<v>> \o Tail(before))[1] = v
    BY <1>1
  <2>4. \A k \in DOMAIN after : k = 1 \/ k \in 2..Len(before)
    BY <1>1, <2>1
  <2>5. \A k \in 2..Len(before) : k \in DOMAIN before
    BY <1>1
  <2> QED BY <1>2, <2>1, <2>2, <2>3, <2>4, <2>5
<1>3. CASE a \notin dirty
  <2>1. after = <<v>> \o before /\ Len(after) = Len(before) + 1
    BY <1>3 DEF PutFacts
  <2>2. \A k \in 1..Len(before) : (<<v>> \o before)[k + 1] = before[k]
    BY <1>1
  <2>3. (<<v>> \o before)[1] = v
    BY <1>1
  <2>4. /\ \A k \in DOMAIN after : k = 1 \/ (k - 1 \in 1..Len(before) /\ (k - 1) + 1 = k)
        /\ \A k \in 1..Len(before) : k \in DOMAIN before
        /\ 1 \in 1..Len(before) /\ 1 + 1 = 2 /\ 2 \in DOMAIN after
    <3>1. Len(before) \in Nat /\ Len(before) >= 1 /\ DOMAIN before = 1..Len(before)
      BY <1>1
    <3>2. DOMAIN after = 1..(Len(before) + 1)
      BY <1>1, <2>1
    <3> QED BY <3>1, <3>2
  <2>5. ASSUME NEW k \in DOMAIN after, k # 1
        PROVE  \E j \in DOMAIN before : after[k] = before[j]
    <3>1. k - 1 \in 1..Len(before) /\ (k - 1) + 1 = k
      BY <2>4, <2>5
    <3>2. after[k] = before[k - 1]
      BY <2>1, <2>2, <3>1
    <3> QED BY <2>4, <3>1, <3>2
  <2>6. after[2] = before[1]
    BY <2>1, <2>2, <2>4
  <2> QED BY <2>1, <2>3, <2>4, <2>5, <2>6
<1> QED BY <1>2, <1>3

\* The old value that a write keeps in the ring is locked by it, and what is
\* locked is in the storage or has been in memory since it was.
LEMMA PutAllPast ==
  ASSUME IInv, IInv', PastInv, T!InTransaction, T!InTransaction', NEW o \in stored,
         NEW attrs \in SUBSET AttrsOf(o), NEW v \in stored \cup {Null},
         PutAll(o, attrs, v), UNCHANGED refused
  PROVE  PastInv' /\ AgedTo(values')
<1> DEFINE objs == NeedsLoad(PutReads(o, attrs), PutWrites(o, attrs, v))
                   \cup (IF IsLoaded(o) THEN {} ELSE {o})
<1>1. /\ attrs \in SUBSET Attr /\ \A a \in attrs : a \in Attr /\ Owner[a] = o
      /\ stored \subseteq Object /\ o \in Object /\ v \in Target /\ storage \in [Attr -> Target]
  BY DEF AttrsOf, IInv, TypeOK, Target
<1>2. /\ objs \subseteq stored
      /\ read_count' = PutReads(o, attrs) /\ write_count' = PutWrites(o, attrs, v)
      /\ locked' = locked \cup objs
      /\ finaltr_items' = finaltr_items \cup objs \cup {o}
      /\ values' = Putting(Filled(objs, storage), attrs, v)
      /\ UNCHANGED <<undos, storage, used, created, stored, uptodate>>
  BY <1>1, PutAllDoes
<1>3. /\ NeedsLoad(read_count', write_count') \subseteq objs
      /\ IsLoaded(o) \/ o \in objs
      /\ objs \in SUBSET Object
  BY <1>1, <1>2 DEF NeedsLoad
<1> HIDE DEF objs
<1>4. StorageAgrees /\ RingTargetsStored /\ GoneOK
  BY DEF PastInv
<1>5. \A x \in Object : IsLoaded(x)' <=> IsLoaded(x) \/ x \in objs
  <2>1. /\ read_count \in [Object -> Nat] /\ write_count \in [Object -> Nat]
        /\ read_count' \in [Object -> Nat] /\ write_count' \in [Object -> Nat]
    BY DEF IInv, TypeOK
  <2> QED BY <1>2, <1>3, <2>1, NeedsLoadOK
<1>6. AgedTo(values')
  BY <1>1, <1>2, <1>3, <1>4, PutAges
<1>7. StorageAgrees' /\ CreatedOK' /\ GarbageOK' /\ (Root \in stored)'
  <2>1. \A a \in Attr : Count(undos', a) = Count(undos, a)
    BY <1>2
  <2>2. \A x \in Object : refused'[x] >= refused[x]
    BY DEF IInv, TypeOK
  <2>3. finaltr_items \subseteq finaltr_items' /\ UNCHANGED <<storage, stored, created>>
    BY <1>2
  <2> QED BY <1>6, <2>1, <2>2, <2>3, InsideOK
<1>8. RingTargetsStored'
  <2> SUFFICES ASSUME NEW a \in Attr, Len(values'[a]) >= 2
               PROVE  /\ Owner[a] \in stored
                      /\ \A k \in DOMAIN values'[a] : values'[a][k] \in stored \cup {Null}
    BY <1>2 DEF RingTargetsStored
  <2> DEFINE before == Filled(objs, storage)[a]
             after == values'[a]
  <2>1. PutFacts(before, after, attrs, v, a)
    BY <1>1, <1>2, <1>3, PutRingsOK
  <2>2. /\ Len(values[a]) >= 2 <=> Len(before) >= 2
        /\ Len(values[a]) >= 2 => before = values[a]
    BY <1>1, <1>3, FilledOK
  <2>3. Len(before) >= 2 =>
          Owner[a] \in stored /\ \A k \in DOMAIN before : before[k] \in stored \cup {Null}
    BY <1>4, <2>2 DEF RingTargetsStored
  <2> HIDE DEF before
  <2>4. CASE a \notin attrs
    BY <2>1, <2>3, <2>4 DEF PutFacts
  <2>5. CASE a \in attrs /\ Len(before) >= 2
    <3>1. \A k \in DOMAIN after : after[k] = v \/ \E j \in DOMAIN before : after[k] = before[j]
      BY <1>1, <2>1, <2>5, PutMembers
    <3> QED BY <1>1, <2>3, <2>5, <3>1
  <2>6. CASE a \in attrs /\ ~(Len(before) >= 2)
    <3> DEFINE x == Current(a)
    <3>1. /\ \A k \in DOMAIN after : after[k] = v \/ \E j \in DOMAIN before : after[k] = before[j]
          /\ a \notin dirty => 2 \in DOMAIN after /\ after[2] = before[1]
      BY <1>1, <2>1, <2>6, PutMembers
    <3>2. a \notin dirty /\ LocksSelf(a) /\ before = <<x>> /\ x \in Target
      BY <2>1, <2>6 DEF PutFacts
    <3>3. <<x>>[1] = x /\ DOMAIN <<x>> = {1}
      OBVIOUS
    <3>4. x = storage[a]
      <4>1. CASE values[a] = <<>>
        BY <4>1 DEF Current
      <4>2. CASE values[a] # <<>>
        <5>1. RingFacts(values[a], OpenWrites(a), Count(undos, a), PastOf(a))
          BY FactsNow
        <5> DEFINE m == Len(values[a])
                   open == OpenWrites(a)
                   n == Count(undos, a)
        <5>2. m \in Nat /\ m = open + n + 1 /\ open \in Nat /\ n \in Nat /\ ~(m >= 2)
          BY <2>2, <2>6, <4>2, <5>1 DEF RingFacts
        <5>3. storage[a] = values[a][open + 1]
          BY <1>4, <4>2 DEF StorageAgrees
        <5>4. x = values[a][1]
          BY <4>2 DEF Current
        <5> HIDE DEF m, open, n, x
        <5>5. open + 1 = 1
          BY <5>2
        <5> QED BY <5>3, <5>4, <5>5
      <4> QED BY <4>1, <4>2
    <3> HIDE DEF x
    <3>5. x \in stored \cup {Null}
      <4> SUFFICES ASSUME NEW y \in Object, y = x, y \notin stored PROVE FALSE
        BY <3>2 DEF Target
      <4>1. HasPlace(values', y)
        BY <3>1, <3>2, <3>3 DEF HasPlace
      <4>2. ~(read_count'[y] = 0 /\ write_count'[y] = 0)
        BY <4>1, ThenEmpty
      <4>3. IsLoaded(y)'
        BY <4>2 DEF IsLoaded, IsEmpty
      <4>4. IsLoaded(y)
        BY <1>2, <1>5, <4>3
      <4> QED BY <1>4, <3>4, <4>4 DEF GoneOK
    <3> QED BY <1>1, <2>6, <3>1, <3>2, <3>3, <3>5
  <2> QED BY <2>4, <2>5, <2>6
<1>9. GoneOK'
  <2>1. \A x \in Object \ (stored \cup stored') : IsLoaded(x)' => IsLoaded(x)
    BY <1>2, <1>5
  <2>2. used \subseteq used' /\ stored \ stored' = {} /\ \A a \in Attr : storage'[a] = storage[a]
    BY <1>2
  <2> QED BY <2>1, <2>2, GoneStays
<1>10. UpToDateOK'
  <2>1. \A x \in stored : ~IsLoaded(x)' =>
          ~IsLoaded(x) /\ \A p \in Pointer : storage'[<<x, p>>] = storage[<<x, p>>]
    BY <1>1, <1>2, <1>5
  <2>2. stored' \subseteq stored /\ uptodate' = uptodate
    BY <1>2
  <2> QED BY <2>1, <2>2, UpToDateStays
<1> QED BY <1>6, <1>7, <1>8, <1>9, <1>10 DEF PastInv

\* The transaction that writes is still open afterwards.
LEMMA PutStaysOpen ==
  ASSUME IInv, T!InTransaction, NEW o \in Object, NEW attrs \in SUBSET Attr, NEW v, PutAll(o, attrs, v)
  PROVE  T!InTransaction'
<1>1. transactions' = [transactions EXCEPT ![1].items = @ \cup (attrs \ dirty)]
  BY PutAllDoes
<1>2. transactions \in Seq(LevelType) /\ transactions # <<>>
  BY Facts DEF T!InTransaction
<1>3. DOMAIN transactions' = DOMAIN transactions /\ 1 \in DOMAIN transactions
  BY <1>1, <1>2
<1>4. DOMAIN <<>> = {}
  OBVIOUS
<1> QED BY <1>3, <1>4 DEF T!InTransaction

LEMMA PutPointerPast ==
  ASSUME IInv, IInv', PastInv, NEW a \in Attr, NEW v \in Target, PutPointer(a, v)
  PROVE  PastInv' /\ AgedTo(values')
<1>1. /\ T!InTransaction /\ Owner[a] \in stored /\ v \in stored \cup {Null}
      /\ PutAll(Owner[a], {a}, v) /\ UNCHANGED refused
  BY DEF PutPointer, T!InWriteTransaction
<1>2. Owner[a] \in Object /\ {a} \in SUBSET AttrsOf(Owner[a]) /\ {a} \in SUBSET Attr
  BY OwnerType DEF AttrsOf
<1>3. T!InTransaction'
  BY <1>1, <1>2, PutStaysOpen
<1> QED BY <1>1, <1>2, <1>3, PutAllPast

LEMMA DeletePast ==
  ASSUME IInv, IInv', PastInv, NEW o \in Object, Delete(o)
  PROVE  PastInv' /\ AgedTo(values')
<1>1. T!InTransaction /\ o \in stored /\ PutAll(o, AttrsOf(o), Null) /\ UNCHANGED refused
  BY DEF Delete, T!InWriteTransaction
<1>2. AttrsOf(o) \in SUBSET Attr /\ AttrsOf(o) \in SUBSET AttrsOf(o) /\ Null \in stored \cup {Null}
  BY DEF AttrsOf
<1>3. T!InTransaction'
  BY <1>1, <1>2, PutStaysOpen
<1> QED BY <1>1, <1>2, <1>3, PutAllPast

-----------------------------------------------------------------------------
LEMMA StepPast ==
  ASSUME IInv, PastInv, [Next]_vars
  PROVE  PastInv'
<1> IInv'
  BY StepInv
<1>1. ASSUME NEW readonly \in BOOLEAN, BeginFinalTr(readonly) PROVE PastInv'
  BY <1>1, BeginFinalPast
<1>2. ASSUME NEW readonly \in BOOLEAN, BeginNestedTr(readonly) PROVE PastInv'
  BY <1>2, BeginNestedPast
<1>3. CASE CommitNestedTr
  BY <1>3, CommitNestedPast
<1>4. CASE CommitFinalTr
  BY <1>4, CommitFinalPast
<1>5. CASE AbortNestedTr
  BY <1>5, AbortNestedPast
<1>6. CASE AbortFinalTr
  BY <1>6, AbortFinalPast
<1>7. ASSUME NEW o \in Object, GetPointer(o) PROVE PastInv'
  BY <1>7, GetPointerPast
<1>8. ASSUME NEW o \in Object, Forget(o) PROVE PastInv'
  BY <1>8, ForgetPast
<1>9. ASSUME NEW o \in Object, CreateObject(o) PROVE PastInv'
  BY <1>9, CreateObjectPast
<1>10. ASSUME NEW o \in Object, Delete(o) PROVE PastInv'
  BY <1>10, DeletePast
<1>11. ASSUME NEW o \in Object, DeleteRefused(o) PROVE PastInv'
  BY <1>11, DeleteRefusedPast
<1>12. ASSUME NEW o \in Object, NEW p \in Pointer, GetCollection(o, p) PROVE PastInv'
  BY <1>12, GetCollectionPast
<1>13. ASSUME NEW a \in Attr, NEW v \in Target, PutPointer(a, v) PROVE PastInv'
  BY <1>13, PutPointerPast
<1>14. CASE UndoTransaction
  BY <1>14, UndoPast
<1>15. CASE RedoTransaction
  BY <1>15, RedoPast
<1>16. CASE FlushUndoQueue
  <2>1. undos \in Seq(SUBSET Attr)
    BY Facts
  <2>2. 0 \in 0..Len(undos)
    BY <2>1
  <2> QED BY <1>16, <2>2, FlushPast DEF FlushUndoQueue
<1>17. CASE FlushRedoQueue
  <2> DEFINE n == Len(undos) - redo_count
  <2>1. Flush(n)
    BY <1>17 DEF FlushRedoQueue
  <2>2. ~T!InTransaction
    BY <2>1 DEF Flush
  <2>3. undos \in Seq(SUBSET Attr) /\ redo_count \in Nat /\ redo_count <= Len(undos)
    BY <2>2, Facts, Idle
  <2>4. n \in 0..Len(undos)
    BY <2>3
  <2>5. ASSUME NEW m \in 0..Len(undos), Flush(m) PROVE PastInv'
    BY <2>5, FlushPast
  <2> HIDE DEF n
  <2> QED BY <2>1, <2>4, <2>5
<1>18. CASE UNCHANGED vars
  <2>1. UNCHANGED <<transactions, undos, storage, stored, used, created, finaltr_items, locked,
                    read_count, write_count, values, uptodate, refused>>
    BY <1>18 DEF vars, levelVars, objectVars, lockVars
  <2>2. T!InTransaction => T!InTransaction'
    BY <2>1 DEF T!InTransaction
  <2>3. \A a \in Attr : Count(undos', a) = Count(undos, a)
    BY <2>1
  <2>4. finaltr_items \subseteq finaltr_items' /\ uptodate' \subseteq uptodate
    BY <2>1
  <2> QED BY <2>1, <2>2, <2>3, <2>4, SamePast
<1> QED BY <1>1, <1>2, <1>3, <1>4, <1>5, <1>6, <1>7, <1>8, <1>9, <1>10, <1>11, <1>12, <1>13,
           <1>14, <1>15, <1>16, <1>17, <1>18 DEF Next

LEMMA NoGarbageIsLeft ==
  ASSUME IInv, PastInv
  PROVE  NoGarbage
<1> SUFFICES ASSUME ~T!InTransaction, NEW o \in stored \ {Root}, HasEmptyPointers(o)
             PROVE  ~IsEmpty(o)
  BY DEF NoGarbage
<1>1. /\ o \in Object /\ refused \in [Object -> Nat] /\ created = {} /\ StorageAgrees /\ GarbageOK
  BY DEF IInv, TypeOK, PastInv, CreatedOK
<1>2. transactions = <<>>
  BY Idle
<1>3. \A a \in Attr : OpenWrites(a) = 0
  <2>1. <<>> \in Seq(LevelOf(Attr))
    OBVIOUS
  <2> QED BY <1>2, <2>1, LevelCount DEF OpenWrites
<1>4. \A a \in AttrsOf(o) : storage[a] = Null
  <2> SUFFICES ASSUME NEW a \in AttrsOf(o) PROVE storage[a] = Null
    OBVIOUS
  <2>1. a \in Attr /\ Current(a) = Null /\ OpenWrites(a) + 1 = 1
    BY <1>3 DEF AttrsOf, HasEmptyPointers
  <2> QED BY <1>1, <2>1 DEF StorageAgrees, Current
<1>5. refused[o] > 0 \/ Returnable(o)
  BY <1>1, <1>4 DEF GarbageOK
<1>6. Returnable(o) => HasPlace(values, o)
  BY NowReturnable
<1>7. refused[o] > 0 => refused[o] # 0
  BY <1>1
<1> QED BY <1>1, <1>5, <1>6, <1>7, NowEmpty

LEMMA CompleteIsComplete ==
  ASSUME IInv, PastInv
  PROVE  UpToDateMeansComplete
<1> SUFFICES ASSUME NEW o \in Object, NEW p \in Pointer, <<o, p>> \in uptodate
             PROVE  Collection(o, p) = {x \in stored \ {Root} : Current(<<x, p>>) = o}
  BY DEF UpToDateMeansComplete
<1>1. stored \subseteq Object /\ o # Null /\ StorageAgrees /\ RingTargetsStored /\ GoneOK
  BY ObjectsAssumption DEF IInv, TypeOK, PastInv
<1>2. ASSUME NEW x \in Object \ {Root}
      PROVE  /\ <<x, p>> \in Attr /\ Owner[<<x, p>>] = x
             /\ values[<<x, p>>] # <<>> <=> IsLoaded(x)
  <2>1. <<x, p>> \in Attr /\ Owner[<<x, p>>] = x
    BY DEF Attr, Owner
  <2> QED BY <2>1 DEF IInv, LoadedOK
<1>3. ASSUME NEW x \in Collection(o, p)
      PROVE  x \in stored \ {Root} /\ Current(<<x, p>>) = o
  <2>1. x \in Object \ {Root} /\ values[<<x, p>>] # <<>> /\ values[<<x, p>>][1] = o
    BY DEF Collection
  <2>2. Current(<<x, p>>) = o
    BY <2>1 DEF Current
  <2>3. x \in stored
    <3> DEFINE a == <<x, p>>
    <3>1. a \in Attr /\ Owner[a] = x
      BY <1>2, <2>1
    <3>2. values[a] # <<>> /\ values[a][1] = o
      BY <2>1
    <3> HIDE DEF a
    <3>3. RingFacts(values[a], OpenWrites(a), Count(undos, a), PastOf(a))
      BY <3>1, FactsNow
    <3> DEFINE m == Len(values[a])
               open == OpenWrites(a)
               n == Count(undos, a)
    <3>4. m = open + n + 1 /\ open \in Nat /\ n \in Nat
      BY <3>2, <3>3 DEF RingFacts
    <3>5. m >= 2 => x \in stored
      BY <1>1, <3>1 DEF RingTargetsStored
    <3>6. storage[a] = values[a][open + 1]
      BY <1>1, <3>1, <3>2 DEF StorageAgrees
    <3> HIDE DEF m, open, n
    <3>7. ~(m >= 2) => storage[a] = o
      <4>1. ~(m >= 2) => open + 1 = 1
        BY <3>4
      <4> QED BY <3>2, <3>6, <4>1
    <3>8. storage[a] = o => x \in stored
      BY <1>1, <2>1, <3>1 DEF GoneOK, AttrsOf
    <3> QED BY <3>5, <3>7, <3>8
  <2> QED BY <2>1, <2>2, <2>3
<1>4. ASSUME NEW x \in stored \ {Root}, Current(<<x, p>>) = o
      PROVE  x \in Collection(o, p)
  <2>1. x \in Object \ {Root}
    BY <1>1
  <2>2. IsLoaded(x)
    <3> SUFFICES ASSUME ~IsLoaded(x) PROVE FALSE
      OBVIOUS
    <3>1. storage[<<x, p>>] = o
      BY <1>2, <1>4, <2>1 DEF Current
    <3> QED BY <3>1 DEF PastInv, UpToDateOK
  <2>3. values[<<x, p>>] # <<>>
    BY <1>2, <2>1, <2>2
  <2>4. values[<<x, p>>][1] = o
    BY <1>4, <2>3 DEF Current
  <2> QED BY <2>1, <2>3, <2>4 DEF Collection
<1> QED BY <1>3, <1>4

-----------------------------------------------------------------------------
(* What is older than the open transaction agrees with the storage, and    *)
(* what has left the storage, what the transaction has created, what a     *)
(* complete collection lists and what deletions have emptied is what the   *)
(* undo list says: the strengthening that the next three theorems need.    *)
THEOREM PastInvariance == Spec => [](IInv /\ PastInv)
<1>1. Init => IInv /\ PastInv
  BY InitInv, InitPast
<1>2. IInv /\ PastInv /\ [Next]_vars => IInv' /\ PastInv'
  BY StepInv, StepPast
<1> QED BY <1>1, <1>2, PTL DEF Spec

(* CCoreObject never deletes from the storage what undo, redo or an abort  *)
(* can still bring back: the object that has a ring of several values and  *)
(* every object in the ring exist, whatever clients do.                    *)
THEOREM RingTargetsAlwaysStored == Spec => []RingTargetsStored
<1>1. IInv /\ PastInv => RingTargetsStored
  BY DEF PastInv
<1> QED BY <1>1, PastInvariance, PTL

(* A deleted object leaves the storage in the end: between transactions an *)
(* object without pointers is locked, because a step of the undo list can  *)
(* return to it or because its deletion was refused.                       *)
THEOREM NoGarbageEver == Spec => []NoGarbage
<1>1. IInv /\ PastInv => NoGarbage
  BY NoGarbageIsLeft
<1> QED BY <1>1, PastInvariance, PTL

(* A collection whose flag says that it is up to date has in memory every  *)
(* object whose pointer leads to its owner, so that get_Value of           *)
(* CCoreCollectionAttribute may answer without the storage.                *)
THEOREM UpToDateAlwaysComplete == Spec => []UpToDateMeansComplete
<1>1. IInv /\ PastInv => UpToDateMeansComplete
  BY CompleteIsComplete
<1> QED BY <1>1, PastInvariance, PTL

-----------------------------------------------------------------------------
(* The documents that a client can come to                                 *)

ReadAt(ring, k, store) == IF ring = <<>> THEN store ELSE ring[k]

\* In how many of the i innermost levels a has been written
Newer(i, a) == CountUpTo(Items(transactions), i, a)

\* The pointers after i levels have been aborted, after n steps have been
\* undone, and after the steps behind the n-th one have been redone
AtLevel(i) == [a \in Attr |-> ReadAt(values[a], Newer(i, a) + 1, storage[a])]
AfterUndo(n) ==
  [a \in Attr |-> ReadAt(values[a], OpenWrites(a) + CountUpTo(undos, n, a) + 1, storage[a])]
AfterRedo(n) ==
  [a \in Attr |-> IF CountAfter(undos, n, a) = 0
                    THEN storage[a]
                    ELSE ReadAt(values[a], OpenWrites(a) + CountUpTo(undos, n, a) + 2, storage[a])]

\* Every pointer leads to the root or to an object that has a pointer.
Sound(doc) ==
  \A a \in Attr : doc[a] \in {Null, Root} \/ \E b \in AttrsOf(doc[a]) : doc[b] # Null

LevelsSound == \A i \in 0..Len(transactions) : Sound(AtLevel(i))

StepsSound ==
  /\ \A n \in 0..(Len(undos) - redo_count) : Sound(AfterUndo(n))
  /\ \A n \in (Len(undos) - redo_count)..Len(undos) : Sound(AfterRedo(n))

\* A transaction that writes has discarded the steps that had been undone.
RedoReads ==
  redo_count > 0 =>
    \A k \in 1..Len(transactions) : transactions[k].items = {} /\ transactions[k].readonly

SoundInv == LevelsSound /\ StepsSound /\ RedoReads

LEMMA SoundAlike ==
  ASSUME NEW doc, NEW other, Sound(doc), \A a \in Attr : other[a] = doc[a]
  PROVE  Sound(other)
<1> SUFFICES ASSUME NEW a \in Attr, other[a] \notin {Null, Root}
             PROVE  \E b \in AttrsOf(other[a]) : other[b] # Null
  BY DEF Sound
<1>1. other[a] = doc[a]
  OBVIOUS
<1>2. PICK b \in AttrsOf(doc[a]) : doc[b] # Null
  BY <1>1 DEF Sound
<1>3. b \in Attr /\ b \in AttrsOf(other[a]) /\ other[b] # Null
  BY <1>1, <1>2 DEF AttrsOf
<1> QED BY <1>3

LEMMA UpToCounts ==
  ASSUME NEW S, NEW s \in Seq(SUBSET S), NEW a
  PROVE  /\ Count(s, a) \in Nat /\ Len(s) \in Nat
         /\ CountUpTo(s, 0, a) = 0 /\ CountUpTo(s, Len(s), a) = Count(s, a)
         /\ \A n \in 0..Len(s) : /\ CountUpTo(s, n, a) \in Nat /\ CountAfter(s, n, a) \in Nat
                                 /\ Count(s, a) = CountUpTo(s, n, a) + CountAfter(s, n, a)
<1>1. \A n \in 0..Len(s) : /\ CountUpTo(s, n, a) \in Nat /\ CountAfter(s, n, a) \in Nat
                           /\ Count(s, a) = CountUpTo(s, n, a) + CountAfter(s, n, a)
  BY UpToType
<1>2. Count(s, a) \in Nat
  BY CountType
<1>3. CountUpTo(s, 0, a) = 0 /\ CountUpTo(s, Len(s), a) = Count(s, a)
  BY UpToEnds
<1>4. Len(s) \in Nat
  OBVIOUS
<1> QED BY <1>1, <1>2, <1>3, <1>4

LEMMA LevelCounts ==
  ASSUME NEW levels \in Seq(LevelType), NEW a
  PROVE  /\ Count(Items(levels), a) \in Nat /\ Len(levels) \in Nat
         /\ CountUpTo(Items(levels), 0, a) = 0
         /\ CountUpTo(Items(levels), Len(levels), a) = Count(Items(levels), a)
         /\ \A i \in 0..Len(levels) : /\ CountUpTo(Items(levels), i, a) \in Nat
                                      /\ CountUpTo(Items(levels), i, a) <= Count(Items(levels), a)
<1> DEFINE s == Items(levels)
<1>1. s \in Seq(SUBSET Attr) /\ Len(s) = Len(levels)
  BY ItemsType DEF LevelType
<1> HIDE DEF s
<1>2. /\ Count(s, a) \in Nat /\ Len(s) \in Nat
      /\ CountUpTo(s, 0, a) = 0 /\ CountUpTo(s, Len(s), a) = Count(s, a)
      /\ \A n \in 0..Len(s) : /\ CountUpTo(s, n, a) \in Nat /\ CountAfter(s, n, a) \in Nat
                              /\ Count(s, a) = CountUpTo(s, n, a) + CountAfter(s, n, a)
  BY <1>1, UpToCounts
<1>3. \A n \in 0..Len(s) : CountUpTo(s, n, a) \in Nat /\ CountUpTo(s, n, a) <= Count(s, a)
  BY <1>2
<1> QED BY <1>1, <1>2, <1>3 DEF s

\* The documents that are what a client reads and what the storage has
LEMMA DocumentEnds ==
  ASSUME IInv, StorageAgrees, NEW a \in Attr
  PROVE  /\ AtLevel(0)[a] = Current(a)
         /\ AtLevel(Len(transactions))[a] = storage[a]
         /\ AfterUndo(0)[a] = storage[a]
         /\ \A i \in 0..Len(transactions) : Newer(i, a) = OpenWrites(a) => AtLevel(i)[a] = storage[a]
<1>1. /\ Newer(0, a) = 0 /\ Newer(Len(transactions), a) = OpenWrites(a) /\ OpenWrites(a) \in Nat
      /\ Len(transactions) \in Nat
  BY Facts, LevelCounts DEF Newer, OpenWrites
<1>2. CountUpTo(undos, 0, a) = 0
  BY Facts, UpToCounts
<1>3. values[a] # <<>> => storage[a] = values[a][OpenWrites(a) + 1]
  BY DEF StorageAgrees
<1>4. \A i \in 0..Len(transactions) : AtLevel(i)[a] = ReadAt(values[a], Newer(i, a) + 1, storage[a])
  BY DEF AtLevel
<1>5. AfterUndo(0)[a] = ReadAt(values[a], OpenWrites(a) + CountUpTo(undos, 0, a) + 1, storage[a])
  BY DEF AfterUndo
<1>6. ReadAt(values[a], OpenWrites(a) + 1, storage[a]) = storage[a]
  BY <1>3 DEF ReadAt
<1>7. ReadAt(values[a], 1, storage[a]) = Current(a)
  BY DEF ReadAt, Current
<1>8. 0 + 1 = 1 /\ OpenWrites(a) + 0 + 1 = OpenWrites(a) + 1
      /\ 0 \in 0..Len(transactions) /\ Len(transactions) \in 0..Len(transactions)
  BY <1>1
<1> QED BY <1>1, <1>2, <1>4, <1>5, <1>6, <1>7, <1>8

-----------------------------------------------------------------------------
(* Steps inside a transaction                                              *)

\* A level after the step is one of before it.
LEMMA LevelMoves ==
  ASSUME IInv, IInv', StorageAgrees, StorageAgrees', storage' = storage,
         NEW i \in Nat, i <= Len(transactions'), NEW j \in Nat, j <= Len(transactions),
         \A a \in Attr : values'[a] # <<>> /\ values[a] # <<>> =>
           values'[a][Newer(i, a)' + 1] = values[a][Newer(j, a) + 1],
         \A a \in Attr : values'[a] = <<>> => Newer(j, a) = OpenWrites(a),
         \A a \in Attr : values[a] = <<>> => Newer(i, a)' = OpenWrites(a)',
         Sound(AtLevel(j))
  PROVE  Sound(AtLevel(i)')
<1>1. ASSUME NEW a \in Attr PROVE AtLevel(i)'[a] = AtLevel(j)[a]
  <2>1. /\ AtLevel(i)'[a] = ReadAt(values'[a], Newer(i, a)' + 1, storage[a])
        /\ AtLevel(j)[a] = ReadAt(values[a], Newer(j, a) + 1, storage[a])
    BY DEF AtLevel
  <2>2. CASE values'[a] # <<>> /\ values[a] # <<>>
    BY <2>1, <2>2 DEF ReadAt
  <2>3. CASE values'[a] = <<>>
    <3>1. Newer(j, a) = OpenWrites(a) /\ j \in 0..Len(transactions)
      BY <2>3, Facts
    <3>2. AtLevel(j)[a] = storage[a]
      BY <3>1, DocumentEnds
    <3> QED BY <2>1, <2>3, <3>2 DEF ReadAt
  <2>4. CASE values[a] = <<>> /\ values'[a] # <<>>
    <3>1. Newer(i, a)' = OpenWrites(a)' /\ storage[a] = values'[a][OpenWrites(a)' + 1]
      BY <2>4 DEF StorageAgrees
    <3> QED BY <2>1, <2>4, <3>1 DEF ReadAt
  <2> QED BY <2>2, <2>3, <2>4
<1>2. \A a \in Attr : AtLevel(i)'[a] = AtLevel(j)[a]
  BY <1>1
<1> HIDE DEF AtLevel
<1> QED BY <1>2, SoundAlike

\* A document that undo or redo can come to stays while the ring keeps what
\* is older than the transaction.
LEMMA AgedDocuments ==
  ASSUME IInv, IInv', StorageAgrees, StorageAgrees', AgedTo(values'), storage' = storage,
         NEW a \in Attr, NEW n \in 0..Len(undos), NEW m, m \in 0..Len(undos'),
         CountUpTo(undos', m, a) = CountUpTo(undos, n, a), Count(undos', a) = Count(undos, a)
  PROVE  AfterUndo(m)'[a] = AfterUndo(n)[a] /\ AfterRedo(m)'[a] = AfterRedo(n)[a]
<1> DEFINE up == CountUpTo(undos, n, a)
           later == CountAfter(undos, n, a)
           further == CountAfter(undos', m, a)
           all == Count(undos, a)
           open == OpenWrites(a)
           next == OpenWrites(a)'
           ring == values[a]
           new == values'[a]
<1>1. up \in Nat /\ later \in Nat /\ all = up + later
  BY Facts, UpToCounts
<1>2. further \in Nat /\ all = up + further
  <2>1. undos' \in Seq(SUBSET Attr)
    BY DEF IInv, TypeOK
  <2>2. CountAfter(undos', m, a) \in Nat
        /\ Count(undos', a) = CountUpTo(undos', m, a) + CountAfter(undos', m, a)
    BY <2>1, UpToCounts
  <2> QED BY <2>2
<1>3. /\ AfterUndo(m)'[a] = ReadAt(new, next + up + 1, storage[a])
      /\ AfterUndo(n)[a] = ReadAt(ring, open + up + 1, storage[a])
      /\ AfterRedo(m)'[a] = IF further = 0 THEN storage[a] ELSE ReadAt(new, next + up + 2, storage[a])
      /\ AfterRedo(n)[a] = IF later = 0 THEN storage[a] ELSE ReadAt(ring, open + up + 2, storage[a])
  BY DEF AfterUndo, AfterRedo
<1>4. /\ open \in Nat /\ next \in Nat
      /\ ring = <<>> => open = 0 /\ all = 0
      /\ new = <<>> => next = 0 /\ all = 0
  <2>1. RingFacts(values[a], OpenWrites(a), Count(undos, a), PastOf(a))
    BY FactsNow
  <2>2. RingFacts(values'[a], OpenWrites(a)', Count(undos', a), PastOf(a)')
    BY FactsThen
  <2> QED BY <2>1, <2>2 DEF RingFacts
<1>5. ring # <<>> => storage[a] = ring[open + 1]
  BY DEF StorageAgrees
<1>6. new # <<>> => \A k \in 1..(all + 1) :
        new[next + k] = IF ring = <<>> THEN storage[a] ELSE ring[open + k]
  BY DEF AgedTo
<1> HIDE DEF up, later, further, all, open, next, ring, new
<1>7. further = later
  BY <1>1, <1>2
<1>8. CASE new = <<>>
  <2>1. up = 0 /\ later = 0
    BY <1>1, <1>4, <1>8
  <2>2. open + up + 1 = open + 1
    BY <1>4, <2>1
  <2>3. ReadAt(ring, open + up + 1, storage[a]) = storage[a]
    BY <1>5, <2>2 DEF ReadAt
  <2>4. ReadAt(new, next + up + 1, storage[a]) = storage[a]
    BY <1>8 DEF ReadAt
  <2> QED BY <1>3, <1>7, <2>1, <2>3, <2>4
<1>9. CASE new # <<>>
  <2>1. /\ up + 1 \in 1..(all + 1) /\ (later # 0 => up + 2 \in 1..(all + 1))
        /\ next + up + 1 = next + (up + 1) /\ open + up + 1 = open + (up + 1)
        /\ next + up + 2 = next + (up + 2) /\ open + up + 2 = open + (up + 2)
    BY <1>1, <1>4
  <2>2. ReadAt(new, next + up + 1, storage[a]) = ReadAt(ring, open + up + 1, storage[a])
    BY <1>6, <1>9, <2>1 DEF ReadAt
  <2>3. later # 0 => ReadAt(new, next + up + 2, storage[a]) = ReadAt(ring, open + up + 2, storage[a])
    BY <1>6, <1>9, <2>1 DEF ReadAt
  <2> QED BY <1>3, <1>7, <2>2, <2>3
<1> QED BY <1>8, <1>9

\* What undo and redo can return to stays.
LEMMA StepsStay ==
  ASSUME IInv, IInv', StorageAgrees, StorageAgrees', AgedTo(values'), StepsSound,
         UNCHANGED <<undos, redo_count, storage>>
  PROVE  StepsSound'
<1>1. ASSUME NEW a \in Attr, NEW n \in 0..Len(undos)
      PROVE  AfterUndo(n)'[a] = AfterUndo(n)[a] /\ AfterRedo(n)'[a] = AfterRedo(n)[a]
  <2>1. n \in 0..Len(undos') /\ CountUpTo(undos', n, a) = CountUpTo(undos, n, a)
        /\ Count(undos', a) = Count(undos, a)
    OBVIOUS
  <2> QED BY <2>1, AgedDocuments
<1>2. Len(undos) \in Nat /\ redo_count \in Nat /\ redo_count <= Len(undos)
  <2>1. redo_count <= Len(undos) - (IF T!InTransaction THEN 1 ELSE 0)
    BY DEF IInv, QueueOK
  <2> QED BY <2>1, Facts
<1>3. ASSUME NEW n \in 0..(Len(undos) - redo_count) PROVE Sound(AfterUndo(n)')
  <2>1. n \in 0..Len(undos)
    BY <1>2
  <2>2. \A a \in Attr : AfterUndo(n)'[a] = AfterUndo(n)[a]
    BY <1>1, <2>1
  <2>3. Sound(AfterUndo(n))
    BY DEF StepsSound
  <2> QED BY <2>2, <2>3, SoundAlike
<1>4. ASSUME NEW n \in (Len(undos) - redo_count)..Len(undos) PROVE Sound(AfterRedo(n)')
  <2>1. n \in 0..Len(undos)
    BY <1>2
  <2>2. \A a \in Attr : AfterRedo(n)'[a] = AfterRedo(n)[a]
    BY <1>1, <2>1
  <2>3. Sound(AfterRedo(n))
    BY DEF StepsSound
  <2> QED BY <2>2, <2>3, SoundAlike
<1> QED BY <1>3, <1>4 DEF StepsSound, Sound

\* A step that only loads objects
LEMMA FillSound ==
  ASSUME IInv, IInv', PastInv, PastInv', SoundInv,
         NEW objs \in SUBSET Object, values' = Filled(objs, storage),
         UNCHANGED <<transactions, undos, redo_count, storage>>
  PROVE  SoundInv'
<1>1. StorageAgrees /\ StorageAgrees' /\ LevelsSound /\ StepsSound
  BY DEF PastInv, SoundInv
<1>2. AgedTo(values')
  BY <1>1, FilledAges
<1>3. StepsSound'
  BY <1>1, <1>2, StepsStay
<1>4. ASSUME NEW i \in 0..Len(transactions) PROVE Sound(AtLevel(i)')
  <2>1. ASSUME NEW a \in Attr
        PROVE  /\ Newer(i, a)' = Newer(i, a) /\ OpenWrites(a)' = OpenWrites(a)
               /\ values[a] # <<>> => values'[a] = values[a]
               /\ values[a] = <<>> => Newer(i, a) = OpenWrites(a)
    <3>1. Newer(i, a)' = Newer(i, a) /\ OpenWrites(a)' = OpenWrites(a)
      BY DEF Newer, OpenWrites
    <3>2. values[a] # <<>> => values'[a] = values[a]
      BY DEF Filled
    <3>3. Newer(i, a) \in Nat /\ Newer(i, a) <= OpenWrites(a)
      BY Facts, LevelCounts DEF Newer, OpenWrites
    <3>4. values[a] = <<>> => OpenWrites(a) = 0
      BY FactsNow DEF RingFacts
    <3> QED BY <3>1, <3>2, <3>3, <3>4
  <2>2. i \in Nat /\ i <= Len(transactions) /\ Len(transactions') = Len(transactions)
    BY Facts
  <2>3. Sound(AtLevel(i))
    BY <1>1 DEF LevelsSound
  <2>4. \A a \in Attr : values'[a] # <<>> /\ values[a] # <<>> =>
          values'[a][Newer(i, a)' + 1] = values[a][Newer(i, a) + 1]
    BY <2>1
  <2>5. \A a \in Attr : values'[a] = <<>> => Newer(i, a) = OpenWrites(a)
    BY <2>1
  <2>6. \A a \in Attr : values[a] = <<>> => Newer(i, a)' = OpenWrites(a)'
    BY <2>1
  <2> QED BY <1>1, <2>2, <2>3, <2>4, <2>5, <2>6, LevelMoves
<1>5. LevelsSound'
  BY <1>4 DEF LevelsSound, Sound
<1>6. RedoReads'
  BY DEF SoundInv, RedoReads
<1> QED BY <1>3, <1>5, <1>6 DEF SoundInv

\* The rings that are kept as they are
LEMMA SameAsFilled ==
  ASSUME IInv, values' = values
  PROVE  values' = Filled({}, storage) /\ {} \in SUBSET Object
<1>1. values = [a \in Attr |-> values[a]]
  BY DEF IInv, TypeOK
<1> QED BY <1>1 DEF Filled

LEMMA GetPointerSound ==
  ASSUME IInv, IInv', PastInv, PastInv', SoundInv, NEW o \in Object, GetPointer(o)
  PROVE  SoundInv'
<1>1. /\ values' = Filled({o}, storage) /\ {o} \in SUBSET Object
      /\ UNCHANGED <<transactions, undos, redo_count, storage>>
  BY DEF GetPointer, Load, Loading, Filled, objectVars, levelVars
<1> QED BY <1>1, FillSound

LEMMA GetCollectionSound ==
  ASSUME IInv, IInv', PastInv, PastInv', SoundInv, NEW o \in Object, NEW p \in Pointer,
         GetCollection(o, p)
  PROVE  SoundInv'
<1> DEFINE here == IF IsLoaded(o) THEN {} ELSE {o}
<1>1. /\ values' = Filled(here, storage)
      /\ UNCHANGED <<transactions, undos, redo_count, storage>>
  BY DEF GetCollection, Load, Loading, Filled, objectVars, levelVars
<1>2. here \in SUBSET Object
  OBVIOUS
<1> HIDE DEF here
<1> QED BY <1>1, <1>2, FillSound

LEMMA ForgetSound ==
  ASSUME IInv, IInv', PastInv, PastInv', SoundInv, NEW o \in Object, Forget(o)
  PROVE  SoundInv'
<1>1. values' = values /\ UNCHANGED <<transactions, undos, redo_count, storage>>
  BY DEF Forget, objectVars, levelVars
<1> QED BY <1>1, SameAsFilled, FillSound

LEMMA DeleteRefusedSound ==
  ASSUME IInv, IInv', PastInv, PastInv', SoundInv, NEW o \in Object, DeleteRefused(o)
  PROVE  SoundInv'
<1> DEFINE objs == NeedsLoad(read_count', write_count')
<1>1. /\ values' = Filled(objs, storage)
      /\ UNCHANGED <<transactions, undos, redo_count, storage>>
  BY DEF DeleteRefused, Load, Loading, Filled, objectVars, levelVars
<1>2. objs \in SUBSET Object
  BY DEF NeedsLoad
<1> HIDE DEF objs
<1> QED BY <1>1, <1>2, FillSound

LEMMA CreateObjectSound ==
  ASSUME IInv, IInv', PastInv, PastInv', SoundInv, NEW o \in Object, CreateObject(o)
  PROVE  SoundInv'
<1>1. UNCHANGED <<transactions, undos, redo_count, storage>>
  BY DEF CreateObject, levelVars
<1>2. values' = Filled({o}, storage) /\ {o} \in SUBSET Object
  BY CreateObjectPast
<1> QED BY <1>1, <1>2, FillSound

\* One level more in front
LEMMA UpToOfPush ==
  ASSUME NEW levels \in Seq(LevelType), NEW level \in LevelType, NEW a, NEW i \in 0..Len(levels)
  PROVE  CountUpTo(Items(<<level>> \o levels), i + 1, a)
           = CountUpTo(Items(levels), i, a) + (IF a \in level.items THEN 1 ELSE 0)
<1> DEFINE s == Items(levels)
           e == level.items
<1>1. s \in Seq(SUBSET Attr) /\ Len(s) = Len(levels) /\ e \in SUBSET Attr
  BY ItemsType DEF LevelType, LevelOf
<1>2. Items(<<level>> \o levels) = <<e>> \o s
  BY ItemsOfPrepend DEF LevelType
<1> HIDE DEF s, e
<1>3. CountUpTo(<<e>> \o s, i + 1, a) = CountUpTo(s, i, a) + (IF a \in e THEN 1 ELSE 0)
  BY <1>1, UpToOfPrepend
<1> QED BY <1>2, <1>3 DEF s, e

\* How many open levels have written a is a number, and none while it is
\* not in memory.
LEMMA NewerType ==
  ASSUME IInv, NEW a \in Attr
  PROVE  /\ Newer(0, a) = 0 /\ OpenWrites(a) \in Nat
         /\ values[a] = <<>> => OpenWrites(a) = 0
         /\ \A i \in 0..Len(transactions) :
              /\ Newer(i, a) \in Nat /\ Newer(i, a) <= OpenWrites(a)
              /\ values[a] = <<>> => Newer(i, a) = OpenWrites(a)
              /\ values[a] # <<>> => Newer(i, a) + 1 \in 1..Len(values[a])
<1>1. /\ Newer(0, a) = 0
      /\ \A i \in 0..Len(transactions) : Newer(i, a) \in Nat /\ Newer(i, a) <= OpenWrites(a)
  BY Facts, LevelCounts DEF Newer, OpenWrites
<1>2. /\ OpenWrites(a) \in Nat /\ Count(undos, a) \in Nat /\ Len(values[a]) \in Nat
      /\ values[a] = <<>> => OpenWrites(a) = 0
      /\ values[a] # <<>> => Len(values[a]) = OpenWrites(a) + Count(undos, a) + 1
  BY FactsNow DEF RingFacts
<1> DEFINE open == OpenWrites(a)
           n == Count(undos, a)
           m == Len(values[a])
<1>3. ASSUME NEW i \in 0..Len(transactions)
      PROVE  /\ values[a] = <<>> => Newer(i, a) = OpenWrites(a)
             /\ values[a] # <<>> => Newer(i, a) + 1 \in 1..Len(values[a])
  <2> DEFINE k == Newer(i, a)
  <2>1. k \in Nat /\ k <= open
    BY <1>1
  <2>2. open \in Nat /\ n \in Nat /\ m \in Nat
        /\ (values[a] = <<>> => open = 0) /\ (values[a] # <<>> => m = open + n + 1)
    BY <1>2
  <2> HIDE DEF k, open, n, m
  <2>3. (values[a] = <<>> => k = open) /\ (values[a] # <<>> => k + 1 \in 1..m)
    BY <2>1, <2>2
  <2> QED BY <2>3 DEF k, open, m
<1> QED BY <1>1, <1>2, <1>3

LEMMA NewerTypeThen ==
  ASSUME IInv', NEW a \in Attr
  PROVE  /\ Newer(0, a)' = 0 /\ OpenWrites(a)' \in Nat
         /\ values'[a] = <<>> => OpenWrites(a)' = 0
         /\ \A i \in 0..Len(transactions') :
              /\ Newer(i, a)' \in Nat /\ Newer(i, a)' <= OpenWrites(a)'
              /\ values'[a] = <<>> => Newer(i, a)' = OpenWrites(a)'
              /\ values'[a] # <<>> => Newer(i, a)' + 1 \in 1..Len(values'[a])
<1>0. transactions' \in Seq(LevelType)
  BY DEF IInv, TypeOK
<1>1. /\ Newer(0, a)' = 0
      /\ \A i \in 0..Len(transactions') : Newer(i, a)' \in Nat /\ Newer(i, a)' <= OpenWrites(a)'
  BY <1>0, LevelCounts DEF Newer, OpenWrites
<1>2. /\ OpenWrites(a)' \in Nat /\ Count(undos', a) \in Nat /\ Len(values'[a]) \in Nat
      /\ values'[a] = <<>> => OpenWrites(a)' = 0
      /\ values'[a] # <<>> => Len(values'[a]) = OpenWrites(a)' + Count(undos', a) + 1
  BY FactsThen DEF RingFacts
<1> DEFINE open == OpenWrites(a)'
           n == Count(undos', a)
           ring == values'[a]
           m == Len(ring)
<1>3. ASSUME NEW i \in 0..Len(transactions')
      PROVE  /\ values'[a] = <<>> => Newer(i, a)' = OpenWrites(a)'
             /\ values'[a] # <<>> => Newer(i, a)' + 1 \in 1..Len(values'[a])
  <2> DEFINE k == Newer(i, a)'
  <2>1. k \in Nat /\ k <= open
    BY <1>1
  <2>2. open \in Nat /\ n \in Nat /\ m \in Nat
        /\ (ring = <<>> => open = 0) /\ (ring # <<>> => m = open + n + 1)
    BY <1>2
  <2> HIDE DEF k, open, n, m, ring
  <2>3. (ring = <<>> => k = open) /\ (ring # <<>> => k + 1 \in 1..m)
    BY <2>1, <2>2
  <2> QED BY <2>3 DEF k, open, m, ring
<1> QED BY <1>1, <1>2, <1>3

LEMMA BeginNestedSound ==
  ASSUME IInv, IInv', PastInv, PastInv', SoundInv, NEW readonly \in BOOLEAN, BeginNestedTr(readonly)
  PROVE  SoundInv'
<1> DEFINE level == T!Level(readonly)
<1>1. /\ transactions' = <<level>> \o transactions
      /\ values' = values /\ UNCHANGED <<undos, redo_count, storage>>
      /\ T!InTransaction /\ (T!InReadTransaction => readonly)
  BY DEF BeginNestedTr, T!BeginNestedTr, objectVars
<1>2. level \in LevelType /\ level.items = {} /\ level.readonly = readonly
  BY DEF T!Level, LevelType, LevelOf
<1> HIDE DEF level
<1>3. /\ transactions \in Seq(LevelType) /\ Len(transactions) \in Nat
      /\ Len(transactions') = Len(transactions) + 1
  BY <1>1, <1>2, Facts
<1>4. StorageAgrees /\ StorageAgrees' /\ LevelsSound /\ StepsSound /\ RedoReads
  BY DEF PastInv, SoundInv
<1>5. \A a \in Attr : OpenWrites(a)' = OpenWrites(a)
  <2>1. \A a \in Attr : OpenWrites(a)' = OpenWrites(a) + 0
    BY <1>1, <1>2, <1>3, LevelCountOfPrepend DEF OpenWrites, LevelType
  <2> QED BY <2>1, NewerType
<1>6. StepsSound'
  <2>1. values' = Filled({}, storage) /\ {} \in SUBSET Object
    BY <1>1, SameAsFilled
  <2>2. \A a \in Attr : Count(undos', a) = Count(undos, a)
    BY <1>1
  <2>3. AgedTo(values')
    BY <1>4, <2>1, <2>2, FilledAges
  <2> QED BY <1>1, <1>4, <2>3, StepsStay
<1>7. ASSUME NEW i \in 0..Len(transactions') PROVE Sound(AtLevel(i)')
  <2> DEFINE j == IF i = 0 THEN 0 ELSE i - 1
  <2>1. /\ i \in Nat /\ i <= Len(transactions') /\ j \in Nat /\ j <= Len(transactions)
        /\ j \in 0..Len(transactions) /\ (i # 0 => i = j + 1) /\ (i = 0 => j = 0)
    BY <1>3
  <2> HIDE DEF j
  <2>2. \A a \in Attr : Newer(i, a)' = Newer(j, a)
    <3> SUFFICES ASSUME NEW a \in Attr PROVE Newer(i, a)' = Newer(j, a)
      OBVIOUS
    <3>1. CASE i = 0
      BY <2>1, <3>1, NewerType, NewerTypeThen
    <3>2. CASE i # 0
      <4>1. Newer(i, a)' = CountUpTo(Items(<<level>> \o transactions), j + 1, a)
        BY <1>1, <2>1, <3>2 DEF Newer
      <4>2. CountUpTo(Items(<<level>> \o transactions), j + 1, a) = Newer(j, a) + 0
        BY <1>2, <1>3, <2>1, UpToOfPush DEF Newer
      <4> QED BY <2>1, <4>1, <4>2, NewerType
    <3> QED BY <3>1, <3>2
  <2>3. \A a \in Attr : values'[a] # <<>> /\ values[a] # <<>> =>
          values'[a][Newer(i, a)' + 1] = values[a][Newer(j, a) + 1]
    BY <1>1, <2>2
  <2>4. \A a \in Attr : values'[a] = <<>> => Newer(j, a) = OpenWrites(a)
    BY <1>1, <2>1, NewerType
  <2>5. \A a \in Attr : values[a] = <<>> => Newer(i, a)' = OpenWrites(a)'
    BY <1>1, NewerTypeThen
  <2>6. Sound(AtLevel(j))
    BY <1>4, <2>1 DEF LevelsSound
  <2> QED BY <1>1, <1>4, <2>1, <2>3, <2>4, <2>5, <2>6, LevelMoves
<1>8. LevelsSound'
  BY <1>7 DEF LevelsSound, Sound
<1>9. RedoReads'
  <2> SUFFICES ASSUME redo_count > 0, NEW k \in 1..Len(transactions')
               PROVE  transactions'[k].items = {} /\ transactions'[k].readonly
    BY <1>1 DEF RedoReads
  <2>1. \A j \in 1..Len(transactions) : transactions[j].items = {} /\ transactions[j].readonly
    BY <1>4 DEF RedoReads
  <2>2. CASE k = 1
    <3>1. transactions'[1] = level
      BY <1>1, <1>3
    <3>2. 1 \in 1..Len(transactions)
      BY <1>1, <1>3 DEF T!InTransaction
    <3>3. T!InReadTransaction
      BY <1>1, <2>1, <3>2 DEF T!InReadTransaction
    <3> QED BY <1>1, <1>2, <2>2, <3>1, <3>3
  <2>3. CASE k # 1
    <3>1. k - 1 \in 1..Len(transactions) /\ transactions'[k] = transactions[k - 1]
      BY <1>1, <1>3, <2>3
    <3> QED BY <2>1, <3>1
  <2> QED BY <2>2, <2>3
<1> QED BY <1>6, <1>8, <1>9 DEF SoundInv

\* The levels below the innermost one
LEMMA UpToOfRest ==
  ASSUME IInv, T!InTransaction, NEW a \in Attr, NEW i \in 0..Len(Rest)
  PROVE  Newer(i + 1, a) = CountUpTo(Items(Rest), i, a) + (IF a \in dirty THEN 1 ELSE 0)
<1>1. /\ transactions[1] \in LevelType /\ dirty = transactions[1].items
      /\ transactions = <<transactions[1]>> \o Rest /\ Rest \in Seq(LevelType)
  BY Stack
<1>2. CountUpTo(Items(<<transactions[1]>> \o Rest), i + 1, a)
        = CountUpTo(Items(Rest), i, a) + (IF a \in transactions[1].items THEN 1 ELSE 0)
  BY <1>1, UpToOfPush
<1>3. Newer(i + 1, a) = CountUpTo(Items(<<transactions[1]>> \o Rest), i + 1, a)
  <2> DEFINE s == <<transactions[1]>> \o Rest
  <2>1. transactions = s
    BY <1>1
  <2> HIDE DEF s
  <2>2. Newer(i + 1, a) = CountUpTo(Items(s), i + 1, a)
    BY <2>1 DEF Newer
  <2> QED BY <2>2 DEF s
<1> QED BY <1>1, <1>2, <1>3

LEMMA TailOfRing ==
  ASSUME NEW r \in Seq(Target), r # <<>>, NEW k \in Nat, k + 1 \in 1..Len(Tail(r))
  PROVE  Tail(r)[k + 1] = r[k + 1 + 1]
OBVIOUS

LEMMA AbortNestedSound ==
  ASSUME IInv, IInv', PastInv, PastInv', SoundInv, AbortNestedTr
  PROVE  SoundInv'
<1>1. /\ Len(transactions) >= 2 /\ transactions' = Tail(transactions)
      /\ UNCHANGED <<undos, redo_count, storage>>
      /\ \A a \in Attr : values'[a] = <<>> \/ values'[a] = T!DropFirst(transactions[1].items)[a]
  BY DEF AbortNestedTr, Settle, objectVars
<1>2. /\ T!InTransaction /\ dirty = transactions[1].items /\ dirty \in SUBSET Attr
      /\ transactions' = Rest /\ Rest \in Seq(LevelType) /\ Len(Rest) = Len(transactions) - 1
      /\ \A k \in 1..Len(Rest) : Rest[k] = transactions[k + 1]
      /\ Len(transactions) \in Nat
  BY <1>1, TwoLevels, Stack DEF Rest
<1>3. StorageAgrees /\ StorageAgrees' /\ LevelsSound /\ StepsSound /\ RedoReads
  BY DEF PastInv, SoundInv
<1>4. StepsSound'
  <2>1. AgedTo(values')
    BY AbortNestedPast
  <2> QED BY <1>1, <1>3, <2>1, StepsStay
<1>5. ASSUME NEW i \in 0..Len(transactions') PROVE Sound(AtLevel(i)')
  <2> DEFINE j == i + 1
  <2>1. /\ i \in Nat /\ i <= Len(transactions') /\ j \in Nat /\ j <= Len(transactions)
        /\ j \in 0..Len(transactions) /\ i \in 0..Len(Rest)
    BY <1>1, <1>2
  <2>2. \A a \in Attr : Newer(j, a) = Newer(i, a)' + (IF a \in dirty THEN 1 ELSE 0)
    <3> SUFFICES ASSUME NEW a \in Attr
                 PROVE  Newer(j, a) = Newer(i, a)' + (IF a \in dirty THEN 1 ELSE 0)
      OBVIOUS
    <3>1. Newer(i, a)' = CountUpTo(Items(Rest), i, a)
      BY <1>2 DEF Newer
    <3>2. Newer(i + 1, a) = CountUpTo(Items(Rest), i, a) + (IF a \in dirty THEN 1 ELSE 0)
      BY <1>2, <2>1, UpToOfRest
    <3> QED BY <3>1, <3>2
  <2> HIDE DEF j
  <2>3. ASSUME NEW a \in Attr, values'[a] # <<>>, values[a] # <<>>
        PROVE  values'[a][Newer(i, a)' + 1] = values[a][Newer(j, a) + 1]
    <3> DEFINE ring == values[a]
               new == values'[a]
               k == Newer(i, a)'
               m == Newer(j, a)
    <3>1. /\ ring \in Seq(Target) /\ ring # <<>> /\ k \in Nat /\ k + 1 \in 1..Len(new)
          /\ m = k + (IF a \in dirty THEN 1 ELSE 0)
      BY <2>1, <2>2, <2>3, Facts, NewerTypeThen
    <3>2. new = IF a \in dirty THEN Tail(ring) ELSE ring
      BY <1>1, <1>2, <2>3 DEF T!DropFirst
    <3> HIDE DEF ring, new, k, m
    <3>3. CASE a \in dirty
      <4>1. Tail(ring)[k + 1] = ring[k + 1 + 1] /\ m = k + 1 /\ new = Tail(ring)
        BY <3>1, <3>2, <3>3, TailOfRing
      <4> QED BY <4>1 DEF ring, new, k, m
    <3>4. CASE a \notin dirty
      <4>1. m = k /\ new = ring
        BY <3>1, <3>2, <3>4
      <4> QED BY <4>1 DEF ring, new, k, m
    <3> QED BY <3>3, <3>4
  <2>4. ASSUME NEW a \in Attr, values'[a] = <<>> PROVE Newer(j, a) = OpenWrites(a)
    <3>1. OpenWrites(a) = OpenWrites(a)' + (IF a \in dirty THEN 1 ELSE 0)
      <4>1. transactions \in Seq(LevelType) /\ transactions # <<>>
        BY <1>2, Stack
      <4>2. Count(Items(transactions), a)
              = Count(Items(Tail(transactions)), a) + (IF a \in transactions[1].items THEN 1 ELSE 0)
        BY <4>1, LevelCount DEF LevelType
      <4> QED BY <1>1, <1>2, <4>2 DEF OpenWrites
    <3>2. Newer(i, a)' = OpenWrites(a)'
      BY <2>1, <2>4, NewerTypeThen
    <3> QED BY <2>2, <3>1, <3>2
  <2>5. \A a \in Attr : values[a] = <<>> => Newer(i, a)' = OpenWrites(a)'
    <3> SUFFICES ASSUME NEW a \in Attr, values[a] = <<>> PROVE values'[a] = <<>>
      BY <2>1, NewerTypeThen
    <3>1. a \notin dirty
      <4>1. OpenWrites(a) = 0
        BY NewerType
      <4>2. Newer(1, a) = CountUpTo(Items(Rest), 0, a) + (IF a \in dirty THEN 1 ELSE 0)
        <5>1. 0 \in 0..Len(Rest) /\ 0 + 1 = 1
          BY <1>2
        <5> QED BY <1>2, <5>1, UpToOfRest
      <4>3. CountUpTo(Items(Rest), 0, a) \in Nat
        BY <1>2, LevelCounts
      <4>4. 1 \in 0..Len(transactions)
        BY <1>1, <1>2
      <4>5. Newer(1, a) \in Nat /\ Newer(1, a) <= OpenWrites(a)
        BY <4>4, NewerType
      <4> QED BY <4>1, <4>2, <4>3, <4>5
    <3> QED BY <1>1, <1>2, <3>1 DEF T!DropFirst
  <2>6. Sound(AtLevel(j))
    BY <1>3, <2>1 DEF LevelsSound
  <2> QED BY <1>1, <1>3, <2>1, <2>3, <2>4, <2>5, <2>6, LevelMoves
<1>6. LevelsSound'
  BY <1>5 DEF LevelsSound, Sound
<1>7. RedoReads'
  <2>1. \A k \in 1..Len(Rest) : k + 1 \in 1..Len(transactions)
    BY <1>2
  <2> QED BY <1>1, <1>2, <1>3, <2>1 DEF RedoReads
<1> QED BY <1>4, <1>6, <1>7 DEF SoundInv

\* A ring without its second value
LEMMA RingWithoutSecond ==
  ASSUME NEW r \in Seq(Target), Len(r) >= 2
  PROVE  /\ T!WithoutSecond(r)[1] = r[1]
         /\ \A k \in Nat : k >= 2 /\ k \in 1..Len(T!WithoutSecond(r)) => T!WithoutSecond(r)[k] = r[k + 1]
<1> DEFINE s == T!WithoutSecond(r)
           c == <<r[2]>>
<1>1. s \in Seq(Target) /\ Len(s) = Len(r) - 1 /\ IsCut(r, s, c, 2)
  BY CutSecond
<1>2. Len(c) = 1
  OBVIOUS
<1> HIDE DEF s, c
<1>3. \A k \in 1..Len(s) : s[k] = IF k < 2 THEN r[k] ELSE r[k + 1]
  BY <1>1, <1>2 DEF IsCut
<1>4. 1 \in 1..Len(s)
  BY <1>1
<1> QED BY <1>3, <1>4 DEF s

LEMMA CommitNestedSound ==
  ASSUME IInv, IInv', PastInv, PastInv', SoundInv, CommitNestedTr
  PROVE  SoundInv'
<1> DEFINE both == transactions[2].items \cap dirty
           lower == transactions[2].items
           level == [items |-> transactions[1].items \cup transactions[2].items,
                     readonly |-> transactions[2].readonly]
<1>1. /\ Len(transactions) >= 2
      /\ transactions' = <<level>> \o SubSeq(transactions, 3, Len(transactions))
      /\ UNCHANGED <<undos, redo_count, storage>>
      /\ \A a \in Attr : \/ values'[a] = <<>>
                         \/ values'[a] = IF a \in both THEN T!WithoutSecond(values[a]) ELSE values[a]
  BY DEF CommitNestedTr, Settle, objectVars
<1>2. /\ T!InTransaction /\ Below \in Seq(LevelType)
      /\ dirty = transactions[1].items /\ dirty \in SUBSET Attr
      /\ transactions[1] \in LevelType /\ transactions[2] \in LevelType
      /\ lower \in SUBSET Attr
      /\ SubSeq(transactions, 3, Len(transactions)) = Below
      /\ Tail(transactions) = <<transactions[2]>> \o Below
  BY <1>1, TwoLevels
<1>3. /\ level \in LevelType /\ level.items = dirty \cup lower
      /\ level.readonly = transactions[2].readonly
      /\ transactions' = <<level>> \o Below
  BY <1>1, <1>2 DEF LevelType, LevelOf
<1>4. /\ Rest = <<transactions[2]>> \o Below /\ Len(Rest) = Len(transactions) - 1
      /\ Len(Below) \in Nat /\ Len(Rest) = Len(Below) + 1 /\ Len(transactions) \in Nat
      /\ Len(transactions') = Len(Below) + 1
      /\ \A k \in 1..Len(Below) : transactions'[k + 1] = Rest[k + 1]
      /\ transactions'[1] = level
      /\ \A k \in 1..Len(Rest) : Rest[k] = transactions[k + 1]
  <2>1. /\ Rest = <<transactions[2]>> \o Below /\ Len(Rest) = Len(transactions) - 1
        /\ Len(transactions) \in Nat
        /\ \A k \in 1..Len(Rest) : Rest[k] = transactions[k + 1]
    BY <1>2, Stack DEF Rest
  <2>2. Len(Rest) = Len(Below) + 1 /\ Len(Below) \in Nat
        /\ \A k \in 1..Len(Below) : Rest[k + 1] = Below[k]
    BY <1>2, <2>1
  <2>3. /\ Len(transactions') = Len(Below) + 1 /\ transactions'[1] = level
        /\ \A k \in 1..Len(Below) : transactions'[k + 1] = Below[k]
    <3> HIDE DEF level
    <3> QED BY <1>2, <1>3
  <2> QED BY <2>1, <2>2, <2>3
<1>5. StorageAgrees /\ StorageAgrees' /\ LevelsSound /\ StepsSound /\ RedoReads
  BY DEF PastInv, SoundInv
<1>6. \A a \in Attr : a \in both <=> a \in dirty /\ a \in lower
  OBVIOUS
<1> HIDE DEF level, lower, both
<1>7. StepsSound'
  <2>1. AgedTo(values')
    BY CommitNestedPast
  <2> QED BY <1>1, <1>5, <2>1, StepsStay
<1>7a. level \in LevelType /\ transactions[2] \in LevelType /\ Below \in Seq(LevelType)
  BY <1>2, <1>3
\* how many levels have written a pointer
<1>8. ASSUME NEW a \in Attr, NEW i \in 0..Len(Below)
      PROVE  /\ Newer(i + 1, a)' = CountUpTo(Items(Below), i, a) + (IF a \in dirty \/ a \in lower THEN 1 ELSE 0)
             /\ Newer(i + 2, a) = CountUpTo(Items(Below), i, a) + (IF a \in lower THEN 1 ELSE 0)
                                  + (IF a \in dirty THEN 1 ELSE 0)
             /\ CountUpTo(Items(Below), i, a) \in Nat
  <2>1. Newer(i + 1, a)' = CountUpTo(Items(Below), i, a) + (IF a \in level.items THEN 1 ELSE 0)
    <3>1. Newer(i + 1, a)' = CountUpTo(Items(<<level>> \o Below), i + 1, a)
      BY <1>3 DEF Newer
    <3>2. CountUpTo(Items(<<level>> \o Below), i + 1, a)
            = CountUpTo(Items(Below), i, a) + (IF a \in level.items THEN 1 ELSE 0)
      BY <1>7a, UpToOfPush
    <3> QED BY <3>1, <3>2
  <2>2. CountUpTo(Items(Rest), i + 1, a) = CountUpTo(Items(Below), i, a) + (IF a \in lower THEN 1 ELSE 0)
    <3>1. CountUpTo(Items(<<transactions[2]>> \o Below), i + 1, a)
            = CountUpTo(Items(Below), i, a) + (IF a \in transactions[2].items THEN 1 ELSE 0)
      BY <1>7a, UpToOfPush
    <3> QED BY <1>4, <3>1 DEF lower
  <2>3. Newer((i + 1) + 1, a) = CountUpTo(Items(Rest), i + 1, a) + (IF a \in dirty THEN 1 ELSE 0)
    <3>1. i + 1 \in 0..Len(Rest)
      BY <1>4
    <3> QED BY <1>2, <3>1, UpToOfRest
  <2>4. CountUpTo(Items(Below), i, a) \in Nat
    BY <1>2, LevelCounts
  <2>5. (i + 1) + 1 = i + 2
    OBVIOUS
  <2> QED BY <1>3, <2>1, <2>2, <2>3, <2>4, <2>5
<1>9. ASSUME NEW a \in Attr, values[a] = <<>> PROVE values'[a] = <<>>
  <2>1. OpenWrites(a) = 0
    BY <1>9, NewerType
  <2>2. 0 \in 0..Len(Below) /\ 0 + 2 = 2 /\ 2 \in 0..Len(transactions)
    BY <1>1, <1>4
  <2>3. Newer(2, a) \in Nat /\ Newer(2, a) <= OpenWrites(a)
    BY <2>2, NewerType
  <2>4. Newer(2, a) = CountUpTo(Items(Below), 0, a) + (IF a \in lower THEN 1 ELSE 0)
                      + (IF a \in dirty THEN 1 ELSE 0)
        /\ CountUpTo(Items(Below), 0, a) \in Nat
    BY <1>8, <2>2
  <2>5. a \notin dirty
    BY <2>1, <2>3, <2>4
  <2> QED BY <1>1, <1>6, <1>9, <2>5
<1>10. ASSUME NEW i \in 0..Len(transactions') PROVE Sound(AtLevel(i)')
  <2> DEFINE j == IF i = 0 THEN 0 ELSE i + 1
  <2>1. /\ i \in Nat /\ i <= Len(transactions') /\ j \in Nat /\ j <= Len(transactions)
        /\ j \in 0..Len(transactions)
        /\ i # 0 => i - 1 \in 0..Len(Below) /\ (i - 1) + 1 = i /\ (i - 1) + 2 = j
        /\ i = 0 => j = 0
    BY <1>1, <1>4
  <2> HIDE DEF j
  <2>2. ASSUME NEW a \in Attr, i # 0
        PROVE  /\ Newer(j, a) = Newer(i, a)' + (IF a \in both THEN 1 ELSE 0)
               /\ a \in both => Newer(i, a)' >= 1
    <3> DEFINE c == CountUpTo(Items(Below), i - 1, a)
    <3>1. /\ Newer(i, a)' = c + (IF a \in dirty \/ a \in lower THEN 1 ELSE 0)
          /\ Newer(j, a) = c + (IF a \in lower THEN 1 ELSE 0) + (IF a \in dirty THEN 1 ELSE 0)
          /\ c \in Nat
      <4>1. i - 1 \in 0..Len(Below) /\ (i - 1) + 1 = i /\ (i - 1) + 2 = j
        BY <2>1, <2>2
      <4>2. /\ Newer((i - 1) + 1, a)' = c + (IF a \in dirty \/ a \in lower THEN 1 ELSE 0)
            /\ Newer((i - 1) + 2, a) = c + (IF a \in lower THEN 1 ELSE 0) + (IF a \in dirty THEN 1 ELSE 0)
            /\ c \in Nat
        BY <1>8, <4>1
      <4> QED BY <4>1, <4>2
    <3> HIDE DEF c
    <3> QED BY <1>6, <3>1
  <2>3. ASSUME NEW a \in Attr, values'[a] # <<>>, values[a] # <<>>
        PROVE  values'[a][Newer(i, a)' + 1] = values[a][Newer(j, a) + 1]
    <3> DEFINE ring == values[a]
               new == values'[a]
               k == Newer(i, a)'
               m == Newer(j, a)
    <3>1. /\ ring \in Seq(Target) /\ ring # <<>> /\ k \in Nat /\ k + 1 \in 1..Len(new)
          /\ i = 0 => k = 0 /\ m = 0
          /\ i # 0 => m = k + (IF a \in both THEN 1 ELSE 0) /\ (a \in both => k >= 1)
      BY <2>1, <2>2, <2>3, Facts, NewerType, NewerTypeThen
    <3>2. new = IF a \in both THEN T!WithoutSecond(ring) ELSE ring
      BY <1>1, <2>3
    <3>3. a \in both => Len(ring) >= 2
      <4> SUFFICES ASSUME a \in both PROVE Len(ring) >= 2
        OBVIOUS
      <4>1. 0 \in 0..Len(Below) /\ 0 + 2 = 2 /\ 2 \in 0..Len(transactions)
        BY <1>1, <1>4
      <4>2. Newer(2, a) = CountUpTo(Items(Below), 0, a) + 1 + 1 /\ CountUpTo(Items(Below), 0, a) \in Nat
        BY <1>6, <1>8, <4>1
      <4>3. Newer(2, a) + 1 \in 1..Len(ring)
        BY <2>3, <4>1, NewerType
      <4>4. Len(ring) \in Nat
        BY <3>1
      <4> HIDE DEF ring
      <4> QED BY <4>2, <4>3, <4>4
    <3> HIDE DEF ring, new, k, m
    <3>4. CASE a \in both /\ i = 0
      <4>1. k = 0 /\ m = 0 /\ new = T!WithoutSecond(ring) /\ new[1] = ring[1] /\ 0 + 1 = 1
        BY <3>1, <3>2, <3>3, <3>4, RingWithoutSecond
      <4> QED BY <4>1 DEF ring, new, k, m
    <3>5. CASE a \in both /\ i # 0
      <4>1. m = k + 1 /\ k + 1 >= 2 /\ k + 1 \in Nat /\ new = T!WithoutSecond(ring)
        BY <3>1, <3>2, <3>5
      <4>2. new[k + 1] = ring[k + 1 + 1]
        BY <3>1, <3>3, <3>5, <4>1, RingWithoutSecond
      <4> QED BY <4>1, <4>2 DEF ring, new, k, m
    <3>6. CASE a \notin both
      <4>1. m = k /\ new = ring
        BY <3>1, <3>2, <3>6
      <4> QED BY <4>1 DEF ring, new, k, m
    <3> QED BY <3>4, <3>5, <3>6
  <2>4. ASSUME NEW a \in Attr, values'[a] = <<>> PROVE Newer(j, a) = OpenWrites(a)
    <3> DEFINE open == OpenWrites(a)
    <3>1. PICK l \in Nat : l = Len(Below)
      BY <1>4
    <3>2. /\ l \in 0..Len(Below) /\ l + 1 = Len(transactions') /\ l + 2 = Len(transactions)
          /\ l + 1 \in 0..Len(transactions')
      BY <1>4, <3>1
    <3>3. /\ Newer(l + 1, a)' = CountUpTo(Items(Below), l, a) + (IF a \in dirty \/ a \in lower THEN 1 ELSE 0)
          /\ Newer(l + 2, a) = CountUpTo(Items(Below), l, a) + (IF a \in lower THEN 1 ELSE 0)
                               + (IF a \in dirty THEN 1 ELSE 0)
          /\ CountUpTo(Items(Below), l, a) \in Nat
      BY <1>8, <3>2
    <3>a. Newer(l + 2, a) = open
      BY <3>2, Facts, LevelCounts DEF Newer, OpenWrites
    <3>b. Newer(l + 1, a)' = 0
      BY <2>4, <3>2, NewerTypeThen
    <3>4. open = 0
      BY <3>3, <3>a, <3>b
    <3>5. Newer(j, a) \in Nat /\ Newer(j, a) <= open
      BY <2>1, NewerType
    <3> HIDE DEF open
    <3>6. Newer(j, a) = open
      BY <3>4, <3>5
    <3> QED BY <3>6 DEF open
  <2>5. \A a \in Attr : values[a] = <<>> => Newer(i, a)' = OpenWrites(a)'
    BY <1>9, <2>1, NewerTypeThen
  <2>6. Sound(AtLevel(j))
    BY <1>5, <2>1 DEF LevelsSound
  <2> QED BY <1>1, <1>5, <2>1, <2>3, <2>4, <2>5, <2>6, LevelMoves
<1>11. LevelsSound'
  BY <1>10 DEF LevelsSound, Sound
<1>12. RedoReads'
  <2> SUFFICES ASSUME redo_count > 0, NEW k \in 1..Len(transactions')
               PROVE  transactions'[k].items = {} /\ transactions'[k].readonly
    BY <1>1 DEF RedoReads
  <2>1. \A n \in 1..Len(transactions) : transactions[n].items = {} /\ transactions[n].readonly
    BY <1>5 DEF RedoReads
  <2>2. 1 \in 1..Len(transactions) /\ 2 \in 1..Len(transactions)
    BY <1>1, <1>4
  <2>3. CASE k = 1
    <3>1. dirty = {} /\ lower = {} /\ transactions[2].readonly
      BY <1>2, <2>1, <2>2 DEF lower
    <3> QED BY <1>3, <1>4, <2>3, <3>1
  <2>4. CASE k # 1
    <3>1. k - 1 \in 1..Len(Below) /\ (k - 1) + 1 = k /\ k \in 1..Len(Rest) /\ k + 1 \in 1..Len(transactions)
      BY <1>4, <2>4
    <3>2. transactions'[k] = transactions[k + 1]
      BY <1>4, <3>1
    <3> QED BY <2>1, <3>1, <3>2
  <2> QED BY <2>3, <2>4
<1> QED BY <1>7, <1>11, <1>12 DEF SoundInv

-----------------------------------------------------------------------------
(* Writing                                                                 *)

\* One pointer is written: the new target has a pointer, and the last
\* pointer of its object is not taken away.
LEMMA WrittenSound ==
  ASSUME NEW doc, NEW new, Sound(doc), NEW a \in Attr, NEW v \in Target,
         \A b \in Attr : new[b] = IF b = a THEN v ELSE doc[b],
         v \in Object \ {Root} => \E b \in AttrsOf(v) : doc[b] # Null,
         v = Null => \E b \in AttrsOf(Owner[a]) \ {a} : doc[b] # Null
  PROVE  Sound(new)
<1> SUFFICES ASSUME NEW b \in Attr, new[b] \notin {Null, Root}
             PROVE  \E c \in AttrsOf(new[b]) : new[c] # Null
  BY DEF Sound
<1> DEFINE x == new[b]
<1>1. PICK c \in AttrsOf(x) : doc[c] # Null
  <2>1. CASE b = a
    BY <2>1 DEF Target
  <2>2. CASE b # a
    BY <2>2 DEF Sound
  <2> QED BY <2>1, <2>2
<1>2. c \in Attr /\ Owner[c] = x
  BY DEF AttrsOf
<1>3. CASE c # a
  BY <1>1, <1>2, <1>3
<1>4. CASE c = a /\ v # Null
  BY <1>1, <1>2, <1>4
<1>5. CASE c = a /\ v = Null
  <2>1. PICK d \in AttrsOf(Owner[a]) \ {a} : doc[d] # Null
    BY <1>5
  <2>2. d \in Attr /\ d \in AttrsOf(x) /\ new[d] = doc[d]
    BY <1>2, <1>5, <2>1 DEF AttrsOf
  <2> QED BY <2>1, <2>2
<1> QED BY <1>3, <1>4, <1>5

\* All pointers of an object that no other one points to are taken away.
LEMMA EmptiedSound ==
  ASSUME NEW doc, NEW new, Sound(doc), NEW o,
         \A b \in Attr : new[b] = IF b \in AttrsOf(o) THEN Null ELSE doc[b],
         \A b \in Attr : doc[b] = o => Owner[b] = o
  PROVE  Sound(new)
<1> SUFFICES ASSUME NEW b \in Attr, new[b] \notin {Null, Root}
             PROVE  \E c \in AttrsOf(new[b]) : new[c] # Null
  BY DEF Sound
<1>1. b \notin AttrsOf(o) /\ new[b] = doc[b]
  OBVIOUS
<1>2. PICK c \in AttrsOf(doc[b]) : doc[c] # Null
  BY <1>1 DEF Sound
<1>3. doc[b] # o
  BY <1>1 DEF AttrsOf
<1>4. c \in Attr /\ c \notin AttrsOf(o)
  BY <1>2, <1>3 DEF AttrsOf
<1> QED BY <1>1, <1>2, <1>4

\* What a write does to what the client reads and to the levels below
LEMMA PutAllSound ==
  ASSUME IInv, IInv', PastInv, PastInv', SoundInv, T!InWriteTransaction, NEW o \in Object,
         NEW attrs \in SUBSET AttrsOf(o), NEW v \in Target, PutAll(o, attrs, v), AgedTo(values'),
         Sound(AtLevel(0)')
  PROVE  SoundInv'
<1> DEFINE objs == NeedsLoad(PutReads(o, attrs), PutWrites(o, attrs, v))
                   \cup (IF IsLoaded(o) THEN {} ELSE {o})
           rings == Filled(objs, storage)
           first == [transactions[1] EXCEPT !.items = @ \cup (attrs \ dirty)]
<1>1. /\ attrs \in SUBSET Attr /\ T!InTransaction
      /\ transactions \in Seq(LevelType) /\ Len(transactions) \in Nat /\ transactions # <<>>
      /\ redo_count \in Nat
  BY Facts DEF AttrsOf, T!InWriteTransaction, T!InTransaction
<1>2. /\ values' = Putting(Filled(objs, storage), attrs, v)
      /\ transactions' = [transactions EXCEPT ![1].items = @ \cup (attrs \ dirty)]
      /\ UNCHANGED <<undos, redo_count, storage>>
  BY <1>1, PutAllDoes
<1>3. objs \in SUBSET Object /\ (IsLoaded(o) \/ o \in objs)
  BY DEF NeedsLoad
<1> HIDE DEF objs
<1>4. \A a \in Attr : PutFacts(Filled(objs, storage)[a], values'[a], attrs, v, a)
  BY <1>1, <1>2, <1>3, PutRingsOK
<1>5. StorageAgrees /\ StorageAgrees' /\ LevelsSound /\ StepsSound /\ RedoReads
  BY DEF PastInv, SoundInv
<1>6. StepsSound'
  BY <1>2, <1>5, StepsStay
<1>7. RedoReads'
  <2>1. 1 \in 1..Len(transactions) /\ ~transactions[1].readonly
    BY <1>1 DEF T!InWriteTransaction
  <2>2. ~(redo_count > 0)
    BY <1>5, <2>1 DEF RedoReads
  <2> QED BY <1>2, <2>2 DEF RedoReads
<1>8. /\ Rest \in Seq(LevelType) /\ Len(Rest) = Len(transactions) - 1
      /\ first \in LevelType /\ first.items = dirty \cup attrs /\ transactions' = <<first>> \o Rest
      /\ Len(transactions') = Len(transactions)
  <2>1. /\ Rest \in Seq(LevelType) /\ Len(Rest) = Len(transactions) - 1
        /\ transactions[1] \in LevelType /\ dirty = transactions[1].items
        /\ \A k \in 1..Len(Rest) : Rest[k] = transactions[k + 1]
    BY <1>1, Stack
  <2>2. first \in LevelType /\ first.items = dirty \cup attrs
    BY <1>1, <2>1 DEF LevelType, LevelOf
  <2>3. transactions' = [transactions EXCEPT ![1] = first]
    BY <1>2
  <2> HIDE DEF first
  <2>4. /\ transactions' \in Seq(LevelType) /\ Len(transactions') = Len(transactions)
        /\ transactions'[1] = first
        /\ \A k \in 2..Len(transactions) : transactions'[k] = transactions[k]
    BY <1>1, <2>2, <2>3
  <2> DEFINE t == <<first>> \o Rest
  <2>5. /\ t \in Seq(LevelType) /\ Len(t) = Len(transactions) /\ t[1] = first
        /\ \A k \in 2..Len(transactions) : t[k] = Rest[k - 1]
    BY <1>1, <2>1, <2>2
  <2> HIDE DEF t
  <2>6. \A k \in 2..Len(transactions) : k - 1 \in 1..Len(Rest) /\ (k - 1) + 1 = k
    BY <1>1, <2>1
  <2>7. \A k \in 1..Len(transactions) : transactions'[k] = t[k]
    <3> SUFFICES ASSUME NEW k \in 1..Len(transactions) PROVE transactions'[k] = t[k]
      OBVIOUS
    <3>1. CASE k = 1
      BY <2>4, <2>5, <3>1
    <3>2. CASE k # 1
      <4>1. k \in 2..Len(transactions)
        BY <3>2
      <4> QED BY <2>1, <2>4, <2>5, <2>6, <4>1
    <3> QED BY <3>1, <3>2
  <2>8. transactions' = t
    BY <2>4, <2>5, <2>7, SeqEqual
  <2> QED BY <2>1, <2>2, <2>4, <2>8 DEF t
<1> HIDE DEF first
<1>9. ASSUME NEW i \in 0..Len(transactions') PROVE Sound(AtLevel(i)')
  <2>1. CASE i = 0
    BY <2>1
  <2>2. CASE i # 0
    <3>1. /\ i \in Nat /\ i <= Len(transactions') /\ i <= Len(transactions) /\ i \in 0..Len(transactions)
          /\ i - 1 \in 0..Len(Rest) /\ (i - 1) + 1 = i
      BY <1>1, <1>8, <2>2
    <3>2. ASSUME NEW a \in Attr
          PROVE  /\ Newer(i, a)' = Newer(i, a) + (IF a \in attrs /\ a \notin dirty THEN 1 ELSE 0)
                 /\ a \in dirty => Newer(i, a) >= 1
      <4> DEFINE c == CountUpTo(Items(Rest), i - 1, a)
      <4>1. Newer((i - 1) + 1, a) = c + (IF a \in dirty THEN 1 ELSE 0)
        BY <1>1, <3>1, UpToOfRest
      <4>2. Newer(i, a)' = CountUpTo(Items(<<first>> \o Rest), (i - 1) + 1, a)
        BY <1>8, <3>1 DEF Newer
      <4>3. CountUpTo(Items(<<first>> \o Rest), (i - 1) + 1, a) = c + (IF a \in first.items THEN 1 ELSE 0)
        BY <1>8, <3>1, UpToOfPush
      <4>4. c \in Nat
        BY <1>8, <3>1, LevelCounts
      <4>5. a \in first.items <=> a \in dirty \/ a \in attrs
        BY <1>8
      <4> HIDE DEF c
      <4> QED BY <3>1, <4>1, <4>2, <4>3, <4>4, <4>5
    <3>3. ASSUME NEW a \in Attr, values'[a] # <<>>, values[a] # <<>>
          PROVE  values'[a][Newer(i, a)' + 1] = values[a][Newer(i, a) + 1]
      <4> DEFINE ring == values[a]
                 new == values'[a]
                 k == Newer(i, a)'
                 m == Newer(i, a)
      <4>1. /\ ring \in Seq(Target) /\ ring # <<>> /\ m \in Nat /\ m + 1 \in 1..Len(ring)
            /\ k = m + (IF a \in attrs /\ a \notin dirty THEN 1 ELSE 0) /\ (a \in dirty => m >= 1)
        BY <3>1, <3>2, <3>3, Facts, NewerType
      <4>2. PutFacts(ring, new, attrs, v, a)
        <5>1. Filled(objs, storage)[a] = ring
          BY <3>3 DEF Filled
        <5> QED BY <1>4, <5>1
      <4> HIDE DEF ring, new, k, m
      <4>3. CASE a \notin attrs
        <5>1. new = ring /\ k = m
          BY <4>1, <4>2, <4>3 DEF PutFacts
        <5> QED BY <5>1 DEF ring, new, k, m
      <4>4. CASE a \in attrs /\ a \in dirty
        <5>a. new = <<v>> \o Tail(ring)
          BY <4>2, <4>4, Zenon DEF PutFacts
        <5>b. k = m /\ m >= 1
          BY <4>1, <4>4
        <5>1. new = <<v>> \o Tail(ring) /\ k = m /\ m >= 1
          BY <5>a, <5>b
        <5>2. \A j \in 2..Len(ring) : (<<v>> \o Tail(ring))[j] = ring[j]
          BY <4>1
        <5>3. m + 1 \in 2..Len(ring)
          BY <4>1, <5>1
        <5>4. new[k + 1] = ring[m + 1]
          BY <5>1, <5>2, <5>3
        <5> QED BY <5>4 DEF ring, new, k, m
      <4>5. CASE a \in attrs /\ a \notin dirty
        <5>1. new = <<v>> \o ring /\ k = m + 1
          BY <4>1, <4>2, <4>5 DEF PutFacts
        <5>2. \A j \in 1..Len(ring) : (<<v>> \o ring)[j + 1] = ring[j]
          BY <4>1
        <5>3. new[k + 1] = ring[m + 1]
          BY <4>1, <5>1, <5>2
        <5> QED BY <5>3 DEF ring, new, k, m
      <4> QED BY <4>3, <4>4, <4>5
    <3>4. ASSUME NEW a \in Attr, values'[a] = <<>> PROVE Newer(i, a) = OpenWrites(a)
      <4>1. Filled(objs, storage)[a] = <<>>
        <5>1. Len(<<>>) = 0 /\ ~(0 >= 2)
          OBVIOUS
        <5>2. a \notin attrs
          BY <1>4, <3>4, <5>1 DEF PutFacts
        <5> QED BY <1>4, <3>4, <5>2 DEF PutFacts
      <4>2. values[a] = <<>>
        <5>1. <<storage[a]>> # <<>>
          OBVIOUS
        <5> QED BY <4>1, <5>1 DEF Filled
      <4> QED BY <3>1, <4>2, NewerType
    <3>5. ASSUME NEW a \in Attr, values[a] = <<>> PROVE Newer(i, a)' = OpenWrites(a)'
      <4>1. /\ OpenWrites(a)' = Count(Items(Rest), a) + (IF a \in dirty \/ a \in attrs THEN 1 ELSE 0)
            /\ OpenWrites(a) = Count(Items(Rest), a) + (IF a \in dirty THEN 1 ELSE 0)
            /\ Count(Items(Rest), a) \in Nat
        <5>1. Count(Items(<<first>> \o Rest), a) = Count(Items(Rest), a) + (IF a \in first.items THEN 1 ELSE 0)
          BY <1>8, LevelCountOfPrepend DEF LevelType
        <5>2. Older(a) = Count(Items(Rest), a) + (IF a \in dirty THEN 1 ELSE 0) + Count(undos, a)
              /\ Count(Items(Rest), a) \in Nat
          BY <1>1, Stack
        <5>3. Older(a) = OpenWrites(a) + Count(undos, a) /\ OpenWrites(a) \in Nat /\ Count(undos, a) \in Nat
          BY Facts DEF OpenWrites
        <5>4. OpenWrites(a)' = Count(Items(<<first>> \o Rest), a)
          BY <1>8 DEF OpenWrites
        <5>5. a \in first.items <=> a \in dirty \/ a \in attrs
          BY <1>8
        <5> QED BY <5>1, <5>2, <5>3, <5>4, <5>5
      <4>2. OpenWrites(a) = 0 /\ Newer(i, a) = OpenWrites(a)
        BY <3>1, <3>5, NewerType
      <4> QED BY <3>2, <4>1, <4>2
    <3>6. Sound(AtLevel(i))
      BY <1>5, <3>1 DEF LevelsSound
    <3> QED BY <1>2, <1>5, <3>1, <3>3, <3>4, <3>5, <3>6, LevelMoves
  <2> QED BY <2>1, <2>2
<1>10. LevelsSound'
  BY <1>9 DEF LevelsSound, Sound
<1> QED BY <1>6, <1>7, <1>10 DEF SoundInv

\* What a client reads after a write
LEMMA WrittenReads ==
  ASSUME IInv, IInv', PastInv, T!InWriteTransaction, NEW o \in Object,
         NEW attrs \in SUBSET AttrsOf(o), NEW v \in Target, PutAll(o, attrs, v), NEW a \in Attr
  PROVE  AtLevel(0)'[a] = IF a \in attrs THEN v ELSE AtLevel(0)[a]
<1> DEFINE objs == NeedsLoad(PutReads(o, attrs), PutWrites(o, attrs, v))
                   \cup (IF IsLoaded(o) THEN {} ELSE {o})
           before == Filled(objs, storage)[a]
           new == values'[a]
<1>1. attrs \in SUBSET Attr /\ T!InTransaction
  BY DEF AttrsOf, T!InWriteTransaction
<1>2. values' = Putting(Filled(objs, storage), attrs, v) /\ storage' = storage
  BY <1>1, PutAllDoes
<1>3. objs \in SUBSET Object /\ (IsLoaded(o) \/ o \in objs)
  BY DEF NeedsLoad
<1> HIDE DEF objs
<1>4. PutFacts(before, new, attrs, v, a)
  BY <1>1, <1>2, <1>3, PutRingsOK
<1>5. AtLevel(0)'[a] = ReadAt(new, 1, storage[a])
  <2>1. Newer(0, a)' = 0 /\ 0 + 1 = 1
    BY NewerTypeThen
  <2> QED BY <1>2, <2>1 DEF AtLevel
<1>6. AtLevel(0)[a] = Current(a)
  BY DocumentEnds DEF PastInv
<1>7. before = values[a] \/ (before = <<storage[a]>> /\ values[a] = <<>>)
  BY DEF Filled
<1> HIDE DEF before, new
<1>8. CASE a \in attrs
  <2>1. Len(new) >= 2 /\ before \in Seq(Target) /\ new \in Seq(Target)
    BY <1>4, <1>8 DEF PutFacts
  <2>2. new = <<v>> \o Tail(before) \/ new = <<v>> \o before
    BY <1>4, <1>8, Zenon DEF PutFacts
  <2>3. before # <<>>
    BY <1>4, <1>8, Zenon DEF PutFacts
  <2>4. Tail(before) \in Seq(Target)
    BY <2>1, <2>3
  <2>5. \A s \in Seq(Target) : (<<v>> \o s)[1] = v /\ <<v>> \o s # <<>>
    OBVIOUS
  <2>6. new # <<>> /\ new[1] = v
    BY <2>1, <2>2, <2>4, <2>5, Zenon
  <2> QED BY <1>5, <1>8, <2>6 DEF ReadAt
<1>9. CASE a \notin attrs
  <2>1. new = before
    BY <1>4, <1>9, Zenon DEF PutFacts
  <2>2. ReadAt(before, 1, storage[a]) = Current(a)
    <3>1. <<storage[a]>> # <<>> /\ <<storage[a]>>[1] = storage[a]
      OBVIOUS
    <3> QED BY <1>7, <3>1 DEF ReadAt, Current
  <2> QED BY <1>5, <1>6, <1>9, <2>1, <2>2
<1> QED BY <1>8, <1>9

LEMMA PutPointerSound ==
  ASSUME Careful = TRUE, IInv, IInv', PastInv, PastInv', SoundInv,
         NEW a \in Attr, NEW v \in Target, PutPointer(a, v)
  PROVE  SoundInv'
<1> DEFINE o == Owner[a]
           doc == AtLevel(0)
<1>1. /\ T!InWriteTransaction /\ v \in Target /\ MayPut(o, a, v) /\ PutAll(o, {a}, v)
      /\ o \in Object /\ {a} \in SUBSET AttrsOf(o)
  BY OwnerType DEF PutPointer, AttrsOf
<1>2. \A b \in Attr : doc[b] = Current(b)
  BY DocumentEnds DEF PastInv
<1>3. \A b \in Attr : AtLevel(0)'[b] = IF b = a THEN v ELSE doc[b]
  <2> SUFFICES ASSUME NEW b \in Attr PROVE AtLevel(0)'[b] = IF b = a THEN v ELSE doc[b]
    OBVIOUS
  <2>1. AtLevel(0)'[b] = IF b \in {a} THEN v ELSE AtLevel(0)[b]
    BY <1>1, WrittenReads
  <2> QED BY <2>1
<1>4. v \in Object \ {Root} => \E b \in AttrsOf(v) : doc[b] # Null
  BY <1>1, <1>2 DEF MayPut, HasEmptyPointers, AttrsOf
<1>5. v = Null => \E b \in AttrsOf(o) \ {a} : doc[b] # Null
  BY <1>1, <1>2 DEF MayPut, AttrsOf
<1>6. Sound(doc)
  <2>1. 0 \in 0..Len(transactions)
    BY Facts
  <2> QED BY <2>1 DEF SoundInv, LevelsSound
<1> HIDE DEF doc
<1>7. Sound(AtLevel(0)')
  BY <1>3, <1>4, <1>5, <1>6, WrittenSound
<1>8. AgedTo(values')
  BY PutPointerPast
<1> QED BY <1>1, <1>7, <1>8, PutAllSound

\* A client that has walked the collections of o knows whether they are empty.
LEMMA NothingPointsHere ==
  ASSUME IInv, PastInv, NEW o \in stored \ {Root},
         \A p \in Pointer : MayBeFoundEmpty(o, p) /\ Walked(o, p), NEW b \in Attr, Current(b) = o
  PROVE  FALSE
<1>1. PICK x \in Object \ {Root}, p \in Pointer : b = <<x, p>>
  BY DEF Attr
<1>2. /\ stored \subseteq Object /\ GoneOK /\ UpToDateOK /\ o \in Object /\ o # Null
      /\ Owner[b] = x /\ (values[b] # <<>> <=> IsLoaded(x))
  BY <1>1, ObjectsAssumption DEF IInv, TypeOK, PastInv, LoadedOK, Owner
<1>3. Collection(o, p) = {} /\ {y \in {o} : Current(<<y, p>>) = o} = {}
  BY DEF MayBeFoundEmpty, PointsHere
<1>4. values[b] = <<>> /\ storage[b] = o /\ ~IsLoaded(x)
  <2>1. ~(values[b] # <<>> /\ values[b][1] = o)
    BY <1>1, <1>3 DEF Collection
  <2> QED BY <1>2, <2>1 DEF Current
<1>5. x # o
  BY <1>1, <1>3
<1>6. x \in stored \ {Root}
  BY <1>1, <1>2, <1>4 DEF GoneOK, AttrsOf
<1>7. x \in Listed(o, p)
  BY <1>1, <1>4, <1>6 DEF Listed
<1>8. <<o, p>> \in uptodate
  BY <1>4, <1>5, <1>7 DEF Walked
<1> QED BY <1>1, <1>2, <1>4, <1>6, <1>8 DEF UpToDateOK

LEMMA DeleteSound ==
  ASSUME Careful = TRUE, IInv, IInv', PastInv, PastInv', SoundInv, NEW o \in Object, Delete(o)
  PROVE  SoundInv'
<1> DEFINE doc == AtLevel(0)
<1>1. /\ T!InWriteTransaction /\ o \in stored \ {Root} /\ PutAll(o, AttrsOf(o), Null)
      /\ \A p \in Pointer : MayBeFoundEmpty(o, p) /\ Walked(o, p)
      /\ AttrsOf(o) \in SUBSET AttrsOf(o) /\ Null \in Target
  BY DEF Delete, Target
<1>2. \A b \in Attr : doc[b] = Current(b)
  BY DocumentEnds DEF PastInv
<1>3. \A b \in Attr : AtLevel(0)'[b] = IF b \in AttrsOf(o) THEN Null ELSE doc[b]
  BY <1>1, WrittenReads
<1>4. \A b \in Attr : doc[b] = o => Owner[b] = o
  BY <1>1, <1>2, NothingPointsHere
<1>5. Sound(doc)
  <2>1. 0 \in 0..Len(transactions)
    BY Facts
  <2> QED BY <2>1 DEF SoundInv, LevelsSound
<1> HIDE DEF doc
<1>6. Sound(AtLevel(0)')
  BY <1>3, <1>4, <1>5, EmptiedSound
<1>7. AgedTo(values')
  BY DeletePast
<1> QED BY <1>1, <1>6, <1>7, PutAllSound

-----------------------------------------------------------------------------
(* Steps after which no level has written                                  *)

LEMMA ThenDocuments ==
  ASSUME IInv', NEW a \in Attr, OpenWrites(a)' = 0, NEW m, m \in 0..Len(undos')
  PROVE  /\ CountUpTo(undos', m, a) \in Nat /\ CountAfter(undos', m, a) \in Nat
         /\ Count(undos', a) = CountUpTo(undos', m, a) + CountAfter(undos', m, a)
         /\ AfterUndo(m)'[a] = ReadAt(values'[a], CountUpTo(undos', m, a) + 1, storage'[a])
         /\ AfterRedo(m)'[a] = IF CountAfter(undos', m, a) = 0 THEN storage'[a]
                                 ELSE ReadAt(values'[a], CountUpTo(undos', m, a) + 2, storage'[a])
<1>1. undos' \in Seq(SUBSET Attr)
  BY DEF IInv, TypeOK
<1>2. /\ CountUpTo(undos', m, a) \in Nat /\ CountAfter(undos', m, a) \in Nat
      /\ Count(undos', a) = CountUpTo(undos', m, a) + CountAfter(undos', m, a)
  BY <1>1, UpToCounts
<1> DEFINE up == CountUpTo(undos', m, a)
           later == CountAfter(undos', m, a)
<1>3. /\ AfterUndo(m)'[a] = ReadAt(values'[a], 0 + up + 1, storage'[a])
      /\ AfterRedo(m)'[a] = IF later = 0 THEN storage'[a] ELSE ReadAt(values'[a], 0 + up + 2, storage'[a])
  BY DEF AfterUndo, AfterRedo
<1> HIDE DEF up, later
<1>4. 0 + up + 1 = up + 1 /\ 0 + up + 2 = up + 2
  BY <1>2 DEF up
<1> QED BY <1>2, <1>3, <1>4 DEF up, later

LEMMA NowDocuments ==
  ASSUME IInv, NEW a \in Attr, OpenWrites(a) = 0, NEW m \in 0..Len(undos)
  PROVE  /\ CountUpTo(undos, m, a) \in Nat /\ CountAfter(undos, m, a) \in Nat
         /\ Count(undos, a) = CountUpTo(undos, m, a) + CountAfter(undos, m, a)
         /\ AfterUndo(m)[a] = ReadAt(values[a], CountUpTo(undos, m, a) + 1, storage[a])
         /\ AfterRedo(m)[a] = IF CountAfter(undos, m, a) = 0 THEN storage[a]
                                ELSE ReadAt(values[a], CountUpTo(undos, m, a) + 2, storage[a])
<1>1. undos \in Seq(SUBSET Attr)
  BY DEF IInv, TypeOK
<1>2. /\ CountUpTo(undos, m, a) \in Nat /\ CountAfter(undos, m, a) \in Nat
      /\ Count(undos, a) = CountUpTo(undos, m, a) + CountAfter(undos, m, a)
  BY <1>1, UpToCounts
<1> DEFINE up == CountUpTo(undos, m, a)
           later == CountAfter(undos, m, a)
<1>3. /\ AfterUndo(m)[a] = ReadAt(values[a], 0 + up + 1, storage[a])
      /\ AfterRedo(m)[a] = IF later = 0 THEN storage[a] ELSE ReadAt(values[a], 0 + up + 2, storage[a])
  BY DEF AfterUndo, AfterRedo
<1> HIDE DEF up, later
<1>4. 0 + up + 1 = up + 1 /\ 0 + up + 2 = up + 2
  BY <1>2 DEF up
<1> QED BY <1>2, <1>3, <1>4 DEF up, later

\* Between transactions no level is open.
LEMMA IdleOpens ==
  ASSUME IInv, ~T!InTransaction
  PROVE  \A a \in Attr : OpenWrites(a) = 0
<1>1. transactions = <<>>
  BY Idle
<1>2. transactions \in Seq(LevelOf(Attr))
  BY Facts DEF LevelType
<1>3. \A a \in Attr : Count(Items(transactions), a) = 0
  BY <1>1, <1>2, LevelCount
<1> QED BY <1>3 DEF OpenWrites

\* What such a step has to show
LEMMA EndSound ==
  ASSUME IInv', PastInv', \A a \in Attr : OpenWrites(a)' = 0, StepsSound', RedoReads'
  PROVE  SoundInv'
<1>1. /\ undos' \in Seq(SUBSET Attr) /\ redo_count' \in Nat /\ transactions' \in Seq(LevelType)
      /\ redo_count' <= Len(undos') /\ Len(undos') \in Nat
  <2>1. /\ undos' \in Seq(SUBSET Attr) /\ redo_count' \in Nat /\ transactions' \in Seq(LevelType)
        /\ redo_count' <= Len(undos') - (IF T!InTransaction' THEN 1 ELSE 0)
    BY DEF IInv, TypeOK, QueueOK
  <2> QED BY <2>1
<1>2. 0 \in 0..(Len(undos') - redo_count') /\ 0 \in 0..Len(undos')
  BY <1>1
<1>3. Sound(AfterUndo(0)')
  BY <1>2 DEF StepsSound, Sound
<1>4. ASSUME NEW i \in 0..Len(transactions') PROVE Sound(AtLevel(i)')
  <2>1. ASSUME NEW a \in Attr PROVE AtLevel(i)'[a] = AfterUndo(0)'[a]
    <3>1. Newer(i, a)' \in Nat /\ Newer(i, a)' <= OpenWrites(a)'
      BY <1>1, LevelCounts DEF Newer, OpenWrites
    <3>2. Newer(i, a)' + 1 = 1
      BY <3>1
    <3>3. AtLevel(i)'[a] = ReadAt(values'[a], Newer(i, a)' + 1, storage'[a])
      BY DEF AtLevel
    <3>4. CountUpTo(undos', 0, a) = 0
      BY <1>1, UpToCounts
    <3>5. AfterUndo(0)'[a] = ReadAt(values'[a], 0 + 1, storage'[a])
      BY <1>2, <3>4, ThenDocuments
    <3> QED BY <3>2, <3>3, <3>5
  <2>2. \A a \in Attr : AtLevel(i)'[a] = AfterUndo(0)'[a]
    BY <2>1
  <2> QED BY <1>3, <2>2, SoundAlike
<1>5. LevelsSound'
  BY <1>4 DEF LevelsSound, Sound
<1> QED BY <1>5 DEF SoundInv

LEMMA StepsThen ==
  ASSUME IInv',
         \A n \in 0..(Len(undos') - redo_count') : \E doc : Sound(doc) /\ \A a \in Attr : AfterUndo(n)'[a] = doc[a],
         \A n \in (Len(undos') - redo_count')..Len(undos') :
           \E doc : Sound(doc) /\ \A a \in Attr : AfterRedo(n)'[a] = doc[a]
  PROVE  StepsSound'
<1>1. ASSUME NEW n \in 0..(Len(undos') - redo_count') PROVE Sound(AfterUndo(n)')
  <2>1. PICK doc : Sound(doc) /\ \A a \in Attr : AfterUndo(n)'[a] = doc[a]
    OBVIOUS
  <2> QED BY <2>1, SoundAlike
<1>2. ASSUME NEW n \in (Len(undos') - redo_count')..Len(undos') PROVE Sound(AfterRedo(n)')
  <2>1. PICK doc : Sound(doc) /\ \A a \in Attr : AfterRedo(n)'[a] = doc[a]
    OBVIOUS
  <2> QED BY <2>1, SoundAlike
<1> QED BY <1>1, <1>2 DEF StepsSound, Sound

\* After the last step that can be redone the storage is what it is.
LEMMA LastRedo ==
  ASSUME IInv', PastInv', NEW a \in Attr, OpenWrites(a)' = 0, NEW len, len = Len(undos')
  PROVE  AfterRedo(len)'[a] = storage'[a] /\ AfterUndo(0)'[a] = storage'[a]
<1>1. undos' \in Seq(SUBSET Attr) /\ len \in 0..Len(undos') /\ 0 \in 0..Len(undos')
  BY DEF IInv, TypeOK
<1>2. CountUpTo(undos', len, a) = Count(undos', a) /\ CountUpTo(undos', 0, a) = 0
  BY <1>1, UpToCounts
<1>3. CountAfter(undos', len, a) = 0
  <2>1. /\ CountUpTo(undos', len, a) \in Nat /\ CountAfter(undos', len, a) \in Nat
        /\ Count(undos', a) = CountUpTo(undos', len, a) + CountAfter(undos', len, a)
    BY <1>1, ThenDocuments
  <2> DEFINE up == CountUpTo(undos', len, a)
             later == CountAfter(undos', len, a)
  <2>2. up \in Nat /\ later \in Nat /\ up = up + later
    BY <1>2, <2>1
  <2> HIDE DEF up, later
  <2>3. later = 0
    BY <2>2
  <2> QED BY <2>3 DEF later
<1>4. AfterRedo(len)'[a] = IF CountAfter(undos', len, a) = 0 THEN storage'[a]
                             ELSE ReadAt(values'[a], CountUpTo(undos', len, a) + 2, storage'[a])
  BY <1>1, ThenDocuments
<1>5. AfterUndo(0)'[a] = ReadAt(values'[a], 1, storage'[a])
  <2>1. AfterUndo(0)'[a] = ReadAt(values'[a], CountUpTo(undos', 0, a) + 1, storage'[a])
    BY <1>1, ThenDocuments
  <2>2. 0 + 1 = 1
    OBVIOUS
  <2> QED BY <1>2, <2>1, <2>2
<1>6. values'[a] # <<>> => storage'[a] = values'[a][1]
  <2>1. values'[a] # <<>> => storage'[a] = values'[a][0 + 1]
    BY DEF PastInv, StorageAgrees
  <2>2. 0 + 1 = 1
    OBVIOUS
  <2> QED BY <2>1, <2>2
<1> QED BY <1>3, <1>4, <1>5, <1>6 DEF ReadAt

\* What undo and redo come to after a step, if it is what they came to before
LEMMA StepsComeFrom ==
  ASSUME IInv', PastInv', \A a \in Attr : OpenWrites(a)' = 0,
         \A n \in 0..(Len(undos') - redo_count') :
           \E doc : Sound(doc) /\ \A a \in Attr : AfterUndo(n)'[a] = doc[a],
         \A n \in (Len(undos') - redo_count')..(Len(undos') - 1) :
           \E doc : Sound(doc) /\ \A a \in Attr : AfterRedo(n)'[a] = doc[a]
  PROVE  StepsSound'
<1>1. PICK len : len = Len(undos')
  OBVIOUS
<1>2. len \in Nat /\ redo_count' \in Nat /\ redo_count' <= len
  <2>1. /\ undos' \in Seq(SUBSET Attr) /\ redo_count' \in Nat
        /\ redo_count' <= Len(undos') - (IF T!InTransaction' THEN 1 ELSE 0)
    BY DEF IInv, TypeOK, QueueOK
  <2> QED BY <1>1, <2>1
<1>3. ASSUME NEW n \in (Len(undos') - redo_count')..Len(undos')
      PROVE  \E doc : Sound(doc) /\ \A a \in Attr : AfterRedo(n)'[a] = doc[a]
  <2>1. CASE n = len
    <3>1. 0 \in 0..(Len(undos') - redo_count')
      BY <1>1, <1>2
    <3>2. PICK doc : Sound(doc) /\ \A a \in Attr : AfterUndo(0)'[a] = doc[a]
      BY <3>1
    <3>3. \A a \in Attr : AfterRedo(len)'[a] = storage'[a] /\ AfterUndo(0)'[a] = storage'[a]
      BY <1>1, LastRedo
    <3>4. \A a \in Attr : AfterRedo(n)'[a] = doc[a]
      BY <2>1, <3>2, <3>3
    <3> QED BY <3>2, <3>4
  <2>2. CASE n # len
    <3>1. n \in (Len(undos') - redo_count')..(Len(undos') - 1)
      BY <1>1, <1>2, <2>2
    <3> QED BY <3>1
  <2> QED BY <2>1, <2>2
<1> QED BY <1>3, StepsThen

\* A step comes off the front or an empty one is put there.
LEMMA SameStepsSound ==
  ASSUME IInv, IInv', PastInv, PastInv', SoundInv, AgedTo(values'),
         storage' = storage, redo_count' = redo_count,
         \A a \in Attr : OpenWrites(a)' = 0,
         \/ /\ undos # <<>> /\ undos[1] = {} /\ undos' = Tail(undos)
         \/ undos' = <<{}>> \o undos
  PROVE  StepsSound'
<1>1. /\ StepsSound /\ StorageAgrees /\ StorageAgrees'
      /\ undos \in Seq(SUBSET Attr) /\ undos' \in Seq(SUBSET Attr)
  BY Facts DEF PastInv, SoundInv, IInv, TypeOK
<1>2. /\ Len(undos) \in Nat /\ Len(undos') \in Nat /\ redo_count \in Nat
      /\ redo_count <= Len(undos) /\ redo_count <= Len(undos')
  <2>1. /\ redo_count <= Len(undos) - (IF T!InTransaction THEN 1 ELSE 0) /\ redo_count \in Nat
        /\ redo_count' <= Len(undos') - (IF T!InTransaction' THEN 1 ELSE 0)
    BY DEF IInv, TypeOK, QueueOK
  <2> QED BY <1>1, <2>1
<1>3. ASSUME NEW n \in 0..Len(undos'), NEW m \in 0..Len(undos),
             \A a \in Attr : CountUpTo(undos', n, a) = CountUpTo(undos, m, a) /\ Count(undos', a) = Count(undos, a)
      PROVE  \A a \in Attr : AfterUndo(n)'[a] = AfterUndo(m)[a] /\ AfterRedo(n)'[a] = AfterRedo(m)[a]
  BY <1>1, <1>3, AgedDocuments
<1>4. CASE undos # <<>> /\ undos[1] = {} /\ undos' = Tail(undos)
  <2> DEFINE t == Tail(undos)
  <2>1. /\ t \in Seq(SUBSET Attr) /\ undos = <<{}>> \o t /\ Len(undos) = Len(t) + 1
        /\ undos' = t /\ {} \in SUBSET Attr
    <3>1. \A s \in Seq(SUBSET Attr) : s # <<>> =>
            Tail(s) \in Seq(SUBSET Attr) /\ s = <<s[1]>> \o Tail(s) /\ Len(s) = Len(Tail(s)) + 1
      OBVIOUS
    <3>2. undos = <<undos[1]>> \o t
      BY <1>1, <1>4, <3>1
    <3> QED BY <1>1, <1>4, <3>1, <3>2
  <2> HIDE DEF t
  <2>2. ASSUME NEW n \in 0..Len(undos'), NEW a \in Attr
        PROVE  CountUpTo(undos', n, a) = CountUpTo(undos, n + 1, a) /\ Count(undos', a) = Count(undos, a)
    <3>1. CountUpTo(<<{}>> \o t, n + 1, a) = CountUpTo(t, n, a) + 0
      BY <2>1, UpToOfPrepend
    <3>2. Count(<<{}>> \o t, a) = Count(t, a) + 0
      BY <2>1, CountOfPrepend
    <3>3. CountUpTo(t, n, a) \in Nat /\ Count(t, a) \in Nat
      BY <2>1, UpToCounts
    <3> QED BY <2>1, <3>1, <3>2, <3>3
  <2>3. ASSUME NEW n \in 0..Len(undos')
        PROVE  n + 1 \in 0..Len(undos) /\ \A a \in Attr :
                 AfterUndo(n)'[a] = AfterUndo(n + 1)[a] /\ AfterRedo(n)'[a] = AfterRedo(n + 1)[a]
    <3>1. n + 1 \in 0..Len(undos)
      BY <1>2, <2>1
    <3> QED BY <1>3, <2>2, <3>1
  <2>4. ASSUME NEW n \in 0..(Len(undos') - redo_count')
        PROVE  \E doc : Sound(doc) /\ \A a \in Attr : AfterUndo(n)'[a] = doc[a]
    <3>1. n \in 0..Len(undos') /\ n + 1 \in 0..(Len(undos) - redo_count)
      BY <1>2, <2>1
    <3>2. Sound(AfterUndo(n + 1))
      BY <1>1, <3>1 DEF StepsSound
    <3> QED BY <2>3, <3>1, <3>2
  <2>5. ASSUME NEW n \in (Len(undos') - redo_count')..(Len(undos') - 1)
        PROVE  \E doc : Sound(doc) /\ \A a \in Attr : AfterRedo(n)'[a] = doc[a]
    <3>1. n \in 0..Len(undos') /\ n + 1 \in (Len(undos) - redo_count)..Len(undos)
      BY <1>2, <2>1
    <3>2. Sound(AfterRedo(n + 1))
      BY <1>1, <3>1 DEF StepsSound
    <3> QED BY <2>3, <3>1, <3>2
  <2> QED BY <2>4, <2>5, StepsComeFrom
<1>5. CASE undos' = <<{}>> \o undos
  <2>1. {} \in SUBSET Attr /\ Len(undos') = Len(undos) + 1
    BY <1>1, <1>5
  <2>2. ASSUME NEW a \in Attr
        PROVE  /\ Count(undos', a) = Count(undos, a)
               /\ CountUpTo(undos', 0, a) = CountUpTo(undos, 0, a)
               /\ \A n \in 0..Len(undos) : CountUpTo(undos', n + 1, a) = CountUpTo(undos, n, a)
    <3>1. \A n \in 0..Len(undos) : CountUpTo(undos', n + 1, a) = CountUpTo(undos, n, a) + 0
      BY <1>1, <1>5, <2>1, UpToOfPrepend
    <3>2. Count(undos', a) = Count(undos, a) + 0
      BY <1>1, <1>5, <2>1, CountOfPrepend
    <3>3. Count(undos, a) \in Nat /\ \A n \in 0..Len(undos) : CountUpTo(undos, n, a) \in Nat
      BY <1>1, UpToCounts
    <3>4. CountUpTo(undos', 0, a) = 0 /\ CountUpTo(undos, 0, a) = 0
      BY <1>1, UpToCounts
    <3> QED BY <3>1, <3>2, <3>3, <3>4
  <2>3. ASSUME NEW n \in 0..Len(undos)
        PROVE  n + 1 \in 0..Len(undos') /\ \A a \in Attr :
                 AfterUndo(n + 1)'[a] = AfterUndo(n)[a] /\ AfterRedo(n + 1)'[a] = AfterRedo(n)[a]
    <3>1. n + 1 \in 0..Len(undos')
      BY <1>2, <2>1
    <3>2. \A a \in Attr : CountUpTo(undos', n + 1, a) = CountUpTo(undos, n, a) /\ Count(undos', a) = Count(undos, a)
      BY <2>2
    <3> HIDE DEF AfterUndo, AfterRedo
    <3> QED BY <1>3, <3>1, <3>2
  <2>4. \A a \in Attr : AfterUndo(0)'[a] = AfterUndo(0)[a]
    <3>1. 0 \in 0..Len(undos') /\ 0 \in 0..Len(undos)
      BY <1>2
    <3> QED BY <1>3, <2>2, <3>1
  <2>5. ASSUME NEW n \in 0..(Len(undos') - redo_count')
        PROVE  \E doc : Sound(doc) /\ \A a \in Attr : AfterUndo(n)'[a] = doc[a]
    <3>1. CASE n = 0
      <4>1. 0 \in 0..(Len(undos) - redo_count)
        BY <1>2
      <4>2. Sound(AfterUndo(0))
        BY <1>1, <4>1 DEF StepsSound
      <4> QED BY <2>4, <3>1, <4>2
    <3>2. CASE n # 0
      <4>1. PICK m : m = n - 1
        OBVIOUS
      <4>2. m \in 0..Len(undos) /\ m \in 0..(Len(undos) - redo_count) /\ n = m + 1
        BY <1>2, <2>1, <3>2, <4>1
      <4>3. Sound(AfterUndo(m))
        BY <1>1, <4>2 DEF StepsSound
      <4>4. \A a \in Attr : AfterUndo(n)'[a] = AfterUndo(m)[a]
        BY <2>3, <4>2
      <4> QED BY <4>3, <4>4
    <3> QED BY <3>1, <3>2
  <2>6. ASSUME NEW n \in (Len(undos') - redo_count')..(Len(undos') - 1)
        PROVE  \E doc : Sound(doc) /\ \A a \in Attr : AfterRedo(n)'[a] = doc[a]
    <3>1. PICK m : m = n - 1
      OBVIOUS
    <3>2. m \in 0..Len(undos) /\ m \in (Len(undos) - redo_count)..Len(undos) /\ n = m + 1
      BY <1>2, <2>1, <3>1
    <3>3. Sound(AfterRedo(m))
      BY <1>1, <3>2 DEF StepsSound
    <3>4. \A a \in Attr : AfterRedo(n)'[a] = AfterRedo(m)[a]
      BY <2>3, <3>2
    <3> QED BY <3>3, <3>4
  <2> QED BY <2>5, <2>6, StepsComeFrom
<1> QED BY <1>4, <1>5

LEMMA AbortFinalSound ==
  ASSUME IInv, IInv', PastInv, PastInv', SoundInv, AbortFinalTr
  PROVE  SoundInv'
<1>1. /\ Len(transactions) = 1 /\ undos' = Tail(undos) /\ transactions' = <<>>
      /\ redo_count' = redo_count /\ storage' = storage
  BY DEF AbortFinalTr
<1>2. AgedTo(values')
  BY AbortFinalPast
<1>3. \A a \in Attr : OpenWrites(a)' = 0
  BY <1>1, NoOpenWrites
<1>4. undos # <<>> /\ undos[1] = {}
  <2>1. undos \in Seq(SUBSET Attr) /\ undos[1] = {} /\ redo_count \in Nat /\ redo_count <= Len(undos) - 1
    BY <1>1, LastLevel, Facts DEF IInv, QueueOK
  <2> QED BY <2>1
<1>5. StepsSound'
  BY <1>1, <1>2, <1>3, <1>4, SameStepsSound
<1>6. RedoReads'
  <2>1. Len(<<>>) = 0
    OBVIOUS
  <2> QED BY <1>1, <2>1 DEF RedoReads
<1> QED BY <1>3, <1>5, <1>6, EndSound

LEMMA BeginToReadSound ==
  ASSUME IInv, IInv', PastInv, PastInv', SoundInv, BeginFinalTr(TRUE)
  PROVE  SoundInv'
<1>1. /\ ~T!InTransaction /\ undos' = <<{}>> \o undos /\ transactions' = <<T!Level(TRUE)>>
      /\ values' = values /\ redo_count' = redo_count /\ storage' = storage
  BY DEF BeginFinalTr
<1>2. T!Level(TRUE) \in LevelType /\ T!Level(TRUE).items = {} /\ T!Level(TRUE).readonly
  BY DEF T!Level, LevelType, LevelOf
<1>3. \A a \in Attr : OpenWrites(a)' = 0
  BY <1>1, <1>2, NoOpenWrites
<1>4. AgedTo(values')
  <2>1. \A a \in Attr : OpenWrites(a) = 0
    BY <1>1, IdleOpens
  <2>2. \A a \in Attr : OpenWrites(a)' = OpenWrites(a)
    BY <1>3, <2>1
  <2> QED BY <1>1, <2>2 DEF AgedTo
<1>5. StepsSound'
  BY <1>1, <1>3, <1>4, SameStepsSound
<1>6. RedoReads'
  <2>1. Len(transactions') = 1 /\ transactions'[1] = T!Level(TRUE)
    BY <1>1
  <2>2. \A k \in 1..Len(transactions') : k = 1
    BY <2>1
  <2>3. \A k \in 1..Len(transactions') : transactions'[k].items = {} /\ transactions'[k].readonly
    BY <1>2, <2>1, <2>2
  <2> QED BY <2>3 DEF RedoReads
<1> QED BY <1>3, <1>5, <1>6, EndSound

LEMMA PushedStep ==
  ASSUME NEW e \in SUBSET Attr, NEW s \in Seq(SUBSET Attr), NEW a
  PROVE  /\ Count(<<e>> \o s, a) = Count(s, a) + (IF a \in e THEN 1 ELSE 0)
         /\ \A n \in 0..Len(s) : CountUpTo(<<e>> \o s, n + 1, a) = CountUpTo(s, n, a) + (IF a \in e THEN 1 ELSE 0)
<1>1. Count(<<e>> \o s, a) = Count(s, a) + (IF a \in e THEN 1 ELSE 0)
  BY CountOfPrepend
<1>2. ASSUME NEW n \in 0..Len(s)
      PROVE  CountUpTo(<<e>> \o s, n + 1, a) = CountUpTo(s, n, a) + (IF a \in e THEN 1 ELSE 0)
  BY UpToOfPrepend
<1> QED BY <1>1, <1>2

\* What a transaction has written becomes what the storage has.
LEMMA CommitFinalSound ==
  ASSUME IInv, IInv', PastInv, PastInv', SoundInv, CommitFinalTr
  PROVE  SoundInv'
<1>1. /\ Len(transactions) = 1
      /\ storage' = [a \in Attr |-> IF a \in T!Committed THEN values[a][1] ELSE storage[a]]
      /\ undos' = T!PushStep(T!Committed, Tail(undos))
      /\ Settle(values, read_count, write_count, locked \ finaltr_items)
      /\ transactions' = <<>> /\ redo_count' = redo_count
  BY DEF CommitFinalTr
<1>2. /\ T!Committed = dirty /\ dirty \in SUBSET Attr /\ T!InTransaction
      /\ Tail(undos) \in Seq(SUBSET Attr)
      /\ \A a \in Attr :
           /\ Count(Tail(undos), a) \in Nat
           /\ Older(a) = Count(Tail(undos), a) + (IF a \in dirty THEN 1 ELSE 0)
  BY <1>1, LastLevel
<1>3. \A a \in Attr : OpenWrites(a)' = 0
  BY <1>1, NoOpenWrites
<1>4. undos # <<>> /\ undos[1] = {} /\ undos \in Seq(SUBSET Attr) /\ redo_count \in Nat
      /\ redo_count <= Len(undos) - 1
  <2>1. undos \in Seq(SUBSET Attr) /\ undos[1] = {} /\ redo_count \in Nat /\ redo_count <= Len(undos) - 1
    BY <1>1, LastLevel, Facts DEF IInv, QueueOK
  <2> QED BY <2>1
<1>5. \A a \in Attr : values'[a] = values[a] \/ values'[a] = <<>>
  BY <1>1 DEF Settle
<1>6. RedoReads'
  <2>1. Len(<<>>) = 0
    OBVIOUS
  <2> QED BY <1>1, <2>1 DEF RedoReads
<1>7. ASSUME NEW a \in Attr
      PROVE  /\ OpenWrites(a) = IF a \in dirty THEN 1 ELSE 0
             /\ Count(undos, a) = Count(Tail(undos), a)
  <2>1. Count(undos, a) = Count(Tail(undos), a) + 0
    BY <1>4, CountOfTail
  <2>2. Older(a) = OpenWrites(a) + Count(undos, a) /\ OpenWrites(a) \in Nat /\ Count(undos, a) \in Nat
    BY Facts DEF OpenWrites
  <2>3. Count(undos, a) = Count(Tail(undos), a)
    BY <1>2, <2>1
  <2>4. OpenWrites(a) = IF a \in dirty THEN 1 ELSE 0
    BY <1>2, <2>2, <2>3
  <2> QED BY <2>3, <2>4
<1>8. CASE dirty = {}
  <2>1. undos' = Tail(undos)
    BY <1>1, <1>2, <1>8 DEF T!PushStep
  <2>2. storage' = storage
    <3>1. storage' = [a \in Attr |-> storage[a]]
      BY <1>1, <1>2, <1>8
    <3>2. storage = [a \in Attr |-> storage[a]]
      BY DEF IInv, TypeOK
    <3> QED BY <3>1, <3>2
  <2>3. AgedTo(values')
    <3>1. \A a \in Attr : OpenWrites(a)' = OpenWrites(a)
      BY <1>3, <1>7, <1>8
    <3> QED BY <1>5, <3>1 DEF AgedTo
  <2>4. StepsSound'
    BY <1>1, <1>3, <1>4, <2>1, <2>2, <2>3, SameStepsSound
  <2> QED BY <1>3, <1>6, <2>4, EndSound
<1>9. CASE dirty # {}
  <2> DEFINE t == Tail(undos)
  <2>1. undos' = <<dirty>> \o t /\ t \in Seq(SUBSET Attr)
    BY <1>1, <1>2, <1>9 DEF T!PushStep
  <2>2. undos = <<{}>> \o t /\ {} \in SUBSET Attr /\ Len(t) \in Nat /\ Len(undos) = Len(t) + 1
        /\ Len(undos') = Len(t) + 1
    <3>1. \A s \in Seq(SUBSET Attr) : s # <<>> => s = <<s[1]>> \o Tail(s) /\ Len(s) = Len(Tail(s)) + 1
      OBVIOUS
    <3>2. undos = <<undos[1]>> \o t /\ Len(undos) = Len(t) + 1
      BY <1>4, <3>1
    <3>3. Len(<<dirty>> \o t) = Len(t) + 1 /\ Len(t) \in Nat
      BY <2>1
    <3> QED BY <1>4, <2>1, <3>2, <3>3
  <2> HIDE DEF t
  <2>10. dirty \in SUBSET Attr /\ {} \in SUBSET Attr
    BY <1>2
  <2>13. t \in Seq(SUBSET Attr)
    BY <2>1
  <2>3. redo_count = 0
    <3>1. dirty = transactions[1].items
      BY <1>2 DEF IInv, DirtyOK
    <3>2. 1 \in 1..Len(transactions)
      BY <1>1
    <3>3. ~(redo_count > 0)
      BY <1>9, <3>1, <3>2 DEF SoundInv, RedoReads
    <3> QED BY <1>4, <3>3
  <2>4. \A a \in Attr : AfterUndo(0)'[a] = AtLevel(0)[a]
    <3> SUFFICES ASSUME NEW a \in Attr PROVE AfterUndo(0)'[a] = AtLevel(0)[a]
      OBVIOUS
    <3>1. AfterUndo(0)'[a] = storage'[a]
      <4>1. PICK len : len = Len(undos')
        OBVIOUS
      <4> QED BY <1>3, <4>1, LastRedo
    <3>2. AtLevel(0)[a] = Current(a)
      BY DocumentEnds DEF PastInv
    <3>3. CASE a \in dirty
      <4>1. values[a] # <<>>
        <5>1. values[a] = <<>> => OpenWrites(a) = 0
          BY FactsNow DEF RingFacts
        <5> QED BY <1>7, <3>3, <5>1
      <4>2. storage'[a] = values[a][1]
        BY <1>1, <1>2, <3>3
      <4> QED BY <3>1, <3>2, <4>1, <4>2 DEF Current
    <3>4. CASE a \notin dirty
      <4>1. storage'[a] = storage[a]
        BY <1>1, <1>2, <3>4
      <4>2. values[a] # <<>> => storage[a] = values[a][1]
        <5>1. values[a] # <<>> => storage[a] = values[a][OpenWrites(a) + 1]
          BY DEF PastInv, StorageAgrees
        <5>2. OpenWrites(a) + 1 = 1
          BY <1>7, <3>4
        <5> QED BY <5>1, <5>2
      <4> QED BY <3>1, <3>2, <4>1, <4>2 DEF Current
    <3> QED BY <3>3, <3>4
  <2>11. ASSUME NEW a
         PROVE  /\ Count(<<dirty>> \o t, a) = Count(t, a) + (IF a \in dirty THEN 1 ELSE 0)
                /\ \A n \in 0..Len(t) :
                     CountUpTo(<<dirty>> \o t, n + 1, a) = CountUpTo(t, n, a) + (IF a \in dirty THEN 1 ELSE 0)
    BY <2>10, <2>13, PushedStep
  <2>12. ASSUME NEW a
         PROVE  \A n \in 0..Len(t) : CountUpTo(<<{}>> \o t, n + 1, a) = CountUpTo(t, n, a) + 0
    <3>1. PICK e : e = {}
      OBVIOUS
    <3>2. e \in SUBSET Attr /\ a \notin e
      BY <3>1
    <3>3. \A n \in 0..Len(t) : CountUpTo(<<e>> \o t, n + 1, a) = CountUpTo(t, n, a) + (IF a \in e THEN 1 ELSE 0)
      BY <2>13, <3>2, PushedStep
    <3>4. \A n \in 0..Len(t) : CountUpTo(<<e>> \o t, n + 1, a) = CountUpTo(t, n, a) + 0
      BY <3>2, <3>3
    <3> QED BY <3>1, <3>4
  <2>5. ASSUME NEW n \in 0..Len(t), NEW a \in Attr
        PROVE  AfterUndo(n + 1)'[a] = AfterUndo(n + 1)[a]
    <3> DEFINE up == CountUpTo(t, n, a)
               one == IF a \in dirty THEN 1 ELSE 0
    <3>1. up \in Nat /\ Count(t, a) \in Nat /\ up <= Count(t, a)
      <4>1. /\ Count(t, a) \in Nat /\ CountUpTo(t, n, a) \in Nat /\ CountAfter(t, n, a) \in Nat
            /\ Count(t, a) = CountUpTo(t, n, a) + CountAfter(t, n, a)
        BY <2>1, UpToCounts
      <4> QED BY <4>1
    <3>2. CountUpTo(undos', n + 1, a) = up + one
      <4>1. CountUpTo(<<dirty>> \o t, n + 1, a) = CountUpTo(t, n, a) + (IF a \in dirty THEN 1 ELSE 0)
        BY <2>11
      <4> QED BY <2>1, <4>1
    <3>3. CountUpTo(undos, n + 1, a) = up + 0
      <4>1. CountUpTo(<<{}>> \o t, n + 1, a) = CountUpTo(t, n, a) + 0
        BY <2>12
      <4> QED BY <2>2, <4>1
    <3>4. PICK m : m = n + 1
      OBVIOUS
    <3>5. m \in 0..Len(undos') /\ m \in 0..Len(undos)
      BY <2>2, <3>4
    <3>6. AfterUndo(m)'[a] = ReadAt(values'[a], CountUpTo(undos', m, a) + 1, storage'[a])
      BY <1>3, <3>5, ThenDocuments
    <3>7. AfterUndo(m)[a] = ReadAt(values[a], OpenWrites(a) + CountUpTo(undos, m, a) + 1, storage[a])
      BY DEF AfterUndo
    <3>8. OpenWrites(a) = one
      BY <1>7
    <3>9. Count(undos', a) = Count(t, a) + one
      <4>1. Count(<<dirty>> \o t, a) = Count(t, a) + (IF a \in dirty THEN 1 ELSE 0)
        BY <2>11
      <4> QED BY <2>1, <4>1
    <3>10. values'[a] = <<>> => Count(undos', a) = 0
      BY FactsThen DEF RingFacts
    <3>11. one \in {0, 1} /\ (one = 0 <=> a \notin dirty)
      OBVIOUS
    <3> HIDE DEF up, one
    <3>12. CountUpTo(undos', m, a) + 1 = OpenWrites(a) + CountUpTo(undos, m, a) + 1
      BY <3>1, <3>2, <3>3, <3>4, <3>8, <3>11
    <3>13. CASE values'[a] # <<>>
      <4>1. values'[a] = values[a]
        BY <1>5, <3>13
      <4> QED BY <3>4, <3>6, <3>7, <3>12, <3>13, <4>1 DEF ReadAt
    <3>14. CASE values'[a] = <<>>
      <4>1. up = 0 /\ one = 0
        BY <3>1, <3>9, <3>10, <3>11, <3>14
      <4>2. storage'[a] = storage[a]
        BY <1>1, <1>2, <3>11, <4>1
      <4>3. values[a] # <<>> => storage[a] = values[a][OpenWrites(a) + 1]
        BY DEF PastInv, StorageAgrees
      <4>4. OpenWrites(a) + CountUpTo(undos, m, a) + 1 = OpenWrites(a) + 1
        BY <3>3, <3>4, <3>8, <4>1
      <4>5. AfterUndo(m)[a] = storage[a]
        BY <3>7, <4>3, <4>4 DEF ReadAt
      <4> QED BY <3>4, <3>6, <3>14, <4>2, <4>5 DEF ReadAt
    <3> QED BY <3>13, <3>14
  <2>6. ASSUME NEW n \in 0..(Len(undos') - redo_count')
        PROVE  \E doc : Sound(doc) /\ \A a \in Attr : AfterUndo(n)'[a] = doc[a]
    <3>1. CASE n = 0
      <4>1. Sound(AtLevel(0))
        <5>1. 0 \in 0..Len(transactions)
          BY <1>1
        <5> QED BY <5>1 DEF SoundInv, LevelsSound
      <4> QED BY <2>4, <3>1, <4>1
    <3>2. CASE n # 0
      <4>1. PICK m : m = n - 1
        OBVIOUS
      <4>2. m \in 0..Len(t) /\ n = m + 1 /\ n \in 0..(Len(undos) - redo_count)
        BY <1>1, <2>2, <2>3, <3>2, <4>1
      <4>3. Sound(AfterUndo(n))
        BY <4>2 DEF SoundInv, StepsSound
      <4>4. \A a \in Attr : AfterUndo(n)'[a] = AfterUndo(n)[a]
        BY <2>5, <4>2
      <4> QED BY <4>3, <4>4
    <3> QED BY <3>1, <3>2
  <2>7. \A n \in (Len(undos') - redo_count')..(Len(undos') - 1) :
           \E doc : Sound(doc) /\ \A a \in Attr : AfterRedo(n)'[a] = doc[a]
    <3>1. (Len(undos') - redo_count')..(Len(undos') - 1) = {}
      BY <1>1, <2>2, <2>3
    <3> QED BY <3>1
  <2>8. StepsSound'
    BY <1>3, <2>6, <2>7, StepsComeFrom
  <2> QED BY <1>3, <1>6, <2>8, EndSound
<1> QED BY <1>8, <1>9

\* Where the values of a ring are when it has been turned
LEMMA TurnedReads ==
  ASSUME NEW r \in Seq(Target), NEW c \in Nat, c >= 1, Len(r) = c + 1
  PROVE  /\ T!RotateLeft(r) # <<>> /\ T!RotateRight(r) # <<>> /\ T!RotateRight(r)[1] = r[c + 1]
         /\ \A w \in Nat : w + 1 <= c =>
              /\ T!RotateLeft(r)[w + 1] = r[w + 2]
              /\ T!RotateLeft(r)[w + 2] = IF w + 1 = c THEN r[1] ELSE r[w + 3]
              /\ T!RotateRight(r)[w + 2] = r[w + 1]
              /\ w + 1 < c => T!RotateRight(r)[w + 3] = r[w + 2]
<1> DEFINE left == T!RotateLeft(r)
           right == T!RotateRight(r)
           n == Len(r)
           front == SubSeq(r, 1, n - 1)
           t == Tail(r)
<1>1. n \in Nat /\ n >= 2 /\ n - 1 \in Nat /\ r # <<>> /\ n = c + 1
  OBVIOUS
<1>2. /\ t \in Seq(Target) /\ Len(t) = n - 1 /\ r[1] \in Target
      /\ \A k \in 1..(n - 1) : t[k] = r[k + 1]
  BY <1>1
<1>3. front \in Seq(Target) /\ Len(front) = n - 1 /\ (\A k \in 1..(n - 1) : front[k] = r[k]) /\ r[n] \in Target
  BY <1>1
<1>4. left = t \o <<r[1]>> /\ right = <<r[n]>> \o front
  BY DEF T!RotateLeft, T!RotateRight
<1> HIDE DEF n, left, right, front, t
<1>5. left # <<>> /\ \A k \in 1..n : left[k] = IF k = n THEN r[1] ELSE r[k + 1]
  <2>1. /\ Len(t \o <<r[1]>>) = n /\ t \o <<r[1]>> \in Seq(Target)
        /\ \A k \in 1..n : (t \o <<r[1]>>)[k] = IF k <= n - 1 THEN t[k] ELSE <<r[1]>>[k - (n - 1)]
    BY <1>1, <1>2
  <2>2. \A k \in 1..n : (k = n => ~(k <= n - 1) /\ k - (n - 1) = 1) /\ (k # n => k <= n - 1 /\ k \in 1..(n - 1))
    BY <1>1
  <2>3. Len(<<>>) = 0
    OBVIOUS
  <2> QED BY <1>1, <1>2, <1>4, <2>1, <2>2, <2>3
<1>6. right # <<>> /\ \A k \in 1..n : right[k] = IF k = 1 THEN r[n] ELSE r[k - 1]
  <2>1. /\ Len(<<r[n]>> \o front) = n /\ <<r[n]>> \o front \in Seq(Target)
        /\ \A k \in 1..n : (<<r[n]>> \o front)[k] = IF k <= 1 THEN <<r[n]>>[k] ELSE front[k - 1]
    BY <1>1, <1>3
  <2>2. \A k \in 1..n : (k = 1 => k <= 1) /\ (k # 1 => ~(k <= 1) /\ k - 1 \in 1..(n - 1))
    BY <1>1
  <2>3. Len(<<>>) = 0
    OBVIOUS
  <2> QED BY <1>1, <1>3, <1>4, <2>1, <2>2, <2>3
<1>7. right[1] = r[c + 1]
  BY <1>1, <1>6
<1>8. ASSUME NEW w \in Nat, w + 1 <= c
      PROVE  /\ left[w + 1] = r[w + 2]
             /\ left[w + 2] = IF w + 1 = c THEN r[1] ELSE r[w + 3]
             /\ right[w + 2] = r[w + 1]
             /\ w + 1 < c => right[w + 3] = r[w + 2]
  <2>1. /\ w + 1 \in 1..n /\ w + 1 # n /\ (w + 1) + 1 = w + 2
        /\ w + 2 \in 1..n /\ (w + 2 = n <=> w + 1 = c) /\ (w + 2) + 1 = w + 3
        /\ w + 2 # 1 /\ (w + 2) - 1 = w + 1
        /\ w + 1 < c => w + 3 \in 1..n /\ w + 3 # 1 /\ (w + 3) - 1 = w + 2
    BY <1>1, <1>8
  <2>2. left[w + 1] = r[w + 2] /\ left[w + 2] = IF w + 1 = c THEN r[1] ELSE r[w + 3]
    BY <1>5, <2>1
  <2>3. right[w + 2] = r[w + 1] /\ (w + 1 < c => right[w + 3] = r[w + 2])
    BY <1>6, <2>1
  <2> QED BY <2>2, <2>3
<1> QED BY <1>5, <1>6, <1>7, <1>8 DEF left, right

\* One step back
LEMMA UndoSound ==
  ASSUME IInv, IInv', PastInv, PastInv', SoundInv, UndoTransaction
  PROVE  SoundInv'
<1> DEFINE step == undos[1]
           t == Tail(undos)
<1>1. /\ ~T!InTransaction /\ Len(undos) > redo_count
      /\ storage' = [a \in Attr |-> IF a \in step THEN values[a][2] ELSE storage[a]]
      /\ values' = [a \in Attr |-> IF a \in step THEN T!RotateLeft(values[a]) ELSE values[a]]
      /\ undos' = T!RotateLeft(undos) /\ redo_count' = redo_count + 1 /\ transactions' = transactions
  BY DEF UndoTransaction, T!MayUndo, T!Undone
<1>2. undos \in Seq(SUBSET Attr) /\ redo_count \in Nat /\ transactions = <<>> /\ redo_count <= Len(undos)
  BY <1>1, Facts, Idle
<1>3. /\ undos # <<>> /\ undos' = t \o <<step>>
  BY <1>1, <1>2 DEF T!RotateLeft
<1>4. /\ step \in SUBSET Attr /\ t \in Seq(SUBSET Attr) /\ undos = <<step>> \o t
      /\ Len(undos) = Len(t) + 1 /\ Len(t) \in Nat
  <2>1. \A s \in Seq(SUBSET Attr) : s # <<>> =>
          /\ Tail(s) \in Seq(SUBSET Attr) /\ s = <<s[1]>> \o Tail(s) /\ s[1] \in SUBSET Attr
          /\ Len(s) = Len(Tail(s)) + 1 /\ Len(Tail(s)) \in Nat
    OBVIOUS
  <2> QED BY <1>2, <1>3, <2>1
<1>5. Len(undos') = Len(t) + 1
  <2>1. \A s \in Seq(SUBSET Attr), e \in SUBSET Attr : Len(s \o <<e>>) = Len(s) + 1
    OBVIOUS
  <2> HIDE DEF t, step
  <2> QED BY <1>3, <1>4, <2>1
<1>6. \A a \in Attr : Count(undos', a) = Count(undos, a)
  BY <1>2, <1>3, CountOfRotation
<1> HIDE DEF step, t
<1>7. ASSUME NEW a \in Attr
      PROVE  OpenWrites(a) = 0 /\ OpenWrites(a)' = 0
  BY <1>1, <1>2, IdleOpens, NoOpenWrites
\* The counts of steps
<1>8. ASSUME NEW a \in Attr, NEW n \in 0..Len(t)
      PROVE  /\ CountUpTo(undos', n, a) = CountUpTo(t, n, a) /\ CountUpTo(t, n, a) \in Nat
             /\ CountUpTo(undos, n + 1, a) = CountUpTo(t, n, a) + (IF a \in step THEN 1 ELSE 0)
  <2>1. <<step>> \in Seq(SUBSET Attr)
    BY <1>4
  <2>2. CountUpTo(t \o <<step>>, n, a) = CountUpTo(t, n, a)
    BY <1>4, <2>1, UpToInFirst
  <2>3. CountUpTo(<<step>> \o t, n + 1, a) = CountUpTo(t, n, a) + (IF a \in step THEN 1 ELSE 0)
    BY <1>4, PushedStep
  <2>4. CountUpTo(t, n, a) \in Nat
    BY <1>4, UpToCounts
  <2> QED BY <1>3, <1>4, <2>2, <2>3, <2>4
<1>9. ASSUME NEW a \in Attr, NEW n \in 0..Len(t)
      PROVE  AfterUndo(n)'[a] = AfterUndo(n + 1)[a] /\ AfterRedo(n)'[a] = AfterRedo(n + 1)[a]
  <2> DEFINE r == values[a]
             c == Count(undos, a)
             w == CountUpTo(t, n, a)
             further == CountAfter(undos', n, a)
  <2>1. PICK m : m = n + 1
    OBVIOUS
  <2>2. m \in 0..Len(undos) /\ n \in 0..Len(undos')
    BY <1>4, <1>5, <2>1
  <2> DEFINE upm == CountUpTo(undos, m, a)
             laterm == CountAfter(undos, m, a)
  <2>3. /\ upm \in Nat /\ laterm \in Nat /\ c = upm + laterm
        /\ AfterUndo(m)[a] = ReadAt(r, upm + 1, storage[a])
        /\ AfterRedo(m)[a] = IF laterm = 0 THEN storage[a] ELSE ReadAt(r, upm + 2, storage[a])
    BY <1>7, <2>2, NowDocuments
  <2>4. /\ w \in Nat /\ further \in Nat /\ c = w + further
        /\ AfterUndo(n)'[a] = ReadAt(values'[a], w + 1, storage'[a])
        /\ AfterRedo(n)'[a] = IF further = 0 THEN storage'[a] ELSE ReadAt(values'[a], w + 2, storage'[a])
    <3>1. /\ CountUpTo(undos', n, a) \in Nat /\ CountAfter(undos', n, a) \in Nat
          /\ Count(undos', a) = CountUpTo(undos', n, a) + CountAfter(undos', n, a)
          /\ AfterUndo(n)'[a] = ReadAt(values'[a], CountUpTo(undos', n, a) + 1, storage'[a])
          /\ AfterRedo(n)'[a] = IF CountAfter(undos', n, a) = 0 THEN storage'[a]
                                  ELSE ReadAt(values'[a], CountUpTo(undos', n, a) + 2, storage'[a])
      BY <1>7, <2>2, ThenDocuments
    <3> QED BY <1>6, <1>8, <3>1
  <2>5. upm = w + (IF a \in step THEN 1 ELSE 0)
    BY <1>8, <2>1
  <2>6. /\ r \in Seq(Target) /\ c \in Nat /\ (r # <<>> => Len(r) = c + 1) /\ (r = <<>> => c = 0)
        /\ r # <<>> => storage[a] = r[1]
    <3>1. RingFacts(values[a], 0, Count(undos, a), PastOf(a))
      BY <1>7, FactsNow
    <3>2. r # <<>> => storage[a] = r[0 + 1]
      BY <1>7 DEF PastInv, StorageAgrees
    <3>3. Count(undos, a) \in Nat /\ 0 + Count(undos, a) + 1 = Count(undos, a) + 1 /\ 0 + 1 = 1
      BY <3>1 DEF RingFacts
    <3> QED BY <3>1, <3>2, <3>3 DEF RingFacts
  <2> HIDE DEF r, c, w, further, upm, laterm
  <2>7. CASE a \in step
    <3>1. upm = w + 1 /\ further = laterm + 1 /\ w + 1 <= c /\ c >= 1 /\ (laterm = 0 <=> w + 1 = c)
      BY <2>3, <2>4, <2>5, <2>7
    <3>2. r # <<>> /\ Len(r) = c + 1
      BY <2>6, <3>1
    <3>3. values'[a] = T!RotateLeft(r)
      BY <1>1, <2>7 DEF r
    <3>4. /\ T!RotateLeft(r) # <<>> /\ T!RotateLeft(r)[w + 1] = r[w + 2]
          /\ T!RotateLeft(r)[w + 2] = IF w + 1 = c THEN r[1] ELSE r[w + 3]
      <4>1. /\ T!RotateLeft(r) # <<>>
            /\ \A k \in Nat : k + 1 <= c =>
                 /\ T!RotateLeft(r)[k + 1] = r[k + 2]
                 /\ T!RotateLeft(r)[k + 2] = IF k + 1 = c THEN r[1] ELSE r[k + 3]
        BY <2>6, <3>1, <3>2, TurnedReads
      <4> QED BY <2>4, <3>1, <4>1
    <3>5. upm + 1 = w + 2 /\ upm + 2 = w + 3 /\ further # 0
      BY <2>3, <2>4, <3>1
    <3>6. AfterUndo(n)'[a] = AfterUndo(m)[a]
      BY <2>3, <2>4, <3>2, <3>3, <3>4, <3>5 DEF ReadAt
    <3>7. AfterRedo(n)'[a] = AfterRedo(m)[a]
      BY <2>3, <2>4, <2>6, <3>1, <3>2, <3>3, <3>4, <3>5 DEF ReadAt
    <3> QED BY <2>1, <3>6, <3>7
  <2>8. CASE a \notin step
    <3>1. upm = w /\ further = laterm
      BY <2>3, <2>4, <2>5, <2>8
    <3>2. values'[a] = r /\ storage'[a] = storage[a]
      BY <1>1, <2>8 DEF r
    <3> QED BY <2>1, <2>3, <2>4, <3>1, <3>2
  <2> QED BY <2>7, <2>8
<1>10. ASSUME NEW n \in 0..(Len(undos') - redo_count')
       PROVE  \E doc : Sound(doc) /\ \A a \in Attr : AfterUndo(n)'[a] = doc[a]
  <2>1. n \in 0..Len(t) /\ n + 1 \in 0..(Len(undos) - redo_count)
    BY <1>1, <1>2, <1>4, <1>5
  <2>2. Sound(AfterUndo(n + 1))
    BY <2>1 DEF SoundInv, StepsSound
  <2> QED BY <1>9, <2>1, <2>2
<1>11. ASSUME NEW n \in (Len(undos') - redo_count')..(Len(undos') - 1)
       PROVE  \E doc : Sound(doc) /\ \A a \in Attr : AfterRedo(n)'[a] = doc[a]
  <2>1. n \in 0..Len(t) /\ n + 1 \in (Len(undos) - redo_count)..Len(undos)
    BY <1>1, <1>2, <1>4, <1>5
  <2>2. Sound(AfterRedo(n + 1))
    BY <2>1 DEF SoundInv, StepsSound
  <2> QED BY <1>9, <2>1, <2>2
<1>12. StepsSound'
  BY <1>7, <1>10, <1>11, StepsComeFrom
<1>13. RedoReads'
  <2>1. Len(<<>>) = 0
    OBVIOUS
  <2> QED BY <1>1, <1>2, <2>1 DEF RedoReads
<1> QED BY <1>7, <1>12, <1>13, EndSound

\* One step forth
LEMMA RedoSound ==
  ASSUME IInv, IInv', PastInv, PastInv', SoundInv, RedoTransaction
  PROVE  SoundInv'
<1> DEFINE step == undos[Len(undos)]
           t == SubSeq(undos, 1, Len(undos) - 1)
<1>1. /\ ~T!InTransaction /\ redo_count > 0
      /\ storage' = [a \in Attr |-> IF a \in step THEN values[a][Len(values[a])] ELSE storage[a]]
      /\ values' = [a \in Attr |-> IF a \in step THEN T!RotateRight(values[a]) ELSE values[a]]
      /\ undos' = T!RotateRight(undos) /\ redo_count' = redo_count - 1 /\ transactions' = transactions
  BY DEF RedoTransaction, T!MayRedo, T!Redone
<1>2. undos \in Seq(SUBSET Attr) /\ redo_count \in Nat /\ transactions = <<>> /\ redo_count <= Len(undos)
  BY <1>1, Facts, Idle
<1>3. undos # <<>> /\ undos' = <<step>> \o t
  BY <1>1, <1>2 DEF T!RotateRight
<1>4. /\ step \in SUBSET Attr /\ t \in Seq(SUBSET Attr) /\ undos = t \o <<step>>
      /\ Len(undos) = Len(t) + 1 /\ Len(t) \in Nat
  <2>1. \A s \in Seq(SUBSET Attr) : s # <<>> =>
          /\ SubSeq(s, 1, Len(s) - 1) \in Seq(SUBSET Attr) /\ s[Len(s)] \in SUBSET Attr
          /\ s = SubSeq(s, 1, Len(s) - 1) \o <<s[Len(s)]>>
          /\ Len(s) = Len(SubSeq(s, 1, Len(s) - 1)) + 1 /\ Len(SubSeq(s, 1, Len(s) - 1)) \in Nat
    OBVIOUS
  <2> QED BY <1>2, <1>3, <2>1
<1>5. \A a \in Attr : Count(undos', a) = Count(undos, a)
  BY <1>2, <1>3, CountOfRotation
<1> HIDE DEF step, t
<1>6. Len(undos') = Len(t) + 1
  <2>1. \A s \in Seq(SUBSET Attr), e \in SUBSET Attr : Len(<<e>> \o s) = Len(s) + 1
    OBVIOUS
  <2> QED BY <1>3, <1>4, <2>1
<1>7. ASSUME NEW a \in Attr
      PROVE  OpenWrites(a) = 0 /\ OpenWrites(a)' = 0
  BY <1>1, <1>2, IdleOpens, NoOpenWrites
\* The counts of steps
<1>8. ASSUME NEW a \in Attr, NEW n \in 0..Len(t)
      PROVE  /\ CountUpTo(undos, n, a) = CountUpTo(t, n, a) /\ CountUpTo(t, n, a) \in Nat
             /\ CountUpTo(undos', n + 1, a) = CountUpTo(t, n, a) + (IF a \in step THEN 1 ELSE 0)
  <2>1. <<step>> \in Seq(SUBSET Attr)
    BY <1>4
  <2>2. CountUpTo(t \o <<step>>, n, a) = CountUpTo(t, n, a)
    BY <1>4, <2>1, UpToInFirst
  <2>3. CountUpTo(<<step>> \o t, n + 1, a) = CountUpTo(t, n, a) + (IF a \in step THEN 1 ELSE 0)
    BY <1>4, PushedStep
  <2>4. CountUpTo(t, n, a) \in Nat
    BY <1>4, UpToCounts
  <2> QED BY <1>3, <1>4, <2>2, <2>3, <2>4
<1>9. ASSUME NEW a \in Attr
      PROVE  LET r == values[a]
                 c == Count(undos, a)
             IN  /\ r \in Seq(Target) /\ c \in Nat /\ (r # <<>> => Len(r) = c + 1) /\ (r = <<>> => c = 0)
                 /\ r # <<>> => storage[a] = r[1]
                 /\ a \in step => r # <<>>
  <2>1. RingFacts(values[a], 0, Count(undos, a), PastOf(a))
    BY <1>7, FactsNow
  <2>2. values[a] # <<>> => storage[a] = values[a][0 + 1]
    BY <1>7 DEF PastInv, StorageAgrees
  <2>3. Count(undos, a) \in Nat /\ 0 + Count(undos, a) + 1 = Count(undos, a) + 1 /\ 0 + 1 = 1
    BY <2>1 DEF RingFacts
  <2>4. a \in step => Count(undos, a) # 0
    <3>1. Count(<<step>> \o t, a) = Count(t, a) + (IF a \in step THEN 1 ELSE 0)
      BY <1>4, PushedStep
    <3>2. Count(t, a) \in Nat
      BY <1>4, UpToCounts
    <3>3. Count(undos, a) = Count(<<step>> \o t, a)
      BY <1>3, <1>5
    <3> QED BY <3>1, <3>2, <3>3
  <2> QED BY <2>1, <2>2, <2>3, <2>4 DEF RingFacts
<1>10. ASSUME NEW a \in Attr, NEW n \in 0..Len(t)
       PROVE  /\ AfterUndo(n + 1)'[a] = AfterUndo(n)[a] /\ AfterRedo(n + 1)'[a] = AfterRedo(n)[a]
  <2> DEFINE r == values[a]
             c == Count(undos, a)
             w == CountUpTo(t, n, a)
             later == CountAfter(undos, n, a)
  <2>1. PICK m : m = n + 1
    OBVIOUS
  <2>2. n \in 0..Len(undos) /\ m \in 0..Len(undos')
    BY <1>4, <1>6, <2>1
  <2> DEFINE up == CountUpTo(undos', m, a)
             further == CountAfter(undos', m, a)
  <2>3. /\ w \in Nat /\ later \in Nat /\ c = w + later
        /\ AfterUndo(n)[a] = ReadAt(r, w + 1, storage[a])
        /\ AfterRedo(n)[a] = IF later = 0 THEN storage[a] ELSE ReadAt(r, w + 2, storage[a])
    <3>1. /\ CountUpTo(undos, n, a) \in Nat /\ CountAfter(undos, n, a) \in Nat
          /\ Count(undos, a) = CountUpTo(undos, n, a) + CountAfter(undos, n, a)
          /\ AfterUndo(n)[a] = ReadAt(values[a], CountUpTo(undos, n, a) + 1, storage[a])
          /\ AfterRedo(n)[a] = IF CountAfter(undos, n, a) = 0 THEN storage[a]
                                 ELSE ReadAt(values[a], CountUpTo(undos, n, a) + 2, storage[a])
      BY <1>7, <2>2, NowDocuments
    <3> QED BY <1>8, <3>1
  <2>4. /\ up \in Nat /\ further \in Nat /\ c = up + further
        /\ AfterUndo(m)'[a] = ReadAt(values'[a], up + 1, storage'[a])
        /\ AfterRedo(m)'[a] = IF further = 0 THEN storage'[a] ELSE ReadAt(values'[a], up + 2, storage'[a])
    <3>1. /\ CountUpTo(undos', m, a) \in Nat /\ CountAfter(undos', m, a) \in Nat
          /\ Count(undos', a) = CountUpTo(undos', m, a) + CountAfter(undos', m, a)
          /\ AfterUndo(m)'[a] = ReadAt(values'[a], CountUpTo(undos', m, a) + 1, storage'[a])
          /\ AfterRedo(m)'[a] = IF CountAfter(undos', m, a) = 0 THEN storage'[a]
                                  ELSE ReadAt(values'[a], CountUpTo(undos', m, a) + 2, storage'[a])
      BY <1>7, <2>2, ThenDocuments
    <3> QED BY <1>5, <3>1
  <2>5. up = w + (IF a \in step THEN 1 ELSE 0)
    BY <1>8, <2>1
  <2>6. /\ r \in Seq(Target) /\ c \in Nat /\ (r # <<>> => Len(r) = c + 1) /\ (r = <<>> => c = 0)
        /\ a \in step => r # <<>>
    BY <1>9
  <2> HIDE DEF r, c, w, later, up, further
  <2>7. CASE a \in step
    <3>1. up = w + 1 /\ later = further + 1 /\ w + 1 <= c /\ c >= 1 /\ (further = 0 <=> w + 1 = c)
          /\ (further # 0 => w + 1 < c)
      BY <2>3, <2>4, <2>5, <2>7
    <3>2. r # <<>> /\ Len(r) = c + 1
      BY <2>6, <2>7
    <3>3. values'[a] = T!RotateRight(r) /\ storage'[a] = r[c + 1]
      <4>1. values'[a] = T!RotateRight(r) /\ storage'[a] = r[Len(r)]
        BY <1>1, <2>7 DEF r
      <4> QED BY <3>2, <4>1
    <3>4. /\ T!RotateRight(r) # <<>> /\ T!RotateRight(r)[w + 2] = r[w + 1]
          /\ w + 1 < c => T!RotateRight(r)[w + 3] = r[w + 2]
      <4>1. /\ T!RotateRight(r) # <<>>
            /\ \A k \in Nat : k + 1 <= c =>
                 /\ T!RotateRight(r)[k + 2] = r[k + 1]
                 /\ k + 1 < c => T!RotateRight(r)[k + 3] = r[k + 2]
        BY <2>6, <3>1, <3>2, TurnedReads
      <4> QED BY <2>3, <3>1, <4>1
    <3>5. up + 1 = w + 2 /\ up + 2 = w + 3 /\ later # 0 /\ (further = 0 => w + 2 = c + 1)
      BY <2>3, <2>4, <3>1
    <3>6. AfterUndo(m)'[a] = AfterUndo(n)[a]
      BY <2>3, <2>4, <3>2, <3>3, <3>4, <3>5 DEF ReadAt
    <3>7. AfterRedo(m)'[a] = AfterRedo(n)[a]
      BY <2>3, <2>4, <3>1, <3>2, <3>3, <3>4, <3>5 DEF ReadAt
    <3> QED BY <2>1, <3>6, <3>7
  <2>8. CASE a \notin step
    <3>1. up = w /\ further = later
      BY <2>3, <2>4, <2>5, <2>8
    <3>2. values'[a] = r /\ storage'[a] = storage[a]
      BY <1>1, <2>8 DEF r
    <3> QED BY <2>1, <2>3, <2>4, <3>1, <3>2
  <2> QED BY <2>7, <2>8
\* The step that is redone
<1>11. ASSUME NEW a \in Attr, NEW n, n = Len(t)
       PROVE  AfterUndo(0)'[a] = AfterRedo(n)[a]
  <2> DEFINE r == values[a]
             c == Count(undos, a)
             w == CountUpTo(t, n, a)
             later == CountAfter(undos, n, a)
  <2>1. AfterUndo(0)'[a] = storage'[a]
    <3>1. PICK len : len = Len(undos')
      OBVIOUS
    <3> QED BY <1>7, <3>1, LastRedo
  <2>2. n \in 0..Len(undos) /\ n \in 0..Len(t)
    BY <1>4, <1>11
  <2>3. /\ w \in Nat /\ later \in Nat /\ c = w + later
        /\ AfterRedo(n)[a] = IF later = 0 THEN storage[a] ELSE ReadAt(r, w + 2, storage[a])
    <3>1. /\ CountUpTo(undos, n, a) \in Nat /\ CountAfter(undos, n, a) \in Nat
          /\ Count(undos, a) = CountUpTo(undos, n, a) + CountAfter(undos, n, a)
          /\ AfterRedo(n)[a] = IF CountAfter(undos, n, a) = 0 THEN storage[a]
                                 ELSE ReadAt(values[a], CountUpTo(undos, n, a) + 2, storage[a])
      BY <1>7, <2>2, NowDocuments
    <3> QED BY <1>8, <2>2, <3>1
  <2>4. c = w + (IF a \in step THEN 1 ELSE 0)
    <3>1. Count(<<step>> \o t, a) = Count(t, a) + (IF a \in step THEN 1 ELSE 0)
      BY <1>4, PushedStep
    <3>2. CountUpTo(t, Len(t), a) = Count(t, a)
      BY <1>4, UpToCounts
    <3>3. Count(undos, a) = Count(<<step>> \o t, a)
      BY <1>3, <1>5
    <3> QED BY <1>11, <3>1, <3>2, <3>3
  <2>5. /\ (r # <<>> => Len(r) = c + 1) /\ (a \in step => r # <<>>)
    BY <1>9
  <2> HIDE DEF r, c, w, later
  <2>6. CASE a \in step
    <3>1. later # 0 /\ w + 2 = c + 1 /\ r # <<>> /\ Len(r) = w + 2
      BY <2>3, <2>4, <2>5, <2>6
    <3>2. storage'[a] = r[Len(r)]
      BY <1>1, <2>6 DEF r
    <3> QED BY <2>1, <2>3, <3>1, <3>2 DEF ReadAt
  <2>7. CASE a \notin step
    <3>1. later = 0
      BY <2>3, <2>4, <2>7
    <3>2. storage'[a] = storage[a]
      BY <1>1, <2>7
    <3> QED BY <2>1, <2>3, <3>1, <3>2
  <2> QED BY <2>6, <2>7
<1>12. ASSUME NEW n \in 0..(Len(undos') - redo_count')
       PROVE  \E doc : Sound(doc) /\ \A a \in Attr : AfterUndo(n)'[a] = doc[a]
  <2>1. CASE n = 0
    <3>1. PICK m : m = Len(t)
      OBVIOUS
    <3>2. m \in (Len(undos) - redo_count)..Len(undos)
      BY <1>1, <1>2, <1>4, <3>1
    <3>3. Sound(AfterRedo(m))
      BY <3>2 DEF SoundInv, StepsSound
    <3> QED BY <1>11, <2>1, <3>1, <3>3
  <2>2. CASE n # 0
    <3>1. PICK m : m = n - 1
      OBVIOUS
    <3>2. m \in 0..Len(t) /\ n = m + 1 /\ m \in 0..(Len(undos) - redo_count)
      BY <1>1, <1>2, <1>4, <1>6, <2>2, <3>1
    <3>3. Sound(AfterUndo(m))
      BY <3>2 DEF SoundInv, StepsSound
    <3>4. \A a \in Attr : AfterUndo(n)'[a] = AfterUndo(m)[a]
      BY <1>10, <3>2
    <3> QED BY <3>3, <3>4
  <2> QED BY <2>1, <2>2
<1>13. ASSUME NEW n \in (Len(undos') - redo_count')..(Len(undos') - 1)
       PROVE  \E doc : Sound(doc) /\ \A a \in Attr : AfterRedo(n)'[a] = doc[a]
  <2>1. PICK m : m = n - 1
    OBVIOUS
  <2>2. m \in 0..Len(t) /\ n = m + 1 /\ m \in (Len(undos) - redo_count)..Len(undos)
    BY <1>1, <1>2, <1>4, <1>6, <2>1
  <2>3. Sound(AfterRedo(m))
    BY <2>2 DEF SoundInv, StepsSound
  <2>4. \A a \in Attr : AfterRedo(n)'[a] = AfterRedo(m)[a]
    BY <1>10, <2>2
  <2> QED BY <2>3, <2>4
<1>14. StepsSound'
  BY <1>7, <1>12, <1>13, StepsComeFrom
<1>15. RedoReads'
  <2>1. Len(<<>>) = 0
    OBVIOUS
  <2> QED BY <1>1, <1>2, <2>1 DEF RedoReads
<1> QED BY <1>7, <1>14, <1>15, EndSound

\* The rings keep their front when steps are discarded.
LEMMA DiscardKeepsFront ==
  ASSUME IInv, ~T!InTransaction, NEW n \in 0..Len(undos), DiscardTo(n), NEW a \in Attr, values'[a] # <<>>
  PROVE  values[a] # <<>> /\ \A k \in DOMAIN values'[a] : values'[a][k] = values[a][k]
<1> DEFINE r == values[a]
           lost == Cardinality(T!StepsAfter(n, a))
           s == SubSeq(r, 1, Len(r) - lost)
<1>1. values'[a] = T!DropLast(n)[a]
  BY DEF DiscardTo, Settle
<1>2. T!DropLast(n)[a] = s
  BY SameCardinality DEF T!DropLast
<1>3. r \in Seq(Target) /\ undos \in Seq(SUBSET Attr)
  BY Facts
<1>4. lost \in Nat
  <2>1. lost = CountAfter(undos, n, a)
    BY DEF T!StepsAfter, CountAfter, OccursAfter
  <2> HIDE DEF lost
  <2> QED BY <1>3, <2>1, UpToType
<1> HIDE DEF r, lost
<1>5. \A k \in DOMAIN s : s[k] = r[k]
  BY <1>3, <1>4
<1>6. s # <<>> => r # <<>>
  <2>1. s # <<>> => Len(r) - lost >= 1
    BY <1>3, <1>4
  <2>2. r = <<>> => Len(r) = 0
    OBVIOUS
  <2> QED BY <1>4, <2>1, <2>2
<1> HIDE DEF s
<1> QED BY <1>1, <1>2, <1>5, <1>6 DEF r

\* What undo comes to by the steps that are kept stays.
LEMMA KeptReads ==
  ASSUME IInv, IInv', PastInv, ~T!InTransaction, NEW n \in 0..Len(undos), DiscardTo(n),
         storage' = storage, NEW a \in Attr, OpenWrites(a)' = 0,
         Count(undos', a) = Count(SubSeq(undos, 1, n), a), NEW m \in 0..n
  PROVE  ReadAt(values'[a], CountUpTo(undos, m, a) + 1, storage'[a]) = AfterUndo(m)[a]
<1> DEFINE up == CountUpTo(undos, m, a)
           all == Count(SubSeq(undos, 1, n), a)
<1>1. OpenWrites(a) = 0 /\ undos \in Seq(SUBSET Attr) /\ Len(undos) \in Nat
  BY IdleOpens, Facts
<1>2. m \in 0..Len(undos)
  BY <1>1
<1>3. AfterUndo(m)[a] = ReadAt(values[a], up + 1, storage[a]) /\ up \in Nat
  BY <1>1, <1>2, NowDocuments
<1>4. up <= all
  <2>1. up <= CountUpTo(undos, n, a)
    BY <1>1, UpToGrows
  <2> QED BY <2>1 DEF CountUpTo
<1>5. /\ values'[a] \in Seq(Target) /\ (values'[a] = <<>> => all = 0) /\ all \in Nat
      /\ values'[a] # <<>> => Len(values'[a]) = all + 1
  <2>1. RingFacts(values'[a], 0, Count(undos', a), PastOf(a)')
    BY FactsThen
  <2>2. Count(undos', a) \in Nat /\ 0 + Count(undos', a) + 1 = Count(undos', a) + 1
    BY <2>1 DEF RingFacts
  <2> QED BY <2>1, <2>2 DEF RingFacts
<1>6. values[a] # <<>> => storage[a] = values[a][1]
  <2>1. values[a] # <<>> => storage[a] = values[a][0 + 1]
    BY <1>1 DEF PastInv, StorageAgrees
  <2>2. 0 + 1 = 1
    OBVIOUS
  <2> QED BY <2>1, <2>2
<1> HIDE DEF up, all
<1>7. CASE values'[a] = <<>>
  <2>1. up + 1 = 1
    BY <1>3, <1>4, <1>5, <1>7
  <2> QED BY <1>3, <1>6, <1>7, <2>1 DEF ReadAt
<1>8. CASE values'[a] # <<>>
  <2>1. up + 1 \in DOMAIN values'[a]
    BY <1>3, <1>4, <1>5, <1>8
  <2>2. values[a] # <<>> /\ values'[a][up + 1] = values[a][up + 1]
    BY <1>8, <2>1, DiscardKeepsFront
  <2>3. ReadAt(values'[a], up + 1, storage'[a]) = values'[a][up + 1]
    BY <1>8 DEF ReadAt
  <2>4. AfterUndo(m)[a] = values[a][up + 1]
    BY <1>3, <2>2 DEF ReadAt
  <2> QED BY <2>2, <2>3, <2>4 DEF up
<1> QED BY <1>7, <1>8

\* What can be undone is kept, and nothing can be redone.
LEMMA DiscardSound ==
  ASSUME IInv, IInv', PastInv, PastInv', SoundInv, ~T!InTransaction,
         NEW n \in 0..Len(undos), n <= Len(undos) - redo_count, DiscardTo(n),
         storage' = storage, redo_count' = 0, \A a \in Attr : OpenWrites(a)' = 0,
         undos' = SubSeq(undos, 1, n) \/ undos' = <<{}>> \o SubSeq(undos, 1, n)
  PROVE  SoundInv'
<1> DEFINE s == SubSeq(undos, 1, n)
<1>1. /\ undos \in Seq(SUBSET Attr) /\ s \in Seq(SUBSET Attr) /\ Len(s) = n /\ n \in Nat
      /\ redo_count \in Nat /\ Len(undos) \in Nat
  <2>1. undos \in Seq(SUBSET Attr) /\ redo_count \in Nat
    BY Facts
  <2> QED BY <2>1
<1>2. ASSUME NEW a
      PROVE  /\ Count(s, a) \in Nat
             /\ \A m \in 0..n : CountUpTo(s, m, a) = CountUpTo(undos, m, a) /\ CountUpTo(s, m, a) \in Nat
  <2>1. ASSUME NEW m \in 0..n
        PROVE  CountUpTo(s, m, a) = CountUpTo(undos, m, a)
    BY <1>1, UpToOfPrefix
  <2>2. Count(s, a) \in Nat /\ \A m \in 0..Len(s) : CountUpTo(s, m, a) \in Nat
    BY <1>1, UpToCounts
  <2> QED BY <1>1, <2>1, <2>2
<1> HIDE DEF s
<1>3. Sound(AfterUndo(0)) /\ \A m \in 0..n : Sound(AfterUndo(m))
  <2>1. 0 \in 0..(Len(undos) - redo_count) /\ \A m \in 0..n : m \in 0..(Len(undos) - redo_count)
    BY <1>1
  <2> QED BY <2>1 DEF SoundInv, StepsSound
<1>4. ASSUME NEW k \in 0..(Len(undos') - redo_count')
      PROVE  \E doc : Sound(doc) /\ \A a \in Attr : AfterUndo(k)'[a] = doc[a]
  <2>1. CASE undos' = s
    <3>1. k \in 0..n /\ k \in 0..Len(undos')
      BY <1>1, <2>1
    <3>2. ASSUME NEW a \in Attr PROVE AfterUndo(k)'[a] = AfterUndo(k)[a]
      <4>1. AfterUndo(k)'[a] = ReadAt(values'[a], CountUpTo(undos', k, a) + 1, storage'[a])
        BY <3>1, ThenDocuments
      <4>2. CountUpTo(undos', k, a) = CountUpTo(undos, k, a)
        BY <1>2, <2>1, <3>1
      <4>3. ReadAt(values'[a], CountUpTo(undos, k, a) + 1, storage'[a]) = AfterUndo(k)[a]
        BY <2>1, <3>1, KeptReads DEF s
      <4> QED BY <4>1, <4>2, <4>3
    <3> QED BY <1>3, <3>1, <3>2
  <2>2. CASE undos' = <<{}>> \o s
    <3>1. PICK e : e = {}
      OBVIOUS
    <3>2. e \in SUBSET Attr /\ undos' = <<e>> \o s
      BY <2>2, <3>1
    <3>7. e \in SUBSET Attr
      BY <3>2
    <3>8. s \in Seq(SUBSET Attr)
      BY <1>1
    <3>3. Len(undos') = n + 1
      <4>1. \A t \in Seq(SUBSET Attr), x \in SUBSET Attr : Len(<<x>> \o t) = Len(t) + 1
        OBVIOUS
      <4> QED BY <1>1, <3>2, <4>1
    <3>4. ASSUME NEW a \in Attr
          PROVE  /\ Count(undos', a) = Count(s, a)
                 /\ \A m \in 0..n : CountUpTo(undos', m + 1, a) = CountUpTo(undos, m, a)
      <4>1. /\ Count(<<e>> \o s, a) = Count(s, a) + (IF a \in e THEN 1 ELSE 0)
            /\ \A m \in 0..Len(s) : CountUpTo(<<e>> \o s, m + 1, a) = CountUpTo(s, m, a) + (IF a \in e THEN 1 ELSE 0)
        BY <3>7, <3>8, PushedStep
      <4>2. a \notin e
        BY <3>1
      <4>3. /\ Count(undos', a) = Count(s, a) + 0
            /\ \A m \in 0..n : CountUpTo(undos', m + 1, a) = CountUpTo(s, m, a) + 0
        BY <1>1, <3>2, <4>1, <4>2
      <4> QED BY <1>2, <4>3
    <3>5. CASE k = 0
      <4>1. ASSUME NEW a \in Attr PROVE AfterUndo(0)'[a] = AfterUndo(0)[a]
        <5>1. AfterUndo(0)'[a] = storage'[a]
          <6>1. PICK len : len = Len(undos')
            OBVIOUS
          <6> QED BY <6>1, LastRedo
        <5>2. AfterUndo(0)[a] = storage[a]
          BY DocumentEnds DEF PastInv
        <5> QED BY <5>1, <5>2
      <4> QED BY <1>3, <3>5, <4>1
    <3>6. CASE k # 0
      <4>1. PICK m : m = k - 1
        OBVIOUS
      <4>2. m \in 0..n /\ k = m + 1 /\ k \in 0..Len(undos')
        BY <1>1, <3>3, <3>6, <4>1
      <4>3. ASSUME NEW a \in Attr PROVE AfterUndo(k)'[a] = AfterUndo(m)[a]
        <5>1. AfterUndo(k)'[a] = ReadAt(values'[a], CountUpTo(undos', k, a) + 1, storage'[a])
          BY <4>2, ThenDocuments
        <5>2. CountUpTo(undos', k, a) = CountUpTo(undos, m, a) /\ Count(undos', a) = Count(s, a)
          BY <3>4, <4>2
        <5>3. ReadAt(values'[a], CountUpTo(undos, m, a) + 1, storage'[a]) = AfterUndo(m)[a]
          BY <4>2, <5>2, KeptReads DEF s
        <5> QED BY <5>1, <5>2, <5>3
      <4> QED BY <1>3, <4>2, <4>3
    <3> QED BY <3>5, <3>6
  <2> QED BY <2>1, <2>2 DEF s
<1>5. \A k \in (Len(undos') - redo_count')..(Len(undos') - 1) :
        \E doc : Sound(doc) /\ \A a \in Attr : AfterRedo(k)'[a] = doc[a]
  <2>1. undos' \in Seq(SUBSET Attr)
    BY DEF IInv, TypeOK
  <2>2. Len(undos') \in Nat
    BY <2>1
  <2>3. (Len(undos') - redo_count')..(Len(undos') - 1) = {}
    BY <2>2
  <2> QED BY <2>3
<1>6. StepsSound'
  BY <1>4, <1>5, StepsComeFrom
<1>7. RedoReads'
  BY DEF RedoReads
<1> QED BY <1>6, <1>7, EndSound

LEMMA FlushSound ==
  ASSUME IInv, IInv', PastInv, PastInv', SoundInv,
         NEW n \in 0..Len(undos), n <= Len(undos) - redo_count, Flush(n)
  PROVE  SoundInv'
<1>1. /\ ~T!InTransaction /\ DiscardTo(n) /\ undos' = SubSeq(undos, 1, n)
      /\ redo_count' = T!RedoneAfterDiscard(n) /\ transactions' = transactions /\ storage' = storage
  BY DEF Flush
<1>2. \A a \in Attr : OpenWrites(a)' = 0
  BY <1>1, Idle, NoOpenWrites
<1>3. redo_count' = 0
  <2>1. redo_count \in Nat /\ Len(undos) \in Nat
    BY Facts
  <2>2. ~(redo_count > Len(undos) - n)
    BY <2>1
  <2> QED BY <1>1, <2>2 DEF T!RedoneAfterDiscard
<1> QED BY <1>1, <1>2, <1>3, DiscardSound

LEMMA BeginToWriteSound ==
  ASSUME IInv, IInv', PastInv, PastInv', SoundInv, BeginFinalTr(FALSE)
  PROVE  SoundInv'
<1> DEFINE n == T!Kept
<1>1. /\ ~T!InTransaction /\ DiscardTo(n) /\ undos' = <<{}>> \o SubSeq(undos, 1, n)
      /\ redo_count' = 0 /\ transactions' = <<T!Level(FALSE)>> /\ storage' = storage
  BY DEF BeginFinalTr
<1>2. T!Level(FALSE) \in LevelType /\ T!Level(FALSE).items = {}
  BY DEF T!Level, LevelType, LevelOf
<1>3. \A a \in Attr : OpenWrites(a)' = 0
  BY <1>1, <1>2, NoOpenWrites
<1>4. n \in 0..Len(undos) /\ n <= Len(undos) - redo_count
  <2>1. redo_count \in Nat /\ Len(undos) \in Nat /\ redo_count <= Len(undos)
    BY <1>1, Facts, Idle
  <2> QED BY <2>1, UndoAssumption DEF T!Kept
<1> HIDE DEF n
<1> QED BY <1>1, <1>3, <1>4, DiscardSound

-----------------------------------------------------------------------------
(* Clients that use the Core as the Mga layer does                         *)

\* A document that all rings and the storage agree on
LEMMA InitSound == Init => SoundInv
<1> SUFFICES ASSUME Init PROVE SoundInv
  OBVIOUS
<1>1. IInv
  BY InitInv
<1>2. PICK S \in SUBSET (Object \ {Root}) :
        /\ stored = S \cup {Root}
        /\ storage \in [Attr -> stored \cup {Null}]
        /\ \A o \in Object \ {Root} : o \in S <=> \E a \in AttrsOf(o) : storage[a] # Null
  BY DEF Init
<1>3. /\ values = [a \in Attr |-> <<>>] /\ undos = <<>> /\ redo_count = 0 /\ transactions = <<>>
      /\ Len(undos) = 0 /\ Len(transactions) = 0
  BY DEF Init
<1>4. Sound(storage)
  <2> SUFFICES ASSUME NEW a \in Attr, storage[a] \notin {Null, Root}
               PROVE  \E b \in AttrsOf(storage[a]) : storage[b] # Null
    BY DEF Sound
  <2>1. storage[a] \in S
    BY <1>2
  <2> QED BY <1>2, <2>1
<1>5. \A i : \A a \in Attr : AtLevel(i)[a] = storage[a] /\ AfterUndo(i)[a] = storage[a]
  BY <1>3 DEF AtLevel, AfterUndo, ReadAt
<1>6. \A i : \A a \in Attr : AfterRedo(i)[a] = storage[a]
  BY <1>3 DEF AfterRedo, ReadAt
<1>7. ASSUME NEW i PROVE Sound(AtLevel(i)) /\ Sound(AfterUndo(i)) /\ Sound(AfterRedo(i))
  <2>1. Sound(AtLevel(i))
    BY <1>4, <1>5, SoundAlike
  <2>2. Sound(AfterUndo(i))
    BY <1>4, <1>5, SoundAlike
  <2>3. Sound(AfterRedo(i))
    BY <1>4, <1>6, SoundAlike
  <2> QED BY <2>1, <2>2, <2>3
<1>8. RedoReads
  BY <1>3 DEF RedoReads
<1> QED BY <1>7, <1>8 DEF SoundInv, LevelsSound, StepsSound

LEMMA SameSound ==
  ASSUME SoundInv, UNCHANGED <<transactions, undos, redo_count, values, storage>>
  PROVE  SoundInv'
<1>1. ASSUME NEW i
      PROVE  /\ AtLevel(i)' = AtLevel(i) /\ AfterUndo(i)' = AfterUndo(i)
             /\ AfterRedo(i)' = AfterRedo(i)
  BY DEF AtLevel, AfterUndo, AfterRedo, Newer, OpenWrites
<1>2. LevelsSound'
  <2>1. \A i \in 0..Len(transactions) : Sound(AtLevel(i))
    BY DEF SoundInv, LevelsSound
  <2> QED BY <1>1, <2>1 DEF LevelsSound
<1>3. StepsSound'
  <2>1. /\ \A n \in 0..(Len(undos) - redo_count) : Sound(AfterUndo(n))
        /\ \A n \in (Len(undos) - redo_count)..Len(undos) : Sound(AfterRedo(n))
    BY DEF SoundInv, StepsSound
  <2> QED BY <1>1, <2>1 DEF StepsSound
<1>4. RedoReads'
  BY DEF SoundInv, RedoReads
<1> QED BY <1>2, <1>3, <1>4 DEF SoundInv

LEMMA StepSound ==
  ASSUME Careful = TRUE, IInv, PastInv, SoundInv, [Next]_vars
  PROVE  SoundInv'
<1> IInv'
  BY StepInv
<1> PastInv'
  BY StepPast
<1>1. ASSUME NEW readonly \in BOOLEAN, BeginFinalTr(readonly) PROVE SoundInv'
  <2>1. CASE readonly = TRUE
    BY <1>1, <2>1, BeginToReadSound
  <2>2. CASE readonly = FALSE
    BY <1>1, <2>2, BeginToWriteSound
  <2> QED BY <2>1, <2>2
<1>2. ASSUME NEW readonly \in BOOLEAN, BeginNestedTr(readonly) PROVE SoundInv'
  BY <1>2, BeginNestedSound
<1>3. CASE CommitNestedTr
  BY <1>3, CommitNestedSound
<1>4. CASE CommitFinalTr
  BY <1>4, CommitFinalSound
<1>5. CASE AbortNestedTr
  BY <1>5, AbortNestedSound
<1>6. CASE AbortFinalTr
  BY <1>6, AbortFinalSound
<1>7. ASSUME NEW o \in Object, GetPointer(o) PROVE SoundInv'
  BY <1>7, GetPointerSound
<1>8. ASSUME NEW o \in Object, Forget(o) PROVE SoundInv'
  BY <1>8, ForgetSound
<1>9. ASSUME NEW o \in Object, CreateObject(o) PROVE SoundInv'
  BY <1>9, CreateObjectSound
<1>10. ASSUME NEW o \in Object, Delete(o) PROVE SoundInv'
  BY <1>10, DeleteSound
<1>11. ASSUME NEW o \in Object, DeleteRefused(o) PROVE SoundInv'
  BY <1>11, DeleteRefusedSound
<1>12. ASSUME NEW o \in Object, NEW p \in Pointer, GetCollection(o, p) PROVE SoundInv'
  BY <1>12, GetCollectionSound
<1>13. ASSUME NEW a \in Attr, NEW v \in Target, PutPointer(a, v) PROVE SoundInv'
  BY <1>13, PutPointerSound
<1>14. CASE UndoTransaction
  BY <1>14, UndoSound
<1>15. CASE RedoTransaction
  BY <1>15, RedoSound
<1>16. ASSUME NEW m, m = 0 \/ m = Len(undos) - redo_count, Flush(m) PROVE SoundInv'
  <2>1. ~T!InTransaction
    BY <1>16 DEF Flush
  <2>2. redo_count \in Nat /\ redo_count <= Len(undos) /\ Len(undos) \in Nat
    BY <2>1, Facts, Idle
  <2>3. m \in 0..Len(undos) /\ m <= Len(undos) - redo_count
    BY <1>16, <2>2
  <2> QED BY <1>16, <2>3, FlushSound
<1>17. CASE FlushUndoQueue
  BY <1>16, <1>17 DEF FlushUndoQueue
<1>18. CASE FlushRedoQueue
  <2> DEFINE n == Len(undos) - redo_count
  <2>1. Flush(n)
    BY <1>18 DEF FlushRedoQueue
  <2> HIDE DEF n
  <2>2. n = Len(undos) - redo_count
    BY DEF n
  <2> QED BY <1>16, <2>1, <2>2
<1>19. CASE UNCHANGED vars
  BY <1>19, SameSound DEF vars, levelVars, objectVars
<1> QED BY <1>1, <1>2, <1>3, <1>4, <1>5, <1>6, <1>7, <1>8, <1>9, <1>10, <1>11, <1>12, <1>13,
           <1>14, <1>15, <1>17, <1>18, <1>19 DEF Next

\* A pointer that is not empty belongs to an object that is in the storage.
LEMMA OwnersAreStored ==
  ASSUME IInv, PastInv, NEW b \in Attr
  PROVE  /\ storage[b] # Null => Owner[b] \in stored
         /\ Current(b) # Null => Owner[b] \in stored
<1>1. /\ GoneOK /\ RingTargetsStored /\ StorageAgrees /\ Owner[b] \in Object
  BY OwnerType DEF PastInv
<1>2. storage[b] # Null => Owner[b] \in stored
  BY <1>1 DEF GoneOK, AttrsOf
<1>3. ASSUME Current(b) # Null PROVE Owner[b] \in stored
  <2>1. CASE values[b] = <<>>
    BY <1>2, <1>3, <2>1 DEF Current
  <2>2. CASE values[b] # <<>> /\ Len(values[b]) >= 2
    BY <1>1, <2>2 DEF RingTargetsStored
  <2>3. CASE values[b] # <<>> /\ ~(Len(values[b]) >= 2)
    <3>1. RingFacts(values[b], OpenWrites(b), Count(undos, b), PastOf(b))
      BY FactsNow
    <3>2. OpenWrites(b) \in Nat /\ Count(undos, b) \in Nat
          /\ Len(values[b]) = OpenWrites(b) + Count(undos, b) + 1
      BY <2>3, <3>1 DEF RingFacts
    <3>3. OpenWrites(b) + 1 = 1
      BY <2>3, <3>2
    <3>4. storage[b] = values[b][1]
      BY <1>1, <2>3, <3>3 DEF StorageAgrees
    <3> QED BY <1>2, <1>3, <2>3, <3>4 DEF Current
  <2> QED BY <2>1, <2>2, <2>3
<1> QED BY <1>2, <1>3

LEMMA SoundDoesNotDangle ==
  ASSUME IInv, PastInv, SoundInv
  PROVE  NoDangling
<1> SUFFICES ASSUME NEW a \in Attr
             PROVE  Exists(Current(a)) /\ storage[a] \in stored \cup {Null}
  BY DEF NoDangling
<1>1. Root \in stored /\ Len(transactions) \in Nat /\ Len(undos) \in Nat /\ redo_count \in Nat
      /\ redo_count <= Len(undos)
  <2>1. /\ redo_count <= Len(undos) - (IF T!InTransaction THEN 1 ELSE 0)
        /\ redo_count \in Nat /\ Len(undos) \in Nat /\ Len(transactions) \in Nat
    BY Facts DEF IInv, QueueOK
  <2> QED BY <2>1 DEF PastInv
<1>2. \A b \in Attr : AtLevel(0)[b] = Current(b) /\ AfterUndo(0)[b] = storage[b]
  BY DocumentEnds DEF PastInv
<1>3. Sound(AtLevel(0)) /\ Sound(AfterUndo(0))
  <2>1. 0 \in 0..Len(transactions) /\ 0 \in 0..(Len(undos) - redo_count)
    BY <1>1
  <2> QED BY <2>1 DEF SoundInv, LevelsSound, StepsSound
<1>4. Exists(Current(a))
  <2>1. CASE Current(a) \in {Null, Root}
    BY <2>1 DEF Exists
  <2>2. CASE Current(a) \notin {Null, Root}
    <3>1. PICK b \in AttrsOf(Current(a)) : AtLevel(0)[b] # Null
      BY <1>2, <1>3, <2>2 DEF Sound
    <3>2. b \in Attr /\ Owner[b] = Current(a) /\ Current(b) # Null
      BY <1>2, <3>1 DEF AttrsOf
    <3>3. Current(a) \in stored
      BY <3>2, OwnersAreStored
    <3>4. ~HasEmptyPointers(Current(a))
      BY <3>1, <3>2 DEF HasEmptyPointers
    <3> QED BY <3>3, <3>4 DEF Exists
  <2> QED BY <2>1, <2>2
<1>5. storage[a] \in stored \cup {Null}
  <2>1. CASE storage[a] \in {Null, Root}
    BY <1>1, <2>1
  <2>2. CASE storage[a] \notin {Null, Root}
    <3>1. PICK b \in AttrsOf(storage[a]) : AfterUndo(0)[b] # Null
      BY <1>2, <1>3, <2>2 DEF Sound
    <3>2. b \in Attr /\ Owner[b] = storage[a] /\ storage[b] # Null
      BY <1>2, <3>1 DEF AttrsOf
    <3> QED BY <3>2, OwnersAreStored
  <2> QED BY <2>1, <2>2
<1> QED BY <1>4, <1>5

(* With clients that use the Core as the Mga layer does, whatever they can *)
(* come to by aborting, undoing and redoing has no pointer that leads to   *)
(* an object without pointers: the strengthening that the next theorem     *)
(* needs.                                                                  *)
THEOREM DocumentsAreSound ==
  ASSUME Careful = TRUE
  PROVE  Spec => [](IInv /\ PastInv /\ SoundInv)
<1>1. Init => IInv /\ PastInv /\ SoundInv
  BY InitInv, InitPast, InitSound
<1>2. IInv /\ PastInv /\ SoundInv /\ [Next]_vars => IInv' /\ PastInv' /\ SoundInv'
  BY StepInv, StepPast, StepSound
<1> QED BY <1>1, <1>2, PTL DEF Spec

(* No pointer of an object in the storage leads to an object that has been *)
(* deleted, neither the one that a client reads nor the one that the       *)
(* storage has: CCoreObject::Delete, what commits delete and what undo and *)
(* redo bring back fit together, if clients walk the collections of what   *)
(* they delete and take no last pointer by hand, as the Mga layer does.    *)
THEOREM NothingDangles ==
  ASSUME Careful = TRUE
  PROVE  Spec => []NoDangling
<1>1. IInv /\ PastInv /\ SoundInv => NoDangling
  BY SoundDoesNotDangle
<1> QED BY <1>1, DocumentsAreSound, PTL
=============================================================================
