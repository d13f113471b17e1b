----------------------- MODULE CoreTransactionsProofs -----------------------
(***************************************************************************)
(* The invariants of CoreTransactions, for any objects, attributes,        *)
(* values, depth of nesting and length of the undo list.                   *)
(*                                                                         *)
(* None of the five is inductive alone.  A nested commit drops the second  *)
(* value of a ring and undo reads it, so TypeOK needs to know that it is   *)
(* there (RingMatchesHistory), for which the dirty flags have to agree     *)
(* with the levels (DirtyIffRegistered), unloaded attributes have to be    *)
(* unused (LoadedIffLocked) and the place of the open step in the undo     *)
(* list has to be known (QueueSizesOK).  Together they are inductive.      *)
(***************************************************************************)
EXTENDS CoreTransactionsProps, TLAPS

IInv ==
  /\ TypeOK
  /\ QueueSizesOK
  /\ RingMatchesHistory
  /\ LoadedIffLocked
  /\ DirtyIffRegistered

-----------------------------------------------------------------------------
(* Prefixes, tails and sequences with one more element in front *)

LEMMA PrefixFacts ==
  ASSUME NEW S, NEW s \in Seq(S), NEW n \in 0..Len(s)
  PROVE  /\ SubSeq(s, 1, n) \in Seq(S)
         /\ Len(SubSeq(s, 1, n)) = n
         /\ \A i \in 1..n : SubSeq(s, 1, n)[i] = s[i]
OBVIOUS

LEMMA TailFacts ==
  ASSUME NEW S, NEW s \in Seq(S), s # <<>>
  PROVE  /\ Tail(s) \in Seq(S)
         /\ Len(Tail(s)) = Len(s) - 1
         /\ \A k \in 1..Len(Tail(s)) : Tail(s)[k] = s[k + 1]
OBVIOUS

LEMMA PrependFacts ==
  ASSUME NEW S, NEW s \in Seq(S), NEW e \in S
  PROVE  /\ <<e>> \o s \in Seq(S)
         /\ Len(<<e>> \o s) = Len(s) + 1
         /\ (<<e>> \o s)[1] = e
         /\ \A i \in 2..(Len(s) + 1) : (<<e>> \o s)[i] = s[i - 1]
OBVIOUS

-----------------------------------------------------------------------------
(* Rings that lose values they have, and attributes that are unloaded when *)
(* nothing keeps them, leave the lock and the ring invariants as they are. *)

Rings == [Attr -> Seq(Value)]

\* Every attribute a lock keeps in memory is in memory.
KeptIsLoaded(vals, locks) ==
  \A a \in Attr : Owner[a] \in locks \/ HoldsLock(vals, Owner[a]) => vals[a] # <<>>

LoadedIffKept(vals, locks) ==
  \A a \in Attr : vals[a] # <<>> <=> Owner[a] \in locks \/ HoldsLock(vals, Owner[a])

LEMMA ControlUnloads ==
  ASSUME NEW vals \in Rings, NEW locks, KeptIsLoaded(vals, locks)
  PROVE  LET result == ControlLockGroup(vals, locks)
         IN  /\ result \in Rings
             /\ LoadedIffKept(result, locks)
             /\ \A a \in Attr, n \in Nat :
                  RingMatches(vals[a], n) => RingMatches(result[a], n)
<1> DEFINE result == ControlLockGroup(vals, locks)
<1>1. result \in Rings
  BY DEF Rings, ControlLockGroup
<1>2. \A a \in Attr : Len(vals[a]) \in Nat /\ (vals[a] = <<>> <=> Len(vals[a]) = 0)
  BY DEF Rings
<1>3. \A a \in Attr : Len(vals[a]) >= 2 => result[a] = vals[a]
  BY OwnerAssumption DEF ControlLockGroup, HoldsLock
<1>4. \A a \in Attr : result[a] = vals[a] \/ result[a] = <<>>
  BY DEF ControlLockGroup
<1>5. \A a \in Attr : Len(result[a]) >= 2 <=> Len(vals[a]) >= 2
  BY <1>2, <1>3, <1>4
<1>6. \A o : HoldsLock(result, o) <=> HoldsLock(vals, o)
  BY <1>5 DEF HoldsLock
<1>7. LoadedIffKept(result, locks)
  BY <1>6 DEF LoadedIffKept, KeptIsLoaded, ControlLockGroup
<1>8. ASSUME NEW a \in Attr, NEW n \in Nat, RingMatches(vals[a], n)
      PROVE  RingMatches(result[a], n)
  <2>1. CASE Len(vals[a]) >= 2
    BY <1>3, <1>8, <2>1
  <2>2. CASE ~(Len(vals[a]) >= 2)
    <3>1. n = 0
      BY <1>2, <1>8, <2>2 DEF RingMatches
    <3> QED BY <1>4, <1>8, <3>1 DEF RingMatches
  <2> QED BY <2>1, <2>2
<1> HIDE DEF result
<1>9. \A a \in Attr, n \in Nat : RingMatches(vals[a], n) => RingMatches(result[a], n)
  BY <1>8
<1> QED BY <1>1, <1>7, <1>9 DEF result

(* Rings that become shorter without becoming empty stay loaded. *)
LEMMA ShorterIsKept ==
  ASSUME NEW vals \in Rings, NEW result \in Rings, NEW locks,
         LoadedIffKept(vals, locks),
         \A a \in Attr : Len(result[a]) <= Len(vals[a]),
         \A a \in Attr : vals[a] # <<>> => result[a] # <<>>
  PROVE  KeptIsLoaded(result, locks)
<1>1. \A o : HoldsLock(result, o) => HoldsLock(vals, o)
  <2>1. \A a \in Attr : Len(vals[a]) \in Nat /\ Len(result[a]) \in Nat
    BY DEF Rings
  <2> QED BY <2>1 DEF HoldsLock
<1> QED BY <1>1 DEF KeptIsLoaded, LoadedIffKept

(* Locks are told apart only by the lengths of the rings. *)
LEMMA SameLengthsSameLocks ==
  ASSUME NEW vals \in Rings, NEW result \in Rings, NEW locks,
         LoadedIffKept(vals, locks),
         \A a \in Attr : Len(result[a]) = Len(vals[a])
  PROVE  LoadedIffKept(result, locks)
<1>1. \A a \in Attr : result[a] = <<>> <=> vals[a] = <<>>
  BY DEF Rings
<1>2. \A o : HoldsLock(result, o) <=> HoldsLock(vals, o)
  BY DEF HoldsLock
<1> QED BY <1>1, <1>2 DEF LoadedIffKept

-----------------------------------------------------------------------------
(* What IInv says in the terms of the lemmas above *)

LEMMA Consequences ==
  ASSUME IInv
  PROVE  /\ values \in Rings
         /\ LoadedIffKept(values, locked)
         /\ \A a \in Attr : /\ Count(Items(transactions), a) \in Nat
                            /\ Count(undos, a) \in Nat
                            /\ Older(a) = Count(Items(transactions), a) + Count(undos, a)
                            /\ Older(a) \in Nat
                            /\ Len(values[a]) \in Nat
                            /\ values[a] = <<>> <=> Len(values[a]) = 0
                            /\ RingMatches(values[a], Older(a))
<1>1. /\ values \in Rings
      /\ LoadedIffKept(values, locked)
      /\ transactions \in Seq(LevelType)
      /\ undos \in Seq(SUBSET Attr)
      /\ \A a \in Attr : RingMatches(values[a], Older(a))
  BY DEF IInv, TypeOK, Rings, LoadedIffLocked, LoadedIffKept, RingMatchesHistory
<1>2. ASSUME NEW a \in Attr
      PROVE  Count(Items(transactions), a) \in Nat /\ Count(undos, a) \in Nat
  BY <1>1, LevelCount, CountType DEF LevelType
<1>3. ASSUME NEW a \in Attr
      PROVE  Len(values[a]) \in Nat /\ (values[a] = <<>> <=> Len(values[a]) = 0)
  BY <1>1 DEF Rings
<1>4. ASSUME NEW a \in Attr
      PROVE  /\ Older(a) = Count(Items(transactions), a) + Count(undos, a)
             /\ Older(a) \in Nat
  BY <1>2 DEF Older
<1> QED BY <1>1, <1>2, <1>3, <1>4

(* Between transactions nothing is dirty, locked or registered. *)
LEMMA Idle ==
  ASSUME IInv, ~InTransaction
  PROVE  /\ transactions = <<>>
         /\ dirty = {}
         /\ locked = {}
         /\ finaltr_items = {}
         /\ \A a \in Attr : Older(a) = Count(undos, a)
<1>1. transactions = <<>> /\ dirty = {} /\ locked = {} /\ finaltr_items = {}
  BY DEF IInv, InTransaction, DirtyIffRegistered, LoadedIffLocked
<1>2. \A a \in Attr : Count(Items(transactions), a) = 0
  BY <1>1, LevelCount DEF IInv, TypeOK, LevelType
<1> QED BY <1>1, <1>2, Consequences

-----------------------------------------------------------------------------
LEMMA InitInv == Init => IInv
<1> SUFFICES ASSUME Init PROVE IInv
  OBVIOUS
<1>1. TypeOK
  <2>1. <<>> \in Seq(LevelType) /\ <<>> \in Seq(SUBSET Attr) /\ <<>> \in Seq(Value)
    OBVIOUS
  <2>2. maxUndoStep \in 1..99
    BY UndoSizesAssumption DEF Init
  <2>3. values \in [Attr -> Seq(Value)]
    BY <2>1 DEF Init
  <2> QED BY <2>1, <2>2, <2>3 DEF Init, TypeOK
<1>2. QueueSizesOK
  BY DEF Init, QueueSizesOK, InTransaction
<1>3. RingMatchesHistory
  <2>1. \A a \in Attr : Count(undos, a) = 0
    BY CountOfEmpty DEF Init
  <2>2. \A a \in Attr : Count(Items(transactions), a) = 0
    <3>1. transactions \in Seq(LevelType) /\ transactions = <<>>
      BY <1>1 DEF Init, TypeOK
    <3> QED BY <3>1, LevelCount DEF LevelType
  <2>3. \A a \in Attr : Older(a) = 0
    BY <2>1, <2>2 DEF Older
  <2> QED BY <2>3 DEF Init, RingMatchesHistory, RingMatches
<1>4. LoadedIffLocked
  BY DEF Init, LoadedIffLocked, InTransaction, HoldsLock
<1>5. DirtyIffRegistered
  BY DEF Init, DirtyIffRegistered, InTransaction
<1> QED BY <1>1, <1>2, <1>3, <1>4, <1>5 DEF IInv

(* Discarding the steps of an idle project after the n-th one takes as     *)
(* many values off a ring as there were steps that touched the attribute.  *)
LEMMA DiscardingStepsOK ==
  ASSUME IInv, ~InTransaction, NEW n \in 0..Len(undos)
  PROVE  LET result == ControlLockGroup(DropLast(n), {})
         IN  /\ result \in Rings
             /\ LoadedIffKept(result, {})
             /\ \A a \in Attr : RingMatches(result[a], Count(SubSeq(undos, 1, n), a))
<1> DEFINE result == ControlLockGroup(DropLast(n), {})
           lost(a) == CountAfter(undos, n, a)
<1>1. undos \in Seq(SUBSET Attr)
  BY DEF IInv, TypeOK
<1>2. \A a \in Attr : Cardinality(StepsAfter(n, a)) = lost(a)
  BY DEF StepsAfter, CountAfter, OccursAfter
<1>3. SubSeq(undos, 1, n) \in Seq(SUBSET Attr)
  BY <1>1
<1>4. \A a \in Attr : lost(a) \in Nat /\ Count(SubSeq(undos, 1, n), a) \in Nat
  <2>1. Len(undos) - n \in Nat
    BY <1>1
  <2>2. \A a \in Attr : lost(a) \in 0..(Len(undos) - n)
    BY <1>1, CountBounds
  <2>3. \A a \in Attr : Count(SubSeq(undos, 1, n), a) \in Nat
    BY <1>3, CountType
  <2> HIDE DEF lost
  <2> QED BY <2>1, <2>2, <2>3
<1>5. \A a \in Attr : Count(undos, a) = Count(SubSeq(undos, 1, n), a) + lost(a)
  BY <1>1, CountSplits
<1> HIDE DEF lost
<1>6. ASSUME NEW a \in Attr
      PROVE  /\ DropLast(n)[a] \in Seq(Value)
             /\ Len(DropLast(n)[a]) <= Len(values[a])
             /\ values[a] # <<>> => DropLast(n)[a] # <<>>
             /\ RingMatches(DropLast(n)[a], Count(SubSeq(undos, 1, n), a))
  <2>1. values[a] \in Seq(Value) /\ Len(values[a]) \in Nat
    BY DEF IInv, TypeOK
  <2>2. RingMatches(values[a], Count(undos, a))
    BY Consequences, Idle
  <2>3. DropLast(n)[a] = SubSeq(values[a], 1, Len(values[a]) - lost(a))
    BY <1>2 DEF DropLast
  <2>4. CASE values[a] = <<>>
    <3>1. lost(a) = 0 /\ Count(SubSeq(undos, 1, n), a) = 0
      BY <1>4, <1>5, <2>2, <2>4 DEF RingMatches
    <3>2. DropLast(n)[a] = <<>>
      BY <2>3, <2>4, <3>1
    <3> QED BY <2>4, <3>1, <3>2 DEF RingMatches
  <2>5. CASE values[a] # <<>>
    <3>1. /\ Len(values[a]) - lost(a) = 1 + Count(SubSeq(undos, 1, n), a)
          /\ Len(values[a]) - lost(a) \in 1..Len(values[a])
      BY <1>4, <1>5, <2>1, <2>2, <2>5 DEF RingMatches
    <3>2. /\ DropLast(n)[a] \in Seq(Value)
          /\ Len(DropLast(n)[a]) = 1 + Count(SubSeq(undos, 1, n), a)
          /\ DropLast(n)[a] # <<>>
      BY <2>1, <2>3, <3>1
    <3> QED BY <3>1, <3>2, <2>1 DEF RingMatches
  <2> QED BY <2>4, <2>5
<1>7. DropLast(n) \in Rings
  <2>1. DropLast(n) = [a \in Attr |-> DropLast(n)[a]]
    BY DEF DropLast
  <2> QED BY <1>6, <2>1 DEF Rings
<1>8. KeptIsLoaded(DropLast(n), {})
  <2>1. values \in Rings /\ LoadedIffKept(values, {})
    BY Consequences, Idle
  <2> QED BY <1>6, <1>7, <2>1, ShorterIsKept
<1>9. /\ result \in Rings
      /\ LoadedIffKept(result, {})
      /\ \A a \in Attr, k \in Nat :
           RingMatches(DropLast(n)[a], k) => RingMatches(result[a], k)
  BY <1>7, <1>8, ControlUnloads
<1> HIDE DEF result
<1>10. \A a \in Attr : RingMatches(result[a], Count(SubSeq(undos, 1, n), a))
  BY <1>4, <1>6, <1>9
<1> QED BY <1>9, <1>10 DEF result

-----------------------------------------------------------------------------
(* Every action preserves the invariant. *)

\* The outermost transaction begins: an empty step is put in front of what is
\* left of the undo list, and the rings follow the list.
LEMMA BeginFinalInv ==
  ASSUME IInv, NEW t \in TransType, BeginTransaction(t), ~InTransaction
  PROVE  IInv'
<1>1. /\ BeginFinalTr(IsRead(t))
      /\ UNCHANGED <<opened, maxUndoStep, storage, failures>>
  BY DEF BeginTransaction
<1> DEFINE level == Level(IsRead(t))
<1>2. /\ level \in LevelType /\ level.items = {}
      /\ transactions' = <<level>>
      /\ transactions' \in Seq(LevelType)
  BY <1>1 DEF BeginFinalTr, Level, LevelType, LevelOf, IsRead
<1>3. /\ transactions = <<>> /\ dirty' = {} /\ locked' = {} /\ finaltr_items' = {}
  BY <1>1, Idle DEF BeginFinalTr
<1>4. PICK n \in 0..Len(undos) :
        /\ undos' = <<{}>> \o SubSeq(undos, 1, n)
        /\ redo_count' \in 0..n
        /\ ~IsRead(t) => redo_count' = 0
        /\ values' \in Rings
        /\ LoadedIffKept(values', {})
        /\ \A a \in Attr : RingMatches(values'[a], Count(SubSeq(undos, 1, n), a))
  <2>1. undos \in Seq(SUBSET Attr) /\ redo_count \in 0..Len(undos)
    BY DEF IInv, TypeOK, QueueSizesOK
  <2>2. CASE IsRead(t)
    <3>1. SubSeq(undos, 1, Len(undos)) = undos /\ Len(undos) \in 0..Len(undos)
      BY <2>1
    <3>2. undos' = <<{}>> \o undos /\ UNCHANGED <<redo_count, values>>
      BY <1>1, <2>2 DEF BeginFinalTr
    <3>3. /\ values \in Rings
          /\ LoadedIffKept(values, {})
          /\ \A a \in Attr : RingMatches(values[a], Count(undos, a))
      BY Consequences, Idle
    <3>4. /\ undos' = <<{}>> \o SubSeq(undos, 1, Len(undos))
          /\ redo_count' \in 0..Len(undos)
          /\ values' \in Rings
          /\ LoadedIffKept(values', {})
          /\ \A a \in Attr : RingMatches(values'[a], Count(SubSeq(undos, 1, Len(undos)), a))
      BY <2>1, <3>1, <3>2, <3>3
    <3> QED BY <2>2, <3>1, <3>4
  <2>3. CASE ~IsRead(t)
    <3>1. Kept \in 0..Len(undos) /\ 0 \in 0..Kept
      <4>1. maxUndoStep \in 1..99
        BY DEF IInv, TypeOK
      <4> QED BY <2>1, <4>1 DEF Kept
    <3>2. /\ undos' = <<{}>> \o SubSeq(undos, 1, Kept)
          /\ redo_count' = 0
          /\ values' = ControlLockGroup(DropLast(Kept), {})
      BY <1>1, <2>3 DEF BeginFinalTr
    <3> QED BY <2>3, <3>1, <3>2, DiscardingStepsOK
  <2> QED BY <2>2, <2>3
<1> DEFINE rest == SubSeq(undos, 1, n)
<1>5. /\ rest \in Seq(SUBSET Attr) /\ Len(rest) = n
      /\ \A i \in 1..n : rest[i] = undos[i]
      /\ \A i \in 1..n : rest[i] # {}
  <2>1. /\ undos \in Seq(SUBSET Attr)
        /\ \A i \in 1..Len(undos) : undos[i] # {}
    BY DEF IInv, TypeOK, QueueSizesOK
  <2> QED BY <2>1
<1> HIDE DEF level, rest
<1>6. /\ undos' = <<{}>> \o rest
      /\ undos' \in Seq(SUBSET Attr)
      /\ Len(undos') = n + 1
      /\ undos'[1] = {}
      /\ \A i \in 2..(n + 1) : undos'[i] # {}
  <2>1. undos' = <<{}>> \o rest
    BY <1>4 DEF rest
  <2> DEFINE longer == <<{}>> \o rest
  <2>2. /\ longer \in Seq(SUBSET Attr)
        /\ Len(longer) = Len(rest) + 1
        /\ longer[1] = {}
        /\ \A i \in 2..(Len(rest) + 1) : longer[i] = rest[i - 1]
    BY <1>5, PrependFacts
  <2>3. \A i \in 2..(n + 1) : i - 1 \in 1..n
    OBVIOUS
  <2> HIDE DEF longer
  <2>4. Len(longer) = n + 1 /\ \A i \in 2..(n + 1) : longer[i] # {}
    BY <1>5, <2>2, <2>3, Zenon
  <2>5. undos' = longer
    BY <2>1 DEF longer
  <2> QED BY <2>1, <2>2, <2>4, <2>5, Zenon
<1>7. TypeOK'
  BY <1>1, <1>2, <1>3, <1>4, <1>6 DEF IInv, TypeOK, Rings
<1>8. QueueSizesOK'
  <2>1. InTransaction' /\ Len(transactions') = 1 /\ transactions'[1] = level
    BY <1>2 DEF InTransaction
  <2>2. level.readonly = IsRead(t)
    BY DEF level, Level
  <2>3. Len(undos') - redo_count' - 1 >= 0
    <3>1. ASSUME NEW r \in 0..n, NEW length, length = n + 1 PROVE length - r - 1 >= 0
      BY <3>1
    <3>2. redo_count' \in 0..n /\ Len(undos') = n + 1
      BY <1>4, <1>6
    <3> QED BY <3>1, <3>2, Zenon
  <2>4. \A i \in 1..Len(undos') : undos'[i] = {} => i = 1
    BY <1>6
  <2>5. ~transactions'[Len(transactions')].readonly => redo_count' = 0
    BY <1>4, <2>1, <2>2
  <2> QED BY <1>6, <2>1, <2>3, <2>4, <2>5 DEF QueueSizesOK
<1>9. RingMatchesHistory'
  <2>1. ASSUME NEW a \in Attr PROVE Older(a)' = Count(rest, a)
    <3>1. Count(<<{}>> \o rest, a) = Count(rest, a) + 0
      BY <1>5, CountOfPrepend
    <3>2. Count(Items(transactions'), a) = 0
      <4>1. Count(Items(<<level>>), a) = 0
        BY <1>2, LevelCountOfOne DEF LevelType
      <4> QED BY <1>2, <4>1
    <3>3. Count(rest, a) \in Nat
      BY <1>5, CountType
    <3> QED BY <1>6, <3>1, <3>2, <3>3 DEF Older
  <2> QED BY <1>4, <2>1 DEF RingMatchesHistory, rest
<1>10. LoadedIffLocked'
  BY <1>2, <1>3, <1>4 DEF LoadedIffLocked, LoadedIffKept, InTransaction
<1>11. DirtyIffRegistered'
  BY <1>2, <1>3 DEF DirtyIffRegistered, InTransaction
<1> QED BY <1>7, <1>8, <1>9, <1>10, <1>11 DEF IInv

\* A nested level begins with nothing written.
LEMMA BeginNestedInv ==
  ASSUME IInv, NEW t \in TransType, BeginTransaction(t), InTransaction
  PROVE  IInv'
<1> DEFINE level == Level(IsRead(t))
<1>1. /\ transactions' = <<level>> \o transactions
      /\ dirty' = dirty \ transactions[1].items
      /\ UNCHANGED <<opened, maxUndoStep, storage, failures, finaltr_items, undos,
                     redo_count, values, locked>>
  BY DEF BeginTransaction, BeginNestedTr
<1>2. level \in LevelType /\ level.items = {}
  BY DEF Level, LevelType, LevelOf, IsRead
<1>3. transactions \in Seq(LevelType) /\ transactions # <<>>
  BY DEF IInv, TypeOK, InTransaction
<1> HIDE DEF level
<1>4. /\ transactions' \in Seq(LevelType)
      /\ Len(transactions') = Len(transactions) + 1
      /\ transactions'[1] = level
      /\ \A k \in 2..Len(transactions') : transactions'[k] = transactions[k - 1]
      /\ InTransaction'
  BY <1>1, <1>2, <1>3 DEF InTransaction
<1>5. TypeOK'
  BY <1>1, <1>4 DEF IInv, TypeOK
<1>6. QueueSizesOK'
  <2>1. transactions'[Len(transactions')] = transactions[Len(transactions)]
    BY <1>3, <1>4
  <2> QED BY <1>1, <1>4, <2>1 DEF IInv, QueueSizesOK
<1>7. RingMatchesHistory'
  <2>1. ASSUME NEW a \in Attr PROVE Older(a)' = Older(a)
    <3>1. Count(Items(<<level>> \o transactions), a) = Count(Items(transactions), a) + 0
      BY <1>2, <1>3, LevelCountOfPrepend DEF LevelType
    <3>2. Count(Items(transactions), a) \in Nat
      BY <1>3, LevelCount DEF LevelType
    <3> QED BY <1>1, <3>1, <3>2 DEF Older
  <2> QED BY <1>1, <2>1 DEF IInv, RingMatchesHistory
<1>8. LoadedIffLocked'
  BY <1>1, <1>4 DEF IInv, LoadedIffLocked, HoldsLock
<1>9. DirtyIffRegistered'
  <2>1. dirty' = {}
    BY <1>1 DEF IInv, DirtyIffRegistered
  <2>2. ASSUME NEW k \in 1..Len(transactions'), NEW a \in Attr, a \in transactions'[k].items
        PROVE  Owner[a] \in finaltr_items
    <3>1. k # 1
      BY <1>2, <1>4, <2>2
    <3>2. k - 1 \in 1..Len(transactions) /\ transactions'[k] = transactions[k - 1]
      BY <1>3, <1>4, <3>1
    <3> QED BY <2>2, <3>2 DEF IInv, DirtyIffRegistered
  <2> QED BY <1>1, <1>2, <1>4, <2>1, <2>2 DEF DirtyIffRegistered
<1> QED BY <1>5, <1>6, <1>7, <1>8, <1>9 DEF IInv

-----------------------------------------------------------------------------
\* A client reads an attribute that is not in memory.  None of its object's
\* attributes is, and none has a level or a step to answer for.
LEMMA GroupUnused ==
  ASSUME IInv, NEW a \in Attr, values[a] = <<>>
  PROVE  /\ Owner[a] \notin locked
         /\ \A b \in Attr : Owner[b] = Owner[a] => values[b] = <<>> /\ Older(b) = 0
<1>1. Owner[a] \notin locked /\ ~HoldsLock(values, Owner[a])
  BY Consequences DEF LoadedIffKept
<1>2. ASSUME NEW b \in Attr, Owner[b] = Owner[a] PROVE values[b] = <<>>
  BY <1>1, <1>2, Consequences DEF LoadedIffKept
<1> QED BY <1>1, <1>2, Consequences DEF RingMatches

LEMMA LoadingOK ==
  ASSUME IInv, NEW a \in Attr, values[a] = <<>>
  PROVE  LET result == LoadGroup(Owner[a])
         IN  /\ result \in Rings
             /\ LoadedIffKept(result, locked \cup {Owner[a]})
             /\ \A b \in Attr : /\ RingMatches(result[b], Older(b))
                                /\ values[b] # <<>> => result[b] # <<>>
             /\ result[a] # <<>>
             /\ ~HoldsLock(result, Owner[a])
<1> DEFINE o == Owner[a]
           result == LoadGroup(o)
<1>1. values \in Rings /\ storage \in [Attr -> Value]
  BY DEF IInv, TypeOK, Rings
<1>2. /\ \A b \in Attr : Owner[b] = o => result[b] = <<storage[b]>> /\ Len(result[b]) = 1
      /\ \A b \in Attr : Owner[b] # o => result[b] = values[b]
  BY DEF LoadGroup
<1>3. ASSUME NEW b \in Attr PROVE result[b] \in Seq(Value)
  <2>1. storage[b] \in Value /\ values[b] \in Seq(Value)
    BY <1>1 DEF Rings
  <2>2. <<storage[b]>> \in Seq(Value)
    BY <2>1
  <2> QED BY <1>2, <2>1, <2>2
<1>4. result \in Rings
  <2>1. result = [b \in Attr |-> result[b]]
    BY DEF LoadGroup
  <2> QED BY <1>3, <2>1 DEF Rings
<1> HIDE DEF result
<1>5. ~HoldsLock(result, o)
  <2>1. ~(1 >= 2)
    OBVIOUS
  <2>2. \A b \in Attr : Owner[b] = o => ~(Len(result[b]) >= 2)
    BY <1>2, <2>1, Zenon
  <2> QED BY <2>2 DEF HoldsLock
<1>6. \A p : p # o => (HoldsLock(result, p) <=> HoldsLock(values, p))
  BY <1>2 DEF HoldsLock
<1>7. \A b \in Attr : Owner[b] = o => result[b] # <<>>
  BY <1>2
<1>8. LoadedIffKept(result, locked \cup {o})
  <2>1. ASSUME NEW b \in Attr, Owner[b] # o
        PROVE  result[b] # <<>> <=> Owner[b] \in locked \cup {o} \/ HoldsLock(result, Owner[b])
    BY <1>2, <1>6, <2>1, Consequences DEF LoadedIffKept
  <2> QED BY <1>7, <2>1 DEF LoadedIffKept
<1>9. ASSUME NEW b \in Attr PROVE RingMatches(result[b], Older(b))
  <2>1. CASE Owner[b] = o
    <3>1. Older(b) = 0 /\ Len(result[b]) = 1 /\ result[b] # <<>>
      BY <1>2, <1>7, <2>1, GroupUnused
    <3> QED BY <3>1 DEF RingMatches
  <2>2. CASE Owner[b] # o
    BY <1>2, <2>2, Consequences
  <2> QED BY <2>1, <2>2
<1> QED BY <1>2, <1>4, <1>5, <1>7, <1>8, <1>9 DEF result

LEMMA GetInv ==
  ASSUME IInv, NEW a \in Attr, Get(a)
  PROVE  IInv'
<1> DEFINE o == Owner[a]
<1>1. /\ InTransaction
      /\ values[a] = <<>>
      /\ values' = LoadGroup(o)
      /\ locked' = locked \cup {o}
      /\ finaltr_items' = finaltr_items \cup {o}
      /\ UNCHANGED <<opened, transactions, undos, redo_count, maxUndoStep, dirty,
                     storage, failures>>
  BY DEF Get
<1>2. /\ values' \in Rings
      /\ LoadedIffKept(values', locked')
      /\ \A b \in Attr : RingMatches(values'[b], Older(b))
  BY <1>1, LoadingOK
<1>3. o \in Object
  BY OwnerAssumption
<1>4. TypeOK'
  BY <1>1, <1>2, <1>3 DEF IInv, TypeOK, Rings
<1>5. QueueSizesOK'
  BY <1>1 DEF IInv, QueueSizesOK, InTransaction
<1>6. RingMatchesHistory'
  <2>1. \A b \in Attr : Older(b)' = Older(b)
    BY <1>1 DEF Older
  <2> QED BY <1>2, <2>1 DEF RingMatchesHistory
<1>7. LoadedIffLocked'
  <2>1. locked' \subseteq finaltr_items'
    BY <1>1 DEF IInv, LoadedIffLocked
  <2> QED BY <1>1, <1>2, <2>1 DEF LoadedIffLocked, LoadedIffKept, InTransaction
<1>8. DirtyIffRegistered'
  BY <1>1 DEF IInv, DirtyIffRegistered, InTransaction
<1> QED BY <1>4, <1>5, <1>6, <1>7, <1>8 DEF IInv

\* The first write of a level puts a value in front, under the object's lock.
LEMMA InsertInv ==
  ASSUME IInv, NEW a \in Attr, NEW v \in Value, InTransaction, Insert(a, v),
         UNCHANGED <<opened, undos, redo_count, maxUndoStep, storage, failures>>
  PROVE  IInv'
<1> DEFINE o == Owner[a]
           loaded == IF values[a] = <<>> THEN LoadGroup(o) ELSE values
           level == [transactions[1] EXCEPT !.items = @ \cup {a}]
<1>1. /\ a \notin dirty
      /\ values' = [loaded EXCEPT ![a] = <<v>> \o @]
      /\ locked' = IF HoldsLock(loaded, o) THEN locked ELSE locked \cup {o}
      /\ finaltr_items' = finaltr_items \cup {o}
      /\ transactions' = [transactions EXCEPT ![1].items = @ \cup {a}]
      /\ dirty' = dirty \cup {a}
  BY DEF Insert
<1>2. /\ loaded \in Rings
      /\ \A b \in Attr : RingMatches(loaded[b], Older(b))
      /\ loaded[a] # <<>>
      /\ LoadedIffKept(loaded, locked \cup {o})
  <2>1. CASE values[a] = <<>>
    BY <2>1, LoadingOK
  <2>2. CASE values[a] # <<>>
    <3>1. \A b \in Attr : Owner[b] = o => values[b] # <<>>
      BY <2>2, Consequences DEF LoadedIffKept
    <3>2. LoadedIffKept(values, locked \cup {o})
      BY <3>1, Consequences DEF LoadedIffKept
    <3> QED BY <2>2, <3>2, Consequences
  <2> QED BY <2>1, <2>2
<1> HIDE DEF loaded
<1>3. transactions \in Seq(LevelType) /\ transactions # <<>> /\ transactions[1] \in LevelType
  BY DEF IInv, TypeOK, InTransaction
<1>4. /\ level \in LevelType
      /\ level.items = transactions[1].items \cup {a}
      /\ level.readonly = transactions[1].readonly
  BY <1>3 DEF LevelType, LevelOf
<1>5. /\ transactions' \in Seq(LevelType)
      /\ Len(transactions') = Len(transactions)
      /\ transactions'[1] = level
      /\ \A k \in 2..Len(transactions) : transactions'[k] = transactions[k]
      /\ Tail(transactions') = Tail(transactions)
      /\ InTransaction'
  <2>1. transactions' = [transactions EXCEPT ![1] = level]
    BY <1>1
  <2> HIDE DEF level
  <2>2. /\ transactions' \in Seq(LevelType)
        /\ Len(transactions') = Len(transactions)
        /\ transactions'[1] = level
        /\ \A k \in 2..Len(transactions) : transactions'[k] = transactions[k]
    BY <1>3, <1>4, <2>1
  <2>3. Len(transactions) \in Nat \ {0}
    BY <1>3
  <2>4. /\ Tail(transactions') \in Seq(LevelType) /\ Tail(transactions) \in Seq(LevelType)
        /\ Len(Tail(transactions')) = Len(Tail(transactions))
        /\ \A k \in 1..Len(Tail(transactions')) : Tail(transactions')[k] = Tail(transactions)[k]
    BY <1>3, <2>2, <2>3
  <2>5. Tail(transactions') = Tail(transactions)
    BY <2>4, SeqEqual
  <2>6. InTransaction'
    BY <2>2, <2>3 DEF InTransaction
  <2> QED BY <2>2, <2>5, <2>6
<1> HIDE DEF level
<1>6. /\ values' \in Rings
      /\ \A b \in Attr : b # a => values'[b] = loaded[b]
      /\ values'[a] = <<v>> \o loaded[a]
      /\ Len(values'[a]) = Len(loaded[a]) + 1
      /\ Len(loaded[a]) >= 1
  BY <1>1, <1>2 DEF Rings
<1>7. TypeOK'
  BY <1>1, <1>5, <1>6, OwnerAssumption DEF IInv, TypeOK, Rings
<1>8. QueueSizesOK'
  <2>1. transactions'[Len(transactions')].readonly = transactions[Len(transactions)].readonly
    BY <1>3, <1>4, <1>5
  <2> QED BY <1>5, <2>1 DEF IInv, QueueSizesOK, InTransaction
<1>9. RingMatchesHistory'
  <2>1. ASSUME NEW b \in Attr
        PROVE  Older(b)' = Older(b) + (IF b = a THEN 1 ELSE 0) /\ Older(b) \in Nat
    <3>1. transactions' # <<>> /\ Count(undos, b) \in Nat
      BY <1>3, <1>5, Consequences
    <3>2. /\ Count(Items(transactions'), b) =
               Count(Items(Tail(transactions)), b) + (IF b \in level.items THEN 1 ELSE 0)
          /\ Count(Items(transactions), b) =
               Count(Items(Tail(transactions)), b) + (IF b \in transactions[1].items THEN 1 ELSE 0)
      BY <1>3, <1>5, <3>1, LevelCount DEF LevelType
    <3>3. Count(Items(Tail(transactions)), b) \in Nat
      <4>1. Tail(transactions) \in Seq(LevelType)
        BY <1>3
      <4> QED BY <4>1, LevelCount DEF LevelType
    <3>4. a \notin transactions[1].items
      BY <1>1 DEF IInv, DirtyIffRegistered
    <3>5. Count(Items(transactions'), b) =
            Count(Items(transactions), b) + (IF b = a THEN 1 ELSE 0)
      BY <1>4, <3>2, <3>3, <3>4
    <3> QED BY <3>1, <3>2, <3>3, <3>5, Consequences DEF Older
  <2>2. ASSUME NEW b \in Attr PROVE RingMatches(values'[b], Older(b)')
    <3>1. CASE b = a
      BY <1>2, <1>6, <2>1, <3>1 DEF RingMatches
    <3>2. CASE b # a
      BY <1>2, <1>6, <2>1, <3>2
    <3> QED BY <3>1, <3>2
  <2> QED BY <2>2 DEF RingMatchesHistory
<1>10. LoadedIffLocked'
  <2>1. HoldsLock(values', o)
    BY <1>2, <1>6 DEF HoldsLock, Rings
  <2>2. \A p : p # o => (HoldsLock(values', p) <=> HoldsLock(loaded, p))
    BY <1>6 DEF HoldsLock
  <2>3. \A b \in Attr : values'[b] # <<>> <=> loaded[b] # <<>>
    BY <1>2, <1>6
  <2>4. \A b \in Attr : Owner[b] # o =>
          (Owner[b] \in locked' <=> Owner[b] \in locked \cup {o})
    BY <1>1
  <2>5. LoadedIffKept(values', locked')
    BY <1>2, <2>1, <2>2, <2>3, <2>4 DEF LoadedIffKept
  <2>6. locked' \subseteq finaltr_items'
    BY <1>1 DEF IInv, LoadedIffLocked
  <2> QED BY <1>5, <2>5, <2>6 DEF LoadedIffLocked, LoadedIffKept
<1>11. DirtyIffRegistered'
  <2>1. dirty' = level.items
    BY <1>1, <1>4, <1>5 DEF IInv, DirtyIffRegistered, InTransaction
  <2>2. ASSUME NEW k \in 1..Len(transactions'), NEW b \in Attr, b \in transactions'[k].items
        PROVE  Owner[b] \in finaltr_items'
    <3>1. b = a \/ b \in transactions[k].items
      BY <1>4, <1>5, <2>2
    <3> QED BY <1>1, <1>5, <2>2, <3>1 DEF IInv, DirtyIffRegistered
  <2> QED BY <1>5, <2>1, <2>2 DEF DirtyIffRegistered
<1> QED BY <1>7, <1>8, <1>9, <1>10, <1>11 DEF IInv

-----------------------------------------------------------------------------
\* Steps that change neither the levels, the list nor the length of a ring
LEMMA SameShapeInv ==
  ASSUME IInv,
         opened' \in BOOLEAN, maxUndoStep' \in 1..99, failures' \in Nat,
         storage' \in [Attr -> Value],
         values' \in Rings, \A a \in Attr : Len(values'[a]) = Len(values[a]),
         UNCHANGED <<transactions, finaltr_items, undos, redo_count, dirty, locked>>
  PROVE  IInv'
<1>1. TypeOK'
  BY DEF IInv, TypeOK, Rings
<1>2. QueueSizesOK'
  BY DEF IInv, QueueSizesOK, InTransaction
<1>3. RingMatchesHistory'
  <2>1. ASSUME NEW a \in Attr
        PROVE  RingMatches(values'[a], Older(a)) /\ Older(a)' = Older(a)
    <3>1. values'[a] = <<>> <=> values[a] = <<>>
      BY DEF Rings, IInv, TypeOK
    <3>2. Older(a)' = Older(a)
      BY DEF Older
    <3> QED BY <3>1, <3>2, Consequences DEF RingMatches
  <2> QED BY <2>1 DEF RingMatchesHistory
<1>4. LoadedIffLocked'
  <2>1. LoadedIffKept(values', locked)
    BY SameLengthsSameLocks, Consequences
  <2> QED BY <2>1 DEF IInv, LoadedIffLocked, LoadedIffKept, InTransaction
<1>5. DirtyIffRegistered'
  BY DEF IInv, DirtyIffRegistered, InTransaction
<1> QED BY <1>1, <1>2, <1>3, <1>4, <1>5 DEF IInv

\* What is dirty has been written by the innermost level.
LEMMA DirtyHasOlder ==
  ASSUME IInv, NEW a \in dirty
  PROVE  /\ a \in Attr
         /\ transactions # <<>>
         /\ transactions \in Seq(LevelType)
         /\ a \in transactions[1].items
         /\ Len(values[a]) >= 2
         /\ values[a] \in Seq(Value)
<1>1. /\ a \in Attr /\ transactions # <<>> /\ transactions \in Seq(LevelType)
      /\ values[a] \in Seq(Value)
      /\ a \in transactions[1].items
  BY DEF IInv, TypeOK, DirtyIffRegistered, InTransaction
<1>2. Count(Items(transactions), a) = Count(Items(Tail(transactions)), a) + 1
  BY <1>1, LevelCount DEF LevelType
<1>3. Count(Items(Tail(transactions)), a) \in Nat
  <2>1. Tail(transactions) \in Seq(LevelType)
    BY <1>1
  <2> QED BY <2>1, LevelCount DEF LevelType
<1>4. Older(a) >= 1 /\ Older(a) \in Nat
  BY <1>1, <1>2, <1>3, Consequences
<1> QED BY <1>1, <1>4, Consequences DEF RingMatches

LEMMA OverwriteInv ==
  ASSUME IInv, NEW a \in Attr, NEW v \in Value, Overwrite(a, v),
         UNCHANGED <<opened, undos, redo_count, maxUndoStep, storage, failures>>
  PROVE  IInv'
<1>1. /\ a \in dirty
      /\ values' = [values EXCEPT ![a] = <<v>> \o Tail(@)]
      /\ UNCHANGED <<locked, finaltr_items, transactions, dirty>>
  BY DEF Overwrite
<1>2. values[a] \in Seq(Value) /\ Len(values[a]) >= 2
  BY <1>1, DirtyHasOlder
<1>3. <<v>> \o Tail(values[a]) \in Seq(Value) /\ Len(<<v>> \o Tail(values[a])) = Len(values[a])
  BY <1>2
<1>4. values \in Rings
  BY Consequences
<1>5. values' \in Rings /\ \A b \in Attr : Len(values'[b]) = Len(values[b])
  BY <1>1, <1>3, <1>4 DEF Rings
<1> QED BY <1>1, <1>5, SameShapeInv DEF IInv, TypeOK

LEMMA PutInv ==
  ASSUME IInv, NEW a \in Attr, NEW v \in Value, Put(a, v)
  PROVE  IInv'
BY InsertInv, OverwriteInv DEF Put, InWriteTransaction

-----------------------------------------------------------------------------
\* The final transaction reaches every attribute it has written.
LEMMA CommittedIsDirty ==
  ASSUME IInv
  PROVE  /\ Committed = dirty
         /\ locked \ finaltr_items = {}
         /\ dirty \ Committed = {}
<1>1. \A a \in dirty : Owner[a] \in finaltr_items
  <2>1. ASSUME NEW a \in dirty PROVE Owner[a] \in finaltr_items
    <3>1. 1 \in 1..Len(transactions) /\ a \in Attr /\ a \in transactions[1].items
      BY DirtyHasOlder
    <3> QED BY <3>1 DEF IInv, DirtyIffRegistered
  <2> QED BY <2>1
<1>2. locked \subseteq finaltr_items
  BY DEF IInv, LoadedIffLocked
<1> QED BY <1>1, <1>2 DEF Committed

\* The storage gets values that exist.
LEMMA StoredCurrentOK ==
  ASSUME IInv, NEW written \in SUBSET dirty
  PROVE  [a \in Attr |-> IF a \in written THEN values[a][1] ELSE storage[a]] \in [Attr -> Value]
<1>1. ASSUME NEW a \in written PROVE values[a][1] \in Value
  <2>1. values[a] \in Seq(Value) /\ Len(values[a]) >= 2
    BY DirtyHasOlder
  <2> QED BY <2>1
<1> QED BY <1>1 DEF IInv, TypeOK

LEMMA CommitFailsInv ==
  ASSUME IInv, NEW t \in TransType, CommitFails(t)
  PROVE  IInv'
<1>1. PICK written \in SUBSET Committed :
        storage' = [a \in Attr |-> IF a \in written THEN values[a][1] ELSE storage[a]]
  BY DEF CommitFails
<1>2. storage' \in [Attr -> Value]
  BY <1>1, CommittedIsDirty, StoredCurrentOK
<1>3. /\ failures' \in Nat
      /\ UNCHANGED <<opened, transactions, finaltr_items, undos, redo_count, maxUndoStep,
                     values, dirty, locked>>
  BY DEF CommitFails, IInv, TypeOK
<1> QED BY <1>2, <1>3, SameShapeInv, Consequences DEF IInv, TypeOK

\* What the last open level and its step in the list are when it ends
LEMMA LastLevel ==
  ASSUME IInv, Len(transactions) = 1
  PROVE  /\ undos # <<>>
         /\ undos[1] = {}
         /\ Tail(undos) \in Seq(SUBSET Attr)
         /\ \A i \in 1..Len(Tail(undos)) : Tail(undos)[i] # {}
         /\ redo_count <= Len(Tail(undos))
         /\ \A a \in Attr : Older(a) = Count(Tail(undos), a) + (IF a \in dirty THEN 1 ELSE 0)
<1>1. InTransaction /\ transactions \in Seq(LevelType) /\ undos \in Seq(SUBSET Attr)
  <2>1. transactions \in Seq(LevelType) /\ undos \in Seq(SUBSET Attr)
    BY DEF IInv, TypeOK
  <2>2. Len(<<>>) = 0
    OBVIOUS
  <2>3. transactions # <<>>
    BY <2>2
  <2> QED BY <2>1, <2>3 DEF InTransaction
<1>2. Len(undos) - redo_count - 1 >= 0 /\ undos[1] = {} /\ redo_count \in Nat
  BY <1>1 DEF IInv, TypeOK, QueueSizesOK
<1>3. undos # <<>> /\ redo_count <= Len(undos) - 1
  BY <1>1, <1>2
<1>4. /\ Tail(undos) \in Seq(SUBSET Attr) /\ Len(Tail(undos)) = Len(undos) - 1
      /\ \A i \in 1..Len(Tail(undos)) : Tail(undos)[i] = undos[i + 1]
                                        /\ i + 1 \in 1..Len(undos) /\ i + 1 # 1
  BY <1>1, <1>3
<1>5. \A i \in 1..Len(Tail(undos)) : Tail(undos)[i] # {}
  BY <1>4 DEF IInv, QueueSizesOK
<1>6. ASSUME NEW a \in Attr
      PROVE  Older(a) = Count(Tail(undos), a) + (IF a \in dirty THEN 1 ELSE 0)
  <2>1. Count(undos, a) = Count(Tail(undos), a) + 0
    BY <1>1, <1>2, <1>3, CountOfTail
  <2>2. Count(Tail(undos), a) \in Nat
    BY <1>4, CountType
  <2>3. transactions = <<transactions[1]>> /\ transactions[1] \in LevelType
    BY <1>1
  <2>4. Count(Items(<<transactions[1]>>), a) = IF a \in transactions[1].items THEN 1 ELSE 0
    BY <2>3, LevelCountOfOne DEF LevelType
  <2>5. dirty = transactions[1].items
    BY <1>1 DEF IInv, DirtyIffRegistered
  <2>6. Count(Items(transactions), a) = IF a \in dirty THEN 1 ELSE 0
    BY <2>3, <2>4, <2>5
  <2> QED BY <2>1, <2>2, <2>6 DEF Older
<1> QED BY <1>2, <1>3, <1>4, <1>5, <1>6

\* After the outermost transaction the rings are kept by the list alone.
LEMMA IdleAgainInv ==
  ASSUME IInv, Len(transactions) = 1, NEW vals \in Rings,
         transactions' = <<>>, dirty' = {}, locked' = {}, finaltr_items' = {},
         undos' \in Seq(SUBSET Attr), redo_count' \in Nat, redo_count' <= Len(undos'),
         \A i \in 1..Len(undos') : undos'[i] # {},
         \A a \in Attr : RingMatches(vals[a], Count(undos', a)),
         KeptIsLoaded(vals, {}),
         values' = ControlLockGroup(vals, {}),
         storage' \in [Attr -> Value],
         UNCHANGED <<opened, maxUndoStep, failures>>
  PROVE  IInv'
<1>1. /\ values' \in Rings
      /\ LoadedIffKept(values', {})
      /\ \A a \in Attr, n \in Nat : RingMatches(vals[a], n) => RingMatches(values'[a], n)
  BY ControlUnloads
<1>2. TypeOK'
  <2>1. transactions' \in Seq(LevelType)
    OBVIOUS
  <2> QED BY <1>1, <2>1 DEF IInv, TypeOK, Rings
<1>3. QueueSizesOK'
  <2>1. Len(undos') - redo_count' - 0 >= 0
    <3>1. Len(undos') \in Nat
      OBVIOUS
    <3> QED BY <3>1
  <2> QED BY <2>1 DEF QueueSizesOK, InTransaction
<1>4. RingMatchesHistory'
  <2>1. ASSUME NEW a \in Attr PROVE Older(a)' = Count(undos', a) /\ Older(a)' \in Nat
    <3>1. Count(undos', a) \in Nat
      BY CountType
    <3>2. Count(Items(transactions'), a) = 0
      <4>1. <<>> \in Seq(LevelType)
        OBVIOUS
      <4>2. Count(Items(<<>>), a) = 0
        BY <4>1, LevelCount DEF LevelType
      <4> QED BY <4>2
    <3> QED BY <3>1, <3>2 DEF Older
  <2> QED BY <1>1, <2>1 DEF RingMatchesHistory
<1>5. LoadedIffLocked'
  BY <1>1 DEF LoadedIffLocked, LoadedIffKept, InTransaction
<1>6. DirtyIffRegistered'
  BY DEF DirtyIffRegistered, InTransaction
<1> QED BY <1>2, <1>3, <1>4, <1>5, <1>6 DEF IInv

LEMMA CommitFinalInv ==
  ASSUME IInv, NEW t \in TransType, MayCommit(t), CommitFinalTr,
         UNCHANGED <<opened, maxUndoStep, failures>>
  PROVE  IInv'
<1>1. /\ Len(transactions) = 1
      /\ storage' = [a \in Attr |-> IF a \in dirty THEN values[a][1] ELSE storage[a]]
      /\ undos' = PushStep(dirty, Tail(undos))
      /\ dirty' = {}
      /\ locked' = {}
      /\ values' = ControlLockGroup(values, {})
      /\ finaltr_items' = {}
      /\ transactions' = <<>>
      /\ UNCHANGED redo_count
  BY CommittedIsDirty DEF CommitFinalTr
<1>2. /\ Tail(undos) \in Seq(SUBSET Attr)
      /\ \A i \in 1..Len(Tail(undos)) : Tail(undos)[i] # {}
      /\ redo_count <= Len(Tail(undos)) /\ redo_count \in Nat
      /\ \A a \in Attr : Older(a) = Count(Tail(undos), a) + (IF a \in dirty THEN 1 ELSE 0)
      /\ dirty \in SUBSET Attr
  BY <1>1, LastLevel DEF IInv, TypeOK
<1>3. storage' \in [Attr -> Value]
  <2>1. dirty \in SUBSET dirty
    OBVIOUS
  <2> QED BY <1>1, <2>1, StoredCurrentOK
<1>4. /\ undos' \in Seq(SUBSET Attr)
      /\ redo_count' <= Len(undos') /\ redo_count' \in Nat
      /\ \A i \in 1..Len(undos') : undos'[i] # {}
      /\ \A a \in Attr : Count(undos', a) = Older(a)
  <2>1. CASE dirty = {}
    <3>1. undos' = Tail(undos)
      BY <1>1, <2>1 DEF PushStep
    <3>2. ASSUME NEW a \in Attr PROVE Count(Tail(undos), a) = Older(a)
      <4>1. Count(Tail(undos), a) \in Nat
        BY <1>2, CountType
      <4> QED BY <1>2, <2>1, <4>1
    <3> QED BY <1>1, <1>2, <3>1, <3>2
  <2>2. CASE dirty # {}
    <3>1. undos' = <<dirty>> \o Tail(undos)
      BY <1>1, <2>2 DEF PushStep
    <3>2. /\ undos' \in Seq(SUBSET Attr)
          /\ Len(undos') = Len(Tail(undos)) + 1
          /\ undos'[1] = dirty
          /\ \A i \in 2..Len(undos') : undos'[i] = Tail(undos)[i - 1] /\ i - 1 \in 1..Len(Tail(undos))
      BY <1>2, <3>1
    <3>3. ASSUME NEW i \in 1..Len(undos') PROVE undos'[i] # {}
      <4>1. CASE i = 1
        BY <2>2, <3>2, <4>1
      <4>2. CASE i # 1
        <5>1. i \in 2..Len(undos')
          BY <4>2
        <5> QED BY <1>2, <3>2, <5>1
      <4> QED BY <4>1, <4>2
    <3>4. ASSUME NEW a \in Attr PROVE Count(undos', a) = Older(a)
      <4>1. Count(<<dirty>> \o Tail(undos), a) =
              Count(Tail(undos), a) + (IF a \in dirty THEN 1 ELSE 0)
        <5> DEFINE rest == Tail(undos)
        <5>1. rest \in Seq(SUBSET Attr) /\ dirty \in SUBSET Attr
          BY <1>2
        <5> HIDE DEF rest
        <5>2. Count(<<dirty>> \o rest, a) = Count(rest, a) + (IF a \in dirty THEN 1 ELSE 0)
          BY <5>1, CountOfPrepend
        <5> QED BY <5>2 DEF rest
      <4> QED BY <1>2, <3>1, <4>1
    <3>5. redo_count' \in Nat /\ redo_count' <= Len(undos')
      <4>1. redo_count' = redo_count
        BY <1>1
      <4>2. Len(Tail(undos)) \in Nat
        BY <1>2
      <4> QED BY <1>2, <3>2, <4>1, <4>2
    <3> QED BY <3>2, <3>3, <3>4, <3>5
  <2> QED BY <2>1, <2>2
<1>5. \A a \in Attr : RingMatches(values[a], Count(undos', a))
  BY <1>4, Consequences
<1>6. values \in Rings /\ KeptIsLoaded(values, {})
  BY Consequences DEF KeptIsLoaded, LoadedIffKept
<1> QED BY <1>1, <1>3, <1>4, <1>5, <1>6, IdleAgainInv

\* Taking the first value off rings that have two
LEMMA DroppingOK ==
  ASSUME IInv, NEW attrs, attrs = dirty
  PROVE  LET vals == DropFirst(attrs)
         IN  /\ vals \in Rings
             /\ KeptIsLoaded(vals, locked)
             /\ \A a \in Attr, n \in Nat :
                  Older(a) = n + (IF a \in dirty THEN 1 ELSE 0) => RingMatches(vals[a], n)
<1> DEFINE vals == DropFirst(attrs)
<1>1. ASSUME NEW a \in Attr
      PROVE  /\ vals[a] \in Seq(Value)
             /\ Len(vals[a]) = Len(values[a]) - (IF a \in dirty THEN 1 ELSE 0)
             /\ Len(vals[a]) <= Len(values[a])
             /\ values[a] # <<>> => vals[a] # <<>>
             /\ values[a] = <<>> => vals[a] = <<>>
  <2>1. values[a] \in Seq(Value)
    BY DEF IInv, TypeOK
  <2>2. CASE a \in dirty
    <3>1. Len(values[a]) >= 2 /\ vals[a] = Tail(values[a])
      BY <2>2, DirtyHasOlder DEF DropFirst
    <3> HIDE DEF vals
    <3>2. values[a] # <<>>
      <4>1. Len(<<>>) = 0 /\ ~(0 >= 2)
        OBVIOUS
      <4> QED BY <3>1, <4>1
    <3>3. /\ Tail(values[a]) \in Seq(Value)
          /\ Len(Tail(values[a])) = Len(values[a]) - 1
          /\ Len(values[a]) \in Nat
      BY <2>1, <3>2
    <3>4. Tail(values[a]) # <<>>
      <4>1. Len(<<>>) = 0 /\ \A m \in Nat : m >= 2 => m - 1 # 0
        OBVIOUS
      <4>2. Len(values[a]) - 1 # 0
        BY <3>1, <3>3, <4>1, Zenon
      <4> QED BY <3>3, <4>1, <4>2
    <3> QED BY <2>2, <3>1, <3>2, <3>3, <3>4
  <2>3. CASE a \notin dirty
    BY <2>1, <2>3 DEF DropFirst
  <2> QED BY <2>2, <2>3
<1>2. vals \in Rings
  <2>1. vals = [a \in Attr |-> vals[a]]
    BY DEF DropFirst
  <2> QED BY <1>1, <2>1 DEF Rings
<1> HIDE DEF vals
<1>3. KeptIsLoaded(vals, locked)
  BY <1>1, <1>2, Consequences, ShorterIsKept
<1>4. ASSUME NEW a \in Attr, NEW n \in Nat, Older(a) = n + (IF a \in dirty THEN 1 ELSE 0)
      PROVE  RingMatches(vals[a], n)
  <2>1. RingMatches(values[a], Older(a)) /\ Len(values[a]) \in Nat
    BY Consequences
  <2>2. CASE values[a] = <<>>
    <3>1. Older(a) = 0 /\ vals[a] = <<>>
      BY <1>1, <2>1, <2>2 DEF RingMatches
    <3>2. n = 0
      BY <1>4, <3>1
    <3> QED BY <3>1, <3>2 DEF RingMatches
  <2>3. CASE values[a] # <<>>
    <3>1. Len(values[a]) = 1 + Older(a) /\ vals[a] # <<>>
      BY <1>1, <2>1, <2>3 DEF RingMatches
    <3>2. Len(vals[a]) = 1 + n
      <4>1. CASE a \in dirty
        <5>1. Len(vals[a]) = Len(values[a]) - 1 /\ Older(a) = n + 1
          BY <1>1, <1>4, <4>1
        <5> QED BY <3>1, <5>1
      <4>2. CASE a \notin dirty
        <5>1. Len(vals[a]) = Len(values[a]) - 0 /\ Older(a) = n + 0
          BY <1>1, <1>4, <4>2
        <5> QED BY <2>1, <3>1, <5>1
      <4> QED BY <4>1, <4>2
    <3> QED BY <3>1, <3>2 DEF RingMatches
  <2> QED BY <2>2, <2>3
<1> QED BY <1>2, <1>3, <1>4 DEF vals

LEMMA AbortFinalInv ==
  ASSUME IInv, AbortFinalTr,
         UNCHANGED <<opened, redo_count, maxUndoStep, storage, failures>>
  PROVE  IInv'
<1> DEFINE vals == DropFirst(dirty)
<1>1. /\ Len(transactions) = 1
      /\ undos' = Tail(undos)
      /\ dirty' = {}
      /\ locked' = {}
      /\ values' = ControlLockGroup(vals, {})
      /\ finaltr_items' = {}
      /\ transactions' = <<>>
  BY CommittedIsDirty DEF AbortFinalTr
<1>2. /\ Tail(undos) \in Seq(SUBSET Attr)
      /\ \A i \in 1..Len(Tail(undos)) : Tail(undos)[i] # {}
      /\ redo_count <= Len(Tail(undos)) /\ redo_count \in Nat
      /\ \A a \in Attr : Older(a) = Count(Tail(undos), a) + (IF a \in dirty THEN 1 ELSE 0)
  BY <1>1, LastLevel DEF IInv, TypeOK
<1>3. /\ vals \in Rings
      /\ KeptIsLoaded(vals, locked)
      /\ \A a \in Attr, n \in Nat :
           Older(a) = n + (IF a \in dirty THEN 1 ELSE 0) => RingMatches(vals[a], n)
  BY DroppingOK
<1> HIDE DEF vals
<1>4. KeptIsLoaded(vals, {})
  BY <1>3 DEF KeptIsLoaded
<1>5. \A a \in Attr : Count(Tail(undos), a) \in Nat
  BY <1>2, CountType
<1>6. \A a \in Attr : RingMatches(vals[a], Count(undos', a))
  BY <1>1, <1>2, <1>3, <1>5
<1>7. storage' \in [Attr -> Value]
  BY DEF IInv, TypeOK
<1>8. /\ undos' \in Seq(SUBSET Attr)
      /\ redo_count' <= Len(undos') /\ redo_count' \in Nat
      /\ \A i \in 1..Len(undos') : undos'[i] # {}
  BY <1>1, <1>2
<1> QED BY <1>1, <1>3, <1>4, <1>6, <1>7, <1>8, IdleAgainInv

-----------------------------------------------------------------------------
\* A nested level that ends: the one below is the innermost again.
LEMMA TwoLevels ==
  ASSUME IInv, Len(transactions) >= 2
  PROVE  /\ transactions \in Seq(LevelType)
         /\ transactions # <<>>
         /\ InTransaction
         /\ transactions[1] \in LevelType
         /\ transactions[2] \in LevelType
         /\ dirty = transactions[1].items
         /\ Tail(transactions) \in Seq(LevelType)
         /\ Tail(transactions) # <<>>
         /\ Tail(transactions)[1] = transactions[2]
         /\ Len(Tail(transactions)) = Len(transactions) - 1
         /\ \A k \in 1..Len(Tail(transactions)) : Tail(transactions)[k] = transactions[k + 1]
         /\ \A a \in Attr :
              /\ Older(a) = Count(Items(Tail(transactions)), a) + Count(undos, a)
                            + (IF a \in dirty THEN 1 ELSE 0)
              /\ Count(Items(Tail(transactions)), a) \in Nat
<1>1. transactions \in Seq(LevelType) /\ transactions # <<>>
  <2>1. Len(<<>>) = 0 /\ ~(0 >= 2)
    OBVIOUS
  <2>2. transactions # <<>>
    BY <2>1
  <2> QED BY <2>2 DEF IInv, TypeOK
<1>2. /\ transactions[1] \in LevelType
      /\ transactions[2] \in LevelType
      /\ Tail(transactions) \in Seq(LevelType)
      /\ Tail(transactions)[1] = transactions[2]
      /\ Len(Tail(transactions)) = Len(transactions) - 1
      /\ \A k \in 1..Len(Tail(transactions)) : Tail(transactions)[k] = transactions[k + 1]
  BY <1>1
<1>3. Tail(transactions) # <<>>
  <2>1. Len(transactions) \in Nat /\ Len(<<>>) = 0 /\ \A m \in Nat : m >= 2 => m - 1 # 0
    BY <1>1
  <2>2. Len(transactions) - 1 # 0
    BY <2>1, Zenon
  <2> QED BY <1>2, <2>1, <2>2
<1>4. InTransaction /\ dirty = transactions[1].items
  BY <1>1 DEF InTransaction, IInv, DirtyIffRegistered
<1>5. ASSUME NEW a \in Attr
      PROVE  /\ Older(a) = Count(Items(Tail(transactions)), a) + Count(undos, a)
                           + (IF a \in dirty THEN 1 ELSE 0)
             /\ Count(Items(Tail(transactions)), a) \in Nat
  <2>1. Count(Items(transactions), a) = Count(Items(Tail(transactions)), a)
                                        + (IF a \in transactions[1].items THEN 1 ELSE 0)
    BY <1>1, LevelCount DEF LevelType
  <2>2. Count(Items(Tail(transactions)), a) \in Nat
    BY <1>2, LevelCount DEF LevelType
  <2>3. /\ Older(a) = Count(Items(transactions), a) + Count(undos, a)
        /\ Count(undos, a) \in Nat
    BY Consequences
  <2>4. CASE a \in dirty
    BY <1>4, <2>1, <2>2, <2>3, <2>4
  <2>5. CASE a \notin dirty
    BY <1>4, <2>1, <2>2, <2>3, <2>5
  <2> QED BY <2>2, <2>4, <2>5
<1> QED BY <1>1, <1>2, <1>3, <1>4, <1>5

LEMMA AbortNestedInv ==
  ASSUME IInv, AbortNestedTr,
         UNCHANGED <<opened, redo_count, maxUndoStep, storage, failures>>
  PROVE  IInv'
<1> DEFINE vals == DropFirst(dirty)
<1>1. Len(transactions) >= 2
  BY DEF AbortNestedTr
<1>2. /\ values' = ControlLockGroup(vals, locked)
      /\ dirty' = transactions[2].items
      /\ transactions' = Tail(transactions)
      /\ UNCHANGED <<finaltr_items, undos, locked>>
  BY <1>1, TwoLevels DEF AbortNestedTr, DirtyAfterAbort
<1>3. /\ vals \in Rings
      /\ KeptIsLoaded(vals, locked)
      /\ \A a \in Attr, n \in Nat :
           Older(a) = n + (IF a \in dirty THEN 1 ELSE 0) => RingMatches(vals[a], n)
  BY DroppingOK
<1> HIDE DEF vals
<1>4. /\ values' \in Rings
      /\ LoadedIffKept(values', locked)
      /\ \A a \in Attr, n \in Nat : RingMatches(vals[a], n) => RingMatches(values'[a], n)
  BY <1>2, <1>3, ControlUnloads
<1>5. /\ transactions' \in Seq(LevelType) /\ InTransaction'
      /\ transactions'[1] = transactions[2]
      /\ dirty' \in SUBSET Attr
      /\ Len(transactions') = Len(transactions) - 1
      /\ \A k \in 1..Len(transactions') : transactions'[k] = transactions[k + 1]
  BY <1>1, <1>2, TwoLevels DEF InTransaction, LevelType, LevelOf
<1>6. Len(transactions) \in Nat
  BY <1>1, TwoLevels
<1>7. TypeOK'
  BY <1>2, <1>4, <1>5 DEF IInv, TypeOK, Rings
<1>8. QueueSizesOK'
  <2>1. transactions'[Len(transactions')] = transactions[Len(transactions)]
    BY <1>1, <1>5, <1>6
  <2>2. InTransaction
    BY <1>1, TwoLevels
  <2> QED BY <1>2, <1>5, <2>1, <2>2 DEF IInv, QueueSizesOK
<1>9. RingMatchesHistory'
  <2>1. ASSUME NEW a \in Attr PROVE RingMatches(values'[a], Older(a)')
    <3>1. Older(a)' = Count(Items(Tail(transactions)), a) + Count(undos, a)
      BY <1>2 DEF Older
    <3>2. /\ Older(a) = Count(Items(Tail(transactions)), a) + Count(undos, a)
                        + (IF a \in dirty THEN 1 ELSE 0)
          /\ Count(Items(Tail(transactions)), a) \in Nat /\ Count(undos, a) \in Nat
      BY <1>1, TwoLevels, Consequences
    <3>3. Older(a)' \in Nat /\ Older(a) = Older(a)' + (IF a \in dirty THEN 1 ELSE 0)
      BY <3>1, <3>2
    <3> QED BY <1>3, <1>4, <3>3
  <2> QED BY <2>1 DEF RingMatchesHistory
<1>10. LoadedIffLocked'
  BY <1>2, <1>4, <1>5 DEF IInv, LoadedIffLocked, LoadedIffKept
<1>11. DirtyIffRegistered'
  <2>1. ASSUME NEW k \in 1..Len(transactions'), NEW a \in Attr, a \in transactions'[k].items
        PROVE  Owner[a] \in finaltr_items'
    <3>1. k + 1 \in 1..Len(transactions) /\ a \in transactions[k + 1].items
      BY <1>5, <1>6, <2>1
    <3> QED BY <1>2, <3>1 DEF IInv, DirtyIffRegistered
  <2> QED BY <1>2, <1>5, <2>1 DEF DirtyIffRegistered
<1> QED BY <1>7, <1>8, <1>9, <1>10, <1>11 DEF IInv

\* The level that two levels are merged into, and the levels below it
Merged == [items |-> transactions[1].items \cup (transactions[2].items \ dirty),
           readonly |-> transactions[2].readonly]

Below == Tail(Tail(transactions))

LEMMA MergedLevels ==
  ASSUME IInv, CommitNestedTr
  PROVE  /\ Len(transactions) >= 2
         /\ transactions \in Seq(LevelType) /\ Len(transactions) \in Nat
         /\ transactions[1] \in LevelType /\ transactions[2] \in LevelType
         /\ dirty = transactions[1].items /\ InTransaction
         /\ Merged \in LevelType /\ Merged.readonly = transactions[2].readonly
         /\ Merged.items = transactions[1].items \cup transactions[2].items
         /\ Below \in Seq(LevelType) /\ Len(Below) = Len(transactions) - 2
         /\ \A k \in 1..Len(Below) : Below[k] = transactions[k + 2]
         /\ transactions' = <<Merged>> \o Below
         /\ transactions' \in Seq(LevelType) /\ InTransaction'
         /\ Len(transactions') = Len(transactions) - 1
         /\ transactions'[1] = Merged
         /\ \A k \in 2..Len(transactions') : transactions'[k] = transactions[k + 1]
<1> DEFINE current == transactions[1]
           previous == transactions[2]
           below == Below
           merged == Merged
<1>1. /\ Len(transactions) >= 2
      /\ transactions' = <<merged>> \o SubSeq(transactions, 3, Len(transactions))
  BY DEF CommitNestedTr, Merged
<1>2. /\ transactions \in Seq(LevelType) /\ Len(transactions) \in Nat
      /\ current \in LevelType /\ previous \in LevelType
      /\ dirty = current.items
      /\ InTransaction
  BY <1>1, TwoLevels
<1>3. merged \in LevelType /\ merged.items = current.items \cup previous.items
      /\ merged.readonly = previous.readonly
  BY <1>2 DEF LevelType, LevelOf, Merged
<1>4. SubSeq(transactions, 3, Len(transactions)) = below /\ below \in Seq(LevelType)
  <2>1. /\ Tail(transactions) \in Seq(LevelType) /\ Tail(transactions) # <<>>
        /\ Len(Tail(transactions)) = Len(transactions) - 1
        /\ \A k \in 1..Len(Tail(transactions)) : Tail(transactions)[k] = transactions[k + 1]
    BY <1>1, TwoLevels
  <2>2. /\ below \in Seq(LevelType)
        /\ Len(below) = Len(transactions) - 2
        /\ \A k \in 1..Len(below) : below[k] = transactions[k + 2]
    <3> DEFINE tail == Tail(transactions)
    <3>1. /\ tail \in Seq(LevelType) /\ tail # <<>>
          /\ Len(tail) = Len(transactions) - 1
          /\ \A k \in 1..Len(tail) : tail[k] = transactions[k + 1]
      BY <2>1
    <3>2. below = Tail(tail)
      BY DEF Below
    <3> HIDE DEF tail, below
    <3>3. /\ Tail(tail) \in Seq(LevelType)
          /\ Len(Tail(tail)) = Len(tail) - 1
          /\ \A k \in 1..Len(Tail(tail)) : Tail(tail)[k] = tail[k + 1]
      BY <3>1, TailFacts
    <3>4. below \in Seq(LevelType) /\ Len(below) = Len(tail) - 1
      BY <3>2, <3>3, Zenon
    <3>5. Len(below) = Len(transactions) - 2
      BY <1>2, <3>1, <3>4
    <3>6. ASSUME NEW k \in 1..Len(below) PROVE below[k] = transactions[k + 2]
      <4>1. k + 1 \in 1..Len(tail) /\ (k + 1) + 1 = k + 2
        BY <1>2, <3>1, <3>4, <3>5
      <4>2. below[k] = tail[k + 1]
        BY <3>2, <3>3, Zenon
      <4> QED BY <3>1, <4>1, <4>2, Zenon
    <3> QED BY <3>4, <3>5, <3>6
  <2> DEFINE sub == SubSeq(transactions, 3, Len(transactions))
  <2>3. /\ sub \in Seq(LevelType)
        /\ Len(sub) = Len(transactions) - 2
        /\ \A k \in 1..Len(sub) : sub[k] = transactions[k + 2]
    <3>1. /\ 3 \in Int /\ Len(transactions) \in Int
          /\ \A k \in 3..Len(transactions) : transactions[k] \in LevelType
      BY <1>2
    <3>2. /\ sub \in Seq(LevelType)
          /\ Len(sub) = IF 3 <= Len(transactions) THEN Len(transactions) - 3 + 1 ELSE 0
          /\ \A k \in 1..(Len(transactions) - 3 + 1) : sub[k] = transactions[3 + k - 1]
      BY <3>1, SubSeqProperties
    <3>3. Len(sub) = Len(transactions) - 2
      <4>1. \A m \in Nat : m >= 2 => (IF 3 <= m THEN m - 3 + 1 ELSE 0) = m - 2
        OBVIOUS
      <4> HIDE DEF sub
      <4> QED BY <1>1, <1>2, <3>2, <4>1, Zenon
    <3>4. ASSUME NEW k \in 1..Len(sub) PROVE sub[k] = transactions[k + 2]
      <4>1. k \in 1..(Len(transactions) - 3 + 1) /\ 3 + k - 1 = k + 2
        BY <1>2, <3>3
      <4> QED BY <3>2, <4>1
    <3> QED BY <3>2, <3>3, <3>4
  <2> HIDE DEF sub, below
  <2>4. sub = below
    BY <2>2, <2>3, SeqEqual
  <2> QED BY <2>2, <2>4 DEF sub
<1>5. transactions' = <<merged>> \o below
  BY <1>1, <1>4
<1>6. /\ Len(below) = Len(transactions) - 2
      /\ \A k \in 1..Len(below) : below[k] = transactions[k + 2]
  BY <1>1, <1>2, TwoLevels DEF Below
<1> HIDE DEF below, merged
<1>7. /\ transactions' \in Seq(LevelType) /\ InTransaction'
      /\ Len(transactions') = Len(transactions) - 1
      /\ transactions'[1] = merged
      /\ \A k \in 2..Len(transactions') : transactions'[k] = transactions[k + 1]
  <2>1. /\ transactions' \in Seq(LevelType)
        /\ Len(transactions') = Len(below) + 1
        /\ transactions'[1] = merged
        /\ \A k \in 2..Len(transactions') : transactions'[k] = below[k - 1]
    BY <1>3, <1>4, <1>5
  <2>2. Len(transactions') = Len(transactions) - 1
    BY <1>2, <1>6, <2>1
  <2>3. ASSUME NEW k \in 2..Len(transactions') PROVE transactions'[k] = transactions[k + 1]
    <3>1. k - 1 \in 1..Len(below) /\ (k - 1) + 2 = k + 1
      BY <1>2, <1>6, <2>2
    <3> QED BY <1>6, <2>1, <3>1
  <2>4. InTransaction'
    <3>1. <<merged>> \o below # <<>>
      BY <1>3, <1>4
    <3> QED BY <1>5, <3>1 DEF InTransaction
  <2> QED BY <2>1, <2>2, <2>3, <2>4
<1> QED BY <1>1, <1>2, <1>3, <1>4, <1>5, <1>6, <1>7 DEF below, merged

LEMMA CommitNestedInv ==
  ASSUME IInv, CommitNestedTr, UNCHANGED <<opened, maxUndoStep, failures>>
  PROVE  IInv'
<1> DEFINE current == transactions[1]
           previous == transactions[2]
           below == Below
           merged == Merged
<1>1. /\ Len(transactions) >= 2
      /\ values' = [a \in Attr |-> IF a \in previous.items \cap dirty
                                     THEN WithoutSecond(values[a]) ELSE values[a]]
      /\ dirty' = dirty \cup previous.items
      /\ UNCHANGED <<finaltr_items, undos, redo_count, locked, storage>>
  BY DEF CommitNestedTr
<1>2. /\ transactions \in Seq(LevelType) /\ Len(transactions) \in Nat
      /\ current \in LevelType /\ previous \in LevelType
      /\ dirty = current.items
      /\ InTransaction
  BY MergedLevels
<1>3. merged \in LevelType /\ merged.items = current.items \cup previous.items
      /\ merged.readonly = previous.readonly
  BY MergedLevels
<1>4. below \in Seq(LevelType)
  BY MergedLevels
<1>5. transactions' = <<merged>> \o below
  BY MergedLevels
<1>7. /\ transactions' \in Seq(LevelType) /\ InTransaction'
      /\ Len(transactions') = Len(transactions) - 1
      /\ transactions'[1] = merged
      /\ \A k \in 2..Len(transactions') : transactions'[k] = transactions[k + 1]
  BY MergedLevels
<1> HIDE DEF below, merged
<1>8. ASSUME NEW a \in Attr
      PROVE  /\ Older(a) = Older(a)' + (IF a \in previous.items \cap dirty THEN 1 ELSE 0)
             /\ Older(a)' \in Nat
             /\ a \in previous.items \cap dirty => Older(a) >= 2
  <2>1. /\ Older(a) = Count(Items(Tail(transactions)), a) + Count(undos, a)
                      + (IF a \in dirty THEN 1 ELSE 0)
        /\ Count(Items(Tail(transactions)), a) \in Nat /\ Count(undos, a) \in Nat
    BY <1>1, TwoLevels, Consequences
  <2>2. Count(Items(Tail(transactions)), a) =
          Count(Items(below), a) + (IF a \in previous.items THEN 1 ELSE 0)
    BY <1>1, TwoLevels, LevelCount DEF below, Below, LevelType
  <2>3. Count(Items(<<merged>> \o below), a) =
          Count(Items(below), a) + (IF a \in merged.items THEN 1 ELSE 0)
    BY <1>3, <1>4, LevelCountOfPrepend DEF LevelType
  <2>4. Count(Items(below), a) \in Nat
    BY <1>4, LevelCount DEF LevelType
  <2>5. Older(a)' = Count(Items(below), a) + (IF a \in merged.items THEN 1 ELSE 0) + Count(undos, a)
    BY <1>1, <1>5, <2>3 DEF Older
  <2>6. CASE a \in dirty /\ a \in previous.items
    BY <1>2, <1>3, <2>1, <2>2, <2>4, <2>5, <2>6
  <2>7. CASE ~(a \in dirty /\ a \in previous.items)
    <3>1. Older(a) = Older(a)' /\ Older(a)' \in Nat
      <4>1. CASE a \in merged.items
        BY <1>2, <1>3, <2>1, <2>2, <2>4, <2>5, <2>7, <4>1
      <4>2. CASE a \notin merged.items
        BY <1>2, <1>3, <2>1, <2>2, <2>4, <2>5, <2>7, <4>2
      <4> QED BY <4>1, <4>2
    <3> QED BY <2>7, <3>1
  <2> QED BY <2>6, <2>7
<1>9. ASSUME NEW a \in Attr
      PROVE  /\ values'[a] \in Seq(Value)
             /\ Len(values'[a]) <= Len(values[a])
             /\ values[a] # <<>> => values'[a] # <<>>
             /\ RingMatches(values'[a], Older(a)')
  <2>1. values[a] \in Seq(Value) /\ RingMatches(values[a], Older(a)) /\ Len(values[a]) \in Nat
    BY Consequences DEF IInv, TypeOK
  <2>2. CASE a \in previous.items \cap dirty
    <3>1. /\ values'[a] = <<values[a][1]>> \o SubSeq(values[a], 3, Len(values[a]))
          /\ Older(a) = Older(a)' + 1 /\ Older(a)' \in Nat /\ Older(a) >= 2
      BY <1>1, <1>8, <2>2 DEF WithoutSecond
    <3>2. Len(values[a]) = 1 + Older(a) /\ Len(values[a]) = Older(a)' + 2
      <4>1. values[a] # <<>>
        BY <2>1, <3>1 DEF RingMatches
      <4> QED BY <2>1, <3>1, <4>1 DEF RingMatches
    <3>3. Len(values[a]) >= 3
      BY <3>1, <3>2
    <3>4. /\ values[a][1] \in Value
          /\ SubSeq(values[a], 3, Len(values[a])) \in Seq(Value)
          /\ Len(SubSeq(values[a], 3, Len(values[a]))) = Len(values[a]) - 2
      BY <2>1, <3>3
    <3>5. /\ values'[a] \in Seq(Value) /\ values'[a] # <<>>
          /\ Len(values'[a]) = 1 + (Len(values[a]) - 2)
      BY <3>1, <3>4
    <3>6. Len(values'[a]) = 1 + Older(a)' /\ Len(values'[a]) <= Len(values[a])
      BY <3>1, <3>2, <3>5
    <3> QED BY <3>5, <3>6 DEF RingMatches
  <2>3. CASE a \notin previous.items \cap dirty
    <3>1. values'[a] = values[a]
      BY <1>1, <2>3
    <3>2. Older(a) = Older(a)'
      BY <1>8, <2>3
    <3> QED BY <2>1, <3>1, <3>2
  <2> QED BY <2>2, <2>3
<1>10. values' \in Rings
  <2>1. values' = [a \in Attr |-> values'[a]]
    BY <1>1
  <2> QED BY <1>9, <2>1 DEF Rings
<1>11. LoadedIffKept(values', locked)
  <2>1. KeptIsLoaded(values', locked)
    BY <1>9, <1>10, Consequences, ShorterIsKept
  <2>2. ASSUME NEW a \in Attr, values'[a] # <<>>, Owner[a] \notin locked
        PROVE  HoldsLock(values', Owner[a])
    <3>1. values[a] # <<>>
      <4>1. a \notin previous.items \cap dirty => values'[a] = values[a]
        BY <1>1
      <4>2. a \in previous.items \cap dirty => values[a] # <<>>
        <5>1. a \in dirty => Len(values[a]) >= 2
          BY DirtyHasOlder
        <5>2. Len(<<>>) = 0 /\ ~(0 >= 2)
          OBVIOUS
        <5> QED BY <5>1, <5>2
      <4> QED BY <2>2, <4>1, <4>2
    <3>2. PICK b \in Attr : Owner[b] = Owner[a] /\ Len(values[b]) >= 2
      BY <2>2, <3>1, Consequences DEF LoadedIffKept, HoldsLock
    <3>3. Len(values'[b]) >= 2
      <4>1. RingMatches(values[b], Older(b)) /\ RingMatches(values'[b], Older(b)')
        BY <1>9, Consequences
      <4>2. values[b] # <<>> /\ values'[b] # <<>>
        <5>1. Len(<<>>) = 0 /\ ~(0 >= 2)
          OBVIOUS
        <5> QED BY <1>9, <3>2, <5>1
      <4>3. Len(values[b]) = 1 + Older(b) /\ Len(values'[b]) = 1 + Older(b)'
        BY <4>1, <4>2 DEF RingMatches
      <4>4. CASE b \in previous.items \cap dirty
        <5>1. Older(b) = Older(b)' + 1 /\ Older(b)' \in Nat /\ Older(b) >= 2
          BY <1>8, <4>4
        <5> QED BY <4>3, <5>1
      <4>5. CASE b \notin previous.items \cap dirty
        <5>1. values'[b] = values[b]
          BY <1>1, <4>5
        <5> QED BY <3>2, <5>1
      <4> QED BY <4>4, <4>5
    <3> QED BY <3>2, <3>3 DEF HoldsLock
  <2> QED BY <2>1, <2>2 DEF KeptIsLoaded, LoadedIffKept
<1>12. TypeOK'
  BY <1>1, <1>2, <1>7, <1>10 DEF IInv, TypeOK, Rings, LevelType, LevelOf
<1>13. QueueSizesOK'
  <2>1. transactions'[Len(transactions')].readonly = transactions[Len(transactions)].readonly
    <3>1. CASE Len(transactions) = 2
      BY <1>3, <1>7, <3>1
    <3>2. CASE Len(transactions) # 2
      <4>1. /\ Len(transactions') \in 2..Len(transactions')
            /\ Len(transactions') + 1 = Len(transactions)
        BY <1>1, <1>2, <1>7, <3>2
      <4> QED BY <1>7, <4>1
    <3> QED BY <3>1, <3>2
  <2> QED BY <1>1, <1>2, <1>7, <2>1 DEF IInv, QueueSizesOK
<1>14. RingMatchesHistory'
  BY <1>9 DEF RingMatchesHistory
<1>15. LoadedIffLocked'
  BY <1>1, <1>7, <1>11 DEF IInv, LoadedIffLocked, LoadedIffKept
<1>16. DirtyIffRegistered'
  <2>1. ASSUME NEW k \in 1..Len(transactions'), NEW a \in Attr, a \in transactions'[k].items
        PROVE  Owner[a] \in finaltr_items'
    <3>1. PICK j \in 1..Len(transactions) : a \in transactions[j].items
      <4>1. CASE k = 1
        <5>1. 1 \in 1..Len(transactions) /\ 2 \in 1..Len(transactions)
          BY <1>1, <1>2
        <5> QED BY <1>3, <1>7, <2>1, <4>1, <5>1
      <4>2. CASE k # 1
        <5>1. k \in 2..Len(transactions') /\ k + 1 \in 1..Len(transactions)
          BY <1>2, <1>7, <4>2
        <5> QED BY <1>7, <2>1, <5>1
      <4> QED BY <4>1, <4>2
    <3> QED BY <1>1, <3>1 DEF IInv, DirtyIffRegistered
  <2> QED BY <1>1, <1>2, <1>3, <1>7, <2>1 DEF DirtyIffRegistered
<1> QED BY <1>12, <1>13, <1>14, <1>15, <1>16 DEF IInv

-----------------------------------------------------------------------------
\* An idle project with steps in its list: each touched ring has a second value.
LEMMA StepTouchesRings ==
  ASSUME IInv, ~InTransaction, NEW i \in 1..Len(undos), NEW a \in undos[i]
  PROVE  a \in Attr /\ values[a] \in Seq(Value) /\ Len(values[a]) >= 2
<1>1. undos \in Seq(SUBSET Attr)
  BY DEF IInv, TypeOK
<1>2. a \in Attr
  BY <1>1
<1>3. Count(undos, a) # 0 /\ Count(undos, a) \in Nat
  BY <1>1, CountType
<1>4. Older(a) = Count(undos, a) /\ RingMatches(values[a], Older(a)) /\ values[a] \in Seq(Value)
  BY <1>2, Consequences, Idle DEF Rings
<1>5. Len(values[a]) = 1 + Count(undos, a)
  BY <1>3, <1>4 DEF RingMatches
<1> QED BY <1>2, <1>3, <1>4, <1>5

LEMMA Rotations ==
  ASSUME NEW S, NEW s \in Seq(S), s # <<>>
  PROVE  /\ RotateLeft(s) \in Seq(S) /\ Len(RotateLeft(s)) = Len(s)
         /\ RotateRight(s) \in Seq(S) /\ Len(RotateRight(s)) = Len(s)
         /\ \A i \in 1..Len(s) : \E j \in 1..Len(s) : RotateLeft(s)[i] = s[j]
         /\ \A i \in 1..Len(s) : \E j \in 1..Len(s) : RotateRight(s)[i] = s[j]
<1>1. Len(s) \in Nat /\ Len(s) >= 1
  OBVIOUS
<1>2. /\ RotateLeft(s) \in Seq(S) /\ Len(RotateLeft(s)) = Len(s)
      /\ \A i \in 1..Len(s) : RotateLeft(s)[i] = IF i < Len(s) THEN s[i + 1] ELSE s[1]
  BY DEF RotateLeft
<1>3. /\ RotateRight(s) \in Seq(S) /\ Len(RotateRight(s)) = Len(s)
      /\ \A i \in 1..Len(s) : RotateRight(s)[i] = IF i = 1 THEN s[Len(s)] ELSE s[i - 1]
  BY DEF RotateRight
<1>4. ASSUME NEW i \in 1..Len(s) PROVE \E j \in 1..Len(s) : RotateLeft(s)[i] = s[j]
  <2>1. CASE i < Len(s)
    <3>1. i + 1 \in 1..Len(s) /\ RotateLeft(s)[i] = s[i + 1]
      BY <1>1, <1>2, <2>1
    <3> QED BY <3>1
  <2>2. CASE ~(i < Len(s))
    <3>1. 1 \in 1..Len(s) /\ RotateLeft(s)[i] = s[1]
      BY <1>1, <1>2, <2>2
    <3> QED BY <3>1
  <2> QED BY <2>1, <2>2
<1>5. ASSUME NEW i \in 1..Len(s) PROVE \E j \in 1..Len(s) : RotateRight(s)[i] = s[j]
  <2>1. CASE i = 1
    <3>1. Len(s) \in 1..Len(s) /\ RotateRight(s)[i] = s[Len(s)]
      BY <1>1, <1>3, <2>1
    <3> QED BY <3>1
  <2>2. CASE i # 1
    <3>1. i - 1 \in 1..Len(s) /\ RotateRight(s)[i] = s[i - 1]
      BY <1>1, <1>3, <2>2
    <3> QED BY <3>1
  <2> QED BY <2>1, <2>2
<1> QED BY <1>2, <1>3, <1>4, <1>5

\* List and rings turn together: nothing changes its length.
LEMMA TurnInv ==
  ASSUME IInv, opened, ~InTransaction,
         undos' \in Seq(SUBSET Attr), Len(undos') = Len(undos),
         \A i \in 1..Len(undos) : \E j \in 1..Len(undos) : undos'[i] = undos[j],
         \A a \in Attr : Count(undos', a) = Count(undos, a),
         redo_count' \in 0..Len(undos),
         values' \in Rings, \A a \in Attr : Len(values'[a]) = Len(values[a]),
         storage' \in [Attr -> Value],
         UNCHANGED <<opened, transactions, finaltr_items, maxUndoStep, dirty, locked, failures>>
  PROVE  IInv'
<1>1. TypeOK'
  BY DEF IInv, TypeOK, Rings
<1>2. QueueSizesOK'
  <2>1. \A i \in 1..Len(undos) : undos[i] # {}
    BY DEF IInv, QueueSizesOK
  <2>2. \A i \in 1..Len(undos') : undos'[i] # {}
    BY <2>1
  <2>3. Len(undos') - redo_count' - 0 >= 0
    <3>1. Len(undos) \in Nat
      BY DEF IInv, TypeOK
    <3> QED BY <3>1
  <2> QED BY <2>2, <2>3 DEF QueueSizesOK, InTransaction
<1>3. RingMatchesHistory'
  <2>1. ASSUME NEW a \in Attr
        PROVE  RingMatches(values'[a], Older(a)) /\ Older(a)' = Older(a)
    <3>1. values'[a] = <<>> <=> values[a] = <<>>
      BY DEF Rings, IInv, TypeOK
    <3>2. Older(a)' = Older(a)
      BY DEF Older
    <3> QED BY <3>1, <3>2, Consequences DEF RingMatches
  <2> QED BY <2>1 DEF RingMatchesHistory
<1>4. LoadedIffLocked'
  <2>1. LoadedIffKept(values', locked)
    BY SameLengthsSameLocks, Consequences
  <2> QED BY <2>1 DEF IInv, LoadedIffLocked, LoadedIffKept, InTransaction
<1>5. DirtyIffRegistered'
  BY DEF IInv, DirtyIffRegistered, InTransaction
<1> QED BY <1>1, <1>2, <1>3, <1>4, <1>5 DEF IInv

LEMMA UndoneRedoneOK ==
  ASSUME IInv, ~InTransaction, NEW i \in 1..Len(undos), NEW written \in SUBSET undos[i]
  PROVE  /\ [a \in Attr |-> IF a \in written THEN Undone(a) ELSE storage[a]] \in [Attr -> Value]
         /\ [a \in Attr |-> IF a \in written THEN Redone(a) ELSE storage[a]] \in [Attr -> Value]
<1>1. ASSUME NEW a \in written PROVE Undone(a) \in Value /\ Redone(a) \in Value
  <2>1. a \in undos[i]
    OBVIOUS
  <2>2. values[a] \in Seq(Value) /\ Len(values[a]) >= 2
    BY <2>1, StepTouchesRings
  <2> QED BY <2>2 DEF Undone, Redone
<1>2. storage \in [Attr -> Value]
  BY DEF IInv, TypeOK
<1> QED BY <1>1, <1>2

LEMMA UndoInv ==
  ASSUME IInv, UndoTransaction
  PROVE  IInv'
<1> DEFINE step == undos[1]
<1>1. /\ opened /\ ~InTransaction /\ Len(undos) > redo_count
      /\ storage' = [a \in Attr |-> IF a \in step THEN Undone(a) ELSE storage[a]]
      /\ values' = [a \in Attr |-> IF a \in step THEN RotateLeft(values[a]) ELSE values[a]]
      /\ undos' = RotateLeft(undos)
      /\ redo_count' = redo_count + 1
      /\ UNCHANGED <<opened, transactions, finaltr_items, maxUndoStep, dirty, locked, failures>>
  BY DEF UndoTransaction, MayUndo
<1>2. undos \in Seq(SUBSET Attr) /\ redo_count \in Nat /\ Len(undos) \in Nat
  BY DEF IInv, TypeOK
<1>3. 1 \in 1..Len(undos) /\ redo_count' \in 0..Len(undos)
  BY <1>1, <1>2
<1>4. undos # <<>>
  <2>1. Len(<<>>) = 0 /\ ~(1 \in 1..0)
    OBVIOUS
  <2> QED BY <1>3, <2>1
<1>5. /\ undos' \in Seq(SUBSET Attr) /\ Len(undos') = Len(undos)
      /\ \A i \in 1..Len(undos) : \E j \in 1..Len(undos) : undos'[i] = undos[j]
  <2>1. undos' = RotateLeft(undos)
    BY <1>1
  <2>2. /\ RotateLeft(undos) \in Seq(SUBSET Attr) /\ Len(RotateLeft(undos)) = Len(undos)
        /\ \A i \in 1..Len(undos) : \E j \in 1..Len(undos) : RotateLeft(undos)[i] = undos[j]
    BY <1>2, <1>4, Rotations
  <2> QED BY <2>1, <2>2, Zenon
<1>6. \A a \in Attr : Count(undos', a) = Count(undos, a)
  BY <1>1, <1>2, <1>4, CountOfRotation DEF RotateLeft
<1>7. storage' \in [Attr -> Value]
  <2>1. step \in SUBSET undos[1]
    OBVIOUS
  <2> QED BY <1>1, <1>3, <2>1, UndoneRedoneOK
<1>8. ASSUME NEW a \in Attr PROVE values'[a] \in Seq(Value) /\ Len(values'[a]) = Len(values[a])
  <2>1. CASE a \in step
    <3>1. values[a] \in Seq(Value) /\ Len(values[a]) >= 2
      BY <1>1, <1>3, <2>1, StepTouchesRings
    <3>2. values[a] # <<>>
      <4>1. Len(<<>>) = 0 /\ ~(0 >= 2)
        OBVIOUS
      <4> QED BY <3>1, <4>1
    <3>3. values'[a] = RotateLeft(values[a])
      BY <1>1, <2>1
    <3> QED BY <3>1, <3>2, <3>3, Rotations
  <2>2. CASE a \notin step
    BY <1>1, <2>2 DEF IInv, TypeOK
  <2> QED BY <2>1, <2>2
<1>9. values' \in Rings
  <2>1. values' = [a \in Attr |-> values'[a]]
    BY <1>1
  <2> QED BY <1>8, <2>1 DEF Rings
<1> QED BY <1>1, <1>3, <1>5, <1>6, <1>7, <1>8, <1>9, TurnInv

LEMMA RedoInv ==
  ASSUME IInv, RedoTransaction
  PROVE  IInv'
<1> DEFINE step == undos[Len(undos)]
<1>1. /\ opened /\ ~InTransaction /\ redo_count > 0
      /\ storage' = [a \in Attr |-> IF a \in step THEN Redone(a) ELSE storage[a]]
      /\ values' = [a \in Attr |-> IF a \in step THEN RotateRight(values[a]) ELSE values[a]]
      /\ undos' = RotateRight(undos)
      /\ redo_count' = redo_count - 1
      /\ UNCHANGED <<opened, transactions, finaltr_items, maxUndoStep, dirty, locked, failures>>
  BY DEF RedoTransaction, MayRedo
<1>2. /\ undos \in Seq(SUBSET Attr) /\ redo_count \in Nat /\ Len(undos) \in Nat
      /\ redo_count <= Len(undos)
  <2>1. undos \in Seq(SUBSET Attr) /\ redo_count \in Nat /\ Len(undos) \in Nat
    BY DEF IInv, TypeOK
  <2>2. Len(undos) - redo_count - 0 >= 0
    BY <1>1 DEF IInv, QueueSizesOK
  <2> QED BY <2>1, <2>2
<1>3. Len(undos) \in 1..Len(undos) /\ redo_count' \in 0..Len(undos)
  BY <1>1, <1>2
<1>4. undos # <<>>
  <2>1. Len(<<>>) = 0 /\ ~(0 \in 1..0)
    OBVIOUS
  <2> QED BY <1>3, <2>1
<1>5. /\ undos' \in Seq(SUBSET Attr) /\ Len(undos') = Len(undos)
      /\ \A i \in 1..Len(undos) : \E j \in 1..Len(undos) : undos'[i] = undos[j]
  <2>1. undos' = RotateRight(undos)
    BY <1>1
  <2>2. /\ RotateRight(undos) \in Seq(SUBSET Attr) /\ Len(RotateRight(undos)) = Len(undos)
        /\ \A i \in 1..Len(undos) : \E j \in 1..Len(undos) : RotateRight(undos)[i] = undos[j]
    BY <1>2, <1>4, Rotations
  <2> QED BY <2>1, <2>2, Zenon
<1>6. \A a \in Attr : Count(undos', a) = Count(undos, a)
  BY <1>1, <1>2, <1>4, CountOfRotation DEF RotateRight
<1>7. storage' \in [Attr -> Value]
  <2>1. step \in SUBSET undos[Len(undos)]
    OBVIOUS
  <2> QED BY <1>1, <1>3, <2>1, UndoneRedoneOK
<1>8. ASSUME NEW a \in Attr PROVE values'[a] \in Seq(Value) /\ Len(values'[a]) = Len(values[a])
  <2>1. CASE a \in step
    <3>1. values[a] \in Seq(Value) /\ Len(values[a]) >= 2
      BY <1>1, <1>3, <2>1, StepTouchesRings
    <3>2. values[a] # <<>>
      <4>1. Len(<<>>) = 0 /\ ~(0 >= 2)
        OBVIOUS
      <4> QED BY <3>1, <4>1
    <3>3. values'[a] = RotateRight(values[a])
      BY <1>1, <2>1
    <3> QED BY <3>1, <3>2, <3>3, Rotations
  <2>2. CASE a \notin step
    BY <1>1, <2>2 DEF IInv, TypeOK
  <2> QED BY <2>1, <2>2
<1>9. values' \in Rings
  <2>1. values' = [a \in Attr |-> values'[a]]
    BY <1>1
  <2> QED BY <1>8, <2>1 DEF Rings
<1> QED BY <1>1, <1>3, <1>5, <1>6, <1>7, <1>8, <1>9, TurnInv

LEMMA UndoOrRedoFailsInv ==
  ASSUME IInv, UndoOrRedoFails
  PROVE  IInv'
<1>1. /\ failures' \in Nat
      /\ UNCHANGED <<opened, transactions, finaltr_items, undos, redo_count, maxUndoStep,
                     values, dirty, locked>>
  BY DEF UndoOrRedoFails, IInv, TypeOK
<1>2. undos \in Seq(SUBSET Attr) /\ redo_count \in Nat /\ Len(undos) \in Nat
  BY DEF IInv, TypeOK
<1>3. storage' \in [Attr -> Value]
  <2>1. CASE MayUndo /\ \E written \in SUBSET undos[1] :
               storage' = [a \in Attr |-> IF a \in written THEN Undone(a) ELSE storage[a]]
    <3>1. ~InTransaction /\ 1 \in 1..Len(undos)
      BY <1>2, <2>1 DEF MayUndo
    <3> QED BY <2>1, <3>1, UndoneRedoneOK
  <2>2. CASE MayRedo /\ \E written \in SUBSET undos[Len(undos)] :
               storage' = [a \in Attr |-> IF a \in written THEN Redone(a) ELSE storage[a]]
    <3>1. ~InTransaction /\ redo_count > 0
      BY <2>2 DEF MayRedo
    <3>2. Len(undos) - redo_count - 0 >= 0
      BY <3>1 DEF IInv, QueueSizesOK
    <3>3. Len(undos) \in 1..Len(undos)
      BY <1>2, <3>1, <3>2
    <3> QED BY <2>2, <3>1, <3>3, UndoneRedoneOK
  <2> QED BY <2>1, <2>2 DEF UndoOrRedoFails
<1> QED BY <1>1, <1>3, SameShapeInv, Consequences DEF IInv, TypeOK

\* Flushing discards steps of an idle project.
LEMMA FlushInv ==
  ASSUME IInv, ~InTransaction, NEW n \in 0..Len(undos), n + redo_count <= Len(undos) \/ n = 0,
         DiscardTo(n),
         UNCHANGED <<opened, transactions, finaltr_items, maxUndoStep, dirty, locked,
                     storage, failures>>
  PROVE  IInv'
<1>1. /\ undos \in Seq(SUBSET Attr) /\ redo_count \in Nat /\ Len(undos) \in Nat
      /\ redo_count <= Len(undos)
      /\ \A i \in 1..Len(undos) : undos[i] # {}
  <2>1. undos \in Seq(SUBSET Attr) /\ redo_count \in Nat /\ Len(undos) \in Nat
    BY DEF IInv, TypeOK
  <2>2. Len(undos) - redo_count - 0 >= 0 /\ \A i \in 1..Len(undos) : undos[i] # {}
    BY DEF IInv, QueueSizesOK
  <2> QED BY <2>1, <2>2
<1>2. /\ undos' = SubSeq(undos, 1, n)
      /\ redo_count' = RedoneAfterDiscard(n)
      /\ values' = ControlLockGroup(DropLast(n), {})
  BY DEF DiscardTo
<1>3. redo_count' = 0
  BY <1>1, <1>2 DEF RedoneAfterDiscard
<1>4. /\ undos' \in Seq(SUBSET Attr) /\ Len(undos') = n
      /\ \A i \in 1..Len(undos') : undos'[i] # {}
  <2> DEFINE kept == SubSeq(undos, 1, n)
  <2>1. /\ kept \in Seq(SUBSET Attr) /\ Len(kept) = n
        /\ \A i \in 1..n : kept[i] = undos[i]
    BY <1>1, PrefixFacts
  <2>2. undos' = kept
    BY <1>2
  <2>3. \A i \in 1..n : i \in 1..Len(undos)
    BY <1>1
  <2> HIDE DEF kept
  <2>4. \A i \in 1..n : kept[i] # {}
    BY <1>1, <2>1, <2>3, Zenon
  <2> QED BY <2>1, <2>2, <2>4, Zenon
<1>5. /\ values' \in Rings
      /\ LoadedIffKept(values', {})
      /\ \A a \in Attr : RingMatches(values'[a], Count(undos', a))
  BY <1>2, DiscardingStepsOK
<1>6. transactions = <<>> /\ dirty = {} /\ locked = {} /\ finaltr_items = {}
  BY Idle
<1>7. TypeOK'
  BY <1>3, <1>4, <1>5 DEF IInv, TypeOK, Rings
<1>8. QueueSizesOK'
  <2>1. n - 0 - 0 >= 0
    OBVIOUS
  <2> QED BY <1>3, <1>4, <2>1 DEF QueueSizesOK, InTransaction
<1>9. RingMatchesHistory'
  <2>1. ASSUME NEW a \in Attr PROVE Older(a)' = Count(undos', a)
    <3>1. Count(undos', a) \in Nat
      BY <1>4, CountType
    <3>2. Count(Items(transactions'), a) = 0
      <4>1. <<>> \in Seq(LevelType)
        OBVIOUS
      <4>2. Count(Items(<<>>), a) = 0
        BY <4>1, LevelCount DEF LevelType
      <4> QED BY <1>6, <4>2
    <3> QED BY <3>1, <3>2 DEF Older
  <2> QED BY <1>5, <2>1 DEF RingMatchesHistory
<1>10. LoadedIffLocked'
  BY <1>5, <1>6 DEF LoadedIffLocked, LoadedIffKept, InTransaction
<1>11. DirtyIffRegistered'
  BY <1>6 DEF DirtyIffRegistered, InTransaction
<1> QED BY <1>7, <1>8, <1>9, <1>10, <1>11 DEF IInv

LEMMA CloseInv ==
  ASSUME IInv, CloseProject
  PROVE  IInv'
<1>1. /\ opened' = FALSE /\ transactions' = <<>> /\ finaltr_items' = {} /\ undos' = <<>>
      /\ redo_count' = 0 /\ values' = [a \in Attr |-> <<>>] /\ dirty' = {} /\ locked' = {}
      /\ UNCHANGED <<maxUndoStep, storage, failures>>
  BY DEF CloseProject
<1>2. /\ <<>> \in Seq(LevelType) /\ <<>> \in Seq(SUBSET Attr) /\ <<>> \in Seq(Value)
      /\ Len(<<>>) = 0
  OBVIOUS
<1>3. TypeOK'
  BY <1>1, <1>2 DEF IInv, TypeOK
<1>4. QueueSizesOK'
  <2>1. 0 - 0 - 0 >= 0 /\ 1..0 = {}
    OBVIOUS
  <2> QED BY <1>1, <1>2, <2>1 DEF QueueSizesOK, InTransaction
<1>5. RingMatchesHistory'
  <2>1. ASSUME NEW a \in Attr PROVE Older(a)' = 0
    <3>1. Count(Items(<<>>), a) = 0 /\ Count(<<>>, a) = 0
      BY <1>2, LevelCount, CountOfEmpty DEF LevelType
    <3>2. Count(Items(transactions'), a) = 0 /\ Count(undos', a) = 0
      BY <1>1, <3>1
    <3> QED BY <3>2 DEF Older
  <2> QED BY <1>1, <2>1 DEF RingMatchesHistory, RingMatches
<1>6. LoadedIffLocked'
  <2>1. ~(0 >= 2)
    OBVIOUS
  <2>2. \A a \in Attr : values'[a] = <<>> /\ ~(Len(values'[a]) >= 2)
    BY <1>1, <1>2, <2>1
  <2> QED BY <1>1, <2>2 DEF LoadedIffLocked, InTransaction, HoldsLock
<1>7. DirtyIffRegistered'
  <2>1. 1..0 = {}
    OBVIOUS
  <2> QED BY <1>1, <1>2, <2>1 DEF DirtyIffRegistered, InTransaction
<1> QED BY <1>3, <1>4, <1>5, <1>6, <1>7 DEF IInv

-----------------------------------------------------------------------------
LEMMA StepInv == IInv /\ [Next]_vars => IInv'
<1> SUFFICES ASSUME IInv, [Next]_vars PROVE IInv'
  OBVIOUS
<1>1. ASSUME NEW t \in TransType, BeginTransaction(t) PROVE IInv'
  BY <1>1, BeginFinalInv, BeginNestedInv
<1>2. ASSUME NEW t \in TransType, CommitTransaction(t) PROVE IInv'
  <2>1. MayCommit(t) /\ UNCHANGED <<opened, maxUndoStep, failures>>
    BY <1>2 DEF CommitTransaction
  <2> QED BY <1>2, <2>1, CommitNestedInv, CommitFinalInv DEF CommitTransaction
<1>3. ASSUME NEW t \in TransType, CommitFails(t) PROVE IInv'
  BY <1>3, CommitFailsInv
<1>4. ASSUME NEW t \in TransType, AbortTransaction(t) PROVE IInv'
  <2>1. UNCHANGED <<opened, redo_count, maxUndoStep, storage, failures>>
    BY <1>4 DEF AbortTransaction
  <2> QED BY <1>4, <2>1, AbortNestedInv, AbortFinalInv DEF AbortTransaction
<1>5. ASSUME NEW a \in Attr, Get(a) PROVE IInv'
  BY <1>5, GetInv
<1>6. ASSUME NEW a \in Attr, NEW v \in Value, Put(a, v) PROVE IInv'
  BY <1>6, PutInv
<1>7. CASE UndoTransaction
  BY <1>7, UndoInv
<1>8. CASE RedoTransaction
  BY <1>8, RedoInv
<1>9. CASE UndoOrRedoFails
  BY <1>9, UndoOrRedoFailsInv
<1>10. CASE FlushUndoQueue
  <2>1. 0 \in 0..Len(undos)
    BY DEF IInv, TypeOK
  <2> QED BY <1>10, <2>1, FlushInv DEF FlushUndoQueue
<1>11. CASE FlushRedoQueue
  <2>1. ~InTransaction
    BY <1>11 DEF FlushRedoQueue
  <2>2. Len(undos) \in Nat /\ redo_count \in Nat
    BY DEF IInv, TypeOK
  <2>3. Len(undos) - redo_count - 0 >= 0
    BY <2>1 DEF IInv, QueueSizesOK
  <2>4. /\ Len(undos) - redo_count \in 0..Len(undos)
        /\ (Len(undos) - redo_count) + redo_count <= Len(undos)
    BY <2>2, <2>3
  <2> QED BY <1>11, <2>4, FlushInv DEF FlushRedoQueue
<1>12. ASSUME NEW size \in UndoSizes, OpenProject2(size) PROVE IInv'
  <2>1. maxUndoStep' \in 1..99
    BY <1>12, UndoSizesAssumption DEF OpenProject2, SetMaxUndoStep, IInv, TypeOK
  <2>2. opened' \in BOOLEAN /\ failures' \in Nat /\ storage' \in [Attr -> Value]
    BY <1>12 DEF OpenProject2, IInv, TypeOK
  <2>3. values' \in Rings /\ \A a \in Attr : Len(values'[a]) = Len(values[a])
    BY <1>12, Consequences DEF OpenProject2
  <2> QED BY <1>12, <2>1, <2>2, <2>3, SameShapeInv DEF OpenProject2
<1>13. CASE CloseProject
  BY <1>13, CloseInv
<1>14. CASE UNCHANGED vars
  <2>1. /\ values' \in Rings /\ \A a \in Attr : Len(values'[a]) = Len(values[a])
    BY <1>14, Consequences DEF vars
  <2> QED BY <1>14, <2>1, SameShapeInv DEF vars, IInv, TypeOK
<1> QED
  BY <1>1, <1>2, <1>3, <1>4, <1>5, <1>6, <1>7, <1>8, <1>9, <1>10, <1>11, <1>12,
     <1>13, <1>14 DEF Next

(* The conjunction of the invariants holds in every state the Core can     *)
(* reach, whatever the interleaving of nested transactions, reads, writes, *)
(* undo, redo, flushes, reopening and failures of the storage.             *)
THEOREM Invariance == Spec => []IInv
<1>1. Init => IInv
  BY InitInv
<1>2. IInv /\ [Next]_vars => IInv'
  BY StepInv
<1> QED BY <1>1, <1>2, PTL DEF Spec

(* Every variable keeps its type: no ring is ever read or shortened past   *)
(* its end by commit, abort, undo, redo or discarding.                     *)
THEOREM TypeCorrect == Spec => []TypeOK
<1>1. IInv => TypeOK
  BY DEF IInv
<1> QED BY <1>1, Invariance, PTL

(* CCoreProject's counters stay inside the undo list (the ASSERTs of       *)
(* UndoTransaction, RedoTransaction and get_UndoQueueSize).                *)
THEOREM QueueSizes == Spec => []QueueSizesOK
<1>1. IInv => QueueSizesOK
  BY DEF IInv
<1> QED BY <1>1, Invariance, PTL

(* Every ring of CCoreDataAttribute has exactly one value more than there  *)
(* are levels and steps that wrote it, for any depth of nesting and any    *)
(* length of the undo list.                                                *)
THEOREM RingsMatch == Spec => []RingMatchesHistory
<1>1. IInv => RingMatchesHistory
  BY DEF IInv
<1> QED BY <1>1, Invariance, PTL

(* Attributes are in memory exactly while CCoreLockAttribute keeps them    *)
(* there, and nothing stays locked or registered between transactions.     *)
THEOREM LoadedExactlyWhenLocked == Spec => []LoadedIffLocked
<1>1. IInv => LoadedIffLocked
  BY DEF IInv
<1> QED BY <1>1, Invariance, PTL

(* The dirty flags are those of the innermost level after any sequence of  *)
(* nested begins, commits and aborts, and the final commit reaches them.   *)
THEOREM DirtyExactlyWhenRegistered == Spec => []DirtyIffRegistered
<1>1. IInv => DirtyIffRegistered
  BY DEF IInv
<1> QED BY <1>1, Invariance, PTL
=============================================================================
