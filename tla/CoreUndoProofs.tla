--------------------------- MODULE CoreUndoProofs ---------------------------
(***************************************************************************)
(* CoreTransactions implements CoreUndo, for any objects, attributes,      *)
(* values, depth of nesting and length of the undo list, as long as no     *)
(* call of the storage fails.                                              *)
(***************************************************************************)
EXTENDS CoreTransactionsProofs

-----------------------------------------------------------------------------
(* One sequence of documents *)

\* Open levels and recorded steps in one sequence, the youngest first.
History == Items(transactions) \o Steps

\* The n-th older value of an attribute
Entry(ring, stored, n) ==
  IF n = 0 THEN (IF ring = <<>> THEN stored ELSE ring[1]) ELSE ring[n + 1]

\* The document before the k youngest elements of the history h
Recorded(vals, store, h, k) ==
  [a \in Attr |-> Entry(vals[a], store[a], CountUpTo(h, k, a))]

Doc(k) == Recorded(values, storage, History, k)
NewDoc(k) == Recorded(values', storage', History', k)

\* A level opened for reading has written nothing, and neither has a level
\* that was opened inside it.
ReadersWriteNothing ==
  \A k \in 1..Len(transactions), j \in 1..Len(transactions) :
    transactions[k].readonly /\ j <= k =>
      transactions[j].readonly /\ transactions[j].items = {}

\* What CoreUndo has for its variables
Saved == [k \in 1..Len(transactions) |->
            [doc |-> DocBefore(k), readonly |-> transactions[k].readonly]]
Past == [k \in 1..Alive |-> DocPast(k)]
Future == [k \in 1..redo_count |-> DocFuture(k)]

-----------------------------------------------------------------------------
(* The history *)

\* Every ring is as long as a history says.
Fits(vals, h) == \A a \in Attr : RingMatches(vals[a], Count(h, a))

HistoryOK ==
  /\ Steps \in Seq(SUBSET Attr) /\ Items(transactions) \in Seq(SUBSET Attr)
  /\ Len(Items(transactions)) = Len(transactions)
  /\ History \in Seq(SUBSET Attr)
  /\ Len(History) = Len(transactions) + Len(Steps)
  /\ undos = IF InTransaction THEN <<{}>> \o Steps ELSE Steps
  /\ redo_count \in 0..Len(Steps)
  /\ Fits(values, History)

LEMMA HistoryFacts ==
  ASSUME IInv
  PROVE  HistoryOK
<1>1. /\ transactions \in Seq(LevelType) /\ undos \in Seq(SUBSET Attr) /\ redo_count \in Nat
      /\ Len(undos) \in Nat
  BY DEF IInv, TypeOK
<1>2. Items(transactions) \in Seq(SUBSET Attr) /\ Len(Items(transactions)) = Len(transactions)
  BY <1>1, ItemsType DEF LevelType
<1>3. /\ Steps \in Seq(SUBSET Attr) /\ redo_count \in 0..Len(Steps)
      /\ undos = IF InTransaction THEN <<{}>> \o Steps ELSE Steps
      /\ \A a \in Attr : Count(undos, a) = Count(Steps, a)
  <2>1. CASE InTransaction
    <3>1. Len(undos) - redo_count - 1 >= 0 /\ undos[1] = {}
      BY <2>1 DEF IInv, QueueSizesOK
    <3>2. undos # <<>> /\ Tail(undos) \in Seq(SUBSET Attr) /\ Len(Tail(undos)) = Len(undos) - 1
      <4>1. undos # <<>>
        BY <1>1, <3>1
      <4> QED BY <1>1, <4>1
    <3>3. undos = <<undos[1]>> \o Tail(undos)
      BY <1>1, <3>2
    <3>4. \A a \in Attr : Count(undos, a) = Count(Tail(undos), a)
      <4>1. \A a \in Attr : Count(Tail(undos), a) \in Nat
        BY <3>2, CountType
      <4> QED BY <1>1, <3>1, <3>2, <4>1, CountOfTail
    <3>5. Steps = Tail(undos)
      BY <2>1 DEF Steps
    <3>6. redo_count \in 0..Len(Tail(undos))
      BY <1>1, <3>1, <3>2
    <3> QED BY <2>1, <3>1, <3>2, <3>3, <3>4, <3>5, <3>6
  <2>2. CASE ~InTransaction
    <3>1. Len(undos) - redo_count - 0 >= 0
      BY <2>2 DEF IInv, QueueSizesOK
    <3>2. redo_count \in 0..Len(undos)
      BY <1>1, <3>1
    <3> QED BY <1>1, <2>2, <3>2 DEF Steps
  <2> QED BY <2>1, <2>2
<1>4. /\ History \in Seq(SUBSET Attr)
      /\ Len(History) = Len(transactions) + Len(Steps)
  BY <1>2, <1>3 DEF History
<1>5. ASSUME NEW a \in Attr PROVE RingMatches(values[a], Count(History, a))
  <2>1. Count(History, a) = Count(Items(transactions), a) + Count(Steps, a)
    BY <1>2, <1>3, CountOfTwo DEF History
  <2>2. Older(a) = Count(Items(transactions), a) + Count(Steps, a)
    BY <1>3 DEF Older
  <2>3. RingMatches(values[a], Older(a))
    BY DEF IInv, RingMatchesHistory
  <2> QED BY <2>1, <2>2, <2>3
<1> QED BY <1>2, <1>3, <1>4, <1>5 DEF HistoryOK, Fits

\* The documents of the refinement mapping are those of the history.
MapOK ==
  /\ Alive \in 0..Len(Steps)
  /\ DocNow = Doc(0)
  /\ Saved = [k \in 1..Len(transactions) |-> [doc |-> Doc(k), readonly |-> transactions[k].readonly]]
  /\ Past = [k \in 1..Alive |-> Doc(Len(transactions) + k)]
  /\ \A a \in Attr : WrittenBy(a, Len(transactions)) = CountUpTo(History, Len(transactions), a)

LEMMA MapInv == IInv => MapOK
<1> SUFFICES ASSUME IInv PROVE MapOK
  OBVIOUS
<1> DEFINE L == Len(transactions)
<1>1. /\ Steps \in Seq(SUBSET Attr) /\ Items(transactions) \in Seq(SUBSET Attr)
      /\ Len(Items(transactions)) = L /\ L \in Nat
      /\ History \in Seq(SUBSET Attr)
      /\ redo_count \in 0..Len(Steps) /\ Len(Steps) \in Nat /\ Alive \in 0..Len(Steps)
      /\ transactions \in Seq(LevelType)
  BY HistoryFacts DEF HistoryOK, IInv, TypeOK, Alive
<1>2. ASSUME NEW a \in Attr, NEW k \in 0..L
      PROVE  WrittenBy(a, k) = CountUpTo(History, k, a) /\ WrittenBy(a, k) \in Nat
  <2>1. /\ CountUpTo(Items(transactions), k, a) = Cardinality({i \in 1..k : a \in Items(transactions)[i]})
        /\ CountUpTo(Items(transactions), k, a) \in Nat
    BY <1>1, UpToType
  <2>2. \A i \in 1..k : Items(transactions)[i] = transactions[i].items
    BY <1>1, ItemsType DEF LevelType
  <2>3. {i \in 1..k : a \in Items(transactions)[i]} = {i \in 1..k : a \in transactions[i].items}
    BY <2>2
  <2>4. CountUpTo(History, k, a) = CountUpTo(Items(transactions), k, a)
    BY <1>1, UpToInFirst DEF History
  <2> QED BY <2>1, <2>3, <2>4 DEF WrittenBy
<1>3. ASSUME NEW a \in Attr, NEW k \in 0..Len(Steps)
      PROVE  WrittenBy(a, L) + TouchedBy(a, 1, k) = CountUpTo(History, L + k, a)
  <2>1. CountUpTo(Steps, k, a) = TouchedBy(a, 1, k)
    BY <1>1, UpToType DEF TouchedBy
  <2>2. CountUpTo(History, L + k, a) = Count(Items(transactions), a) + CountUpTo(Steps, k, a)
    BY <1>1, UpToInSecond, SMTT(30) DEF History
  <2>3. CountUpTo(Items(transactions), L, a) = Count(Items(transactions), a)
    BY <1>1, UpToEnds
  <2>4. CountUpTo(History, L, a) = CountUpTo(Items(transactions), L, a)
    BY <1>1, UpToInFirst DEF History
  <2>5. WrittenBy(a, L) = CountUpTo(History, L, a)
    BY <1>1, <1>2
  <2> QED BY <2>1, <2>2, <2>3, <2>4, <2>5
<1>4. ASSUME NEW a \in Attr, NEW n PROVE Behind(a, n) = Entry(values[a], storage[a], n)
  BY DEF Behind, Entry, Current
<1>5. DocNow = Doc(0)
  <2>1. \A a \in Attr : CountUpTo(History, 0, a) = 0
    BY <1>1, UpToEnds
  <2>2. \A a \in Attr : Current(a) = Entry(values[a], storage[a], 0)
    BY DEF Entry, Current
  <2> QED BY <2>1, <2>2 DEF DocNow, Doc, Recorded
<1>6. ASSUME NEW k \in 1..L PROVE DocBefore(k) = Doc(k)
  <2>1. \A a \in Attr : WrittenBy(a, k) = CountUpTo(History, k, a)
    BY <1>1, <1>2
  <2>2. \A a \in Attr : Behind(a, WrittenBy(a, k)) = Entry(values[a], storage[a], CountUpTo(History, k, a))
    BY <2>1, <1>4
  <2> QED BY <2>2 DEF DocBefore, Doc, Recorded
<1>7. ASSUME NEW k \in 1..Alive PROVE DocPast(k) = Doc(L + k)
  <2>1. \A a \in Attr : WrittenBy(a, L) + TouchedBy(a, 1, k) = CountUpTo(History, L + k, a)
    BY <1>1, <1>3
  <2>2. \A a \in Attr : Behind(a, WrittenBy(a, L) + TouchedBy(a, 1, k))
                          = Entry(values[a], storage[a], CountUpTo(History, L + k, a))
    BY <2>1, <1>4
  <2> QED BY <2>2 DEF DocPast, Doc, Recorded
<1>8. \A a \in Attr : WrittenBy(a, L) = CountUpTo(History, L, a)
  BY <1>1, <1>2
<1> QED BY <1>1, <1>5, <1>6, <1>7, <1>8 DEF MapOK, Saved, Past

\* The storage has the document that all open levels lead back to.
StoredOK ==
  StorageIsCommitted <=> \A a \in Attr : storage[a] = Doc(Len(transactions))[a]

LEMMA StoredDocument ==
  ASSUME IInv
  PROVE  StoredOK
<1>1. \A a \in Attr : WrittenBy(a, Len(transactions)) = CountUpTo(History, Len(transactions), a)
  BY MapInv DEF MapOK
<1>2. \A a \in Attr : Doc(Len(transactions))[a] = Behind(a, WrittenBy(a, Len(transactions)))
  BY <1>1 DEF Doc, Recorded, Entry, Behind, Current
<1> QED BY <1>2 DEF StorageIsCommitted, StoredOK

MappingOK == HistoryOK /\ MapOK /\ StoredOK

LEMMA Mapping ==
  (IInv => MappingOK) /\ (IInv' => MappingOK')
<1>1. IInv => MappingOK
  BY HistoryFacts, MapInv, StoredDocument DEF MappingOK
<1> QED BY <1>1, PTL

-----------------------------------------------------------------------------
(* What happens to documents when rings and history change *)

\* What an entry before the k-th element of the history needs of the ring
LEMMA EntryIsThere ==
  ASSUME NEW vals \in Rings, NEW h \in Seq(SUBSET Attr), Fits(vals, h),
         NEW k \in 0..Len(h), NEW a \in Attr
  PROVE  /\ CountUpTo(h, k, a) \in Nat /\ Count(h, a) \in Nat /\ CountUpTo(h, k, a) <= Count(h, a)
         /\ vals[a] \in Seq(Value) /\ Len(vals[a]) \in Nat
         /\ vals[a] = <<>> => CountUpTo(h, k, a) = 0
         /\ vals[a] # <<>> => Len(vals[a]) = Count(h, a) + 1
<1>1. /\ CountUpTo(h, k, a) \in Nat /\ CountAfter(h, k, a) \in Nat
      /\ Count(h, a) = CountUpTo(h, k, a) + CountAfter(h, k, a)
  BY UpToType
<1>2. RingMatches(vals[a], Count(h, a)) /\ vals[a] \in Seq(Value)
  BY DEF Fits, Rings
<1> QED BY <1>1, <1>2 DEF RingMatches

\* Unloading an attribute changes no document when the storage has the one
\* or another of them: an attribute that is unloaded is the same in all.
LEMMA UnloadedDocs ==
  ASSUME NEW vals \in Rings, NEW store, NEW h \in Seq(SUBSET Attr), Fits(vals, h),
         NEW n \in 0..Len(h), \A a \in Attr : store[a] = Recorded(vals, store, h, n)[a],
         NEW locks, NEW k \in 0..Len(h)
  PROVE  Recorded(ControlLockGroup(vals, locks), store, h, k) = Recorded(vals, store, h, k)
<1> DEFINE result == ControlLockGroup(vals, locks)
<1>1. SUFFICES ASSUME NEW a \in Attr
               PROVE  Entry(result[a], store[a], CountUpTo(h, k, a))
                        = Entry(vals[a], store[a], CountUpTo(h, k, a))
  BY DEF Recorded
<1>2. result[a] = vals[a] \/ (result[a] = <<>> /\ ~(Len(vals[a]) >= 2))
  BY DEF ControlLockGroup, HoldsLock
<1>3. CASE result[a] = <<>> /\ ~(Len(vals[a]) >= 2) /\ vals[a] # <<>>
  <2>1. /\ CountUpTo(h, k, a) \in Nat /\ CountUpTo(h, k, a) <= Count(h, a)
        /\ CountUpTo(h, n, a) \in Nat /\ CountUpTo(h, n, a) <= Count(h, a)
        /\ Len(vals[a]) = Count(h, a) + 1 /\ Count(h, a) \in Nat
    BY <1>3, EntryIsThere
  <2>2. CountUpTo(h, k, a) = 0 /\ CountUpTo(h, n, a) = 0
    BY <1>3, <2>1
  <2>3. store[a] = vals[a][1]
    BY <1>3, <2>2 DEF Recorded, Entry
  <2> QED BY <1>3, <2>2, <2>3 DEF Entry
<1>4. CASE result[a] = vals[a]
  BY <1>4
<1> QED BY <1>2, <1>3, <1>4

LEMMA EmptyInFront ==
  ASSUME NEW vals, NEW store, NEW h \in Seq(SUBSET Attr), NEW k \in 0..Len(h)
  PROVE  Recorded(vals, store, <<{}>> \o h, k + 1) = Recorded(vals, store, h, k)
<1>1. ASSUME NEW a \in Attr PROVE CountUpTo(<<{}>> \o h, k + 1, a) = CountUpTo(h, k, a)
  <2>1. {} \in SUBSET Attr
    OBVIOUS
  <2>2. CountUpTo(<<{}>> \o h, k + 1, a) = CountUpTo(h, k, a) + (IF a \in {} THEN 1 ELSE 0)
    BY <2>1, UpToOfPrepend
  <2>3. CountUpTo(h, k, a) \in Nat
    BY UpToType
  <2> QED BY <2>2, <2>3
<1> QED BY <1>1 DEF Recorded

\* The first value of every ring in e goes, and so does e.
Dropped(vals, e) == [a \in Attr |-> IF a \in e THEN Tail(vals[a]) ELSE vals[a]]

LEMMA DroppedFits ==
  ASSUME NEW vals \in Rings, NEW e \in SUBSET Attr,
         NEW result \in Rings, result = Dropped(vals, e),
         NEW h \in Seq(SUBSET Attr), Fits(vals, <<e>> \o h)
  PROVE  Fits(result, h)
<1>0. \A a \in Attr : result[a] = IF a \in e THEN Tail(vals[a]) ELSE vals[a]
  BY DEF Dropped
<1> USE <1>0
<1>1. <<e>> \o h \in Seq(SUBSET Attr) /\ Len(<<e>> \o h) = Len(h) + 1
  OBVIOUS
<1>2. ASSUME NEW a \in Attr
      PROVE  /\ Count(<<e>> \o h, a) = Count(h, a) + (IF a \in e THEN 1 ELSE 0)
             /\ Count(h, a) \in Nat
             /\ vals[a] \in Seq(Value) /\ RingMatches(vals[a], Count(<<e>> \o h, a))
  <2>1. Count(<<e>> \o h, a) = Count(h, a) + (IF a \in e THEN 1 ELSE 0)
    BY CountOfPrepend
  <2>2. Count(h, a) \in Nat
    BY CountType
  <2> QED BY <2>1, <2>2 DEF Fits, Rings
<1>3. ASSUME NEW a \in Attr PROVE RingMatches(result[a], Count(h, a))
  <2>1. CASE a \in e
    <3>1. vals[a] # <<>> /\ Len(vals[a]) = Count(h, a) + 2 /\ result[a] = Tail(vals[a])
      BY <1>2, <2>1 DEF RingMatches
    <3>2. Len(result[a]) = Count(h, a) + 1
      BY <1>2, <3>1
    <3> QED BY <1>2, <3>2 DEF RingMatches
  <2>2. CASE a \notin e
    BY <1>2, <2>2
  <2> QED BY <2>1, <2>2
<1> QED BY <1>3 DEF Fits

LEMMA DroppedDocs ==
  ASSUME NEW vals \in Rings, NEW store, NEW e \in SUBSET Attr,
         NEW result \in Rings, result = Dropped(vals, e),
         NEW h \in Seq(SUBSET Attr), Fits(vals, <<e>> \o h),
         NEW k \in 0..Len(h), NEW m, m = k + 1
  PROVE  Recorded(result, store, h, k) = Recorded(vals, store, <<e>> \o h, m)
<1>0. \A a \in Attr : result[a] = IF a \in e THEN Tail(vals[a]) ELSE vals[a]
  BY DEF Dropped
<1> USE <1>0
<1>1. <<e>> \o h \in Seq(SUBSET Attr) /\ Len(<<e>> \o h) = Len(h) + 1
  OBVIOUS
<1>2. ASSUME NEW a \in Attr
      PROVE  /\ Count(<<e>> \o h, a) = Count(h, a) + (IF a \in e THEN 1 ELSE 0)
             /\ Count(h, a) \in Nat
             /\ vals[a] \in Seq(Value) /\ RingMatches(vals[a], Count(<<e>> \o h, a))
  <2>1. Count(<<e>> \o h, a) = Count(h, a) + (IF a \in e THEN 1 ELSE 0)
    BY CountOfPrepend
  <2>2. Count(h, a) \in Nat
    BY CountType
  <2> QED BY <2>1, <2>2 DEF Fits, Rings
<1>4. ASSUME NEW a \in Attr
      PROVE  Entry(result[a], store[a], CountUpTo(h, k, a))
               = Entry(vals[a], store[a], CountUpTo(<<e>> \o h, k + 1, a))
  <2>1. /\ CountUpTo(<<e>> \o h, k + 1, a) = CountUpTo(h, k, a) + (IF a \in e THEN 1 ELSE 0)
        /\ CountUpTo(h, k, a) \in Nat /\ CountAfter(h, k, a) \in Nat
        /\ Count(h, a) = CountUpTo(h, k, a) + CountAfter(h, k, a)
    <3>1. CountUpTo(<<e>> \o h, k + 1, a) = CountUpTo(h, k, a) + (IF a \in e THEN 1 ELSE 0)
      BY UpToOfPrepend
    <3> QED BY <3>1, UpToType
  <2>2. CASE a \in e
    <3> DEFINE c == CountUpTo(h, k, a)
    <3>1. vals[a] # <<>> /\ Len(vals[a]) = Count(h, a) + 2 /\ result[a] = Tail(vals[a])
      BY <1>2, <2>2 DEF RingMatches
    <3>2. result[a] # <<>> /\ result[a][c + 1] = vals[a][c + 2]
      <4>1. c \in Nat /\ c + 1 \in 1..(Len(vals[a]) - 1)
        BY <1>2, <2>1, <3>1, SMTT(30)
      <4> HIDE DEF c
      <4> QED BY <1>2, <3>1, <4>1, SMTT(30)
    <3>3. CountUpTo(<<e>> \o h, k + 1, a) = c + 1
      BY <2>1, <2>2
    <3>4. c \in Nat /\ c + 1 # 0 /\ (c + 1) + 1 = c + 2
      BY <2>1
    <3> HIDE DEF c
    <3>5. Entry(vals[a], store[a], c + 1) = vals[a][c + 2]
      BY <3>4 DEF Entry
    <3>6. Entry(result[a], store[a], c) = result[a][c + 1]
      BY <3>2, <3>4 DEF Entry
    <3> QED BY <3>2, <3>3, <3>5, <3>6 DEF c
  <2>3. CASE a \notin e
    BY <2>1, <2>3
  <2> QED BY <2>2, <2>3
<1> QED BY <1>4 DEF Recorded

\* Two levels become one: what both had written loses its second value.
Joined(vals, e, f) ==
  [a \in Attr |-> IF a \in e \cap f THEN WithoutSecond(vals[a]) ELSE vals[a]]

Apart(e, f, h) == <<e>> \o (<<f>> \o h)
Together(e, f, h) == <<e \cup f>> \o h

LEMMA MergedDocs ==
  ASSUME NEW vals \in Rings, NEW store, NEW e \in SUBSET Attr, NEW f \in SUBSET Attr,
         NEW h \in Seq(SUBSET Attr), Fits(vals, Apart(e, f, h)),
         NEW m \in 1..(Len(h) + 1), NEW last \in Nat, last = m + 1
  PROVE  Recorded(Joined(vals, e, f), store, Together(e, f, h), m)
           = Recorded(vals, store, Apart(e, f, h), last)
<1> DEFINE result == Joined(vals, e, f)
           k == m - 1
<1>k. k \in 0..Len(h) /\ m = k + 1
  OBVIOUS
<1> USE <1>k
<1> HIDE DEF k, result
<1>0. \A a \in Attr : result[a] = IF a \in e \cap f THEN WithoutSecond(vals[a]) ELSE vals[a]
  BY DEF Joined, result
<1> USE <1>0
<1> DEFINE g == <<f>> \o h
           c(a) == CountUpTo(h, k, a)
<1>1. g \in Seq(SUBSET Attr) /\ Len(g) = Len(h) + 1 /\ m \in 0..Len(g) /\ e \cup f \in SUBSET Attr
  OBVIOUS
<1>2. ASSUME NEW a \in Attr
      PROVE  /\ CountUpTo(<<e \cup f>> \o h, m, a) = c(a) + (IF a \in e \cup f THEN 1 ELSE 0)
             /\ CountUpTo(g, m, a) = c(a) + (IF a \in f THEN 1 ELSE 0)
             /\ CountUpTo(<<e>> \o g, last, a) = CountUpTo(g, m, a) + (IF a \in e THEN 1 ELSE 0)
  <2>1. CountUpTo(<<e \cup f>> \o h, m, a) = c(a) + (IF a \in e \cup f THEN 1 ELSE 0)
    BY <1>1, UpToOfPrepend
  <2>2. CountUpTo(g, m, a) = c(a) + (IF a \in f THEN 1 ELSE 0)
    BY UpToOfPrepend
  <2> HIDE DEF g
  <2>3. CountUpTo(<<e>> \o g, last, a) = CountUpTo(g, m, a) + (IF a \in e THEN 1 ELSE 0)
    <3>1. ASSUME NEW n \in 0..Len(g), NEW o, o = n + 1
          PROVE  CountUpTo(<<e>> \o g, o, a) = CountUpTo(g, n, a) + (IF a \in e THEN 1 ELSE 0)
      BY <1>1, <3>1, UpToOfPrepend
    <3> QED BY <1>1, <3>1
  <2> QED BY <2>1, <2>2, <2>3
<1>3. ASSUME NEW a \in Attr
      PROVE  /\ c(a) \in Nat /\ CountAfter(h, k, a) \in Nat /\ Count(h, a) = c(a) + CountAfter(h, k, a)
  BY UpToType
<1>4. ASSUME NEW a \in Attr
      PROVE  /\ Count(<<e>> \o g, a) = Count(g, a) + (IF a \in e THEN 1 ELSE 0)
             /\ Count(g, a) = Count(h, a) + (IF a \in f THEN 1 ELSE 0)
  <2>1. Count(g, a) = Count(h, a) + (IF a \in f THEN 1 ELSE 0)
    BY CountOfPrepend
  <2> HIDE DEF g
  <2>2. Count(<<e>> \o g, a) = Count(g, a) + (IF a \in e THEN 1 ELSE 0)
    BY <1>1, CountOfPrepend
  <2> QED BY <2>1, <2>2
<1>5. \A a \in Attr : vals[a] \in Seq(Value) /\ RingMatches(vals[a], Count(<<e>> \o g, a))
  BY DEF Fits, Rings, Apart
<1> HIDE DEF g, c
<1>6. ASSUME NEW a \in e \cap f
      PROVE  /\ result[a] # <<>> /\ vals[a] # <<>>
             /\ result[a][1] = vals[a][1]
             /\ result[a][c(a) + 2] = vals[a][c(a) + 3]
  <2>1. a \in Attr /\ result[a] = WithoutSecond(vals[a])
    OBVIOUS
  <2>2. Len(vals[a]) = Count(h, a) + 3 /\ Count(h, a) \in Nat
    <3>1. Count(<<e>> \o g, a) = Count(h, a) + 2 /\ Count(h, a) \in Nat
      BY <1>3, <1>4, <2>1
    <3>2. vals[a] \in Seq(Value) /\ RingMatches(vals[a], Count(<<e>> \o g, a))
      BY <1>5, <2>1
    <3> QED BY <3>1, <3>2 DEF RingMatches
  <2>3. c(a) \in Nat /\ c(a) + 3 <= Len(vals[a])
    BY <1>3, <2>1, <2>2
  <2> DEFINE ring == vals[a]
             n == c(a)
  <2>4. ring \in Seq(Value) /\ n \in Nat /\ n + 3 <= Len(ring)
    BY <1>5, <2>1, <2>3
  <2> HIDE DEF ring, n
  <2>5. /\ WithoutSecond(ring) # <<>> /\ ring # <<>>
        /\ WithoutSecond(ring)[1] = ring[1]
        /\ WithoutSecond(ring)[n + 2] = ring[n + 3]
    BY <2>4, SMTT(30) DEF WithoutSecond
  <2> QED BY <2>1, <2>5 DEF ring, n
<1>7. ASSUME NEW a \in Attr
      PROVE  Entry(result[a], store[a], CountUpTo(<<e \cup f>> \o h, m, a))
               = Entry(vals[a], store[a], CountUpTo(<<e>> \o g, last, a))
  <2>1. CASE a \in e \cap f
    <3>1. /\ CountUpTo(<<e \cup f>> \o h, m, a) = c(a) + 1
          /\ CountUpTo(<<e>> \o g, last, a) = c(a) + 2
      <4>1. /\ CountUpTo(<<e \cup f>> \o h, m, a) = c(a) + (IF a \in e \cup f THEN 1 ELSE 0)
            /\ CountUpTo(g, m, a) = c(a) + (IF a \in f THEN 1 ELSE 0)
            /\ CountUpTo(<<e>> \o g, last, a) = CountUpTo(g, m, a) + (IF a \in e THEN 1 ELSE 0)
        BY <1>2
      <4>2. c(a) \in Nat /\ a \in e /\ a \in f /\ a \in e \cup f
        BY <1>3, <2>1
      <4> QED BY <4>1, <4>2
    <3>2. /\ c(a) + 1 # 0 /\ c(a) + 2 # 0
          /\ (c(a) + 1) + 1 = c(a) + 2 /\ (c(a) + 2) + 1 = c(a) + 3
      BY <1>3
    <3>3. /\ Entry(result[a], store[a], c(a) + 1) = result[a][c(a) + 2]
          /\ Entry(vals[a], store[a], c(a) + 2) = vals[a][c(a) + 3]
      BY <3>2 DEF Entry
    <3> QED BY <1>6, <2>1, <3>1, <3>3
  <2>2. CASE a \notin e \cap f
    <3>1. CountUpTo(<<e \cup f>> \o h, m, a) = CountUpTo(<<e>> \o g, last, a)
      <4>1. /\ CountUpTo(<<e \cup f>> \o h, m, a) = c(a) + (IF a \in e \cup f THEN 1 ELSE 0)
            /\ CountUpTo(g, m, a) = c(a) + (IF a \in f THEN 1 ELSE 0)
            /\ CountUpTo(<<e>> \o g, last, a) = CountUpTo(g, m, a) + (IF a \in e THEN 1 ELSE 0)
        BY <1>2
      <4>2. c(a) \in Nat
        BY <1>3
      <4> QED BY <4>1, <4>2, <2>2
    <3>2. result[a] = vals[a]
      BY <2>2
    <3> QED BY <3>1, <3>2
  <2> QED BY <2>1, <2>2
<1> QED BY <1>7 DEF Recorded, g, result, Apart, Together

LEMMA MergedNow ==
  ASSUME NEW vals \in Rings, NEW store, NEW e, NEW f,
         \A a \in Attr : a \in e \cap f => Len(vals[a]) >= 2, NEW a \in Attr
  PROVE  Entry(Joined(vals, e, f)[a], store[a], 0) = Entry(vals[a], store[a], 0)
<1>1. CASE a \in e \cap f
  <2> DEFINE ring == vals[a]
  <2>1. ring \in Seq(Value) /\ Len(ring) >= 2
    BY <1>1 DEF Rings
  <2> HIDE DEF ring
  <2>2. WithoutSecond(ring) # <<>> /\ WithoutSecond(ring)[1] = ring[1] /\ ring # <<>>
    BY <2>1 DEF WithoutSecond
  <2>3. Joined(vals, e, f)[a] = WithoutSecond(ring)
    BY <1>1 DEF Joined, ring
  <2> QED BY <2>2, <2>3 DEF Entry, ring
<1>2. CASE a \notin e \cap f
  BY <1>2 DEF Joined
<1> QED BY <1>1, <1>2

\* The steps after the n-th are discarded, with the last values of the rings.
Shortened(vals, h, n) ==
  [a \in Attr |-> SubSeq(vals[a], 1, Len(vals[a]) - CountAfter(h, n, a))]

LEMMA ShortenedDocs ==
  ASSUME NEW vals \in Rings, NEW store, NEW h \in Seq(SUBSET Attr), Fits(vals, h),
         NEW n \in 0..Len(h), NEW k \in 0..n
  PROVE  /\ Recorded(Shortened(vals, h, n), store, SubSeq(h, 1, n), k) = Recorded(vals, store, h, k)
         /\ Fits(Shortened(vals, h, n), SubSeq(h, 1, n))
         /\ Shortened(vals, h, n) \in Rings
<1> DEFINE result == Shortened(vals, h, n)
<1>a. /\ result = [a \in Attr |-> result[a]]
      /\ \A a \in Attr : result[a] = SubSeq(vals[a], 1, Len(vals[a]) - CountAfter(h, n, a))
  BY DEF Shortened
<1> HIDE DEF result
<1>0. k \in 0..Len(h)
  OBVIOUS
<1>1. ASSUME NEW a \in Attr
      PROVE  /\ CountUpTo(SubSeq(h, 1, n), k, a) = CountUpTo(h, k, a)
             /\ CountUpTo(h, k, a) \in Nat
             /\ CountUpTo(h, k, a) <= CountUpTo(h, n, a)
             /\ CountUpTo(h, n, a) = Count(SubSeq(h, 1, n), a)
             /\ CountUpTo(h, n, a) \in Nat /\ CountAfter(h, n, a) \in Nat
             /\ Count(h, a) = CountUpTo(h, n, a) + CountAfter(h, n, a)
  <2>1. CountUpTo(SubSeq(h, 1, n), k, a) = CountUpTo(h, k, a)
    BY UpToOfPrefix
  <2>2. CountUpTo(h, k, a) \in Nat
    BY <1>0, UpToType
  <2>3. /\ CountUpTo(h, n, a) \in Nat /\ CountAfter(h, n, a) \in Nat
        /\ Count(h, a) = CountUpTo(h, n, a) + CountAfter(h, n, a)
    BY UpToType
  <2>4. CountUpTo(h, k, a) <= CountUpTo(h, n, a)
    BY UpToGrows
  <2> QED BY <2>1, <2>2, <2>3, <2>4 DEF CountUpTo
<1>2. ASSUME NEW a \in Attr
      PROVE  /\ result[a] \in Seq(Value)
             /\ vals[a] = <<>> => result[a] = <<>> /\ CountUpTo(h, n, a) = 0
             /\ vals[a] # <<>> => /\ Len(result[a]) = CountUpTo(h, n, a) + 1
                                 /\ \A i \in 1..(CountUpTo(h, n, a) + 1) : result[a][i] = vals[a][i]
  <2>1. vals[a] \in Seq(Value) /\ RingMatches(vals[a], Count(h, a))
    BY DEF Fits, Rings
  <2>2. result[a] = SubSeq(vals[a], 1, Len(vals[a]) - CountAfter(h, n, a))
    BY <1>a
  <2>3. CASE vals[a] = <<>>
    <3>1. Count(h, a) = 0
      BY <2>1, <2>3 DEF RingMatches
    <3>2. CountUpTo(h, n, a) = 0 /\ CountAfter(h, n, a) = 0
      BY <1>1, <3>1
    <3>3. SubSeq(<<>>, 1, 0 - 0) = <<>> /\ Len(<<>>) = 0 /\ <<>> \in Seq(Value)
      OBVIOUS
    <3> QED BY <2>2, <2>3, <3>2, <3>3
  <2>4. CASE vals[a] # <<>>
    <3>1. Len(vals[a]) = 1 + Count(h, a)
      BY <2>1, <2>4 DEF RingMatches
    <3>2. /\ Len(vals[a]) - CountAfter(h, n, a) = CountUpTo(h, n, a) + 1
          /\ CountUpTo(h, n, a) + 1 \in 0..Len(vals[a])
      BY <1>1, <3>1
    <3>3. result[a] = SubSeq(vals[a], 1, CountUpTo(h, n, a) + 1)
      BY <2>2, <3>2
    <3> QED BY <2>1, <2>4, <3>2, <3>3, PrefixFacts
  <2> QED BY <2>3, <2>4
<1>3. result \in Rings
  BY <1>a, <1>2 DEF Rings
<1>4. ASSUME NEW a \in Attr PROVE RingMatches(result[a], Count(SubSeq(h, 1, n), a))
  <2>1. CASE vals[a] = <<>>
    BY <1>1, <1>2, <2>1 DEF RingMatches
  <2>2. CASE vals[a] # <<>>
    <3>1. Len(result[a]) = 1 + CountUpTo(h, n, a) /\ result[a] # <<>>
      BY <1>1, <1>2, <2>2
    <3> QED BY <1>1, <3>1 DEF RingMatches
  <2> QED BY <2>1, <2>2
<1>5. ASSUME NEW a \in Attr
      PROVE  Entry(result[a], store[a], CountUpTo(h, k, a)) = Entry(vals[a], store[a], CountUpTo(h, k, a))
  <2>1. CASE vals[a] = <<>>
    BY <1>2, <2>1
  <2>2. CASE vals[a] # <<>>
    <3>1. result[a] # <<>>
      BY <1>1, <1>2, <2>2
    <3>2. /\ 1 \in 1..(CountUpTo(h, n, a) + 1)
          /\ CountUpTo(h, k, a) + 1 \in 1..(CountUpTo(h, n, a) + 1)
      BY <1>1
    <3>3. result[a][1] = vals[a][1] /\ result[a][CountUpTo(h, k, a) + 1] = vals[a][CountUpTo(h, k, a) + 1]
      BY <1>2, <2>2, <3>2
    <3> QED BY <2>2, <3>1, <3>3 DEF Entry
  <2> QED BY <2>1, <2>2
<1>6. \A a \in Attr : CountUpTo(SubSeq(h, 1, n), k, a) = CountUpTo(h, k, a)
  BY <1>1
<1> QED BY <1>3, <1>4, <1>5, <1>6 DEF Fits, Recorded, result


\* Loading changes no document.
LEMMA LoadedDocs ==
  ASSUME NEW vals \in Rings, NEW result, NEW store \in [Attr -> Value],
         NEW h \in Seq(SUBSET Attr), Fits(vals, h),
         \A a \in Attr : result[a] = vals[a] \/ (vals[a] = <<>> /\ result[a] = <<store[a]>>),
         NEW k \in 0..Len(h)
  PROVE  Recorded(result, store, h, k) = Recorded(vals, store, h, k) /\ Fits(result, h)
<1> SUFFICES ASSUME NEW a \in Attr
             PROVE  /\ Entry(result[a], store[a], CountUpTo(h, k, a))
                          = Entry(vals[a], store[a], CountUpTo(h, k, a))
                    /\ RingMatches(result[a], Count(h, a))
  BY DEF Recorded, Fits
<1>1. CASE result[a] = vals[a]
  BY <1>1 DEF Fits
<1>2. CASE vals[a] = <<>> /\ result[a] = <<store[a]>>
  <2>1. CountUpTo(h, k, a) = 0
    BY <1>2, EntryIsThere
  <2>2. <<store[a]>> # <<>> /\ <<store[a]>>[1] = store[a] /\ Len(<<store[a]>>) = 1
    OBVIOUS
  <2>3. Count(h, a) = 0
    BY <1>2 DEF Fits, RingMatches
  <2>4. RingMatches(result[a], Count(h, a))
    BY <1>2, <2>2, <2>3 DEF RingMatches
  <2> QED BY <1>2, <2>1, <2>2, <2>4 DEF Entry
<1> QED BY <1>1, <1>2

\* The first write of a level adds a value and registers the attribute.
Inserted(vals, x, v) == [a \in Attr |-> IF a = x THEN <<v>> \o vals[a] ELSE vals[a]]

LEMMA InsertedDocs ==
  ASSUME NEW vals \in Rings, NEW store, NEW e \in SUBSET Attr,
         NEW h \in Seq(SUBSET Attr), Fits(vals, <<e>> \o h),
         NEW x \in Attr, x \notin e, vals[x] # <<>>, NEW v \in Value,
         NEW k \in 0..Len(h), NEW m, m = k + 1
  PROVE  Recorded(Inserted(vals, x, v), store, <<e \cup {x}>> \o h, m) = Recorded(vals, store, <<e>> \o h, m)
<1> DEFINE result == Inserted(vals, x, v)
<1>0. \A a \in Attr : result[a] = IF a = x THEN <<v>> \o vals[a] ELSE vals[a]
  BY DEF Inserted
<1> HIDE DEF result
<1> SUFFICES ASSUME NEW a \in Attr
             PROVE  Entry(result[a], store[a], CountUpTo(<<e \cup {x}>> \o h, k + 1, a))
                      = Entry(vals[a], store[a], CountUpTo(<<e>> \o h, k + 1, a))
  BY DEF Recorded, result
<1> DEFINE c == CountUpTo(h, k, a)
<1>1. CountUpTo(<<e>> \o h, k + 1, a) = c + (IF a \in e THEN 1 ELSE 0)
  BY UpToOfPrepend
<1>2. CountUpTo(<<e \cup {x}>> \o h, k + 1, a) = c + (IF a \in e \cup {x} THEN 1 ELSE 0)
  <2>1. e \cup {x} \in SUBSET Attr
    OBVIOUS
  <2> QED BY <2>1, UpToOfPrepend
<1>3. c \in Nat
  BY UpToType
<1>4. CASE a # x
  <2>1. result[a] = vals[a]
    BY <1>0, <1>4
  <2>2. CountUpTo(<<e>> \o h, k + 1, a) = CountUpTo(<<e \cup {x}>> \o h, k + 1, a)
    BY <1>1, <1>2, <1>4
  <2> QED BY <2>1, <2>2
<1>5. CASE a = x
  <2>1. CountUpTo(<<e>> \o h, k + 1, a) = c /\ CountUpTo(<<e \cup {x}>> \o h, k + 1, a) = c + 1
    BY <1>1, <1>2, <1>3, <1>5
  <2>2. result[x] = <<v>> \o vals[x] /\ vals[x] \in Seq(Value) /\ vals[x] # <<>>
    BY <1>0 DEF Rings
  <2>3. Len(vals[x]) = 1 + Count(<<e>> \o h, x)
    BY <2>2 DEF Fits, RingMatches
  <2>4. c + 1 \in 1..Len(vals[x])
    <3>1. <<e>> \o h \in Seq(SUBSET Attr) /\ k + 1 \in 0..Len(<<e>> \o h)
      OBVIOUS
    <3> DEFINE t == <<e>> \o h
    <3> HIDE DEF t
    <3>2. CountUpTo(t, m, x) \in Nat /\ CountUpTo(t, m, x) <= Count(t, x) /\ Count(t, x) \in Nat
      <4>1. t \in Seq(SUBSET Attr) /\ m \in 0..Len(t) /\ Fits(vals, t)
        BY <3>1 DEF t
      <4> QED BY <4>1, EntryIsThere
    <3>3. CountUpTo(t, m, x) = c /\ Len(vals[x]) = 1 + Count(t, x)
      BY <1>5, <2>1, <2>3 DEF t
    <3> HIDE DEF c
    <3> QED BY <3>2, <3>3
  <2>5. result[x][c + 2] = vals[x][c + 1] /\ result[x] # <<>>
    <3> HIDE DEF c
    <3> QED BY <1>3, <2>2, <2>4
  <2> HIDE DEF c
  <2>6. c + 1 # 0 /\ (c + 1) + 1 = c + 2
    BY <1>3
  <2>7. Entry(result[x], store[x], c + 1) = result[x][c + 2]
    BY <2>6 DEF Entry
  <2>8. Entry(vals[x], store[x], c) = vals[x][c + 1]
    BY <1>3, <2>2 DEF Entry
  <2> QED BY <1>5, <2>1, <2>5, <2>7, <2>8
<1> QED BY <1>4, <1>5

\* Every later write of the level replaces the first value.
Overwritten(vals, x, v) == [a \in Attr |-> IF a = x THEN <<v>> \o Tail(vals[a]) ELSE vals[a]]

LEMMA OverwrittenDocs ==
  ASSUME NEW vals \in Rings, NEW store, NEW e \in SUBSET Attr,
         NEW h \in Seq(SUBSET Attr), Fits(vals, <<e>> \o h), NEW x \in e, NEW v \in Value,
         NEW k \in 0..Len(h), NEW m, m = k + 1
  PROVE  Recorded(Overwritten(vals, x, v), store, <<e>> \o h, m) = Recorded(vals, store, <<e>> \o h, m)
<1> DEFINE result == Overwritten(vals, x, v)
<1>0. \A a \in Attr : result[a] = IF a = x THEN <<v>> \o Tail(vals[a]) ELSE vals[a]
  BY DEF Overwritten
<1> HIDE DEF result
<1> SUFFICES ASSUME NEW a \in Attr, a = x
             PROVE  Entry(result[a], store[a], CountUpTo(<<e>> \o h, k + 1, a))
                      = Entry(vals[a], store[a], CountUpTo(<<e>> \o h, k + 1, a))
  BY <1>0 DEF Recorded, result
<1> DEFINE c == CountUpTo(h, k, a)
<1>1. CountUpTo(<<e>> \o h, k + 1, a) = c + (IF a \in e THEN 1 ELSE 0)
  BY UpToOfPrepend
<1>2. CountUpTo(<<e>> \o h, k + 1, a) = c + 1
  BY <1>1
<1>3. c \in Nat /\ CountAfter(h, k, a) \in Nat /\ Count(h, a) = c + CountAfter(h, k, a)
  BY UpToType
<1>4. Count(<<e>> \o h, a) = Count(h, a) + 1
  BY CountOfPrepend
<1>5. vals[a] \in Seq(Value) /\ Len(vals[a]) = Count(h, a) + 2 /\ result[a] = <<v>> \o Tail(vals[a])
  <2>1. vals[a] \in Seq(Value)
    BY DEF Rings
  <2>2. RingMatches(vals[a], Count(h, a) + 1) /\ Count(h, a) \in Nat
    BY <1>3, <1>4 DEF Fits
  <2>3. Len(vals[a]) = Count(h, a) + 2
    BY <2>2 DEF RingMatches
  <2>4. result[a] = <<v>> \o Tail(vals[a])
    BY <1>0
  <2> QED BY <2>1, <2>3, <2>4
<1> HIDE DEF c
<1>6. result[a][c + 2] = vals[a][c + 2]
  <2> DEFINE ring == vals[a]
  <2>1. ring \in Seq(Value) /\ c \in Nat /\ c + 2 \in 2..Len(ring)
    BY <1>3, <1>5
  <2> HIDE DEF ring
  <2>2. (<<v>> \o Tail(ring))[c + 2] = ring[c + 2]
    <3>1. ring # <<>> /\ Tail(ring) \in Seq(Value) /\ Len(Tail(ring)) = Len(ring) - 1
          /\ Tail(ring)[c + 1] = ring[c + 2]
      BY <2>1
    <3>2. (<<v>> \o Tail(ring))[c + 2] = Tail(ring)[c + 1]
      BY <2>1, <3>1
    <3> QED BY <3>1, <3>2
  <2> QED BY <1>5, <2>2 DEF ring
<1>7. c + 1 # 0 /\ (c + 1) + 1 = c + 2
  BY <1>3
<1>8. /\ Entry(result[a], store[a], c + 1) = result[a][c + 2]
      /\ Entry(vals[a], store[a], c + 1) = vals[a][c + 2]
  BY <1>7 DEF Entry
<1> QED BY <1>2, <1>6, <1>8

\* The step in front goes to the end, and so does the first value of the
\* rings it touched.
Turned(vals, e) == [a \in Attr |-> IF a \in e THEN RotateLeft(vals[a]) ELSE vals[a]]

SameOutside(stored, store, e) == \A a \in Attr : a \notin e => stored[a] = store[a]

LEMMA TurnedDocs ==
  ASSUME NEW vals \in Rings, NEW store, NEW stored, NEW e \in SUBSET Attr,
         NEW result, result = Turned(vals, e), SameOutside(stored, store, e),
         NEW h \in Seq(SUBSET Attr), Fits(vals, <<e>> \o h),
         NEW k \in 0..Len(h), NEW m, m = k + 1
  PROVE  Recorded(result, stored, h \o <<e>>, k) = Recorded(vals, store, <<e>> \o h, m)
<1>0. /\ \A a \in Attr : result[a] = IF a \in e THEN RotateLeft(vals[a]) ELSE vals[a]
      /\ \A a \in Attr : a \notin e => stored[a] = store[a]
  BY DEF Turned, SameOutside
<1> USE <1>0
<1> SUFFICES ASSUME NEW a \in Attr
             PROVE  Entry(result[a], stored[a], CountUpTo(h \o <<e>>, k, a))
                      = Entry(vals[a], store[a], CountUpTo(<<e>> \o h, k + 1, a))
  BY DEF Recorded
<1> DEFINE c == CountUpTo(h, k, a)
<1>1. CountUpTo(<<e>> \o h, k + 1, a) = c + (IF a \in e THEN 1 ELSE 0)
  BY UpToOfPrepend
<1>2. CountUpTo(h \o <<e>>, k, a) = c
  <2>1. <<e>> \in Seq(SUBSET Attr)
    OBVIOUS
  <2> QED BY <2>1, UpToInFirst
<1>3. c \in Nat /\ CountAfter(h, k, a) \in Nat /\ Count(h, a) = c + CountAfter(h, k, a)
  BY UpToType
<1>4. CASE a \notin e
  <2>1. result[a] = vals[a] /\ stored[a] = store[a]
    BY <1>4
  <2> QED BY <1>1, <1>2, <1>3, <1>4, <2>1
<1>5. CASE a \in e
  <2>1. CountUpTo(<<e>> \o h, k + 1, a) = c + 1
    BY <1>1, <1>5
  <2>2. Count(<<e>> \o h, a) = Count(h, a) + 1
    BY <1>5, CountOfPrepend
  <2>3. vals[a] \in Seq(Value) /\ vals[a] # <<>> /\ Len(vals[a]) = Count(h, a) + 2
    BY <1>3, <2>2 DEF Fits, Rings, RingMatches
  <2> HIDE DEF c
  <2>4. c + 2 \in 2..Len(vals[a])
    BY <1>3, <2>3
  <2>5. result[a] = RotateLeft(vals[a])
    BY <1>5
  <2>6. result[a] # <<>> /\ result[a][c + 1] = vals[a][c + 2]
    <3> DEFINE ring == vals[a]
    <3>1. ring \in Seq(Value) /\ c \in Nat /\ c + 2 \in 2..Len(ring) /\ ring # <<>>
      BY <1>3, <2>3, <2>4
    <3> HIDE DEF ring
    <3>2. /\ Tail(ring) \in Seq(Value) /\ Len(Tail(ring)) = Len(ring) - 1
          /\ Tail(ring)[c + 1] = ring[c + 2] /\ ring[1] \in Value
      BY <3>1
    <3>3. RotateLeft(ring) # <<>> /\ RotateLeft(ring)[c + 1] = ring[c + 2]
      BY <3>1, <3>2 DEF RotateLeft
    <3> QED BY <2>5, <3>3 DEF ring
  <2>7. c + 1 # 0 /\ (c + 1) + 1 = c + 2
    BY <1>3
  <2>8. Entry(vals[a], store[a], c + 1) = vals[a][c + 2]
    BY <2>7 DEF Entry
  <2>9. Entry(result[a], stored[a], c) = result[a][c + 1]
    BY <1>3, <2>6 DEF Entry
  <2> QED BY <1>2, <2>1, <2>6, <2>8, <2>9 DEF c
<1> QED BY <1>4, <1>5


LEMMA NewMapping ==
  ASSUME IInv'
  PROVE  /\ DocNow' = NewDoc(0)
         /\ Saved' = [k \in 1..Len(transactions') |->
                        [doc |-> NewDoc(k), readonly |-> transactions'[k].readonly]]
         /\ Past' = [k \in 1..Alive' |-> NewDoc(Len(transactions') + k)]
         /\ StorageIsCommitted' <=> \A a \in Attr : storage'[a] = NewDoc(Len(transactions'))[a]
<1>1. MapOK' /\ StoredOK'
  BY Mapping DEF MappingOK
<1>2. /\ DocNow' = NewDoc(0)
      /\ Saved' = [k \in 1..Len(transactions') |->
                     [doc |-> NewDoc(k), readonly |-> transactions'[k].readonly]]
  BY <1>1 DEF MapOK, Doc, NewDoc
<1>3. Past' = [k \in 1..Alive' |-> NewDoc(Len(transactions') + k)]
  BY <1>1 DEF MapOK, Doc, NewDoc
<1>4. StorageIsCommitted' <=> \A a \in Attr : storage'[a] = NewDoc(Len(transactions'))[a]
  BY <1>1 DEF StoredOK, Doc, NewDoc
<1> QED BY <1>2, <1>3, <1>4

LEMMA FirstDoc ==
  ASSUME NEW vals, NEW store, NEW h \in Seq(SUBSET Attr)
  PROVE  Recorded(vals, store, h, 0) = [a \in Attr |-> Entry(vals[a], store[a], 0)]
<1>1. \A a \in Attr : CountUpTo(h, 0, a) = 0
  BY UpToEnds
<1> QED BY <1>1 DEF Recorded

-----------------------------------------------------------------------------
(* Sequences written as functions *)

IsList(f, n) == f = [k \in 1..n |-> f[k]]

Front(g) == <<g[1]>>

LEMMA FrontAndTail ==
  ASSUME NEW n \in Nat \ {0}, NEW g, IsList(g, n)
  PROVE  Front(g) \o Tail(g) = g
<1> DEFINE S == {g[k] : k \in 1..n}
<1>1. g \in [1..n -> S]
  BY DEF IsList
<1> HIDE DEF S
<1>2. g \in Seq(S) /\ Len(g) = n
  BY <1>1
<1> QED BY <1>2 DEF Front

LEMMA Prepended ==
  ASSUME NEW n \in Nat, NEW m, m = n + 1, NEW f, NEW g, IsList(f, n), IsList(g, m),
         \A k \in 1..n : g[k + 1] = f[k]
  PROVE  /\ f = Tail(g)
         /\ Len(g) = n + 1 /\ Len(f) = n
<1> DEFINE S == {g[k] : k \in 1..(n + 1)}
<1>0. f = [k \in 1..n |-> f[k]] /\ g = [k \in 1..(n + 1) |-> g[k]]
  BY DEF IsList
<1>1. g \in [1..(n + 1) -> S]
  BY <1>0
<1>2. g \in Seq(S) /\ Len(g) = n + 1
  <2> HIDE DEF S
  <2> QED BY <1>1
<1>3. f \in [1..n -> S]
  <2>1. \A k \in 1..n : f[k] \in S
    <3>1. ASSUME NEW k \in 1..n PROVE g[k + 1] \in S
      <4>1. k + 1 \in 1..(n + 1)
        OBVIOUS
      <4> QED BY <4>1
    <3> QED BY <3>1
  <2> HIDE DEF S
  <2> QED BY <1>0, <2>1
<1>4. f \in Seq(S) /\ Len(f) = n
  <2> HIDE DEF S
  <2> QED BY <1>3
<1>5. g[1] \in S
  OBVIOUS
<1> HIDE DEF S
<1>6. Tail(g) \in Seq(S) /\ Len(Tail(g)) = n /\ \A k \in 1..n : Tail(g)[k] = g[k + 1]
  <2>1. g # <<>>
    BY <1>2
  <2> QED BY <1>2, <2>1, TailFacts
<1>7. Tail(g) = f
  BY <1>4, <1>6, SeqEqual
<1> QED BY <1>2, <1>4, <1>7

LEMMA Prefixed ==
  ASSUME NEW n \in Nat, NEW m \in 0..n, NEW f, NEW g,
         IsList(f, n), IsList(g, m), \A k \in 1..m : g[k] = f[k]
  PROVE  g = SubSeq(f, 1, m) /\ Len(f) = n /\ Len(g) = m
<1> DEFINE S == {f[k] : k \in 1..n}
<1>1. f \in [1..n -> S] /\ g \in [1..m -> S]
  <2>1. \A k \in 1..m : k \in 1..n
    OBVIOUS
  <2> QED BY <2>1 DEF IsList
<1> HIDE DEF S
<1>2. f \in Seq(S) /\ Len(f) = n /\ g \in Seq(S) /\ Len(g) = m
  BY <1>1
<1>3. SubSeq(f, 1, m) \in Seq(S) /\ Len(SubSeq(f, 1, m)) = m /\ \A k \in 1..m : SubSeq(f, 1, m)[k] = f[k]
  BY <1>2, PrefixFacts
<1>4. g = SubSeq(f, 1, m)
  <2>1. \A k \in 1..m : g[k] = SubSeq(f, 1, m)[k]
    BY <1>3
  <2> QED BY <1>2, <1>3, <2>1, SeqEqual
<1> QED BY <1>2, <1>4

LEMMA NoneListed ==
  ASSUME NEW f, IsList(f, 0) PROVE f = <<>>
<1>1. f \in [1..0 -> {}]
  BY DEF IsList
<1>2. f \in Seq({}) /\ Len(f) = 0
  BY <1>1
<1> QED BY <1>2

LEMMA ListedLen ==
  ASSUME NEW n \in Nat, NEW f, IsList(f, n)
  PROVE  Len(f) = n /\ (f = <<>> <=> n = 0)
<1> DEFINE S == {f[k] : k \in 1..n}
<1>1. f \in [1..n -> S]
  BY DEF IsList
<1> HIDE DEF S
<1>2. f \in Seq(S) /\ Len(f) = n
  BY <1>1
<1> QED BY <1>2

-----------------------------------------------------------------------------
(* What redo returns to *)

LEMMA NoFuture ==
  (redo_count = 0 => Future = <<>>) /\ (redo_count' = 0 => Future' = <<>>)
<1>1. IsList(Future, redo_count)
  BY DEF Future, IsList
<1>2. redo_count = 0 => Future = <<>>
  BY <1>1, NoneListed
<1>3. (redo_count = 0 => Future = <<>>)'
  BY <1>2, PTL
<1> QED BY <1>2, <1>3

LEMMA FutureStays ==
  ASSUME Steps \in Seq(SUBSET Attr), redo_count \in 0..Len(Steps),
         Steps' = Steps, redo_count' = redo_count,
         \A a \in Attr : Current(a)' = Current(a),
         \A i \in 1..Len(Steps), a \in Attr : a \in Steps[i] => values'[a] = values[a]
  PROVE  Future' = Future
<1> SUFFICES ASSUME NEW k \in 1..redo_count PROVE DocFuture(k)' = DocFuture(k)
  BY DEF Future
<1> DEFINE m == Len(Steps) - k + 1
           n(a) == TouchedBy(a, m, Len(Steps))
<1>1. m \in 1..Len(Steps)
  OBVIOUS
<1>2. \A a \in Attr : n(a)' = n(a)
  BY DEF TouchedBy
<1>3. DocFuture(k) = [a \in Attr |-> IF n(a) = 0 THEN Current(a) ELSE values[a][Len(values[a]) - n(a) + 1]]
  BY DEF DocFuture
<1>4. DocFuture(k)' = [a \in Attr |-> IF n(a)' = 0 THEN Current(a)'
                                     ELSE values'[a][Len(values'[a]) - n(a)' + 1]]
  BY DEF DocFuture
<1>5. ASSUME NEW a \in Attr, n(a) # 0 PROVE values'[a] = values[a]
  <2>1. {i \in m..Len(Steps) : a \in Steps[i]} # {}
    BY <1>5, FS_EmptySet DEF TouchedBy
  <2>2. PICK i \in m..Len(Steps) : a \in Steps[i]
    BY <2>1
  <2>3. i \in 1..Len(Steps)
    BY <1>1
  <2> QED BY <2>2, <2>3
<1> HIDE DEF n, m
<1> QED BY <1>2, <1>3, <1>4, <1>5


-----------------------------------------------------------------------------
(* Beginning a transaction *)

LEMMA IdleHistory ==
  ASSUME IInv, ~InTransaction
  PROVE  /\ transactions = <<>> /\ Len(transactions) = 0
         /\ Steps = undos /\ History = undos /\ undos \in Seq(SUBSET Attr)
         /\ Fits(values, undos) /\ values \in Rings
         /\ StorageIsCommitted => \A a \in Attr : storage[a] = Doc(0)[a]
<1>1. transactions = <<>> /\ Len(transactions) = 0 /\ Steps = undos
  BY Idle DEF Steps
<1>2. HistoryOK /\ StoredOK
  BY Mapping DEF MappingOK
<1>3. Items(transactions) = <<>>
  BY <1>1, <1>2 DEF HistoryOK
<1>4. History = undos
  BY <1>1, <1>2, <1>3 DEF History, HistoryOK
<1> QED BY <1>1, <1>2, <1>4, Consequences DEF HistoryOK, StoredOK

LEMMA DiscardedDocs ==
  ASSUME IInv, StorageIsCommitted, ~InTransaction, NEW n \in 0..Len(undos), NEW k \in 0..n
  PROVE  Recorded(ControlLockGroup(DropLast(n), {}), storage, SubSeq(undos, 1, n), k) = Doc(k)
<1> DEFINE kept == SubSeq(undos, 1, n)
           vals == DropLast(n)
<1>1. /\ History = undos /\ undos \in Seq(SUBSET Attr) /\ Fits(values, undos) /\ values \in Rings
      /\ \A a \in Attr : storage[a] = Doc(0)[a]
  BY IdleHistory
<1>2. vals = Shortened(values, undos, n)
  BY DEF DropLast, StepsAfter, CountAfter, OccursAfter, Shortened
<1>3. kept \in Seq(SUBSET Attr) /\ Len(kept) = n /\ 0 \in 0..n
  BY <1>1
<1> HIDE DEF vals
<1>4. ASSUME NEW j \in 0..n
      PROVE  /\ Recorded(vals, storage, kept, j) = Doc(j)
             /\ Fits(vals, kept) /\ vals \in Rings
  <2>1. /\ Recorded(vals, storage, kept, j) = Recorded(values, storage, undos, j)
        /\ Fits(vals, kept) /\ vals \in Rings
    BY <1>1, <1>2, ShortenedDocs
  <2> QED BY <1>1, <2>1 DEF Doc
<1> HIDE DEF kept
<1>5. \A a \in Attr : storage[a] = Recorded(vals, storage, kept, 0)[a]
  BY <1>1, <1>3, <1>4
<1>6. Recorded(ControlLockGroup(vals, {}), storage, kept, k) = Recorded(vals, storage, kept, k)
  BY <1>3, <1>4, <1>5, UnloadedDocs
<1> QED BY <1>4, <1>6 DEF kept, vals

LEMMA BeginOuterRefines ==
  ASSUME IInv, IInv', StorageIsCommitted, NEW t \in TransType, BeginTransaction(t), ~InTransaction
  PROVE  Undo!BeginOuter(IsRead(t)) /\ StorageIsCommitted' /\ ReadersWriteNothing'
<1> DEFINE ro == IsRead(t)
           n == IF ro THEN Len(undos) ELSE Kept
           kept == SubSeq(undos, 1, n)
           front == <<{}>> \o kept
<1>1. /\ transactions = <<>> /\ Len(transactions) = 0 /\ Steps = undos /\ History = undos
      /\ undos \in Seq(SUBSET Attr) /\ values \in Rings /\ redo_count \in 0..Len(undos)
      /\ maxUndoStep \in 1..99 /\ \A a \in Attr : storage[a] = Doc(0)[a]
      /\ MappingOK /\ MappingOK'
  BY IdleHistory, Mapping DEF MappingOK, HistoryOK, IInv, TypeOK
<1>2. /\ transactions' = <<Level(ro)>> /\ undos' = front
      /\ values' = IF ro THEN values ELSE ControlLockGroup(DropLast(n), {})
      /\ redo_count' = IF ro THEN redo_count ELSE 0
      /\ UNCHANGED <<storage, maxUndoStep>>
  <2>1. CASE ro
    <3>1. kept = undos
      BY <1>1, <2>1
    <3> QED BY <2>1, <3>1 DEF BeginTransaction, BeginFinalTr
  <2>2. CASE ~ro
    BY <2>2 DEF BeginTransaction, BeginFinalTr
  <2> QED BY <2>1, <2>2
<1>3. n \in 0..Len(undos) /\ (~ro => n = IF Alive <= maxUndoStep - 1 THEN Alive ELSE maxUndoStep - 1)
  BY <1>1 DEF Kept, Alive
<1>4. kept \in Seq(SUBSET Attr) /\ Len(kept) = n
  BY <1>1, <1>3
<1> HIDE DEF n, kept
<1>5. /\ Steps' = kept /\ History' = front /\ Len(transactions') = 1 /\ transactions'[1] = Level(ro)
      /\ transactions' # <<>>
  <2>1. transactions' # <<>> /\ Len(transactions') = 1 /\ transactions'[1] = Level(ro)
    BY <1>2
  <2>2. Steps' = kept
    BY <1>2, <1>4, <2>1 DEF Steps, InTransaction
  <2>3. Items(transactions') = <<{}>>
    <3>1. Items(transactions') = [k \in 1..1 |-> {}]
      BY <2>1 DEF Items, Level
    <3>2. [k \in 1..1 |-> {}] = <<{}>>
      OBVIOUS
    <3> QED BY <3>1, <3>2
  <2> QED BY <2>1, <2>2, <2>3 DEF History
<1>6. ASSUME NEW k \in 0..n PROVE Recorded(values', storage', kept, k) = Doc(k)
  <2>1. CASE ro
    <3>1. kept = undos
      BY <1>1, <2>1 DEF kept, n
    <3> QED BY <1>1, <1>2, <2>1, <3>1 DEF Doc
  <2>2. CASE ~ro
    BY <1>2, <1>3, <2>2, DiscardedDocs DEF kept
  <2> QED BY <2>1, <2>2
<1>7. ASSUME NEW k \in 0..n PROVE NewDoc(k + 1) = Doc(k)
  <2>1. Recorded(values', storage', front, k + 1) = Recorded(values', storage', kept, k)
    BY <1>4, EmptyInFront
  <2> QED BY <1>5, <1>6, <2>1 DEF NewDoc
<1>8. NewDoc(0) = Doc(0)
  <2>1. front \in Seq(SUBSET Attr)
    BY <1>4
  <2>2. Recorded(values', storage', front, 0) = Recorded(values', storage', kept, 0)
    BY <1>4, <2>1, FirstDoc
  <2>3. 0 \in 0..n
    BY <1>3
  <2> QED BY <1>5, <1>6, <2>2, <2>3 DEF NewDoc
<1>9. DocNow' = DocNow /\ DocNow = Doc(0)
  BY <1>1, <1>8, NewMapping DEF MappingOK, MapOK
<1>10. StorageIsCommitted'
  <2>1. NewDoc(1) = Doc(0)
    <3>1. 0 \in 0..n /\ 0 + 1 = 1
      BY <1>3
    <3> QED BY <3>1, <1>7
  <2> QED BY <1>1, <1>2, <1>5, <2>1, NewMapping
<1>11. ReadersWriteNothing'
  BY <1>5 DEF ReadersWriteNothing, Level
<1>12. Saved' = <<[doc |-> DocNow, readonly |-> ro]>>
  <2>1. Saved' = [k \in 1..1 |-> [doc |-> NewDoc(k), readonly |-> transactions'[k].readonly]]
    BY <1>5, NewMapping
  <2>2. NewDoc(1) = Doc(0)
    <3>1. 0 \in 0..n /\ 0 + 1 = 1
      BY <1>3
    <3> QED BY <3>1, <1>7
  <2>3. Saved' = <<[doc |-> NewDoc(1), readonly |-> transactions'[1].readonly]>>
    BY <2>1
  <2> QED BY <2>2, <2>3, <1>5, <1>9 DEF Level
<1>13. Alive' = IF ro THEN Alive ELSE n
  BY <1>1, <1>2, <1>3, <1>4, <1>5 DEF Alive, n, kept
<1>14. /\ Past = [k \in 1..Alive |-> Doc(k)] /\ Past' = [k \in 1..Alive' |-> Doc(k)]
       /\ Alive \in 0..Len(undos)
  <2>1. /\ Past = [k \in 1..Alive |-> Doc(0 + k)] /\ Past' = [k \in 1..Alive' |-> NewDoc(1 + k)]
        /\ Alive \in 0..Len(undos) /\ Alive' \in 0..n
    BY <1>1, <1>4, <1>5, NewMapping DEF MappingOK, MapOK
  <2>2. ASSUME NEW k \in 1..Alive' PROVE NewDoc(1 + k) = Doc(k)
    <3>1. k \in 0..n /\ 1 + k = k + 1
      BY <2>1, <1>3
    <3> QED BY <3>1, <1>7
  <2>3. \A k \in 1..Alive : 0 + k = k
    BY <2>1
  <2> QED BY <2>1, <2>2, <2>3
<1>15. CASE ro
  <2>1. Past' = Past
    BY <1>13, <1>14, <1>15
  <2>2. Future' = Future
    <3>1. kept = undos
      BY <1>1, <1>15 DEF kept, n
    <3>2. \A a \in Attr : Current(a)' = Current(a)
      BY <1>15, <1>2 DEF Current
    <3> QED BY <1>1, <1>2, <1>5, <1>15, <3>1, <3>2, FutureStays
  <2> QED BY <1>1, <1>2, <1>9, <1>10, <1>11, <1>12, <1>15, <2>1, <2>2
          DEF Undo!BeginOuter, Undo!InTransaction, Saved, Past, Future
<1>16. CASE ~ro
  <2>1. Past' = SubSeq(Past, 1, n) /\ Len(Past) = Alive
    <3>1. IsList(Past, Alive) /\ IsList(Past', n) /\ \A k \in 1..n : Past'[k] = Past[k]
      BY <1>3, <1>13, <1>14, <1>16 DEF IsList
    <3>2. Alive \in Nat /\ n \in 0..Alive
      BY <1>1, <1>3, <1>14, <1>16
    <3> QED BY <3>1, <3>2, Prefixed
  <2>2. Future' = <<>>
    BY <1>2, <1>16, NoFuture
  <2>3. Past' = SubSeq(Past, 1, Undo!Shortest(Len(Past), maxUndoStep - 1))
    BY <1>3, <1>16, <2>1 DEF Undo!Shortest
  <2>4. Saved = <<>>
    BY <1>1, NoneListed DEF Saved, IsList
  <2>5. maxUndoStep' = maxUndoStep
    BY <1>2
  <2> QED BY <1>9, <1>10, <1>11, <1>12, <1>16, <2>2, <2>3, <2>4, <2>5, Zenon
          DEF Undo!BeginOuter, Undo!InTransaction, Saved, Past, Future
<1> QED BY <1>15, <1>16


-----------------------------------------------------------------------------
(* Levels and steps of the abstract state *)

LEMMA SavedFacts ==
  ASSUME IInv
  PROVE  /\ Len(Saved) = Len(transactions) /\ (Saved = <<>> <=> ~InTransaction)
         /\ \A k \in 1..Len(transactions) :
              Saved[k] = [doc |-> Doc(k), readonly |-> transactions[k].readonly]
         /\ Len(transactions) \in Nat /\ (InTransaction => Len(transactions) >= 1)
         /\ Len(Past) = Alive
         /\ \A k \in 1..Alive : Past[k] = Doc(Len(transactions) + k)
         /\ Len(Future) = redo_count
         /\ \A k \in 1..redo_count : Future[k] = DocFuture(k)
<1>1. MapOK /\ Len(transactions) \in Nat /\ Alive \in Nat /\ redo_count \in Nat
  <2>1. MapOK /\ HistoryOK
    BY Mapping DEF MappingOK
  <2> QED BY <2>1 DEF MapOK, HistoryOK, IInv, TypeOK
<1>2. transactions = <<>> <=> Len(transactions) = 0
  BY DEF IInv, TypeOK
<1>3. IsList(Saved, Len(transactions))
  BY DEF Saved, IsList
<1>4. IsList(Past, Alive)
  BY DEF Past, IsList
<1>5. IsList(Future, redo_count)
  BY DEF Future, IsList
<1>6. /\ Len(Saved) = Len(transactions) /\ (Saved = <<>> <=> Len(transactions) = 0)
      /\ Len(Past) = Alive /\ Len(Future) = redo_count
  BY <1>1, <1>3, <1>4, <1>5, ListedLen
<1>7. \A k \in 1..Len(transactions) :
        Saved[k] = [doc |-> Doc(k), readonly |-> transactions[k].readonly]
  BY <1>1 DEF MapOK
<1>8. \A k \in 1..Alive : Past[k] = Doc(Len(transactions) + k)
  BY <1>1 DEF MapOK
<1>9. \A k \in 1..redo_count : Future[k] = DocFuture(k)
  BY DEF Future
<1> QED BY <1>1, <1>2, <1>6, <1>7, <1>8, <1>9 DEF InTransaction

LEMMA SavedPushed ==
  ASSUME IInv, IInv', Len(transactions') = Len(transactions) + 1,
         \A k \in 1..Len(transactions) : transactions'[k + 1].readonly = transactions[k].readonly,
         \A k \in 1..Len(transactions) : NewDoc(k + 1) = Doc(k)
  PROVE  Saved' = <<[doc |-> NewDoc(1), readonly |-> transactions'[1].readonly]>> \o Saved
<1> DEFINE n == Len(transactions)
           f == Saved
           g == Saved'
<1>1. /\ n \in Nat
      /\ f = [k \in 1..n |-> [doc |-> Doc(k), readonly |-> transactions[k].readonly]]
      /\ g = [k \in 1..(n + 1) |-> [doc |-> NewDoc(k), readonly |-> transactions'[k].readonly]]
  <2>1. n \in Nat
    BY DEF IInv, TypeOK
  <2>2. f = [k \in 1..n |-> [doc |-> Doc(k), readonly |-> transactions[k].readonly]]
    BY Mapping DEF MappingOK, MapOK
  <2>3. g = [k \in 1..Len(transactions') |-> [doc |-> NewDoc(k), readonly |-> transactions'[k].readonly]]
    BY NewMapping
  <2> QED BY <2>1, <2>2, <2>3
<1>2. \A k \in 1..n : g[k + 1] = f[k]
  BY <1>1
<1>3. g[1] = [doc |-> NewDoc(1), readonly |-> transactions'[1].readonly]
  BY <1>1
<1>4. IsList(f, n) /\ IsList(g, n + 1)
  BY <1>1 DEF IsList
<1> HIDE DEF f, g, n
<1>5. f = Tail(g)
  <2>1. n \in Nat
    BY <1>1
  <2> QED BY <1>2, <1>4, <2>1, Prepended, ZenonT(40)
<1>6. Front(g) \o Tail(g) = g
  <2>1. n + 1 \in Nat \ {0}
    BY <1>1
  <2> QED BY <1>4, <2>1, FrontAndTail
<1> QED BY <1>3, <1>5, <1>6 DEF f, g, Front

LEMMA SavedPopped ==
  ASSUME IInv, IInv', Len(transactions) = Len(transactions') + 1,
         \A k \in 1..Len(transactions') : transactions'[k].readonly = transactions[k + 1].readonly,
         \A k \in 1..Len(transactions') : NewDoc(k) = Doc(k + 1)
  PROVE  Saved' = Tail(Saved)
<1> DEFINE n == Len(transactions')
           f == Saved'
           g == Saved
<1>1. /\ n \in Nat
      /\ g = [k \in 1..(n + 1) |-> [doc |-> Doc(k), readonly |-> transactions[k].readonly]]
      /\ f = [k \in 1..n |-> [doc |-> NewDoc(k), readonly |-> transactions'[k].readonly]]
  BY Mapping, NewMapping, SMTT(30) DEF MappingOK, MapOK, IInv, TypeOK
<1>2. \A k \in 1..n : g[k + 1] = f[k]
  BY <1>1, SMTT(30)
<1>4. IsList(f, n) /\ IsList(g, n + 1)
  BY <1>1 DEF IsList
<1> HIDE DEF f, g, n
<1>5. f = Tail(g)
  <2>1. n \in Nat
    BY <1>1
  <2> QED BY <1>2, <1>4, <2>1, Prepended, ZenonT(40)
<1> QED BY <1>5 DEF f, g

LEMMA PastStays ==
  ASSUME IInv, IInv', Alive' = Alive,
         \A k \in 1..Alive : NewDoc(Len(transactions') + k) = Doc(Len(transactions) + k)
  PROVE  Past' = Past
<1>1. /\ Past = [k \in 1..Alive |-> Doc(Len(transactions) + k)]
      /\ Past' = [k \in 1..Alive' |-> NewDoc(Len(transactions') + k)]
  BY Mapping, NewMapping DEF MappingOK, MapOK
<1> QED BY <1>1

\* The level in front of the history
LEMMA HistoryPush ==
  ASSUME NEW levels \in Seq(LevelType), NEW level \in LevelType, NEW s \in Seq(SUBSET Attr)
  PROVE  /\ Items(<<level>> \o levels) \o s = <<level.items>> \o (Items(levels) \o s)
         /\ level.items \in SUBSET Attr
         /\ Items(levels) \o s \in Seq(SUBSET Attr)
         /\ Len(Items(levels) \o s) = Len(levels) + Len(s)
<1>1. Items(<<level>> \o levels) = <<level.items>> \o Items(levels)
  BY ItemsOfPrepend DEF LevelType
<1>2. Items(levels) \in Seq(SUBSET Attr) /\ Len(Items(levels)) = Len(levels) /\ level.items \in SUBSET Attr
  BY ItemsType DEF LevelType, LevelOf
<1>3. (<<level.items>> \o Items(levels)) \o s = <<level.items>> \o (Items(levels) \o s)
  BY <1>2
<1>4. /\ Items(levels) \o s \in Seq(SUBSET Attr)
      /\ Len(Items(levels) \o s) = Len(levels) + Len(s)
  BY <1>2
<1> QED BY <1>1, <1>2, <1>3, <1>4

\* Nested levels share the steps.
LEMMA BeginNestedRefines ==
  ASSUME IInv, IInv', StorageIsCommitted, ReadersWriteNothing,
         NEW t \in TransType, BeginTransaction(t), InTransaction
  PROVE  Undo!BeginNested(IsRead(t)) /\ StorageIsCommitted' /\ ReadersWriteNothing'
<1> DEFINE ro == IsRead(t)
           L == Len(transactions)
<1>1. /\ transactions' = <<Level(ro)>> \o transactions
      /\ InReadTransaction => ro
      /\ UNCHANGED <<undos, redo_count, values, storage, maxUndoStep>>
  BY DEF BeginTransaction, BeginNestedTr
<1>2. /\ transactions \in Seq(LevelType) /\ L \in Nat /\ L >= 1 /\ MappingOK /\ MappingOK'
      /\ Level(ro) \in LevelType /\ Level(ro).items = {} /\ Level(ro).readonly = ro
  BY SavedFacts, Mapping DEF IInv, TypeOK, Level, LevelType, LevelOf, IsRead
<1>3. /\ Len(transactions') = L + 1 /\ transactions'[1] = Level(ro)
      /\ \A k \in 1..L : transactions'[k + 1] = transactions[k]
      /\ InTransaction'
  BY <1>1, <1>2 DEF InTransaction
<1>4. Steps' = Steps /\ Steps \in Seq(SUBSET Attr)
  BY <1>1, <1>2, <1>3 DEF Steps, MappingOK, HistoryOK
<1>5. History' = <<{}>> \o History /\ History \in Seq(SUBSET Attr) /\ Len(History) = L + Len(Steps)
  <2>1. Items(<<Level(ro)>> \o transactions) \o Steps = <<{}>> \o (Items(transactions) \o Steps)
    <3> DEFINE level == Level(ro)
    <3>1. level \in LevelType /\ level.items = {} /\ transactions \in Seq(LevelType)
      BY <1>2
    <3> HIDE DEF level
    <3>2. Items(<<level>> \o transactions) \o Steps = <<level.items>> \o (Items(transactions) \o Steps)
      BY <1>4, <3>1, HistoryPush
    <3> QED BY <3>1, <3>2 DEF level
  <2> QED BY <1>1, <1>2, <1>4, <2>1 DEF History, MappingOK, HistoryOK
<1>6. ASSUME NEW k \in 0..Len(History), NEW m, m = k + 1 PROVE NewDoc(m) = Doc(k)
  BY <1>1, <1>5, <1>6, EmptyInFront DEF Doc, NewDoc
<1>7. DocNow' = DocNow /\ DocNow = Doc(0)
  BY <1>1, <1>2 DEF DocNow, Current, MappingOK, MapOK
<1>8. Saved' = <<[doc |-> DocNow, readonly |-> ro]>> \o Saved
  <2>1. NewDoc(1) = Doc(0)
    <3>1. 0 \in 0..Len(History) /\ 0 + 1 = 1
      BY <1>5
    <3> QED BY <3>1, <1>6
  <2>2. \A k \in 1..L : k \in 0..Len(History)
    BY <1>2, <1>4, <1>5
  <2> QED BY <1>2, <1>3, <1>6, <1>7, <2>1, <2>2, SavedPushed
<1>9. Past' = Past
  <2>1. Alive' = Alive /\ Alive \in 0..Len(Steps)
    BY <1>1, <1>2, <1>4 DEF Alive, MappingOK, MapOK
  <2>2. ASSUME NEW k \in 1..Alive PROVE NewDoc(Len(transactions') + k) = Doc(L + k)
    <3>1. L + k \in 0..Len(History) /\ Len(transactions') + k = (L + k) + 1
      BY <1>2, <1>3, <1>4, <1>5, <2>1
    <3> QED BY <3>1, <1>6
  <2> QED BY <2>1, <2>2, PastStays
<1>10. Future' = Future
  <2>1. \A a \in Attr : Current(a)' = Current(a)
    BY <1>1 DEF Current
  <2> QED BY <1>1, <1>2, <1>4, <2>1, FutureStays DEF MappingOK, HistoryOK
<1>11. StorageIsCommitted'
  <2>1. L \in 0..Len(History)
    BY <1>2, <1>4, <1>5
  <2>2. NewDoc(L + 1) = Doc(L)
    BY <1>6, <2>1
  <2> QED BY <1>1, <1>2, <1>3, <2>2, NewMapping DEF MappingOK, StoredOK
<1>12. ReadersWriteNothing'
  <2> SUFFICES ASSUME NEW k \in 1..(L + 1), NEW j \in 1..(L + 1), transactions'[k].readonly, j <= k
               PROVE  transactions'[j].readonly /\ transactions'[j].items = {}
    BY <1>3 DEF ReadersWriteNothing
  <2>1. CASE k = 1
    BY <1>2, <1>3, <2>1
  <2>2. CASE k # 1
    <3>1. k - 1 \in 1..L /\ transactions[k - 1].readonly
      BY <1>2, <1>3, <2>2
    <3>2. \A i \in 1..(k - 1) : transactions[i].readonly /\ transactions[i].items = {}
      BY <1>2, <3>1 DEF ReadersWriteNothing
    <3>3. ro
      <4>1. transactions[1].readonly
        BY <3>1, <3>2
      <4> QED BY <4>1, <1>1 DEF InReadTransaction
    <3>4. CASE j = 1
      BY <1>2, <1>3, <3>3, <3>4
    <3>5. CASE j # 1
      <4>1. j - 1 \in 1..(k - 1) /\ j - 1 \in 1..L /\ transactions'[j] = transactions[j - 1]
        BY <1>3, <3>1, <3>5
      <4> QED BY <3>2, <4>1
    <3> QED BY <3>4, <3>5
  <2> QED BY <2>1, <2>2
<1>13. (Saved[1].readonly => ro) /\ Saved # <<>>
  <2>1. Saved[1].readonly = transactions[1].readonly /\ Saved # <<>>
    <3>1. 1 \in 1..L
      BY <1>2
    <3>2. Saved[1] = [doc |-> Doc(1), readonly |-> transactions[1].readonly]
      BY <3>1, SavedFacts
    <3> QED BY <3>2, SavedFacts
  <2> QED BY <1>1, <2>1 DEF InReadTransaction
<1>14. maxUndoStep' = maxUndoStep
  BY <1>1
<1> HIDE DEF L
<1> QED BY <1>7, <1>8, <1>9, <1>10, <1>11, <1>12, <1>13, <1>14, Zenon
        DEF Undo!BeginNested, Undo!InTransaction, Saved, Past, Future


-----------------------------------------------------------------------------
(* Reading and writing *)

LEMMA OlderDocsStay ==
  ASSUME IInv, IInv', StorageIsCommitted, Len(transactions') = Len(transactions),
         \A k \in 1..Len(transactions) : transactions'[k].readonly = transactions[k].readonly,
         Steps' = Steps, redo_count' = redo_count, storage' = storage,
         \A k \in 1..Len(History) : NewDoc(k) = Doc(k),
         ~InTransaction => NewDoc(0) = Doc(0)
  PROVE  Saved' = Saved /\ Past' = Past /\ StorageIsCommitted'
<1> DEFINE L == Len(transactions)
<1>1. /\ MappingOK /\ L \in Nat /\ Len(History) = L + Len(Steps) /\ Steps \in Seq(SUBSET Attr)
      /\ (L = 0 => ~InTransaction)
  BY Mapping DEF MappingOK, HistoryOK, IInv, TypeOK, InTransaction
<1>2. Saved' = Saved
  <2>1. Saved = [k \in 1..L |-> [doc |-> Doc(k), readonly |-> transactions[k].readonly]]
    BY <1>1 DEF MappingOK, MapOK
  <2>2. Saved' = [k \in 1..L |-> [doc |-> NewDoc(k), readonly |-> transactions'[k].readonly]]
    BY NewMapping
  <2>3. \A k \in 1..L : k \in 1..Len(History)
    BY <1>1
  <2> QED BY <2>1, <2>2, <2>3
<1>3. Past' = Past
  <2>1. Alive' = Alive /\ Alive \in 0..Len(Steps)
    BY <1>1 DEF Alive, MappingOK, MapOK
  <2>2. ASSUME NEW k \in 1..Alive PROVE NewDoc(Len(transactions') + k) = Doc(L + k)
    <3>1. L + k \in 1..Len(History)
      BY <1>1, <2>1
    <3> QED BY <3>1
  <2> QED BY <2>1, <2>2, PastStays
<1>4. StorageIsCommitted'
  <2>1. \A a \in Attr : storage[a] = Doc(L)[a]
    BY <1>1 DEF MappingOK, StoredOK
  <2>2. NewDoc(L) = Doc(L)
    <3>1. L = 0 \/ L \in 1..Len(History)
      BY <1>1
    <3> QED BY <1>1, <3>1
  <2> QED BY <2>1, <2>2, NewMapping
<1> QED BY <1>2, <1>3, <1>4

LEMMA LoadGroupDocs ==
  ASSUME IInv, NEW x \in Attr, values[x] = <<>>
  PROVE  /\ \A a \in Attr : LET result == LoadGroup(Owner[x])
                            IN  result[a] = values[a] \/ (values[a] = <<>> /\ result[a] = <<storage[a]>>)
         /\ LoadGroup(Owner[x]) \in Rings
<1>1. \A b \in Attr : Owner[b] = Owner[x] => values[b] = <<>>
  BY GroupUnused
<1>2. LoadGroup(Owner[x]) \in Rings
  BY LoadingOK
<1> QED BY <1>1, <1>2 DEF LoadGroup

\* A read loads what it reads and changes no document.
LEMMA GetRefines ==
  ASSUME IInv, IInv', StorageIsCommitted, ReadersWriteNothing, NEW x \in Attr, Get(x)
  PROVE  (UNCHANGED Undo!vars) /\ StorageIsCommitted' /\ ReadersWriteNothing'
<1>1. /\ values[x] = <<>> /\ values' = LoadGroup(Owner[x])
      /\ UNCHANGED <<transactions, undos, redo_count, storage, maxUndoStep>>
  BY DEF Get
<1>2. MappingOK /\ values \in Rings /\ storage \in [Attr -> Value]
  BY Mapping, Consequences DEF IInv, TypeOK
<1>3. Steps' = Steps /\ History' = History
  BY <1>1 DEF Steps, History, InTransaction
<1>4. \A a \in Attr : values'[a] = values[a] \/ (values[a] = <<>> /\ values'[a] = <<storage[a]>>)
  BY <1>1, LoadGroupDocs
<1>5. ASSUME NEW k \in 0..Len(History) PROVE NewDoc(k) = Doc(k)
  <2>1. History \in Seq(SUBSET Attr) /\ Fits(values, History)
    BY <1>2 DEF MappingOK, HistoryOK
  <2>2. Recorded(values', storage, History, k) = Recorded(values, storage, History, k)
    BY <1>2, <1>4, <2>1, LoadedDocs
  <2> QED BY <1>1, <1>3, <2>2 DEF NewDoc, Doc
<1>6. 0 \in 0..Len(History) /\ \A k \in 1..Len(History) : k \in 0..Len(History)
  BY <1>2 DEF MappingOK, HistoryOK
<1>7. Saved' = Saved /\ Past' = Past /\ StorageIsCommitted'
  BY <1>1, <1>3, <1>5, <1>6, OlderDocsStay
<1>8. DocNow' = DocNow
  BY <1>2, <1>5, <1>6, NewMapping DEF MappingOK, MapOK
<1>9. Future' = Future
  <2>1. \A a \in Attr : Current(a)' = Current(a)
    <3>1. \A a \in Attr : <<storage[a]>> # <<>> /\ <<storage[a]>>[1] = storage[a]
      OBVIOUS
    <3> QED BY <1>1, <1>4, <3>1 DEF Current
  <2>2. ASSUME NEW i \in 1..Len(Steps), NEW a \in Attr, a \in Steps[i] PROVE values'[a] = values[a]
    <3>1. SUFFICES ASSUME values[a] = <<>> PROVE FALSE
      BY <1>4
    <3>2. Older(a) = 0
      BY <3>1, Consequences DEF RingMatches
    <3>3. Count(undos, a) = 0
      BY <3>2, Consequences
    <3>4. \A j \in 1..Len(undos) : a \notin undos[j]
      BY <3>3, CountType DEF IInv, TypeOK
    <3>5. undos = IF InTransaction THEN <<{}>> \o Steps ELSE Steps
      BY <1>2 DEF MappingOK, HistoryOK
    <3>6. \E j \in 1..Len(undos) : undos[j] = Steps[i]
      <4>1. Steps \in Seq(SUBSET Attr)
        BY <1>2 DEF MappingOK, HistoryOK
      <4>2. CASE InTransaction
        <5>1. i + 1 \in 1..Len(<<{}>> \o Steps) /\ (<<{}>> \o Steps)[i + 1] = Steps[i]
          BY <4>1
        <5> QED BY <3>5, <4>2, <5>1
      <4>3. CASE ~InTransaction
        BY <3>5, <4>3
      <4> QED BY <4>2, <4>3
    <3> QED BY <2>2, <3>4, <3>6
  <2> QED BY <1>1, <1>2, <1>3, <2>1, <2>2, FutureStays DEF MappingOK, HistoryOK
<1>10. ReadersWriteNothing'
  BY <1>1 DEF ReadersWriteNothing
<1>11. maxUndoStep' = maxUndoStep
  BY <1>1
<1> QED BY <1>7, <1>8, <1>9, <1>10, <1>11, Zenon DEF Undo!vars, Saved, Past, Future

\* The level in front of the history, and what is behind it
Rest == Items(Tail(transactions)) \o Steps

LEMMA TopOfHistory ==
  ASSUME IInv, InTransaction
  PROVE  /\ transactions[1] \in LevelType /\ Tail(transactions) \in Seq(LevelType)
         /\ transactions = <<transactions[1]>> \o Tail(transactions)
         /\ Len(Tail(transactions)) = Len(transactions) - 1 /\ Len(transactions) \in Nat \ {0}
         /\ transactions[1].items \in SUBSET Attr /\ dirty = transactions[1].items
         /\ History = <<transactions[1].items>> \o Rest
         /\ Rest \in Seq(SUBSET Attr) /\ Len(History) = Len(Rest) + 1
<1>1. MappingOK /\ transactions \in Seq(LevelType) /\ transactions # <<>>
  BY Mapping DEF IInv, TypeOK, InTransaction
<1>2. Steps \in Seq(SUBSET Attr) /\ Len(History) = Len(transactions) + Len(Steps)
  BY <1>1 DEF MappingOK, HistoryOK
<1>3. /\ transactions[1] \in LevelType /\ Tail(transactions) \in Seq(LevelType)
      /\ transactions = <<transactions[1]>> \o Tail(transactions)
      /\ Len(Tail(transactions)) = Len(transactions) - 1 /\ Len(transactions) \in Nat \ {0}
  BY <1>1
<1>4. dirty = transactions[1].items
  BY DEF IInv, DirtyIffRegistered
<1> DEFINE top == transactions[1]
           others == Tail(transactions)
<1>5. top \in LevelType /\ others \in Seq(LevelType) /\ transactions = <<top>> \o others
  BY <1>3
<1> HIDE DEF top, others
<1>6. /\ Items(<<top>> \o others) \o Steps = <<top.items>> \o (Items(others) \o Steps)
      /\ top.items \in SUBSET Attr
      /\ Items(others) \o Steps \in Seq(SUBSET Attr)
      /\ Len(Items(others) \o Steps) = Len(others) + Len(Steps)
  BY <1>2, <1>5, HistoryPush
<1>7. History = <<top.items>> \o (Items(others) \o Steps)
  BY <1>5, <1>6 DEF History
<1>8. Len(others) = Len(transactions) - 1
  BY <1>3 DEF others
<1>9. Len(History) = Len(Items(others) \o Steps) + 1
  BY <1>2, <1>3, <1>6, <1>8
<1> QED BY <1>3, <1>4, <1>6, <1>7, <1>9 DEF top, others, Rest

\* A transaction that writes is not inside one that reads, so nothing is
\* there to redo.
LEMMA WriterHasNoFuture ==
  ASSUME IInv, ReadersWriteNothing, InWriteTransaction
  PROVE  /\ redo_count = 0 /\ Future = <<>>
         /\ \A k \in 1..Len(transactions) : ~transactions[k].readonly
<1>1. Len(transactions) \in Nat \ {0} /\ InTransaction /\ ~transactions[1].readonly
  BY TopOfHistory DEF InWriteTransaction
<1>2. \A k \in 1..Len(transactions) : ~transactions[k].readonly
  <2>1. 1 \in 1..Len(transactions)
    BY <1>1
  <2>2. \A k \in 1..Len(transactions) : transactions[k].readonly /\ 1 <= k => transactions[1].readonly
    BY <2>1 DEF ReadersWriteNothing
  <2>3. \A k \in 1..Len(transactions) : 1 <= k
    OBVIOUS
  <2> QED BY <1>1, <2>2, <2>3
<1>3. redo_count = 0
  <2>1. ~transactions[Len(transactions)].readonly
    BY <1>1, <1>2
  <2> QED BY <1>1, <2>1 DEF IInv, QueueSizesOK
<1> QED BY <1>2, <1>3, NoFuture

\* What both kinds of write have in common
LEMMA WriteRefines ==
  ASSUME IInv, IInv', StorageIsCommitted, ReadersWriteNothing, InWriteTransaction,
         NEW x \in Attr, NEW v \in Value, NEW items,
         transactions' = [transactions EXCEPT ![1].items = items],
         UNCHANGED <<undos, redo_count, storage, maxUndoStep>>,
         \A k \in 1..Len(History) : NewDoc(k) = Doc(k),
         \A a \in Attr : Current(a)' = IF a = x THEN v ELSE Current(a)
  PROVE  Undo!Write(x, v) /\ StorageIsCommitted' /\ ReadersWriteNothing'
<1>1. /\ MappingOK /\ InTransaction /\ Len(transactions) \in Nat \ {0}
      /\ transactions \in Seq(LevelType) /\ ~transactions[1].readonly
  BY Mapping, TopOfHistory DEF InWriteTransaction, IInv, TypeOK
<1>2. /\ Len(transactions') = Len(transactions)
      /\ \A k \in 1..Len(transactions) : transactions'[k].readonly = transactions[k].readonly
      /\ InTransaction'
  BY <1>1 DEF LevelType, LevelOf, InTransaction
<1>3. Steps' = Steps
  BY <1>1, <1>2 DEF Steps
<1>4. Saved' = Saved /\ Past' = Past /\ StorageIsCommitted'
  BY <1>1, <1>2, <1>3, OlderDocsStay
<1>5. DocNow' = [DocNow EXCEPT ![x] = v]
  BY DEF DocNow
<1>6. Future = <<>> /\ Future' = <<>> /\ \A k \in 1..Len(transactions) : ~transactions[k].readonly
  BY WriterHasNoFuture, NoFuture
<1>7. ReadersWriteNothing'
  BY <1>2, <1>6 DEF ReadersWriteNothing
<1>8. Saved # <<>> /\ ~Saved[1].readonly
  <2>1. Saved[1] = [doc |-> Doc(1), readonly |-> transactions[1].readonly] /\ Saved # <<>>
    BY <1>1, SavedFacts
  <2> QED BY <1>1, <2>1
<1>9. maxUndoStep' = maxUndoStep
  OBVIOUS
<1> QED BY <1>4, <1>5, <1>6, <1>7, <1>8, <1>9, Zenon
        DEF Undo!Write, Undo!Writing, Undo!InTransaction, Saved, Past, Future

\* The levels after the innermost one registers more attributes
LEMMA HistoryOfWrite ==
  ASSUME IInv, InTransaction, NEW items \in SUBSET Attr,
         transactions' = [transactions EXCEPT ![1].items = items], undos' = undos
  PROVE  History' = <<items>> \o Rest
<1> DEFINE top == [transactions[1] EXCEPT !.items = items]
           others == Tail(transactions)
<1>1. /\ transactions \in Seq(LevelType) /\ transactions # <<>> /\ others \in Seq(LevelType)
      /\ top \in LevelType /\ top.items = items
  BY TopOfHistory DEF IInv, TypeOK, InTransaction, LevelType, LevelOf
<1>2. transactions' = <<top>> \o others
  <2>1. transactions' \in Seq(LevelType) /\ Len(transactions') = Len(transactions)
        /\ \A k \in 1..Len(transactions) : transactions'[k] = IF k = 1 THEN top ELSE transactions[k]
    BY <1>1
  <2>2. <<top>> \o others \in Seq(LevelType) /\ Len(<<top>> \o others) = Len(transactions)
        /\ \A k \in 1..Len(transactions) : (<<top>> \o others)[k] = IF k = 1 THEN top ELSE transactions[k]
    <3> HIDE DEF top
    <3> QED BY <1>1
  <2> HIDE DEF top, others
  <2>3. \A k \in 1..Len(transactions) : transactions'[k] = (<<top>> \o others)[k]
    BY <2>1, <2>2
  <2> QED BY <2>1, <2>2, <2>3, SeqEqual, ZenonT(40)
<1>3. Steps' = Steps /\ Steps \in Seq(SUBSET Attr)
  <2>1. Steps \in Seq(SUBSET Attr)
    BY Mapping DEF MappingOK, HistoryOK
  <2>2. transactions' # <<>>
    <3> HIDE DEF top, others
    <3> QED BY <1>1, <1>2
  <2> QED BY <2>1, <2>2 DEF Steps, InTransaction
<1>4. Items(<<top>> \o others) \o Steps = <<top.items>> \o (Items(others) \o Steps)
  <2> HIDE DEF top, others
  <2> QED BY <1>1, <1>3, HistoryPush
<1> QED BY <1>1, <1>2, <1>3, <1>4 DEF History, Rest

\* The first write of a level
LEMMA InsertRefines ==
  ASSUME IInv, IInv', StorageIsCommitted, ReadersWriteNothing,
         NEW x \in Attr, NEW v \in Value, Put(x, v), Insert(x, v)
  PROVE  Undo!Write(x, v) /\ StorageIsCommitted' /\ ReadersWriteNothing'
<1> DEFINE e == transactions[1].items
           loaded == IF values[x] = <<>> THEN LoadGroup(Owner[x]) ELSE values
<1>1. /\ InWriteTransaction /\ InTransaction /\ UNCHANGED <<undos, redo_count, maxUndoStep, storage>>
      /\ x \notin dirty /\ values' = [loaded EXCEPT ![x] = <<v>> \o @]
      /\ transactions' = [transactions EXCEPT ![1].items = e \cup {x}]
  BY DEF Put, Insert, InWriteTransaction
<1>2. /\ History = <<e>> \o Rest /\ Rest \in Seq(SUBSET Attr) /\ e \in SUBSET Attr /\ x \notin e
      /\ Len(History) = Len(Rest) + 1
  BY <1>1, TopOfHistory
<1>3. MappingOK /\ values \in Rings /\ storage \in [Attr -> Value]
  BY Mapping, Consequences DEF IInv, TypeOK
<1>4. /\ loaded \in Rings /\ loaded[x] # <<>>
      /\ \A a \in Attr : loaded[a] = values[a] \/ (values[a] = <<>> /\ loaded[a] = <<storage[a]>>)
  BY <1>3, LoadGroupDocs DEF LoadGroup
<1> HIDE DEF loaded
<1>5. ASSUME NEW a \in Attr PROVE values'[a] = IF a = x THEN <<v>> \o loaded[a] ELSE loaded[a]
  BY <1>1, <1>4 DEF Rings
<1>6. \A k \in 0..Len(History) : /\ Recorded(loaded, storage, History, k) = Doc(k)
                               /\ Fits(loaded, History)
  BY <1>3, <1>4, LoadedDocs DEF Doc, MappingOK, HistoryOK
<1>7. Fits(loaded, History)
  <2>1. 0 \in 0..Len(History)
    BY <1>2
  <2> QED BY <1>6, <2>1
<1>8. History' = <<e \cup {x}>> \o Rest
  <2>1. e \cup {x} \in SUBSET Attr
    BY <1>2
  <2> QED BY <1>1, <2>1, HistoryOfWrite
<1> HIDE DEF e
<1>9. ASSUME NEW k \in 0..Len(Rest), NEW m, m = k + 1
      PROVE  Recorded(values', storage, <<e \cup {x}>> \o Rest, m)
               = Recorded(loaded, storage, <<e>> \o Rest, m)
  <2>1. Fits(loaded, <<e>> \o Rest) /\ loaded \in Rings /\ loaded[x] # <<>>
    BY <1>2, <1>4, <1>7
  <2>2. e \in SUBSET Attr /\ x \notin e /\ Rest \in Seq(SUBSET Attr)
    BY <1>2
  <2>3. values' = Inserted(loaded, x, v)
    <3>1. values' = [a \in Attr |-> values'[a]]
      BY <1>1, <1>4 DEF Rings
    <3> QED BY <1>5, <3>1 DEF Inserted
  <2>4. Recorded(Inserted(loaded, x, v), storage, <<e \cup {x}>> \o Rest, m)
          = Recorded(loaded, storage, <<e>> \o Rest, m)
    BY <1>9, <2>1, <2>2, InsertedDocs
  <2> QED BY <2>3, <2>4
<1>10. ASSUME NEW k \in 1..Len(History) PROVE NewDoc(k) = Doc(k)
  <2>1. k - 1 \in 0..Len(Rest) /\ (k - 1) + 1 = k /\ k \in 0..Len(History)
    BY <1>2
  <2>2. Recorded(values', storage, <<e \cup {x}>> \o Rest, k) = Recorded(loaded, storage, <<e>> \o Rest, k)
    BY <1>9, <2>1
  <2> QED BY <1>1, <1>2, <1>6, <1>8, <2>1, <2>2 DEF NewDoc
<1>11. \A a \in Attr : Current(a)' = IF a = x THEN v ELSE Current(a)
  <2>1. (<<v>> \o loaded[x])[1] = v /\ <<v>> \o loaded[x] # <<>>
    BY <1>4 DEF Rings
  <2>2. \A a \in Attr : <<storage[a]>> # <<>> /\ <<storage[a]>>[1] = storage[a]
    OBVIOUS
  <2>3. ASSUME NEW a \in Attr, a = x PROVE Current(a)' = v
    <3>1. values'[a] = <<v>> \o loaded[x]
      BY <1>5, <2>3
    <3> QED BY <2>1, <3>1 DEF Current
  <2>4. ASSUME NEW a \in Attr, a # x PROVE Current(a)' = Current(a)
    <3>1. values'[a] = loaded[a] /\ storage' = storage
      BY <1>1, <1>5, <2>4
    <3>2. values'[a] = values[a] \/ (values[a] = <<>> /\ values'[a] = <<storage[a]>>)
      BY <1>4, <3>1
    <3> QED BY <2>2, <3>1, <3>2 DEF Current
  <2> QED BY <2>3, <2>4
<1> QED BY <1>1, <1>10, <1>11, WriteRefines

\* Every later write
LEMMA OverwriteRefines ==
  ASSUME IInv, IInv', StorageIsCommitted, ReadersWriteNothing,
         NEW x \in Attr, NEW v \in Value, Put(x, v), Overwrite(x, v)
  PROVE  Undo!Write(x, v) /\ StorageIsCommitted' /\ ReadersWriteNothing'
<1> DEFINE e == transactions[1].items
<1>1. /\ InWriteTransaction /\ InTransaction /\ UNCHANGED <<undos, redo_count, maxUndoStep, storage>>
      /\ x \in dirty /\ values' = [values EXCEPT ![x] = <<v>> \o Tail(@)]
      /\ transactions' = transactions
  BY DEF Put, Overwrite, InWriteTransaction
<1>2. /\ History = <<e>> \o Rest /\ Rest \in Seq(SUBSET Attr) /\ e \in SUBSET Attr /\ x \in e
      /\ Len(History) = Len(Rest) + 1 /\ transactions[1] \in LevelType
      /\ transactions \in Seq(LevelType) /\ transactions # <<>>
  BY <1>1, TopOfHistory DEF InTransaction, IInv, TypeOK
<1>3. MappingOK /\ values \in Rings /\ values[x] # <<>> /\ Fits(values, History)
  <2>1. Older(x) > 0 /\ values[x] # <<>>
    BY <1>1, DirtyHasOlder, Consequences DEF RingMatches
  <2> QED BY <2>1, Mapping, Consequences DEF MappingOK, HistoryOK
<1>4. ASSUME NEW a \in Attr PROVE values'[a] = IF a = x THEN <<v>> \o Tail(values[a]) ELSE values[a]
  BY <1>1, <1>3 DEF Rings
<1>5. History' = History
  BY <1>1 DEF History, Steps, InTransaction
<1>6. transactions' = [transactions EXCEPT ![1].items = e]
  BY <1>1, <1>2 DEF LevelType, LevelOf
<1> HIDE DEF e
<1>7. ASSUME NEW k \in 0..Len(Rest), NEW m, m = k + 1
      PROVE  Recorded(values', storage, <<e>> \o Rest, m) = Recorded(values, storage, <<e>> \o Rest, m)
  <2>1. Fits(values, <<e>> \o Rest) /\ values \in Rings
    BY <1>2, <1>3
  <2>2. e \in SUBSET Attr /\ x \in e /\ Rest \in Seq(SUBSET Attr)
    BY <1>2
  <2>3. values' = Overwritten(values, x, v)
    <3>1. values' = [a \in Attr |-> values'[a]]
      BY <1>1, <1>3 DEF Rings
    <3> QED BY <1>4, <3>1 DEF Overwritten
  <2>4. Recorded(Overwritten(values, x, v), storage, <<e>> \o Rest, m) = Recorded(values, storage, <<e>> \o Rest, m)
    BY <1>7, <2>1, <2>2, OverwrittenDocs
  <2> QED BY <2>3, <2>4
<1>8. ASSUME NEW k \in 1..Len(History) PROVE NewDoc(k) = Doc(k)
  <2>1. k - 1 \in 0..Len(Rest) /\ (k - 1) + 1 = k
    BY <1>2
  <2>2. Recorded(values', storage, <<e>> \o Rest, k) = Recorded(values, storage, <<e>> \o Rest, k)
    BY <1>7, <2>1
  <2> QED BY <1>1, <1>2, <1>5, <2>2 DEF NewDoc, Doc
<1>9. \A a \in Attr : Current(a)' = IF a = x THEN v ELSE Current(a)
  <2>1. (<<v>> \o Tail(values[x]))[1] = v /\ <<v>> \o Tail(values[x]) # <<>>
    BY <1>3 DEF Rings
  <2>2. ASSUME NEW a \in Attr, a = x PROVE Current(a)' = v
    <3>1. values'[a] = <<v>> \o Tail(values[x])
      BY <1>4, <2>2
    <3> QED BY <2>1, <3>1 DEF Current
  <2>3. ASSUME NEW a \in Attr, a # x PROVE Current(a)' = Current(a)
    <3>1. values'[a] = values[a] /\ storage' = storage
      BY <1>1, <1>4, <2>3
    <3> QED BY <3>1 DEF Current
  <2> QED BY <2>2, <2>3
<1> QED BY <1>1, <1>6, <1>8, <1>9, WriteRefines

LEMMA PutRefines ==
  ASSUME IInv, IInv', StorageIsCommitted, ReadersWriteNothing,
         NEW x \in Attr, NEW v \in Value, Put(x, v)
  PROVE  Undo!Write(x, v) /\ StorageIsCommitted' /\ ReadersWriteNothing'
BY InsertRefines, OverwriteRefines DEF Put


-----------------------------------------------------------------------------
(* Committing and aborting *)

\* A step of the undo list keeps the rings of its attributes in memory.
LEMMA StepHasValues ==
  ASSUME IInv, NEW i \in 1..Len(Steps), NEW a \in Attr, a \in Steps[i]
  PROVE  Len(values[a]) >= 2
<1>1. HistoryOK
  BY Mapping DEF MappingOK
<1>2. \E j \in 1..Len(undos) : undos[j] = Steps[i]
  <2>1. Steps \in Seq(SUBSET Attr) /\ undos = IF InTransaction THEN <<{}>> \o Steps ELSE Steps
    BY <1>1 DEF HistoryOK
  <2>2. CASE InTransaction
    <3>1. i + 1 \in 1..Len(<<{}>> \o Steps) /\ (<<{}>> \o Steps)[i + 1] = Steps[i]
      BY <2>1
    <3> QED BY <2>1, <2>2, <3>1
  <2>3. CASE ~InTransaction
    BY <2>1, <2>3
  <2> QED BY <2>2, <2>3
<1>3. Count(undos, a) # 0 /\ Count(undos, a) \in Nat
  BY <1>2, CountType DEF IInv, TypeOK
<1>4. Older(a) >= 1
  BY <1>3, Consequences
<1>5. values[a] # <<>> /\ Len(values[a]) = 1 + Older(a)
  BY <1>4, Consequences DEF RingMatches
<1> QED BY <1>4, <1>5, Consequences

\* What redo returns to stays when the document does and rings are at most
\* unloaded.
LEMMA FutureUnloads ==
  ASSUME IInv, Steps' = Steps, redo_count' = redo_count, DocNow' = DocNow,
         \A a \in Attr : Len(values[a]) >= 2 => values'[a] = values[a]
  PROVE  Future' = Future
<1>1. Steps \in Seq(SUBSET Attr) /\ redo_count \in 0..Len(Steps)
  BY Mapping DEF MappingOK, HistoryOK
<1>2. \A a \in Attr : Current(a)' = Current(a)
  <2>1. [a \in Attr |-> Current(a)'] = [a \in Attr |-> Current(a)]
    BY DEF DocNow
  <2> DEFINE now(a) == Current(a)
             then(a) == Current(a)'
  <2>2. [a \in Attr |-> then(a)] = [a \in Attr |-> now(a)]
    BY <2>1
  <2> HIDE DEF now, then
  <2>3. ASSUME NEW a \in Attr PROVE then(a) = now(a)
    <3>1. [b \in Attr |-> then(b)][a] = [b \in Attr |-> now(b)][a]
      BY <2>2
    <3> QED BY <3>1
  <2> QED BY <2>3 DEF now, then
<1>3. \A i \in 1..Len(Steps), a \in Attr : a \in Steps[i] => values'[a] = values[a]
  BY StepHasValues
<1> QED BY <1>1, <1>2, <1>3, FutureStays

\* Steps that can be redone are behind readers only, and these wrote nothing.
LEMMA NoRedoOrReaders ==
  ASSUME IInv, ReadersWriteNothing, InTransaction, redo_count # 0
  PROVE  \A k \in 1..Len(transactions) : transactions[k].readonly /\ transactions[k].items = {}
<1>1. Len(transactions) \in Nat \ {0}
  BY TopOfHistory
<1>2. transactions[Len(transactions)].readonly
  BY DEF IInv, QueueSizesOK
<1>3. Len(transactions) \in 1..Len(transactions) /\ \A j \in 1..Len(transactions) : j <= Len(transactions)
  BY <1>1
<1> QED BY <1>2, <1>3 DEF ReadersWriteNothing

\* What every end of a level has in common
LEMMA PoppedDocs ==
  ASSUME IInv, IInv', InTransaction, StorageIsCommitted, ReadersWriteNothing,
         Len(transactions') = Len(transactions) - 1,
         \A k \in 2..Len(transactions) : transactions'[k - 1].readonly = transactions[k].readonly,
         Steps' = Steps, redo_count' = redo_count,
         \A k \in 2..Len(History) : NewDoc(k - 1) = Doc(k)
  PROVE  /\ Saved' = Tail(Saved) /\ Past' = Past
         /\ storage' = storage /\ (InTransaction' \/ NewDoc(0) = Doc(1)) => StorageIsCommitted'
         /\ Saved # <<>> /\ Saved[1].doc = Doc(1) /\ Len(Saved) = Len(transactions)
<1> DEFINE L == Len(transactions)
<1>1. /\ MappingOK /\ L \in Nat \ {0} /\ Len(History) = L + Len(Steps) /\ Len(Steps) \in Nat
      /\ Alive \in 0..Len(Steps)
  <2>1. MappingOK
    BY Mapping
  <2>2. L \in Nat \ {0}
    BY TopOfHistory
  <2>3. Steps \in Seq(SUBSET Attr) /\ Len(History) = L + Len(Steps)
    BY <2>1 DEF MappingOK, HistoryOK
  <2>4. Alive \in 0..Len(Steps)
    BY <2>1 DEF MappingOK, MapOK
  <2> QED BY <2>1, <2>2, <2>3, <2>4
<1>2. Saved' = Tail(Saved)
  <2>1. \A k \in 1..Len(transactions') : transactions'[k].readonly = transactions[k + 1].readonly
    <3>1. ASSUME NEW k \in 1..Len(transactions') PROVE transactions'[k].readonly = transactions[k + 1].readonly
      <4>1. k + 1 \in 2..L /\ (k + 1) - 1 = k
        BY <1>1
      <4> QED BY <4>1
    <3> QED BY <3>1
  <2>2. \A k \in 1..Len(transactions') : NewDoc(k) = Doc(k + 1)
    <3>1. ASSUME NEW k \in 1..Len(transactions') PROVE NewDoc(k) = Doc(k + 1)
      <4>1. k + 1 \in 2..Len(History) /\ (k + 1) - 1 = k
        BY <1>1
      <4> QED BY <4>1
    <3> QED BY <3>1
  <2>3. Len(transactions) = Len(transactions') + 1
    BY <1>1
  <2> QED BY <2>1, <2>2, <2>3, SavedPopped
<1>3. Past' = Past
  <2>1. Alive' = Alive
    BY DEF Alive
  <2>2. ASSUME NEW k \in 1..Alive PROVE NewDoc(Len(transactions') + k) = Doc(L + k)
    <3>1. L + k \in 2..Len(History) /\ (L + k) - 1 = Len(transactions') + k
      BY <1>1
    <3> QED BY <3>1
  <2> QED BY <2>1, <2>2, PastStays
<1>4. ASSUME storage' = storage, InTransaction' \/ NewDoc(0) = Doc(1) PROVE StorageIsCommitted'
  <2>1. \A a \in Attr : storage[a] = Doc(L)[a]
    BY <1>1 DEF MappingOK, StoredOK
  <2>2. NewDoc(Len(transactions')) = Doc(L)
    <3>1. CASE L = 1
      <4>1. transactions' = <<>>
        <5>1. Len(transactions') = 0 /\ transactions' \in Seq(LevelType)
          BY <3>1 DEF IInv, TypeOK
        <5> QED BY <5>1
      <4>2. Len(transactions') = 0
        BY <3>1
      <4> QED BY <1>4, <3>1, <4>1, <4>2 DEF InTransaction
    <3>2. CASE L # 1
      <4>1. L \in 2..Len(History)
        BY <1>1, <3>2
      <4> QED BY <4>1
    <3> QED BY <3>1, <3>2
  <2> QED BY <1>4, <2>1, <2>2, NewMapping
<1>5. Saved # <<>> /\ Saved[1].doc = Doc(1) /\ Len(Saved) = L
  <2>1. 1 \in 1..L
    BY <1>1
  <2>2. Saved[1] = [doc |-> Doc(1), readonly |-> transactions[1].readonly]
    BY <2>1, SavedFacts
  <2> QED BY <2>2, SavedFacts
<1> QED BY <1>2, <1>3, <1>4, <1>5

\* A nested commit forgets the document the inner level started from.
LEMMA CommitNestedRefines ==
  ASSUME IInv, IInv', StorageIsCommitted, ReadersWriteNothing,
         NEW t \in TransType, CommitTransaction(t), CommitNestedTr
  PROVE  Undo!CommitNested /\ StorageIsCommitted' /\ ReadersWriteNothing'
<1> DEFINE e == transactions[1].items
           f == transactions[2].items
           rest == Items(Below) \o Steps
           L == Len(transactions)
<1>1. /\ values' = Joined(values, e, f)
      /\ UNCHANGED <<undos, redo_count, storage, maxUndoStep>>
  <2>1. dirty = e
    BY MergedLevels
  <2>2. values' = [a \in Attr |-> IF a \in f \cap dirty THEN WithoutSecond(values[a]) ELSE values[a]]
    BY DEF CommitNestedTr
  <2>3. \A a \in Attr : a \in f \cap dirty <=> a \in e \cap f
    BY <2>1
  <2>4. UNCHANGED <<undos, redo_count, storage, maxUndoStep>>
    BY DEF CommitTransaction, CommitNestedTr
  <2> HIDE DEF e, f
  <2> QED BY <2>2, <2>3, <2>4 DEF Joined
<1>2. /\ L >= 2 /\ L \in Nat /\ InTransaction /\ InTransaction' /\ Len(transactions') = L - 1
      /\ transactions \in Seq(LevelType)
      /\ e \in SUBSET Attr /\ f \in SUBSET Attr
      /\ Merged \in LevelType /\ Merged.readonly = transactions[2].readonly /\ Merged.items = e \cup f
      /\ Below \in Seq(LevelType) /\ Len(Below) = L - 2
      /\ transactions' = <<Merged>> \o Below /\ transactions'[1] = Merged
      /\ \A k \in 2..Len(transactions') : transactions'[k] = transactions[k + 1]
  BY MergedLevels DEF LevelType, LevelOf
<1>3. MappingOK /\ values \in Rings /\ Steps \in Seq(SUBSET Attr) /\ Len(History) = L + Len(Steps)
  BY Mapping, Consequences DEF MappingOK, HistoryOK
<1>4. Steps' = Steps
  BY <1>1, <1>2 DEF Steps
<1>5. /\ History = <<e>> \o (<<f>> \o rest) /\ rest \in Seq(SUBSET Attr)
      /\ Len(rest) = (L - 2) + Len(Steps)
  <2>1. Tail(transactions) = <<transactions[2]>> \o Below /\ transactions[2] \in LevelType
    <3> DEFINE others == Tail(transactions)
    <3>1. others \in Seq(LevelType) /\ others # <<>> /\ others[1] = transactions[2]
      BY <1>2, TwoLevels
    <3> HIDE DEF others
    <3>2. others = <<others[1]>> \o Tail(others)
      BY <3>1
    <3> QED BY <3>1, <3>2 DEF Below, others
  <2>2. /\ Items(<<transactions[2]>> \o Below) \o Steps = <<transactions[2].items>> \o rest
        /\ rest \in Seq(SUBSET Attr) /\ Len(rest) = Len(Below) + Len(Steps)
    BY <1>2, <1>3, <2>1, HistoryPush
  <2>3. History = <<e>> \o Rest
    BY <1>2, TopOfHistory
  <2> QED BY <1>2, <2>1, <2>2, <2>3 DEF Rest
<1>6. History' = <<e \cup f>> \o rest
  <2>1. Items(<<Merged>> \o Below) \o Steps = <<Merged.items>> \o rest
    BY <1>2, <1>3, HistoryPush
  <2> QED BY <1>2, <1>4, <2>1 DEF History
<1> HIDE DEF e, f, rest
<1>7. Fits(values, Apart(e, f, rest))
  BY <1>3, <1>5 DEF MappingOK, HistoryOK, Apart
<1>8. ASSUME NEW m \in 1..(Len(rest) + 1), NEW last \in Nat, last = m + 1
      PROVE  Recorded(values', storage, Together(e, f, rest), m)
               = Recorded(values, storage, Apart(e, f, rest), last)
  <2>1. e \in SUBSET Attr /\ f \in SUBSET Attr /\ rest \in Seq(SUBSET Attr)
    BY <1>2, <1>5
  <2>2. values \in Rings /\ values' = Joined(values, e, f)
    BY <1>1, <1>3
  <2> QED BY <1>7, <1>8, <2>1, <2>2, MergedDocs
<1>9. ASSUME NEW k \in 2..Len(History) PROVE NewDoc(k - 1) = Doc(k)
  <2>1. k - 1 \in 1..(Len(rest) + 1) /\ k \in Nat /\ k = (k - 1) + 1
    BY <1>2, <1>3, <1>5
  <2>2. Recorded(values', storage, Together(e, f, rest), k - 1)
          = Recorded(values, storage, Apart(e, f, rest), k)
    BY <1>8, <2>1
  <2> QED BY <1>1, <1>5, <1>6, <2>2 DEF NewDoc, Doc, Apart, Together
<1>10. DocNow' = DocNow
  <2>1. \A a \in Attr : Entry(values'[a], storage[a], 0) = Entry(values[a], storage[a], 0)
    <3>1. dirty = e
      BY MergedLevels DEF e
    <3>2. \A a \in Attr : a \in e \cap f => Len(values[a]) >= 2
      BY <3>1, DirtyHasOlder
    <3>3. \A a \in Attr : Entry(Joined(values, e, f)[a], storage[a], 0) = Entry(values[a], storage[a], 0)
      BY <1>3, <3>2, MergedNow
    <3> QED BY <1>1, <3>3
  <2> QED BY <1>1, <2>1 DEF DocNow, Current, Entry
<1>11. \A k \in 2..L : transactions'[k - 1].readonly = transactions[k].readonly
  <2>1. ASSUME NEW k \in 2..L PROVE transactions'[k - 1].readonly = transactions[k].readonly
    <3>1. CASE k = 2
      BY <1>2, <3>1
    <3>2. CASE k # 2
      <4>1. k - 1 \in 2..Len(transactions') /\ (k - 1) + 1 = k
        BY <1>2, <3>2
      <4> QED BY <1>2, <4>1
    <3> QED BY <3>1, <3>2
  <2> QED BY <2>1
<1>12. Saved' = Tail(Saved) /\ Past' = Past /\ StorageIsCommitted' /\ Len(Saved) = L
  BY <1>1, <1>2, <1>4, <1>9, <1>11, PoppedDocs
<1>13. Future' = Future
  <2>1. CASE redo_count = 0
    BY <1>1, <2>1, NoFuture
  <2>2. CASE redo_count # 0
    <3>1. e = {}
      <4>1. 1 \in 1..L
        BY <1>2
      <4> QED BY <1>2, <2>2, <4>1, NoRedoOrReaders DEF e
    <3>2. values' = [a \in Attr |-> values[a]]
      BY <1>1, <3>1 DEF Joined
    <3> QED BY <1>1, <1>4, <1>10, <3>2, FutureUnloads
  <2> QED BY <2>1, <2>2
<1>14. ReadersWriteNothing'
  <2> SUFFICES ASSUME NEW k \in 1..(L - 1), NEW j \in 1..(L - 1), transactions'[k].readonly, j <= k
               PROVE  transactions'[j].readonly /\ transactions'[j].items = {}
    BY <1>2 DEF ReadersWriteNothing
  <2>1. k + 1 \in 1..L /\ transactions[k + 1].readonly
    <3>1. k + 1 \in 2..L /\ (k + 1) - 1 = k
      BY <1>2
    <3>2. transactions'[k].readonly = transactions[k + 1].readonly
      BY <1>11, <3>1
    <3> QED BY <3>1, <3>2
  <2>2. \A i \in 1..L : i <= k + 1 => transactions[i].readonly /\ transactions[i].items = {}
    BY <2>1 DEF ReadersWriteNothing
  <2>3. CASE j = 1
    <3>1. 1 \in 1..L /\ 2 \in 1..L /\ 1 <= k + 1 /\ 2 <= k + 1
      BY <1>2
    <3>2. e = {} /\ f = {} /\ transactions[2].readonly
      BY <2>2, <3>1 DEF e, f
    <3> QED BY <1>2, <2>3, <3>2
  <2>4. CASE j # 1
    <3>1. j \in 2..Len(transactions') /\ j + 1 \in 1..L /\ j + 1 <= k + 1
      BY <1>2, <2>4
    <3>2. transactions'[j] = transactions[j + 1]
      BY <1>2, <3>1
    <3> QED BY <2>2, <3>1, <3>2
  <2> QED BY <2>3, <2>4
<1>15. maxUndoStep' = maxUndoStep /\ Len(Saved) >= 2
  BY <1>1, <1>2, <1>12
<1> HIDE DEF L
<1> QED BY <1>10, <1>12, <1>13, <1>14, <1>15, Zenon DEF Undo!CommitNested, Saved, Past, Future

\* What aborting and finally committing leave of the readers
LEMMA TailReads ==
  ASSUME IInv, InTransaction, ReadersWriteNothing, transactions' = Tail(transactions)
  PROVE  /\ ReadersWriteNothing'
         /\ Len(transactions') = Len(transactions) - 1
         /\ \A k \in 2..Len(transactions) : transactions'[k - 1].readonly = transactions[k].readonly
<1> DEFINE L == Len(transactions)
<1>1. /\ transactions \in Seq(LevelType) /\ transactions # <<>> /\ L \in Nat \ {0}
      /\ Len(transactions') = L - 1
      /\ \A k \in 1..(L - 1) : transactions'[k] = transactions[k + 1]
  BY TopOfHistory, TailFacts DEF IInv, TypeOK, InTransaction
<1>2. \A k \in 2..L : transactions'[k - 1].readonly = transactions[k].readonly
  <2>1. ASSUME NEW k \in 2..L PROVE transactions'[k - 1].readonly = transactions[k].readonly
    <3>1. k - 1 \in 1..(L - 1) /\ (k - 1) + 1 = k
      BY <1>1
    <3> QED BY <1>1, <3>1
  <2> QED BY <2>1
<1>3. ReadersWriteNothing'
  <2> SUFFICES ASSUME NEW k \in 1..(L - 1), NEW j \in 1..(L - 1), transactions'[k].readonly, j <= k
               PROVE  transactions'[j].readonly /\ transactions'[j].items = {}
    BY <1>1 DEF ReadersWriteNothing
  <2>1. k + 1 \in 1..L /\ j + 1 \in 1..L /\ j + 1 <= k + 1
    BY <1>1
  <2>2. transactions'[k] = transactions[k + 1] /\ transactions'[j] = transactions[j + 1]
    BY <1>1
  <2> QED BY <2>1, <2>2 DEF ReadersWriteNothing
<1> QED BY <1>1, <1>2, <1>3

\* A level that ends with its values dropped leaves the document it started
\* from.
LEMMA LevelGoes ==
  ASSUME IInv, IInv', StorageIsCommitted, ReadersWriteNothing, InTransaction, NEW locks,
         values' = ControlLockGroup(Dropped(values, dirty), locks),
         transactions' = Tail(transactions), Steps' = Steps,
         redo_count' = redo_count, storage' = storage
  PROVE  /\ DocNow' = Saved[1].doc /\ (dirty = {} => DocNow' = DocNow)
         /\ Saved # <<>> /\ Saved' = Tail(Saved) /\ Len(Saved) = Len(transactions)
         /\ Past' = Past /\ Future' = Future
         /\ StorageIsCommitted' /\ ReadersWriteNothing'
<1> DEFINE L == Len(transactions)
           vals == Dropped(values, dirty)
<1>1. /\ L \in Nat \ {0} /\ dirty \in SUBSET Attr /\ History = <<dirty>> \o Rest
      /\ Rest \in Seq(SUBSET Attr) /\ Len(History) = Len(Rest) + 1
  BY TopOfHistory
<1>2. /\ MappingOK /\ values \in Rings /\ Len(History) = L + Len(Steps) /\ Len(Steps) \in Nat
      /\ Fits(values, History)
  BY Mapping, Consequences DEF MappingOK, HistoryOK
<1>3. History' = Rest
  BY DEF History, Rest
<1>4. vals \in Rings
  BY DroppingOK DEF DropFirst, Dropped
<1> HIDE DEF vals
<1>5. ASSUME NEW k \in 0..Len(Rest), NEW m, m = k + 1
      PROVE  Recorded(vals, storage, Rest, k) = Doc(m) /\ Fits(vals, Rest)
  <2>1. Fits(values, <<dirty>> \o Rest) /\ vals = Dropped(values, dirty)
    BY <1>1, <1>2 DEF vals
  <2>2. Recorded(vals, storage, Rest, k) = Recorded(values, storage, <<dirty>> \o Rest, m)
    BY <1>1, <1>2, <1>4, <1>5, <2>1, DroppedDocs
  <2>3. Fits(vals, Rest)
    BY <1>1, <1>2, <1>4, <2>1, DroppedFits
  <2> QED BY <1>1, <2>2, <2>3 DEF Doc
<1>6. Fits(vals, Rest) /\ \A k \in 1..Len(History) : Recorded(vals, storage, Rest, k - 1) = Doc(k)
  <2>1. 0 \in 0..Len(Rest) /\ 1 = 0 + 1
    BY <1>1
  <2>2. ASSUME NEW k \in 1..Len(History) PROVE Recorded(vals, storage, Rest, k - 1) = Doc(k)
    <3>1. k - 1 \in 0..Len(Rest) /\ k = (k - 1) + 1
      BY <1>1
    <3> QED BY <1>5, <3>1
  <2> QED BY <1>5, <2>1, <2>2
<1>7. \A a \in Attr : storage[a] = Recorded(vals, storage, Rest, L - 1)[a]
  <2>1. L \in 1..Len(History)
    BY <1>1, <1>2
  <2>2. \A a \in Attr : storage[a] = Doc(L)[a]
    BY <1>2 DEF MappingOK, StoredOK
  <2> QED BY <1>6, <2>1, <2>2
<1>8. ASSUME NEW k \in 1..Len(History) PROVE NewDoc(k - 1) = Doc(k)
  <2>1. k - 1 \in 0..Len(Rest) /\ L - 1 \in 0..Len(Rest)
    BY <1>1, <1>2
  <2> DEFINE i == k - 1
             n == L - 1
  <2>2. /\ i \in 0..Len(Rest) /\ n \in 0..Len(Rest)
        /\ \A a \in Attr : storage[a] = Recorded(vals, storage, Rest, n)[a]
    BY <1>7, <2>1
  <2> HIDE DEF i, n
  <2>3. Recorded(ControlLockGroup(vals, locks), storage, Rest, i) = Recorded(vals, storage, Rest, i)
    BY <1>1, <1>4, <1>6, <2>2, UnloadedDocs, ZenonT(40)
  <2>4. NewDoc(i) = Recorded(vals, storage, Rest, i)
    BY <1>3, <2>3 DEF NewDoc, vals
  <2> QED BY <1>6, <2>4 DEF i
<1>9. NewDoc(0) = Doc(1)
  <2>1. 1 \in 1..Len(History) /\ 1 - 1 = 0
    BY <1>1
  <2> QED BY <1>8, <2>1
<1>10. /\ Saved' = Tail(Saved) /\ Past' = Past /\ StorageIsCommitted'
       /\ Saved # <<>> /\ Saved[1].doc = Doc(1) /\ Len(Saved) = L
       /\ ReadersWriteNothing'
  <2>1. \A k \in 2..Len(History) : NewDoc(k - 1) = Doc(k)
    <3>1. \A k \in 2..Len(History) : k \in 1..Len(History)
      OBVIOUS
    <3> QED BY <1>8, <3>1
  <2>2. /\ Len(transactions') = L - 1 /\ ReadersWriteNothing'
        /\ \A k \in 2..L : transactions'[k - 1].readonly = transactions[k].readonly
    BY TailReads
  <2> QED BY <1>9, <2>1, <2>2, PoppedDocs
<1>11. DocNow' = Doc(1)
  BY <1>9, NewMapping
<1>12. ASSUME dirty = {} PROVE DocNow' = DocNow /\ vals = values
  <2>1. 0 \in 0..Len(Rest) /\ 0 + 1 = 1
    BY <1>1
  <2>2. Recorded(values, storage, <<{}>> \o Rest, 0 + 1) = Recorded(values, storage, Rest, 0)
    BY <1>1, <2>1, EmptyInFront
  <2>3. Doc(1) = Recorded(values, storage, Rest, 0)
    BY <1>1, <1>12, <2>1, <2>2 DEF Doc
  <2>4. Doc(0) = Recorded(values, storage, Rest, 0)
    <3>1. History \in Seq(SUBSET Attr)
      BY <1>2 DEF MappingOK, HistoryOK
    <3>2. /\ Recorded(values, storage, History, 0) = [a \in Attr |-> Entry(values[a], storage[a], 0)]
          /\ Recorded(values, storage, Rest, 0) = [a \in Attr |-> Entry(values[a], storage[a], 0)]
      BY <1>1, <3>1, FirstDoc, ZenonT(40)
    <3> QED BY <3>2 DEF Doc
  <2>5. DocNow = Doc(0)
    BY <1>2 DEF MappingOK, MapOK
  <2>6. vals = values
    <3>1. values = [a \in Attr |-> values[a]]
      BY <1>2 DEF Rings
    <3> QED BY <1>12, <3>1 DEF vals, Dropped
  <2> QED BY <1>11, <2>3, <2>4, <2>5, <2>6
<1>13. Future' = Future
  <2>1. CASE redo_count = 0
    BY <2>1, NoFuture
  <2>2. CASE redo_count # 0
    <3>1. dirty = {}
      <4>1. 1 \in 1..L /\ dirty = transactions[1].items
        BY <1>1, TopOfHistory
      <4> QED BY <2>2, <4>1, NoRedoOrReaders
    <3>2. values' = ControlLockGroup(values, locks) /\ DocNow' = DocNow
      BY <1>12, <3>1 DEF vals
    <3>3. \A a \in Attr : Len(values[a]) >= 2 => values'[a] = values[a]
      BY <3>2 DEF ControlLockGroup, HoldsLock
    <3> QED BY <3>2, <3>3, FutureUnloads
  <2> QED BY <2>1, <2>2
<1> QED BY <1>10, <1>11, <1>12, <1>13

LEMMA AbortRefines ==
  ASSUME IInv, IInv', StorageIsCommitted, ReadersWriteNothing,
         NEW t \in TransType, AbortTransaction(t)
  PROVE  Undo!Abort /\ StorageIsCommitted' /\ ReadersWriteNothing'
<1>1. InTransaction /\ (AbortNestedTr \/ AbortFinalTr) /\ UNCHANGED <<redo_count, maxUndoStep, storage>>
  BY DEF AbortTransaction
<1>2. transactions \in Seq(LevelType) /\ transactions # <<>> /\ dirty = transactions[1].items
      /\ Committed = dirty
  BY <1>1, TopOfHistory, CommittedIsDirty DEF InTransaction, IInv, TypeOK
<1>3. PICK locks : /\ values' = ControlLockGroup(Dropped(values, dirty), locks)
                   /\ transactions' = Tail(transactions) /\ Steps' = Steps
  <2>1. CASE AbortNestedTr
    <3>1. values' = ControlLockGroup(Dropped(values, dirty), locked)
      BY <1>2, <2>1 DEF AbortNestedTr, DropFirst, Dropped
    <3>2. transactions' = Tail(transactions) /\ undos' = undos /\ Len(transactions) >= 2
      BY <2>1 DEF AbortNestedTr
    <3>3. Tail(transactions) # <<>>
      BY <1>2, <3>2, TwoLevels
    <3>4. Steps' = Steps
      BY <1>2, <3>2, <3>3 DEF Steps, InTransaction
    <3> QED BY <3>1, <3>2, <3>4
  <2>2. CASE AbortFinalTr
    <3>1. values' = ControlLockGroup(Dropped(values, dirty), locked')
      BY <1>2, <2>2 DEF AbortFinalTr, DropFirst, Dropped
    <3>2. transactions' = <<>> /\ undos' = Tail(undos) /\ Len(transactions) = 1
      BY <2>2 DEF AbortFinalTr
    <3>3. Tail(transactions) = <<>>
      <4>1. Tail(transactions) \in Seq(LevelType) /\ Len(Tail(transactions)) = 0
        BY <1>2, <3>2, TailFacts
      <4> DEFINE others == Tail(transactions)
      <4>2. others \in Seq(LevelType) /\ Len(others) = 0
        BY <4>1
      <4> HIDE DEF others
      <4>3. others = <<>>
        BY <4>2
      <4> QED BY <4>3 DEF others
    <3>4. Steps' = Steps
      BY <1>2, <3>2 DEF Steps, InTransaction
    <3> QED BY <3>1, <3>2, <3>3, <3>4
  <2> QED BY <1>1, <2>1, <2>2
<1>4. /\ DocNow' = Saved[1].doc /\ Saved # <<>> /\ Saved' = Tail(Saved)
      /\ Past' = Past /\ Future' = Future /\ StorageIsCommitted' /\ ReadersWriteNothing'
  BY <1>1, <1>3, LevelGoes
<1>5. maxUndoStep' = maxUndoStep
  BY <1>1
<1> QED BY <1>4, <1>5, Zenon DEF Undo!Abort, Undo!InTransaction, Saved, Past, Future

\* When the outermost transaction ends there is nothing left to return to.
LEMMA NothingSaved ==
  ASSUME IInv', transactions' = <<>>
  PROVE  Saved' = <<>> /\ Len(transactions') = 0
<1>1. Len(transactions') = 0
  OBVIOUS
<1>2. Saved' = [k \in 1..0 |-> [doc |-> NewDoc(k), readonly |-> transactions'[k].readonly]]
  BY <1>1, NewMapping
<1> DEFINE f == Saved'
<1>3. IsList(f, 0)
  BY <1>2 DEF IsList
<1> HIDE DEF f
<1>4. f = <<>>
  BY <1>3, NoneListed
<1> QED BY <1>1, <1>4 DEF f

\* A commit that has written something makes a step to undo.
LEMMA CommitWritten ==
  ASSUME IInv, IInv', StorageIsCommitted, ReadersWriteNothing,
         NEW t \in TransType, CommitTransaction(t), CommitFinalTr, dirty # {}
  PROVE  Undo!CommitOuter /\ StorageIsCommitted' /\ ReadersWriteNothing'
<1>1. /\ Len(transactions) = 1 /\ InTransaction /\ Committed = dirty
      /\ storage' = [a \in Attr |-> IF a \in dirty THEN values[a][1] ELSE storage[a]]
      /\ undos' = <<dirty>> \o Tail(undos)
      /\ values' = ControlLockGroup(values, locked')
      /\ transactions' = <<>> /\ UNCHANGED <<redo_count, maxUndoStep>>
  BY CommittedIsDirty DEF CommitTransaction, MayCommit, CommitFinalTr, PushStep
<1>2. /\ dirty \in SUBSET Attr /\ History = <<dirty>> \o Rest /\ Rest \in Seq(SUBSET Attr)
      /\ Len(History) = Len(Rest) + 1
  BY <1>1, TopOfHistory
<1>3. /\ MappingOK /\ values \in Rings /\ History \in Seq(SUBSET Attr)
      /\ Len(History) = 1 + Len(Steps) /\ Len(Steps) \in Nat /\ Fits(values, History)
      /\ \A a \in Attr : storage[a] = Doc(1)[a]
  BY <1>1, Mapping, Consequences DEF MappingOK, HistoryOK, StoredOK
<1>4. Steps = Tail(undos) /\ Steps' = <<dirty>> \o Steps /\ ~InTransaction'
  BY <1>1 DEF Steps, InTransaction
<1>5. History = Steps'
  <2>1. Items(Tail(transactions)) = <<>>
    <3> DEFINE others == Tail(transactions)
               written == Items(others)
    <3>1. others \in Seq(LevelType) /\ Len(others) = 0
      BY <1>1, TopOfHistory
    <3> HIDE DEF others
    <3>2. written \in Seq(SUBSET Attr) /\ Len(written) = 0
      BY <3>1, ItemsType DEF LevelType
    <3> HIDE DEF written
    <3>3. written = <<>>
      BY <3>2
    <3> QED BY <3>3 DEF written, others
  <2>2. Rest = Steps
    <3>1. Steps \in Seq(SUBSET Attr)
      BY <1>3 DEF MappingOK, HistoryOK
    <3> QED BY <2>1, <3>1 DEF Rest
  <2> QED BY <1>2, <1>4, <2>2
<1>6. History' = History
  <2>1. History' = undos'
    <3>1. Steps' = undos'
      BY <1>4 DEF Steps
    <3>2. Items(transactions') = <<>>
      <4>1. HistoryOK' /\ Len(transactions') = 0
        BY <1>1, Mapping DEF MappingOK
      <4>2. Items(transactions') \in Seq(SUBSET Attr) /\ Len(Items(transactions')) = 0
        BY <4>1 DEF HistoryOK
      <4> DEFINE written == Items(transactions')
      <4>3. written \in Seq(SUBSET Attr) /\ Len(written) = 0
        BY <4>2
      <4> HIDE DEF written
      <4>4. written = <<>>
        BY <4>3
      <4> QED BY <4>4 DEF written
    <3>3. Steps' \in Seq(SUBSET Attr)
      BY <1>3, <1>5
    <3> QED BY <3>1, <3>2, <3>3 DEF History
  <2>2. Steps' = undos'
    BY <1>4 DEF Steps
  <2> QED BY <1>5, <2>1, <2>2
<1>7. ASSUME NEW a \in Attr PROVE storage'[a] = Entry(values[a], storage'[a], 0)
  <2>1. CASE a \in dirty
    <3>1. values[a] # <<>>
      BY <2>1, DirtyHasOlder
    <3> QED BY <1>1, <2>1, <3>1 DEF Entry
  <2>2. CASE a \notin dirty
    <3>1. CountUpTo(History, 1, a) = 0
      <4>1. 0 \in 0..Len(Rest) /\ 1 = 0 + 1
        BY <1>2
      <4>2. ASSUME NEW n \in 0..Len(Rest), NEW m, m = n + 1
            PROVE  CountUpTo(<<dirty>> \o Rest, m, a) = CountUpTo(Rest, n, a) + (IF a \in dirty THEN 1 ELSE 0)
        BY <1>2, <4>2, UpToOfPrepend
      <4>3. CountUpTo(<<dirty>> \o Rest, 1, a) = CountUpTo(Rest, 0, a) + (IF a \in dirty THEN 1 ELSE 0)
        BY <4>1, <4>2
      <4>4. CountUpTo(Rest, 0, a) = 0
        BY <1>2, UpToEnds
      <4> QED BY <1>2, <2>2, <4>3, <4>4
    <3>2. storage[a] = Entry(values[a], storage[a], 0)
      BY <1>3, <3>1 DEF Doc, Recorded
    <3> QED BY <1>1, <2>2, <3>2
  <2> QED BY <2>1, <2>2
<1>8. ASSUME NEW k \in 0..Len(History) PROVE Recorded(values, storage', History, k) = Doc(k)
  <2>1. ASSUME NEW a \in Attr, NEW n PROVE Entry(values[a], storage'[a], n) = Entry(values[a], storage[a], n)
    <3>1. values[a] = <<>> => a \notin dirty
      <4>1. a \in dirty => Len(values[a]) >= 2
        BY DirtyHasOlder
      <4> QED BY <4>1
    <3> QED BY <1>1, <3>1 DEF Entry
  <2> QED BY <2>1 DEF Recorded, Doc
<1>9. ASSUME NEW k \in 0..Len(History) PROVE NewDoc(k) = Doc(k)
  <2>1. \A a \in Attr : CountUpTo(History, 0, a) = 0
    BY <1>3, UpToEnds
  <2>2. \A a \in Attr : storage'[a] = Recorded(values, storage', History, 0)[a]
    BY <1>7, <2>1 DEF Recorded
  <2>3. 0 \in 0..Len(History)
    BY <1>2
  <2>4. Recorded(ControlLockGroup(values, locked'), storage', History, k) = Recorded(values, storage', History, k)
    BY <1>3, <2>2, <2>3, UnloadedDocs
  <2> QED BY <1>1, <1>6, <1>8, <2>4 DEF NewDoc
<1>10. DocNow' = DocNow /\ Saved' = <<>> /\ Len(transactions') = 0
  <2>1. 0 \in 0..Len(History)
    BY <1>2
  <2>2. NewDoc(0) = Doc(0) /\ DocNow' = NewDoc(0) /\ DocNow = Doc(0)
    BY <1>3, <1>9, <2>1, NewMapping DEF MappingOK, MapOK
  <2> QED BY <1>1, <2>2, NothingSaved
<1>11. StorageIsCommitted'
  <2>0. \A a \in Attr : CountUpTo(History, 0, a) = 0
    BY <1>3, UpToEnds
  <2>1. 0 \in 0..Len(History)
    BY <1>2
  <2>2. \A a \in Attr : storage'[a] = Recorded(values, storage', History, 0)[a]
    BY <1>7, <2>0 DEF Recorded
  <2>3. \A a \in Attr : storage'[a] = NewDoc(0)[a]
    BY <1>8, <1>9, <2>1, <2>2
  <2> QED BY <1>10, <2>3, NewMapping
<1>12. redo_count = 0
  <2>1. SUFFICES ASSUME redo_count # 0 PROVE FALSE
    OBVIOUS
  <2>2. 1 \in 1..Len(transactions) /\ dirty = transactions[1].items
    BY <1>1, TopOfHistory
  <2> QED BY <1>1, <2>1, <2>2, NoRedoOrReaders
<1>13. Future' = Future
  BY <1>1, <1>12, NoFuture
<1>14. Past' = <<Saved[1].doc>> \o Past
  <2> DEFINE n == Alive
             f == Past
             g == Past'
  <2>1. n = Len(Steps) /\ Alive' = n + 1 /\ n \in Nat
    <3>1. Len(Steps') = Len(Steps) + 1
      BY <1>3, <1>5
    <3> QED BY <1>1, <1>3, <1>12, <3>1 DEF Alive
  <2>2. f = [k \in 1..n |-> Doc(1 + k)]
    BY <1>1, <1>3 DEF MappingOK, MapOK
  <2>3. g = [k \in 1..(n + 1) |-> NewDoc(0 + k)]
    BY <1>10, <2>1, NewMapping
  <2>4. \A k \in 1..(n + 1) : g[k] = Doc(k)
    <3>1. ASSUME NEW k \in 1..(n + 1) PROVE g[k] = Doc(k)
      <4>1. k \in 0..Len(History) /\ 0 + k = k
        BY <1>3, <2>1
      <4>2. g[k] = NewDoc(0 + k)
        BY <2>3
      <4> QED BY <1>9, <4>1, <4>2
    <3> QED BY <3>1
  <2>5. \A k \in 1..n : g[k + 1] = f[k]
    <3>1. ASSUME NEW k \in 1..n PROVE g[k + 1] = f[k]
      <4>1. k + 1 \in 1..(n + 1) /\ 1 + k = k + 1
        BY <2>1
      <4>2. f[k] = Doc(1 + k)
        BY <2>2
      <4> QED BY <2>4, <4>1, <4>2
    <3> QED BY <3>1
  <2>6. IsList(f, n) /\ IsList(g, n + 1)
    BY <2>2, <2>3 DEF IsList
  <2>7. n + 1 \in Nat \ {0} /\ 1 \in 1..(n + 1)
    BY <2>1
  <2>8. Saved[1].doc = Doc(1)
    <3>1. 1 \in 1..Len(transactions)
      BY <1>1
    <3>2. Saved[1] = [doc |-> Doc(1), readonly |-> transactions[1].readonly]
      BY <3>1, SavedFacts
    <3> QED BY <3>2
  <2>9. g[1] = Doc(1)
    BY <2>4, <2>7
  <2> HIDE DEF n, f, g
  <2>10. f = Tail(g)
    BY <2>1, <2>5, <2>6, Prepended
  <2>11. Front(g) \o Tail(g) = g
    BY <2>6, <2>7, FrontAndTail
  <2>12. g = <<g[1]>> \o f
    BY <2>10, <2>11 DEF Front
  <2> QED BY <2>8, <2>9, <2>12 DEF f, g
<1>15. ReadersWriteNothing'
  BY <1>10 DEF ReadersWriteNothing
<1>16. Len(Saved) = 1 /\ maxUndoStep' = maxUndoStep
  BY <1>1, SavedFacts
<1> QED BY <1>10, <1>11, <1>13, <1>14, <1>15, <1>16, Zenon DEF Undo!CommitOuter, Saved, Past, Future

\* A commit that has written nothing changes no document.
LEMMA CommitUnwritten ==
  ASSUME IInv, IInv', StorageIsCommitted, ReadersWriteNothing,
         NEW t \in TransType, CommitTransaction(t), CommitFinalTr, dirty = {}
  PROVE  Undo!CommitOuter /\ StorageIsCommitted' /\ ReadersWriteNothing'
<1>1. /\ Len(transactions) = 1 /\ InTransaction /\ Committed = dirty
      /\ storage' = [a \in Attr |-> IF a \in dirty THEN values[a][1] ELSE storage[a]]
      /\ undos' = Tail(undos)
      /\ values' = ControlLockGroup(values, locked')
      /\ transactions' = <<>> /\ UNCHANGED <<redo_count, maxUndoStep>>
  BY CommittedIsDirty DEF CommitTransaction, MayCommit, CommitFinalTr, PushStep
<1>2. values = Dropped(values, dirty) /\ storage' = storage
  <2>1. values = [a \in Attr |-> values[a]] /\ storage = [a \in Attr |-> storage[a]]
    BY DEF IInv, TypeOK
  <2> QED BY <1>1, <2>1 DEF Dropped
<1>3. transactions' = Tail(transactions)
  <2> DEFINE others == Tail(transactions)
  <2>1. others \in Seq(LevelType) /\ Len(others) = 0
    BY <1>1, TopOfHistory
  <2> HIDE DEF others
  <2>2. others = <<>>
    BY <2>1
  <2> QED BY <1>1, <2>2 DEF others
<1>4. Steps' = Steps
  BY <1>1 DEF Steps, InTransaction
<1>5. values' = ControlLockGroup(Dropped(values, dirty), locked')
  BY <1>1, <1>2
<1>6. /\ DocNow' = Saved[1].doc /\ DocNow' = DocNow /\ Len(Saved) = 1
      /\ Past' = Past /\ Future' = Future /\ StorageIsCommitted' /\ ReadersWriteNothing'
  BY <1>1, <1>2, <1>3, <1>4, <1>5, LevelGoes
<1>7. Saved' = <<>>
  BY <1>1, NothingSaved
<1>8. maxUndoStep' = maxUndoStep
  BY <1>1
<1> QED BY <1>6, <1>7, <1>8, Zenon DEF Undo!CommitOuter, Saved, Past, Future

-----------------------------------------------------------------------------
(* Undo and redo *)

\* The document after k steps of h have been taken from its end: what redo
\* returns to while h is the undo list.
Ahead(vals, store, h, k) ==
  [a \in Attr |->
    LET n == CountAfter(h, Len(h) - k, a)
    IN  IF n = 0 THEN Entry(vals[a], store[a], 0) ELSE vals[a][Len(vals[a]) - n + 1]]

Behinds(vals, store, h, n) == [k \in 1..n |-> Recorded(vals, store, h, k)]
Aheads(vals, store, h, n) == [k \in 1..n |-> Ahead(vals, store, h, k)]

LEMMA CountAfterTurn ==
  ASSUME NEW h \in Seq(SUBSET Attr), NEW e \in SUBSET Attr, NEW k \in 0..Len(h),
         NEW m, m = k + 1, NEW a
  PROVE  /\ CountAfter(h \o <<e>>, k, a) = CountAfter(h, k, a) + (IF a \in e THEN 1 ELSE 0)
         /\ CountAfter(<<e>> \o h, m, a) = CountAfter(h, k, a)
         /\ CountAfter(h, k, a) \in Nat
<1> DEFINE after == h \o <<e>>
           before == <<e>> \o h
           one == IF a \in e THEN 1 ELSE 0
<1>1. /\ after \in Seq(SUBSET Attr) /\ before \in Seq(SUBSET Attr) /\ one \in Nat
      /\ k \in 0..Len(after) /\ k + 1 \in 0..Len(before) /\ <<e>> \in Seq(SUBSET Attr)
  OBVIOUS
<1>2. /\ Count(after, a) = Count(h, a) + one
      /\ Count(before, a) = Count(h, a) + one
  BY CountOfAppend, CountOfPrepend
<1>3. CountUpTo(after, k, a) = CountUpTo(h, k, a)
  BY <1>1, UpToInFirst
<1>4. CountUpTo(before, k + 1, a) = CountUpTo(h, k, a) + one
  BY UpToOfPrepend
<1>5. /\ CountUpTo(h, k, a) \in Nat /\ CountAfter(h, k, a) \in Nat
      /\ Count(h, a) = CountUpTo(h, k, a) + CountAfter(h, k, a)
  BY UpToType
<1> HIDE DEF after, before, one
<1>6. /\ CountAfter(after, k, a) \in Nat
      /\ Count(after, a) = CountUpTo(after, k, a) + CountAfter(after, k, a)
  BY <1>1, UpToType
<1>7. /\ CountAfter(before, k + 1, a) \in Nat
      /\ Count(before, a) = CountUpTo(before, k + 1, a) + CountAfter(before, k + 1, a)
  BY <1>1, UpToType
<1>8. CountAfter(after, k, a) = CountAfter(h, k, a) + one
  <2>1. one \in Nat
    BY <1>1
  <2>2. CountUpTo(h, k, a) + CountAfter(after, k, a) = (CountUpTo(h, k, a) + CountAfter(h, k, a)) + one
    BY <1>2, <1>3, <1>5, <1>6
  <2> QED BY <2>1, <2>2, <1>5, <1>6
<1>9. CountAfter(before, k + 1, a) = CountAfter(h, k, a)
  BY <1>1, <1>2, <1>4, <1>5, <1>7
<1> QED BY <1>5, <1>8, <1>9 DEF after, before, one

\* What was the document is ahead when the step in front has gone to the end.
LEMMA TurnedAhead ==
  ASSUME NEW vals \in Rings, NEW store, NEW stored, NEW e \in SUBSET Attr,
         NEW result, result = Turned(vals, e), SameOutside(stored, store, e),
         NEW h \in Seq(SUBSET Attr), Fits(vals, <<e>> \o h),
         NEW k \in 0..Len(h), NEW m, m = k + 1
  PROVE  Ahead(result, stored, h \o <<e>>, m) = Ahead(vals, store, <<e>> \o h, k)
<1>0. /\ \A a \in Attr : result[a] = IF a \in e THEN RotateLeft(vals[a]) ELSE vals[a]
      /\ \A a \in Attr : a \notin e => stored[a] = store[a]
  BY DEF Turned, SameOutside
<1> DEFINE j == Len(h) - k
           after == h \o <<e>>
           before == <<e>> \o h
<1>1. /\ j \in 0..Len(h) /\ j + 1 \in Nat
      /\ Len(after) - m = j /\ Len(before) - k = j + 1
  OBVIOUS
<1>2. ASSUME NEW a \in Attr
      PROVE  /\ CountAfter(after, j, a) = CountAfter(h, j, a) + (IF a \in e THEN 1 ELSE 0)
             /\ CountAfter(before, j + 1, a) = CountAfter(h, j, a)
             /\ CountAfter(h, j, a) \in Nat
  <2>1. ASSUME NEW i, i = j + 1
        PROVE  /\ CountAfter(h \o <<e>>, j, a) = CountAfter(h, j, a) + (IF a \in e THEN 1 ELSE 0)
               /\ CountAfter(<<e>> \o h, i, a) = CountAfter(h, j, a)
               /\ CountAfter(h, j, a) \in Nat
    <3> HIDE DEF j
    <3> QED BY <1>1, <2>1, CountAfterTurn
  <2> QED BY <2>1
<1>3. ASSUME NEW a \in Attr, a \in e
      PROVE  /\ vals[a] \in Seq(Value) /\ vals[a] # <<>> /\ CountAfter(h, j, a) + 2 <= Len(vals[a])
  <2>1. Count(<<e>> \o h, a) = Count(h, a) + 1
    BY <1>3, CountOfPrepend
  <2>2. /\ CountUpTo(h, j, a) \in Nat /\ CountAfter(h, j, a) \in Nat
        /\ Count(h, a) = CountUpTo(h, j, a) + CountAfter(h, j, a)
    <3> HIDE DEF j
    <3> QED BY <1>1, UpToType
  <2> HIDE DEF j
  <2>3. vals[a] \in Seq(Value) /\ vals[a] # <<>> /\ Len(vals[a]) = Count(h, a) + 2
    BY <2>1, <2>2 DEF Fits, Rings, RingMatches
  <2> QED BY <2>2, <2>3
<1> HIDE DEF after, before, j
<1>4. /\ Ahead(result, stored, after, m) =
           [a \in Attr |-> IF CountAfter(after, j, a) = 0 THEN Entry(result[a], stored[a], 0)
                           ELSE result[a][Len(result[a]) - CountAfter(after, j, a) + 1]]
      /\ Ahead(vals, store, before, k) =
           [a \in Attr |-> IF CountAfter(before, j + 1, a) = 0 THEN Entry(vals[a], store[a], 0)
                           ELSE vals[a][Len(vals[a]) - CountAfter(before, j + 1, a) + 1]]
  BY <1>1 DEF Ahead
<1>5. ASSUME NEW a \in Attr
      PROVE  (IF CountAfter(after, j, a) = 0 THEN Entry(result[a], stored[a], 0)
                           ELSE result[a][Len(result[a]) - CountAfter(after, j, a) + 1])
             = (IF CountAfter(before, j + 1, a) = 0 THEN Entry(vals[a], store[a], 0)
                           ELSE vals[a][Len(vals[a]) - CountAfter(before, j + 1, a) + 1])
  <2> DEFINE c == CountAfter(h, j, a)
             ring == vals[a]
  <2>1. CASE a \notin e
    <3>1. CountAfter(after, j, a) = c /\ CountAfter(before, j + 1, a) = c
      BY <1>2, <2>1
    <3>2. result[a] = vals[a] /\ stored[a] = store[a]
      BY <1>0, <2>1
    <3> QED BY <3>1, <3>2
  <2>2. CASE a \in e
    <3>1. CountAfter(after, j, a) = c + 1 /\ CountAfter(before, j + 1, a) = c /\ c \in Nat
      BY <1>2, <2>2
    <3>2. result[a] = RotateLeft(ring)
      BY <1>0, <2>2
    <3>3. ring \in Seq(Value) /\ ring # <<>> /\ c + 2 <= Len(ring)
      BY <1>3, <2>2
    <3> HIDE DEF c, ring
    <3>4. /\ Len(RotateLeft(ring)) = Len(ring) /\ Len(ring) \in Nat
          /\ \A i \in 1..Len(ring) : RotateLeft(ring)[i] = IF i < Len(ring) THEN ring[i + 1] ELSE ring[1]
      BY <3>3 DEF RotateLeft
    <3>5. Len(ring) - (c + 1) + 1 = Len(ring) - c /\ Len(ring) - c \in 1..Len(ring)
      BY <3>1, <3>3, <3>4
    <3>6. CASE c = 0
      <4>1. RotateLeft(ring)[Len(ring) - c] = ring[1]
        BY <3>4, <3>5, <3>6
      <4>2. Entry(ring, store[a], 0) = ring[1]
        BY <3>3 DEF Entry
      <4> QED BY <3>1, <3>2, <3>4, <3>5, <3>6, <4>1, <4>2 DEF ring
    <3>7. CASE c # 0
      <4>1. Len(ring) - c < Len(ring)
        BY <3>1, <3>4, <3>7
      <4>2. RotateLeft(ring)[Len(ring) - c] = ring[Len(ring) - c + 1]
        <5> DEFINE i == Len(ring) - c
        <5>1. i \in 1..Len(ring) /\ i < Len(ring)
          BY <3>5, <4>1
        <5> HIDE DEF i
        <5>2. RotateLeft(ring)[i] = ring[i + 1]
          BY <3>4, <5>1
        <5> QED BY <5>2 DEF i
      <4> QED BY <3>1, <3>2, <3>4, <3>5, <3>7, <4>2 DEF ring
    <3> QED BY <3>6, <3>7
  <2> QED BY <2>1, <2>2
<1>6. Ahead(result, stored, after, m) = Ahead(vals, store, before, k)
  BY <1>4, <1>5
<1> QED BY <1>6 DEF after, before

\* A list and the same list with one more element in front
Follows(f, g, n) == \A k \in 1..n : g[k + 1] = f[k]

LEMMA OneMore ==
  ASSUME NEW n \in Nat, NEW m, m = n + 1, NEW f, NEW g, IsList(f, n), IsList(g, m),
         Follows(f, g, n)
  PROVE  f = Tail(g) /\ Front(g) \o f = g /\ g # <<>>
<1>1. m \in Nat \ {0} /\ m \in Nat /\ m # 0
  OBVIOUS
<1>2. f = Tail(g)
  BY Prepended DEF Follows
<1>3. Front(g) \o Tail(g) = g
  BY <1>1, FrontAndTail
<1>4. g # <<>>
  BY <1>1, ListedLen
<1> QED BY <1>2, <1>3, <1>4

InFront(e, h) == <<e>> \o h
AtEnd(e, h) == h \o <<e>>

\* One element of the history turns from the front to the end: the documents
\* before it come one nearer, the document left behind is the first one ahead.
LEMMA TurnedLists ==
  ASSUME NEW vals \in Rings, NEW store, NEW stored, NEW e \in SUBSET Attr,
         NEW result, result = Turned(vals, e), SameOutside(stored, store, e),
         NEW h \in Seq(SUBSET Attr),
         NEW before, before = InFront(e, h), Fits(vals, before),
         NEW after, after = AtEnd(e, h),
         NEW alive \in Nat, NEW redone \in Nat, alive + redone = Len(h),
         NEW m, m = alive + 1, NEW r, r = redone + 1,
         NEW pastBefore, pastBefore = Behinds(vals, store, before, m),
         NEW pastAfter, pastAfter = Behinds(result, stored, after, alive),
         NEW futureBefore, futureBefore = Aheads(vals, store, before, redone),
         NEW futureAfter, futureAfter = Aheads(result, stored, after, r)
  PROVE  /\ IsList(pastBefore, m) /\ IsList(pastAfter, alive) /\ Follows(pastAfter, pastBefore, alive)
         /\ IsList(futureAfter, r) /\ IsList(futureBefore, redone) /\ Follows(futureBefore, futureAfter, redone)
         /\ pastBefore[1] = Recorded(result, stored, after, 0)
         /\ futureAfter[1] = Recorded(vals, store, before, 0)
<1>0. before = <<e>> \o h /\ after = h \o <<e>>
  BY DEF InFront, AtEnd
<1>1. /\ before \in Seq(SUBSET Attr) /\ Len(before) = Len(h) + 1
      /\ m \in Nat /\ r \in Nat /\ 1 \in 1..m /\ 1 \in 1..r /\ 0 \in 0..Len(h) /\ Len(h) \in Nat
  BY <1>0
<1>2. ASSUME NEW k \in 0..Len(h), NEW i, i = k + 1
      PROVE  Recorded(result, stored, after, k) = Recorded(vals, store, before, i)
  <2>1. Fits(vals, <<e>> \o h)
    BY <1>0
  <2>2. Recorded(result, stored, h \o <<e>>, k) = Recorded(vals, store, <<e>> \o h, i)
    BY <1>2, <2>1, TurnedDocs
  <2> QED BY <1>0, <2>2
<1>3. ASSUME NEW k \in 0..Len(h), NEW i, i = k + 1
      PROVE  Ahead(result, stored, after, i) = Ahead(vals, store, before, k)
  <2>1. Fits(vals, <<e>> \o h)
    BY <1>0
  <2>2. Ahead(result, stored, h \o <<e>>, i) = Ahead(vals, store, <<e>> \o h, k)
    BY <1>3, <2>1, TurnedAhead
  <2> QED BY <1>0, <2>2
<1>4. Ahead(vals, store, before, 0) = Recorded(vals, store, before, 0)
  <2>1. \A a \in Attr : CountAfter(before, Len(before) - 0, a) = 0
    <3>1. ASSUME NEW a \in Attr PROVE CountAfter(before, Len(before), a) = 0
      <4>1. Len(before) \in 0..Len(before)
        BY <1>1
      <4>2. /\ CountUpTo(before, Len(before), a) \in Nat /\ CountAfter(before, Len(before), a) \in Nat
            /\ Count(before, a) = CountUpTo(before, Len(before), a) + CountAfter(before, Len(before), a)
        <5> QED BY <1>1, <4>1, UpToType
      <4>3. CountUpTo(before, Len(before), a) = Count(before, a)
        <5> QED BY <1>1, UpToEnds
      <4> QED BY <4>2, <4>3
    <3>2. Len(before) - 0 = Len(before)
      BY <1>1
    <3> QED BY <3>1, <3>2
  <2>2. Ahead(vals, store, before, 0) = [a \in Attr |-> Entry(vals[a], store[a], 0)]
    <3> QED BY <2>1 DEF Ahead
  <2> QED BY <1>1, <2>2, FirstDoc
<1>5. 1 = 0 + 1
  OBVIOUS
<1>6. pastBefore[1] = Recorded(result, stored, after, 0)
  <2>1. pastBefore[1] = Recorded(vals, store, before, 1)
    BY <1>1 DEF Behinds
  <2>2. Recorded(result, stored, after, 0) = Recorded(vals, store, before, 1)
    BY <1>1, <1>2, <1>5
  <2> QED BY <2>1, <2>2
<1>7. futureAfter[1] = Recorded(vals, store, before, 0)
  <2>1. futureAfter[1] = Ahead(result, stored, after, 1)
    BY <1>1 DEF Aheads
  <2>2. Ahead(result, stored, after, 1) = Ahead(vals, store, before, 0)
    BY <1>1, <1>3, <1>5
  <2> QED BY <1>4, <2>1, <2>2
<1>8. ASSUME NEW k \in 1..alive PROVE pastBefore[k + 1] = pastAfter[k]
  <2>1. k + 1 \in 1..m /\ k \in 0..Len(h)
    BY <1>1
  <2>2. pastBefore[k + 1] = Recorded(vals, store, before, k + 1)
    BY <2>1 DEF Behinds
  <2>3. pastAfter[k] = Recorded(result, stored, after, k)
    BY DEF Behinds
  <2> QED BY <1>2, <2>1, <2>2, <2>3
<1>9. ASSUME NEW k \in 1..redone PROVE futureAfter[k + 1] = futureBefore[k]
  <2>1. k + 1 \in 1..r /\ k \in 0..Len(h)
    BY <1>1
  <2>2. futureAfter[k + 1] = Ahead(result, stored, after, k + 1)
    BY <2>1 DEF Aheads
  <2>3. futureBefore[k] = Ahead(vals, store, before, k)
    BY DEF Aheads
  <2> QED BY <1>3, <2>1, <2>2, <2>3
<1>10. /\ IsList(pastBefore, m) /\ IsList(pastAfter, alive)
       /\ IsList(futureAfter, r) /\ IsList(futureBefore, redone)
  <2>1. IsList(pastBefore, m)
    BY DEF IsList, Behinds
  <2>2. IsList(pastAfter, alive)
    BY DEF IsList, Behinds
  <2>3. IsList(futureAfter, r)
    BY DEF IsList, Aheads
  <2>4. IsList(futureBefore, redone)
    BY DEF IsList, Aheads
  <2> QED BY <2>1, <2>2, <2>3, <2>4
<1>11. Follows(pastAfter, pastBefore, alive) /\ Follows(futureBefore, futureAfter, redone)
  BY <1>8, <1>9 DEF Follows
<1> QED BY <1>6, <1>7, <1>10, <1>11

\* The documents ahead, between transactions
FutureOK == ~InTransaction => Future = Aheads(values, storage, undos, redo_count)

LEMMA FutureIsAhead == FutureOK
<1> SUFFICES ASSUME ~InTransaction PROVE Future = Aheads(values, storage, undos, redo_count)
  BY DEF FutureOK
<1>1. Steps = undos
  BY DEF Steps
<1>2. ASSUME NEW k \in 1..redo_count PROVE DocFuture(k) = Ahead(values, storage, undos, k)
  <2>1. \A a \in Attr : TouchedBy(a, Len(undos) - k + 1, Len(undos)) = CountAfter(undos, Len(undos) - k, a)
    BY <1>1 DEF TouchedBy, CountAfter, OccursAfter
  <2>2. \A a \in Attr : Current(a) = Entry(values[a], storage[a], 0)
    BY DEF Current, Entry
  <2> QED BY <1>1, <2>1, <2>2 DEF DocFuture, Ahead
<1> QED BY <1>2 DEF Future, Aheads

\* What undo and redo have in common, in one state: an idle undo list and its
\* documents.
IdleLists ==
  /\ InTransaction = FALSE /\ Len(transactions) = 0 /\ redo_count \in 0..Len(undos)
  /\ undos \in Seq(SUBSET Attr) /\ values \in Rings /\ Fits(values, undos)
  /\ DocNow = Recorded(values, storage, undos, 0)
  /\ Past = Behinds(values, storage, undos, Len(undos) - redo_count)
  /\ Future = Aheads(values, storage, undos, redo_count)
  /\ Saved = <<>>
  /\ StorageIsCommitted <=> \A a \in Attr : storage[a] = Recorded(values, storage, undos, 0)[a]

LEMMA IdleFacts ==
  (IInv /\ ~InTransaction => IdleLists) /\ (IInv' /\ ~InTransaction' => IdleLists')
<1>1. ASSUME IInv, ~InTransaction PROVE IdleLists
  <2>1. /\ transactions = <<>> /\ Len(transactions) = 0 /\ Steps = undos /\ History = undos
        /\ undos \in Seq(SUBSET Attr) /\ Fits(values, undos) /\ values \in Rings /\ MappingOK
        /\ redo_count \in 0..Len(undos)
    BY <1>1, IdleHistory, Mapping DEF MappingOK, HistoryOK
  <2>2. \A k : Doc(k) = Recorded(values, storage, undos, k)
    BY <2>1 DEF Doc
  <2>3. Future = Aheads(values, storage, undos, redo_count)
    BY <1>1, FutureIsAhead DEF FutureOK
  <2>4. Saved = <<>>
    BY <2>1, NoneListed DEF Saved, IsList
  <2>5. Past = Behinds(values, storage, undos, Len(undos) - redo_count)
    <3>1. Past = [k \in 1..Alive |-> Doc(0 + k)] /\ Alive = Len(undos) - redo_count
      BY <2>1 DEF MappingOK, MapOK, Alive
    <3>2. \A k \in 1..Alive : Doc(0 + k) = Recorded(values, storage, undos, k)
      <4>1. \A k \in 1..Alive : 0 + k = k
        OBVIOUS
      <4> QED BY <2>2, <4>1
    <3> QED BY <3>1, <3>2 DEF Behinds
  <2>6. DocNow = Doc(0) /\ (StorageIsCommitted <=> \A a \in Attr : storage[a] = Doc(0)[a])
    BY <2>1 DEF MappingOK, MapOK, StoredOK
  <2> QED BY <1>1, <2>1, <2>2, <2>3, <2>4, <2>5, <2>6 DEF IdleLists
<1>2. IInv /\ ~InTransaction => IdleLists
  BY <1>1
<1> QED BY <1>2, PTL

LEMMA UndoRefines ==
  ASSUME IInv, IInv', StorageIsCommitted, UndoTransaction
  PROVE  Undo!Undo /\ StorageIsCommitted' /\ ReadersWriteNothing'
<1> DEFINE e == undos[1]
           h == Tail(undos)
           past == Past
           past1 == Past'
           future == Future
           future1 == Future'
           alive == Len(undos) - redo_count - 1
<1>1. /\ ~InTransaction /\ Len(undos) > redo_count
      /\ storage' = [a \in Attr |-> IF a \in e THEN values[a][2] ELSE storage[a]]
      /\ values' = [a \in Attr |-> IF a \in e THEN RotateLeft(values[a]) ELSE values[a]]
      /\ undos' = h \o <<e>>
      /\ redo_count' = redo_count + 1
      /\ UNCHANGED <<transactions, maxUndoStep>>
  BY DEF UndoTransaction, MayUndo, Undone, RotateLeft
<1>2. ~InTransaction'
  BY <1>1 DEF InTransaction
<1>3. IdleLists /\ IdleLists'
  BY <1>1, <1>2, IdleFacts
<1>4. /\ undos \in Seq(SUBSET Attr) /\ redo_count \in Nat /\ Len(undos) \in Nat
      /\ values \in Rings /\ Fits(values, undos)
  BY <1>3 DEF IdleLists
<1>5. /\ undos = <<e>> \o h /\ e \in SUBSET Attr /\ h \in Seq(SUBSET Attr)
      /\ Len(h) = Len(undos) - 1 /\ Len(undos') = Len(undos)
  <2>1. undos # <<>>
    <3>1. Len(undos) # 0 /\ Len(<<>>) = 0
      BY <1>1, <1>4
    <3> QED BY <3>1
  <2>2. /\ undos = <<e>> \o h /\ e \in SUBSET Attr /\ h \in Seq(SUBSET Attr)
        /\ Len(h) = Len(undos) - 1
    BY <1>4, <2>1
  <2> HIDE DEF e, h
  <2> QED BY <1>1, <2>2
<1>6. ASSUME NEW a \in Attr, a \in e
      PROVE  values'[a] = RotateLeft(values[a]) /\ storage'[a] = values[a][2] /\ Len(values[a]) >= 2 /\ values[a] \in Seq(Value)
  <2>1. 1 \in 1..Len(undos)
    BY <1>1, <1>4
  <2> QED BY <1>1, <1>6, <2>1, StepTouchesRings
<1> HIDE DEF e, h
<1>7. values' = Turned(values, e) /\ SameOutside(storage', storage, e)
  BY <1>1 DEF Turned, SameOutside
<1>8. /\ past = Behinds(values, storage, undos, alive + 1)
      /\ past1 = Behinds(values', storage', undos', alive)
      /\ future = Aheads(values, storage, undos, redo_count)
      /\ future1 = Aheads(values', storage', undos', redo_count + 1)
      /\ DocNow = Recorded(values, storage, undos, 0)
      /\ DocNow' = Recorded(values', storage', undos', 0)
      /\ StorageIsCommitted => \A a \in Attr : storage[a] = Recorded(values, storage, undos, 0)[a]
      /\ StorageIsCommitted' <=> \A a \in Attr : storage'[a] = Recorded(values', storage', undos', 0)[a]
  <2>1. /\ past = Behinds(values, storage, undos, Len(undos) - redo_count)
        /\ past1 = Behinds(values', storage', undos', Len(undos') - redo_count')
    BY <1>3 DEF IdleLists
  <2>2. /\ future = Aheads(values, storage, undos, redo_count)
        /\ future1 = Aheads(values', storage', undos', redo_count')
    BY <1>3 DEF IdleLists
  <2>3. /\ DocNow = Recorded(values, storage, undos, 0)
        /\ DocNow' = Recorded(values', storage', undos', 0)
        /\ StorageIsCommitted => \A a \in Attr : storage[a] = Recorded(values, storage, undos, 0)[a]
        /\ StorageIsCommitted' <=> \A a \in Attr : storage'[a] = Recorded(values', storage', undos', 0)[a]
    BY <1>3 DEF IdleLists
  <2>4. /\ Len(undos) - redo_count = alive + 1
        /\ Len(undos') - redo_count' = alive
    BY <1>1, <1>4, <1>5
  <2> HIDE DEF past, past1, future, future1, alive
  <2> QED BY <1>1, <1>5, <2>1, <2>2, <2>3, <2>4
<1>9. /\ alive \in Nat /\ redo_count \in Nat /\ alive + redo_count = Len(h)
  BY <1>1, <1>4, <1>5
<1>10. /\ IsList(past, alive + 1) /\ IsList(past1, alive) /\ Follows(past1, past, alive)
       /\ IsList(future1, redo_count + 1) /\ IsList(future, redo_count) /\ Follows(future, future1, redo_count)
       /\ past[1] = DocNow' /\ future1[1] = DocNow
  <2> HIDE DEF past, past1, future, future1, alive
  <2>1. ASSUME NEW m, m = alive + 1, NEW r, r = redo_count + 1
        PROVE  /\ IsList(past, m) /\ IsList(past1, alive) /\ Follows(past1, past, alive)
               /\ IsList(future1, r) /\ IsList(future, redo_count) /\ Follows(future, future1, redo_count)
               /\ past[1] = Recorded(values', storage', undos', 0)
               /\ future1[1] = Recorded(values, storage, undos, 0)
    <3>1. undos = InFront(e, h) /\ undos' = AtEnd(e, h)
      BY <1>1, <1>5 DEF InFront, AtEnd
    <3>2. e \in SUBSET Attr /\ h \in Seq(SUBSET Attr)
      BY <1>5
    <3>3. /\ past = Behinds(values, storage, undos, m)
          /\ past1 = Behinds(values', storage', undos', alive)
          /\ future = Aheads(values, storage, undos, redo_count)
          /\ future1 = Aheads(values', storage', undos', r)
      BY <1>8, <2>1
    <3> QED BY <1>4, <1>7, <1>9, <2>1, <3>1, <3>2, <3>3, TurnedLists
  <2> QED BY <1>8, <2>1
<1>11. past1 = Tail(past) /\ Front(past) \o past1 = past /\ past # <<>>
  <2> HIDE DEF past, past1, future, future1, alive
  <2> QED BY <1>9, <1>10, OneMore
<1>12. future = Tail(future1) /\ Front(future1) \o future = future1 /\ future1 # <<>>
  <2> HIDE DEF past, past1, future, future1, alive
  <2> QED BY <1>9, <1>10, OneMore
<1>13. future1 = <<DocNow>> \o future
  <2> HIDE DEF past, past1, future, future1, alive
  <2> QED BY <1>10, <1>12 DEF Front
<1>14. StorageIsCommitted'
  <2>1. \A a \in Attr : Recorded(values', storage', undos', 0)[a] = Entry(values'[a], storage'[a], 0)
    <3>1. undos' \in Seq(SUBSET Attr)
      BY <1>3 DEF IdleLists
    <3> QED BY <3>1, FirstDoc
  <2>2. \A a \in Attr : Recorded(values, storage, undos, 0)[a] = Entry(values[a], storage[a], 0)
    BY <1>4, FirstDoc
  <2>3. ASSUME NEW a \in Attr PROVE storage'[a] = Entry(values'[a], storage'[a], 0)
    <3>1. CASE a \in e
      <4> DEFINE ring == values[a]
      <4>1. ring \in Seq(Value) /\ Len(ring) >= 2 /\ values'[a] = RotateLeft(ring) /\ storage'[a] = ring[2]
        BY <1>6, <3>1
      <4> HIDE DEF ring
      <4>2. RotateLeft(ring) # <<>> /\ RotateLeft(ring)[1] = ring[2]
        BY <4>1 DEF RotateLeft
      <4> QED BY <4>1, <4>2 DEF Entry
    <3>2. CASE a \notin e
      <4>1. storage'[a] = storage[a] /\ values'[a] = values[a]
        BY <1>1, <3>2
      <4>2. storage[a] = Entry(values[a], storage[a], 0)
        BY <1>8, <2>2
      <4> QED BY <4>1, <4>2
    <3> QED BY <3>1, <3>2
  <2> QED BY <1>8, <2>1, <2>3
<1>15. ReadersWriteNothing'
  <2>1. Len(transactions') = 0
    BY <1>3 DEF IdleLists
  <2> QED BY <2>1 DEF ReadersWriteNothing
<1>16. Saved = <<>> /\ Saved' = <<>> /\ maxUndoStep' = maxUndoStep
  BY <1>1, <1>3 DEF IdleLists
<1>17. Past' = Tail(Past) /\ Past # <<>> /\ Past[1] = DocNow' /\ Future' = <<DocNow>> \o Future
  BY <1>10, <1>11, <1>13
<1> QED BY <1>14, <1>15, <1>16, <1>17, Zenon DEF Undo!Undo, Undo!InTransaction, Saved, Past, Future

LEMMA RedoRefines ==
  ASSUME IInv, IInv', StorageIsCommitted, RedoTransaction
  PROVE  Undo!Redo /\ StorageIsCommitted' /\ ReadersWriteNothing'
<1> DEFINE e == undos[Len(undos)]
           h == SubSeq(undos, 1, Len(undos) - 1)
           past == Past
           past1 == Past'
           future == Future
           future1 == Future'
           alive == Len(undos) - redo_count
           redone == redo_count - 1
<1>1. /\ ~InTransaction /\ redo_count > 0
      /\ storage' = [a \in Attr |-> IF a \in e THEN values[a][Len(values[a])] ELSE storage[a]]
      /\ values' = [a \in Attr |-> IF a \in e THEN RotateRight(values[a]) ELSE values[a]]
      /\ undos' = <<e>> \o h
      /\ redo_count' = redone
      /\ UNCHANGED <<transactions, maxUndoStep>>
  BY DEF RedoTransaction, MayRedo, Redone, RotateRight
<1>2. ~InTransaction'
  BY <1>1 DEF InTransaction
<1>3. IdleLists /\ IdleLists'
  BY <1>1, <1>2, IdleFacts
<1>4. /\ undos \in Seq(SUBSET Attr) /\ redo_count \in Nat /\ Len(undos) \in Nat
      /\ redo_count <= Len(undos)
      /\ values \in Rings /\ values' \in Rings /\ Fits(values, undos) /\ Fits(values', undos')
  BY <1>3 DEF IdleLists
<1>5. /\ undos = h \o <<e>> /\ e \in SUBSET Attr /\ h \in Seq(SUBSET Attr)
      /\ Len(h) = Len(undos) - 1 /\ Len(undos') = Len(undos)
  <2>1. undos # <<>>
    <3>1. Len(undos) # 0 /\ Len(<<>>) = 0
      BY <1>1, <1>4
    <3> QED BY <3>1
  <2>2. /\ undos = h \o <<e>> /\ e \in SUBSET Attr /\ h \in Seq(SUBSET Attr)
        /\ Len(h) = Len(undos) - 1
    BY <1>4, <2>1
  <2> HIDE DEF e, h
  <2> QED BY <1>1, <2>2
<1>6. ASSUME NEW a \in Attr, a \in e
      PROVE  /\ values'[a] = RotateRight(values[a]) /\ storage'[a] = values[a][Len(values[a])]
             /\ Len(values[a]) >= 2 /\ values[a] \in Seq(Value)
  <2>1. Len(undos) \in 1..Len(undos)
    BY <1>1, <1>4
  <2> QED BY <1>1, <1>6, <2>1, StepTouchesRings
<1>a. /\ values \in [Attr -> Seq(Value)] /\ DOMAIN values = Attr
  BY <1>4 DEF Rings
<1> HIDE DEF e, h
<1>7. values = Turned(values', e) /\ SameOutside(storage, storage', e)
  <2>1. ASSUME NEW a \in Attr PROVE values[a] = IF a \in e THEN RotateLeft(values'[a]) ELSE values'[a]
    <3>1. CASE a \in e
      <4> DEFINE ring == values[a]
      <4>1. ring \in Seq(Value) /\ Len(ring) >= 2 /\ values'[a] = RotateRight(ring)
        BY <1>6, <3>1
      <4> HIDE DEF ring
      <4>2. RotateLeft(RotateRight(ring)) = ring
        <5> DEFINE last == ring[Len(ring)]
                   rest == SubSeq(ring, 1, Len(ring) - 1)
        <5>1. last \in Value /\ rest \in Seq(Value) /\ ring = rest \o <<last>>
          BY <4>1
        <5> HIDE DEF last, rest
        <5>2. Tail(<<last>> \o rest) = rest /\ (<<last>> \o rest)[1] = last
          BY <5>1
        <5>3. RotateRight(ring) = <<last>> \o rest
          BY DEF RotateRight, last, rest
        <5> QED BY <5>1, <5>2, <5>3 DEF RotateLeft
      <4> QED BY <3>1, <4>1, <4>2 DEF ring
    <3>2. CASE a \notin e
      BY <1>1, <3>2
    <3> QED BY <3>1, <3>2
  <2>2. values = [a \in Attr |-> values[a]]
    BY <1>a
  <2> QED BY <1>1, <2>1, <2>2 DEF Turned, SameOutside
<1>8. /\ past = Behinds(values, storage, undos, alive)
      /\ past1 = Behinds(values', storage', undos', alive + 1)
      /\ future = Aheads(values, storage, undos, redone + 1)
      /\ future1 = Aheads(values', storage', undos', redone)
      /\ DocNow = Recorded(values, storage, undos, 0)
      /\ DocNow' = Recorded(values', storage', undos', 0)
      /\ StorageIsCommitted => \A a \in Attr : storage[a] = Recorded(values, storage, undos, 0)[a]
      /\ StorageIsCommitted' <=> \A a \in Attr : storage'[a] = Recorded(values', storage', undos', 0)[a]
  <2>1. /\ past = Behinds(values, storage, undos, Len(undos) - redo_count)
        /\ past1 = Behinds(values', storage', undos', Len(undos') - redo_count')
    BY <1>3 DEF IdleLists
  <2>2. /\ future = Aheads(values, storage, undos, redo_count)
        /\ future1 = Aheads(values', storage', undos', redo_count')
    BY <1>3 DEF IdleLists
  <2>3. /\ DocNow = Recorded(values, storage, undos, 0)
        /\ DocNow' = Recorded(values', storage', undos', 0)
        /\ StorageIsCommitted => \A a \in Attr : storage[a] = Recorded(values, storage, undos, 0)[a]
        /\ StorageIsCommitted' <=> \A a \in Attr : storage'[a] = Recorded(values', storage', undos', 0)[a]
    BY <1>3 DEF IdleLists
  <2>4. /\ Len(undos') - redo_count' = alive + 1 /\ redone + 1 = redo_count
    BY <1>1, <1>4, <1>5
  <2> HIDE DEF past, past1, future, future1
  <2> QED BY <1>1, <1>5, <2>1, <2>2, <2>3, <2>4
<1>9. /\ alive \in Nat /\ redone \in Nat /\ alive + redone = Len(h)
  BY <1>1, <1>4, <1>5
<1>10. /\ IsList(past1, alive + 1) /\ IsList(past, alive) /\ Follows(past, past1, alive)
       /\ IsList(future, redone + 1) /\ IsList(future1, redone) /\ Follows(future1, future, redone)
       /\ past1[1] = DocNow /\ future[1] = DocNow'
  <2> HIDE DEF past, past1, future, future1, alive, redone
  <2>1. ASSUME NEW m, m = alive + 1, NEW r, r = redone + 1
        PROVE  /\ IsList(past1, m) /\ IsList(past, alive) /\ Follows(past, past1, alive)
               /\ IsList(future, r) /\ IsList(future1, redone) /\ Follows(future1, future, redone)
               /\ past1[1] = Recorded(values, storage, undos, 0)
               /\ future[1] = Recorded(values', storage', undos', 0)
    <3>1. undos' = InFront(e, h) /\ undos = AtEnd(e, h)
      BY <1>1, <1>5 DEF InFront, AtEnd
    <3>2. e \in SUBSET Attr /\ h \in Seq(SUBSET Attr)
      BY <1>5
    <3>3. /\ past = Behinds(values, storage, undos, alive)
          /\ past1 = Behinds(values', storage', undos', m)
          /\ future = Aheads(values, storage, undos, r)
          /\ future1 = Aheads(values', storage', undos', redone)
      BY <1>8, <2>1
    <3> QED BY <1>4, <1>7, <1>9, <2>1, <3>1, <3>2, <3>3, TurnedLists
  <2> QED BY <1>8, <2>1
<1>11. past = Tail(past1) /\ Front(past1) \o past = past1 /\ past1 # <<>>
  <2> HIDE DEF past, past1, future, future1, alive, redone
  <2> QED BY <1>9, <1>10, OneMore
<1>12. future1 = Tail(future) /\ Front(future) \o future1 = future /\ future # <<>>
  <2> HIDE DEF past, past1, future, future1, alive, redone
  <2> QED BY <1>9, <1>10, OneMore
<1>13. past1 = <<DocNow>> \o past
  <2> HIDE DEF past, past1, future, future1, alive, redone
  <2> QED BY <1>10, <1>11 DEF Front
<1>14. StorageIsCommitted'
  <2>1. \A a \in Attr : Recorded(values', storage', undos', 0)[a] = Entry(values'[a], storage'[a], 0)
    <3>1. undos' \in Seq(SUBSET Attr)
      BY <1>3 DEF IdleLists
    <3> QED BY <3>1, FirstDoc
  <2>2. \A a \in Attr : Recorded(values, storage, undos, 0)[a] = Entry(values[a], storage[a], 0)
    BY <1>4, FirstDoc
  <2>3. ASSUME NEW a \in Attr PROVE storage'[a] = Entry(values'[a], storage'[a], 0)
    <3>1. CASE a \in e
      <4> DEFINE ring == values[a]
      <4>1. ring \in Seq(Value) /\ Len(ring) >= 2 /\ values'[a] = RotateRight(ring) /\ storage'[a] = ring[Len(ring)]
        BY <1>6, <3>1
      <4> HIDE DEF ring
      <4>2. RotateRight(ring) # <<>> /\ RotateRight(ring)[1] = ring[Len(ring)]
        BY <4>1 DEF RotateRight
      <4> QED BY <4>1, <4>2 DEF Entry
    <3>2. CASE a \notin e
      <4>1. storage'[a] = storage[a] /\ values'[a] = values[a]
        BY <1>1, <3>2
      <4>2. storage[a] = Entry(values[a], storage[a], 0)
        BY <1>8, <2>2
      <4> QED BY <4>1, <4>2
    <3> QED BY <3>1, <3>2
  <2> QED BY <1>8, <2>1, <2>3
<1>15. ReadersWriteNothing'
  <2>1. Len(transactions') = 0
    BY <1>3 DEF IdleLists
  <2> QED BY <2>1 DEF ReadersWriteNothing
<1>16. Saved = <<>> /\ Saved' = <<>> /\ maxUndoStep' = maxUndoStep
  BY <1>1, <1>3 DEF IdleLists
<1>17. Future' = Tail(Future) /\ Future # <<>> /\ Future[1] = DocNow' /\ Past' = <<DocNow>> \o Past
  BY <1>10, <1>12, <1>13
<1> QED BY <1>14, <1>15, <1>16, <1>17, Zenon DEF Undo!Redo, Undo!InTransaction, Saved, Past, Future

-----------------------------------------------------------------------------
(* Flushing, opening and closing *)

\* Discarding steps between transactions, undone ones first: the nearest
\* documents of the past stay and nothing is left to redo.
LEMMA DiscardRefines ==
  ASSUME IInv, IInv', StorageIsCommitted, ~InTransaction,
         NEW n \in 0..(Len(undos) - redo_count), DiscardTo(n),
         UNCHANGED <<transactions, storage, maxUndoStep>>
  PROVE  /\ DocNow' = DocNow /\ Saved = <<>> /\ Saved' = Saved
         /\ IsList(Past, Len(undos) - redo_count) /\ IsList(Past', n)
         /\ \A k \in 1..n : Past'[k] = Past[k]
         /\ Future' = <<>> /\ StorageIsCommitted' /\ ReadersWriteNothing'
<1>0. ~InTransaction'
  BY DEF InTransaction
<1>1. IdleLists /\ IdleLists'
  BY <1>0, IdleFacts
<1>2. /\ undos \in Seq(SUBSET Attr) /\ Len(undos) \in Nat /\ redo_count \in 0..Len(undos)
      /\ n \in 0..Len(undos) /\ n <= Len(undos) - redo_count /\ transactions = <<>>
  BY <1>1, Idle DEF IdleLists
<1>3. /\ undos' = SubSeq(undos, 1, n) /\ redo_count' = 0
      /\ values' = ControlLockGroup(DropLast(n), {})
  BY <1>2 DEF DiscardTo, RedoneAfterDiscard
<1>4. Len(undos') = n
  BY <1>2, <1>3
<1>5. ASSUME NEW k \in 0..n
      PROVE  Recorded(values', storage', undos', k) = Recorded(values, storage, undos, k)
  <2>1. Recorded(ControlLockGroup(DropLast(n), {}), storage, SubSeq(undos, 1, n), k) = Doc(k)
    BY <1>2, DiscardedDocs
  <2>2. Doc(k) = Recorded(values, storage, undos, k)
    BY IdleHistory DEF Doc
  <2> QED BY <1>3, <2>1, <2>2
<1>6. 0 \in 0..n
  BY <1>2
<1>7. DocNow' = DocNow
  <2>1. DocNow = Recorded(values, storage, undos, 0) /\ DocNow' = Recorded(values', storage', undos', 0)
    BY <1>1 DEF IdleLists
  <2> QED BY <1>5, <1>6, <2>1
<1>8. Saved = <<>> /\ Saved' = Saved
  BY <1>1 DEF IdleLists
<1>9. /\ Past = Behinds(values, storage, undos, Len(undos) - redo_count)
      /\ Past' = Behinds(values', storage', undos', n)
  <2>1. /\ Past = Behinds(values, storage, undos, Len(undos) - redo_count)
        /\ Past' = Behinds(values', storage', undos', Len(undos') - redo_count')
    BY <1>1 DEF IdleLists
  <2>2. Len(undos') - redo_count' = n
    BY <1>2, <1>3, <1>4
  <2> QED BY <2>1, <2>2
<1>10. IsList(Past, Len(undos) - redo_count) /\ IsList(Past', n)
  <2>1. \A vals, store, h, m : IsList(Behinds(vals, store, h, m), m)
    BY DEF IsList, Behinds
  <2> QED BY <1>9, <2>1
<1>11. ASSUME NEW k \in 1..n PROVE Past'[k] = Past[k]
  <2>1. k \in 0..n /\ k \in 1..(Len(undos) - redo_count)
    BY <1>2
  <2>2. /\ Past[k] = Recorded(values, storage, undos, k)
        /\ Past'[k] = Recorded(values', storage', undos', k)
    BY <1>9, <2>1 DEF Behinds
  <2> QED BY <1>5, <2>1, <2>2
<1>12. Future' = <<>>
  BY <1>3, NoFuture
<1>13. StorageIsCommitted'
  <2>1. /\ \A a \in Attr : storage[a] = Recorded(values, storage, undos, 0)[a]
        /\ StorageIsCommitted' <=> \A a \in Attr : storage'[a] = Recorded(values', storage', undos', 0)[a]
    BY <1>1 DEF IdleLists
  <2> QED BY <1>5, <1>6, <2>1
<1>14. ReadersWriteNothing'
  BY <1>1 DEF IdleLists, ReadersWriteNothing
<1> QED BY <1>7, <1>8, <1>10, <1>11, <1>12, <1>13, <1>14

LEMMA FlushUndoRefines ==
  ASSUME IInv, IInv', StorageIsCommitted, FlushUndoQueue
  PROVE  Undo!FlushUndo /\ StorageIsCommitted' /\ ReadersWriteNothing'
<1>1. /\ ~InTransaction /\ DiscardTo(0) /\ UNCHANGED <<transactions, storage, maxUndoStep>>
  BY DEF FlushUndoQueue
<1>2. 0 \in 0..(Len(undos) - redo_count)
  <2>1. IdleLists
    BY <1>1, IdleFacts
  <2>2. redo_count \in 0..Len(undos) /\ Len(undos) \in Nat
    BY <2>1 DEF IdleLists
  <2> QED BY <2>2
<1>3. /\ DocNow' = DocNow /\ Saved = <<>> /\ Saved' = Saved /\ IsList(Past', 0)
      /\ Future' = <<>> /\ StorageIsCommitted' /\ ReadersWriteNothing'
  BY <1>1, <1>2, DiscardRefines
<1>4. Past' = <<>>
  BY <1>3, NoneListed
<1>5. maxUndoStep' = maxUndoStep
  BY <1>1
<1> QED BY <1>3, <1>4, <1>5, Zenon DEF Undo!FlushUndo, Undo!InTransaction, Saved, Past, Future

LEMMA FlushRedoRefines ==
  ASSUME IInv, IInv', StorageIsCommitted, FlushRedoQueue
  PROVE  Undo!FlushRedo /\ StorageIsCommitted' /\ ReadersWriteNothing'
<1> DEFINE n == Len(undos) - redo_count
<1>1. /\ ~InTransaction /\ DiscardTo(n) /\ UNCHANGED <<transactions, storage, maxUndoStep>>
  BY DEF FlushRedoQueue
<1>2. n \in 0..n
  <2>1. IdleLists
    BY <1>1, IdleFacts
  <2>2. redo_count \in 0..Len(undos) /\ Len(undos) \in Nat
    BY <2>1 DEF IdleLists
  <2> QED BY <2>2
<1>3. /\ DocNow' = DocNow /\ Saved = <<>> /\ Saved' = Saved /\ IsList(Past, n) /\ IsList(Past', n)
      /\ \A k \in 1..n : Past'[k] = Past[k]
      /\ Future' = <<>> /\ StorageIsCommitted' /\ ReadersWriteNothing'
  BY <1>1, <1>2, DiscardRefines
<1> HIDE DEF n
<1>4. Past' = Past
  <2> DEFINE f == Past
             g == Past'
  <2>1. f = [k \in 1..n |-> f[k]] /\ g = [k \in 1..n |-> g[k]] /\ \A k \in 1..n : g[k] = f[k]
    BY <1>3 DEF IsList
  <2> HIDE DEF f, g
  <2>2. g = f
    BY <2>1
  <2> QED BY <2>2 DEF f, g
<1>5. maxUndoStep' = maxUndoStep
  BY <1>1
<1> QED BY <1>3, <1>4, <1>5, Zenon DEF Undo!FlushRedo, Undo!InTransaction, Saved, Past, Future

LEMMA OpenRefines ==
  ASSUME IInv, IInv', StorageIsCommitted, ReadersWriteNothing, NEW size \in UndoSizes, OpenProject2(size)
  PROVE  Undo!SetLimit /\ StorageIsCommitted' /\ ReadersWriteNothing'
<1>1. UNCHANGED <<transactions, undos, redo_count, values, storage>>
  BY DEF OpenProject2
<1>2. DocNow' = DocNow
  BY <1>1 DEF DocNow, Current
<1>3. Saved' = Saved
  BY <1>1 DEF Saved, DocBefore, Behind, Current, WrittenBy
<1>4. Past' = Past
  BY <1>1 DEF Past, Alive, DocPast, Behind, Current, WrittenBy, TouchedBy, Steps, InTransaction
<1>5. Future' = Future
  BY <1>1 DEF Future, DocFuture, Current, TouchedBy, Steps, InTransaction
<1>6. StorageIsCommitted'
  BY <1>1 DEF StorageIsCommitted, Behind, Current, WrittenBy
<1>7. ReadersWriteNothing'
  BY <1>1 DEF ReadersWriteNothing
<1>8. maxUndoStep' \in Nat \ {0}
  <2>1. maxUndoStep' \in 1..99
    BY DEF IInv, TypeOK
  <2> QED BY <2>1
<1> QED BY <1>2, <1>3, <1>4, <1>5, <1>6, <1>7, <1>8, Zenon DEF Undo!SetLimit, Saved, Past, Future

\* Closing leads back to the document the outermost level was opened with.
LEMMA CloseRefines ==
  ASSUME IInv, IInv', StorageIsCommitted, CloseProject
  PROVE  Undo!Close /\ StorageIsCommitted' /\ ReadersWriteNothing'
<1> DEFINE L == Len(transactions)
<1>1. /\ transactions' = <<>> /\ undos' = <<>> /\ redo_count' = 0
      /\ values' = [a \in Attr |-> <<>>] /\ UNCHANGED <<maxUndoStep, storage>>
  BY DEF CloseProject
<1>2. ~InTransaction'
  BY <1>1 DEF InTransaction
<1>3. IdleLists' /\ MappingOK
  BY <1>2, IdleFacts, Mapping
<1>4. \A a \in Attr : storage[a] = Doc(L)[a]
  BY <1>3 DEF MappingOK, StoredOK
<1>5. DocNow' = [a \in Attr |-> storage[a]]
  BY <1>1 DEF DocNow, Current
<1>6. Doc(L) = [a \in Attr |-> Doc(L)[a]]
  BY DEF Doc, Recorded
<1>7. DocNow' = Doc(L)
  <2> DEFINE d == Doc(L)
  <2>1. DocNow' = [a \in Attr |-> d[a]] /\ d = [a \in Attr |-> d[a]]
    BY <1>4, <1>5, <1>6
  <2> HIDE DEF d
  <2>2. DocNow' = d
    BY <2>1
  <2> QED BY <2>2 DEF d
<1>8. DocNow' = IF Saved # <<>> THEN Saved[Len(Saved)].doc ELSE DocNow
  <2>1. CASE InTransaction
    <3>1. Len(Saved) = L /\ L \in 1..L /\ Saved # <<>>
      BY <2>1, SavedFacts
    <3>2. Saved[L] = [doc |-> Doc(L), readonly |-> transactions[L].readonly]
      BY <3>1, SavedFacts
    <3>3. Saved[L].doc = Doc(L)
      BY <3>2
    <3> QED BY <1>7, <3>1, <3>3
  <2>2. CASE ~InTransaction
    <3>1. L = 0 /\ Saved = <<>>
      BY <2>2, SavedFacts, Idle
    <3>2. DocNow = Doc(0)
      BY <1>3 DEF MappingOK, MapOK
    <3> QED BY <1>7, <3>1, <3>2
  <2> QED BY <2>1, <2>2
<1>9. Saved' = <<>>
  BY <1>3 DEF IdleLists
<1>10. Past' = <<>>
  <2>1. Past' = Behinds(values', storage', undos', Len(undos') - redo_count')
    BY <1>3 DEF IdleLists
  <2>2. Len(undos') - redo_count' = 0
    BY <1>1
  <2> DEFINE f == Past'
  <2>3. IsList(f, 0)
    BY <2>1, <2>2 DEF Behinds, IsList
  <2> HIDE DEF f
  <2>4. f = <<>>
    BY <2>3, NoneListed
  <2> QED BY <2>4 DEF f
<1>11. Future' = <<>>
  BY <1>1, NoFuture
<1>12. StorageIsCommitted'
  <2>1. /\ StorageIsCommitted' <=> \A a \in Attr : storage'[a] = Recorded(values', storage', undos', 0)[a]
        /\ undos' \in Seq(SUBSET Attr)
    BY <1>3 DEF IdleLists
  <2>2. \A a \in Attr : Recorded(values', storage', undos', 0)[a] = Entry(values'[a], storage'[a], 0)
    BY <2>1, FirstDoc
  <2>3. \A a \in Attr : Entry(values'[a], storage'[a], 0) = storage'[a]
    BY <1>1 DEF Entry
  <2> QED BY <2>1, <2>2, <2>3
<1>13. ReadersWriteNothing'
  BY <1>3 DEF IdleLists, ReadersWriteNothing
<1>14. maxUndoStep' = maxUndoStep
  BY <1>1
<1> QED BY <1>8, <1>9, <1>10, <1>11, <1>12, <1>13, <1>14, Zenon
        DEF Undo!Close, Undo!InTransaction, Saved, Past, Future

-----------------------------------------------------------------------------
(* The theorems *)

\* A project starts with one document and nothing to return to.
LEMMA InitRefines ==
  ASSUME Init, IInv
  PROVE  Undo!Init /\ StorageIsCommitted /\ ReadersWriteNothing
<1>1. /\ transactions = <<>> /\ undos = <<>> /\ redo_count = 0 /\ maxUndoStep \in 1..99
      /\ values = [a \in Attr |-> <<>>] /\ storage \in [Attr -> Value]
  BY UndoSizesAssumption DEF Init
<1>2. IdleLists
  <2>1. ~InTransaction
    BY <1>1 DEF InTransaction
  <2> QED BY <2>1, IdleFacts
<1>3. DocNow \in [Attr -> Value]
  BY <1>1 DEF DocNow, Current
<1>4. Saved = <<>>
  BY <1>2 DEF IdleLists
<1>5. Past = <<>>
  <2>1. Past = Behinds(values, storage, undos, Len(undos) - redo_count)
    BY <1>2 DEF IdleLists
  <2>2. Len(undos) - redo_count = 0
    BY <1>1
  <2> DEFINE f == Past
  <2>3. IsList(f, 0)
    BY <2>1, <2>2 DEF Behinds, IsList
  <2> HIDE DEF f
  <2>4. f = <<>>
    BY <2>3, NoneListed
  <2> QED BY <2>4 DEF f
<1>6. Future = <<>>
  BY <1>1, NoFuture
<1>7. StorageIsCommitted
  <2>1. /\ StorageIsCommitted <=> \A a \in Attr : storage[a] = Recorded(values, storage, undos, 0)[a]
        /\ undos \in Seq(SUBSET Attr)
    BY <1>2 DEF IdleLists
  <2>2. \A a \in Attr : Recorded(values, storage, undos, 0)[a] = Entry(values[a], storage[a], 0)
    BY <2>1, FirstDoc
  <2>3. \A a \in Attr : Entry(values[a], storage[a], 0) = storage[a]
    BY <1>1 DEF Entry
  <2> QED BY <2>1, <2>2, <2>3
<1>8. ReadersWriteNothing
  BY <1>2 DEF IdleLists, ReadersWriteNothing
<1>9. maxUndoStep \in Nat \ {0}
  BY <1>1
<1> QED BY <1>3, <1>4, <1>5, <1>6, <1>7, <1>8, <1>9, Zenon DEF Undo!Init, Undo!Document, Saved, Past, Future

\* While no call of the storage fails, every step of the project is a step of
\* CoreUndo or changes none of its documents.
LEMMA StepRefines ==
  ASSUME MaxFailures = 0, IInv, IInv', StorageIsCommitted, ReadersWriteNothing, [Next]_vars
  PROVE  [Undo!Next]_(Undo!vars) /\ StorageIsCommitted' /\ ReadersWriteNothing'
<1>1. ASSUME NEW t \in TransType, BeginTransaction(t)
      PROVE  Undo!Next /\ StorageIsCommitted' /\ ReadersWriteNothing'
  <2>0. IsRead(t) \in BOOLEAN
    BY DEF IsRead
  <2>1. CASE InTransaction
    <3>1. Undo!BeginNested(IsRead(t)) /\ StorageIsCommitted' /\ ReadersWriteNothing'
      BY <1>1, <2>1, BeginNestedRefines
    <3> QED BY <2>0, <3>1, Zenon DEF Undo!Next
  <2>2. CASE ~InTransaction
    <3>1. Undo!BeginOuter(IsRead(t)) /\ StorageIsCommitted' /\ ReadersWriteNothing'
      BY <1>1, <2>2, BeginOuterRefines
    <3> QED BY <2>0, <3>1, Zenon DEF Undo!Next
  <2> QED BY <2>1, <2>2
<1>2. ASSUME NEW t \in TransType, CommitTransaction(t)
      PROVE  Undo!Next /\ StorageIsCommitted' /\ ReadersWriteNothing'
  <2>1. CASE CommitNestedTr
    <3>1. Undo!CommitNested /\ StorageIsCommitted' /\ ReadersWriteNothing'
      BY <1>2, <2>1, CommitNestedRefines
    <3> QED BY <3>1, Zenon DEF Undo!Next
  <2>2. CASE CommitFinalTr
    <3>1. Undo!CommitOuter /\ StorageIsCommitted' /\ ReadersWriteNothing'
      BY <1>2, <2>2, CommitWritten, CommitUnwritten
    <3> QED BY <3>1, Zenon DEF Undo!Next
  <2>3. CommitNestedTr \/ CommitFinalTr
    BY <1>2, Zenon DEF CommitTransaction
  <2> QED BY <2>1, <2>2, <2>3
<1>3. ASSUME NEW t \in TransType, AbortTransaction(t)
      PROVE  Undo!Next /\ StorageIsCommitted' /\ ReadersWriteNothing'
  <2>1. Undo!Abort /\ StorageIsCommitted' /\ ReadersWriteNothing'
    BY <1>3, AbortRefines
  <2> QED BY <2>1, Zenon DEF Undo!Next
<1>4. ASSUME NEW t \in TransType, CommitFails(t) PROVE FALSE
  BY <1>4 DEF CommitFails, IInv, TypeOK
<1>5. ASSUME UndoOrRedoFails PROVE FALSE
  BY <1>5 DEF UndoOrRedoFails, IInv, TypeOK
<1>6. ASSUME NEW a \in Attr, Get(a)
      PROVE  (UNCHANGED Undo!vars) /\ StorageIsCommitted' /\ ReadersWriteNothing'
  BY <1>6, GetRefines
<1>7. ASSUME NEW a \in Attr, NEW v \in Value, Put(a, v)
      PROVE  Undo!Next /\ StorageIsCommitted' /\ ReadersWriteNothing'
  <2>1. Undo!Write(a, v) /\ StorageIsCommitted' /\ ReadersWriteNothing'
    BY <1>7, PutRefines
  <2> QED BY <2>1, Zenon DEF Undo!Next
<1>8. ASSUME UndoTransaction PROVE Undo!Next /\ StorageIsCommitted' /\ ReadersWriteNothing'
  <2>1. Undo!Undo /\ StorageIsCommitted' /\ ReadersWriteNothing'
    BY <1>8, UndoRefines
  <2> QED BY <2>1, Zenon DEF Undo!Next
<1>9. ASSUME RedoTransaction PROVE Undo!Next /\ StorageIsCommitted' /\ ReadersWriteNothing'
  <2>1. Undo!Redo /\ StorageIsCommitted' /\ ReadersWriteNothing'
    BY <1>9, RedoRefines
  <2> QED BY <2>1, Zenon DEF Undo!Next
<1>10. ASSUME FlushUndoQueue PROVE Undo!Next /\ StorageIsCommitted' /\ ReadersWriteNothing'
  <2>1. Undo!FlushUndo /\ StorageIsCommitted' /\ ReadersWriteNothing'
    BY <1>10, FlushUndoRefines
  <2> QED BY <2>1, Zenon DEF Undo!Next
<1>11. ASSUME FlushRedoQueue PROVE Undo!Next /\ StorageIsCommitted' /\ ReadersWriteNothing'
  <2>1. Undo!FlushRedo /\ StorageIsCommitted' /\ ReadersWriteNothing'
    BY <1>11, FlushRedoRefines
  <2> QED BY <2>1, Zenon DEF Undo!Next
<1>12. ASSUME NEW size \in UndoSizes, OpenProject2(size)
       PROVE  Undo!Next /\ StorageIsCommitted' /\ ReadersWriteNothing'
  <2>1. Undo!SetLimit /\ StorageIsCommitted' /\ ReadersWriteNothing'
    BY <1>12, OpenRefines
  <2> QED BY <2>1, Zenon DEF Undo!Next
<1>13. ASSUME CloseProject PROVE Undo!Next /\ StorageIsCommitted' /\ ReadersWriteNothing'
  <2>1. Undo!Close /\ StorageIsCommitted' /\ ReadersWriteNothing'
    BY <1>13, CloseRefines
  <2> QED BY <2>1, Zenon DEF Undo!Next
<1>14. ASSUME UNCHANGED vars
       PROVE  (UNCHANGED Undo!vars) /\ StorageIsCommitted' /\ ReadersWriteNothing'
  <2>1. UNCHANGED <<transactions, undos, redo_count, values, storage, maxUndoStep>>
    BY <1>14 DEF vars
  <2>2. DocNow' = DocNow
    BY <2>1 DEF DocNow, Current
  <2>3. Saved' = Saved
    BY <2>1 DEF Saved, DocBefore, Behind, Current, WrittenBy
  <2>4. Past' = Past
    BY <2>1 DEF Past, Alive, DocPast, Behind, Current, WrittenBy, TouchedBy, Steps, InTransaction
  <2>5. Future' = Future
    BY <2>1 DEF Future, DocFuture, Current, TouchedBy, Steps, InTransaction
  <2>6. StorageIsCommitted' /\ ReadersWriteNothing'
    BY <2>1 DEF StorageIsCommitted, ReadersWriteNothing, Behind, Current, WrittenBy
  <2>7. maxUndoStep' = maxUndoStep
    BY <2>1
  <2> QED BY <2>2, <2>3, <2>4, <2>5, <2>6, <2>7, Zenon DEF Undo!vars, Saved, Past, Future
<1>15. CASE Next
  <2>1. \/ \E t \in TransType : \/ BeginTransaction(t) \/ CommitTransaction(t)
                                \/ CommitFails(t) \/ AbortTransaction(t)
        \/ \E a \in Attr : Get(a)
        \/ \E a \in Attr, v \in Value : Put(a, v)
        \/ UndoTransaction \/ RedoTransaction \/ UndoOrRedoFails
        \/ FlushUndoQueue \/ FlushRedoQueue
        \/ \E size \in UndoSizes : OpenProject2(size)
        \/ CloseProject
    BY <1>15, Zenon DEF Next
  <2> QED BY <2>1, <1>1, <1>2, <1>3, <1>4, <1>5, <1>6, <1>7, <1>8, <1>9, <1>10, <1>11, <1>12, <1>13, Zenon
<1> QED BY <1>14, <1>15, Zenon

(* The invariant the refinement needs beside the one of CoreTransactions. *)
LEMMA StorageInvariance ==
  ASSUME MaxFailures = 0
  PROVE  Spec => [](StorageIsCommitted /\ ReadersWriteNothing)
<1> USE MaxFailures = 0
<1>1. Init => StorageIsCommitted /\ ReadersWriteNothing
  BY InitInv, InitRefines
<1>2. IInv /\ IInv' /\ StorageIsCommitted /\ ReadersWriteNothing /\ [Next]_vars
        => StorageIsCommitted' /\ ReadersWriteNothing'
  BY StepRefines
<1> QED BY <1>1, <1>2, Invariance, PTL DEF Spec

(* What the storage holds is the document the outermost transaction started *)
(* from, and between transactions the current one: get_PreviousValue relies *)
(* on it for any depth of nesting (CCoreAttribute::get_PreviousValue).      *)
THEOREM StorageStaysCommitted ==
  ASSUME MaxFailures = 0
  PROVE  Spec => []StorageIsCommitted
BY StorageInvariance, PTL

(* Rings, levels and the undo list implement documents: a client can think  *)
(* of the Core as CoreUndo, which keeps whole documents to return to.       *)
THEOREM Refinement ==
  ASSUME MaxFailures = 0
  PROVE  Spec => ImplementsUndo
<1>1. Init => Undo!Init
  BY InitInv, InitRefines
<1>2. IInv /\ IInv' /\ StorageIsCommitted /\ ReadersWriteNothing /\ [Next]_vars
        => [Undo!Next]_(Undo!vars)
  BY StepRefines
<1>3. Spec => [](StorageIsCommitted /\ ReadersWriteNothing)
  BY StorageInvariance
<1> QED BY <1>1, <1>2, <1>3, Invariance, PTL DEF Spec, ImplementsUndo, Undo!Spec

(* Aborting the outermost transaction brings back the document it was       *)
(* started with (CCoreProject::AbortTransaction).                           *)
THEOREM AbortBringsBack ==
  ASSUME MaxFailures = 0
  PROVE  Spec => AbortRestores
<1>1. ASSUME IInv, IInv', StorageIsCommitted, ReadersWriteNothing, NEW t \in TransType,
             Len(transactions) = 1, AbortTransaction(t)
      PROVE  DocNow' = DocBefore(1)
  <2>1. Undo!Abort
    BY <1>1, AbortRefines
  <2>2. DocNow' = Saved[1].doc
    BY <2>1, Zenon DEF Undo!Abort, Saved
  <2>3. 1 \in 1..Len(transactions)
    BY <1>1
  <2>4. Saved[1] = [doc |-> DocBefore(1), readonly |-> transactions[1].readonly]
    BY <2>3 DEF Saved
  <2> QED BY <2>2, <2>4
<1>2. IInv /\ IInv' /\ StorageIsCommitted /\ ReadersWriteNothing /\ [Next]_vars
        => [\A t \in TransType : Len(transactions) = 1 /\ AbortTransaction(t) => DocNow' = DocBefore(1)]_vars
  BY <1>1
<1>3. Spec => [](StorageIsCommitted /\ ReadersWriteNothing)
  BY StorageInvariance
<1> QED BY <1>2, <1>3, Invariance, PTL DEF Spec, AbortRestores

-----------------------------------------------------------------------------
(* How long the undo list gets *)

\* What readers may write depends on the open levels alone, whatever fails.
LEMMA ReadersInv ==
  ASSUME IInv, IInv', ReadersWriteNothing, [Next]_vars
  PROVE  ReadersWriteNothing'
<1> DEFINE L == Len(transactions)
<1>0. transactions \in Seq(LevelType) /\ L \in Nat /\ (transactions = <<>> <=> L = 0)
  BY DEF IInv, TypeOK
<1>1. ASSUME transactions' = transactions PROVE ReadersWriteNothing'
  BY <1>1 DEF ReadersWriteNothing
<1>2. ASSUME transactions' = <<>> PROVE ReadersWriteNothing'
  <2>1. Len(transactions') = 0
    BY <1>2
  <2> QED BY <2>1 DEF ReadersWriteNothing
<1>3. ASSUME transactions' = Tail(transactions), transactions # <<>> PROVE ReadersWriteNothing'
  <2>1. /\ Len(transactions') = L - 1 /\ \A k \in 1..(L - 1) : transactions'[k] = transactions[k + 1]
    BY <1>0, <1>3, TailFacts
  <2>2. ASSUME NEW k \in 1..(L - 1), NEW j \in 1..(L - 1), transactions'[k].readonly, j <= k
        PROVE  transactions'[j].readonly /\ transactions'[j].items = {}
    <3>1. k + 1 \in 1..L /\ j + 1 \in 1..L /\ j + 1 <= k + 1
      BY <1>0, <2>2
    <3>2. transactions[k + 1].readonly
      BY <2>1, <2>2
    <3>3. transactions[j + 1].readonly /\ transactions[j + 1].items = {}
      BY <3>1, <3>2 DEF ReadersWriteNothing
    <3> QED BY <2>1, <3>3
  <2> QED BY <2>1, <2>2 DEF ReadersWriteNothing
<1>4. ASSUME NEW t \in TransType, BeginTransaction(t) PROVE ReadersWriteNothing'
  <2>1. CASE ~InTransaction
    <3>1. transactions' = <<Level(IsRead(t))>>
      BY <1>4, <2>1 DEF BeginTransaction, BeginFinalTr
    <3>2. Len(transactions') = 1 /\ transactions'[1] = Level(IsRead(t))
      BY <3>1
    <3> QED BY <3>2 DEF ReadersWriteNothing, Level
  <2>2. CASE InTransaction
    <3> DEFINE new == Level(IsRead(t))
    <3>1. transactions' = <<new>> \o transactions /\ (transactions[1].readonly => IsRead(t)) /\ L >= 1
      BY <1>0, <1>4, <2>2 DEF BeginTransaction, BeginNestedTr, InReadTransaction, InTransaction
    <3>2. new \in LevelType /\ new.items = {} /\ new.readonly = IsRead(t)
      BY DEF Level, LevelType, LevelOf, IsRead
    <3> HIDE DEF new
    <3>3. /\ Len(transactions') = L + 1 /\ transactions'[1] = new
          /\ \A k \in 2..(L + 1) : transactions'[k] = transactions[k - 1]
      BY <1>0, <3>1, <3>2, PrependFacts
    <3>4. ASSUME NEW k \in 1..(L + 1), NEW j \in 1..(L + 1), transactions'[k].readonly, j <= k
          PROVE  transactions'[j].readonly /\ transactions'[j].items = {}
      <4>1. CASE k = 1
        BY <1>0, <3>2, <3>3, <3>4, <4>1
      <4>2. CASE k # 1
        <5>1. k \in 2..(L + 1) /\ k - 1 \in 1..L
          BY <1>0, <4>2
        <5>2. transactions[k - 1].readonly
          BY <3>3, <3>4, <5>1
        <5>3. \A i \in 1..L : i <= k - 1 => transactions[i].readonly /\ transactions[i].items = {}
          BY <5>1, <5>2 DEF ReadersWriteNothing
        <5>4. CASE j = 1
          <6>1. 1 \in 1..L /\ 1 <= k - 1
            BY <5>1
          <6>2. transactions[1].readonly
            BY <5>3, <6>1
          <6> QED BY <3>1, <3>2, <3>3, <5>4, <6>2
        <5>5. CASE j # 1
          <6>1. j \in 2..(L + 1) /\ j - 1 \in 1..L /\ j - 1 <= k - 1
            BY <1>0, <3>4, <5>5
          <6> QED BY <3>3, <5>3, <6>1
        <5> QED BY <5>4, <5>5
      <4> QED BY <4>1, <4>2
    <3> QED BY <3>3, <3>4 DEF ReadersWriteNothing
  <2> QED BY <2>1, <2>2
<1>5. ASSUME NEW a \in Attr, NEW v \in Value, Put(a, v) PROVE ReadersWriteNothing'
  <2>1. ~transactions[1].readonly /\ L >= 1
    BY <1>0, <1>5 DEF Put, InWriteTransaction, InTransaction
  <2>2. ASSUME NEW k \in 1..L PROVE ~transactions[k].readonly
    <3>1. 1 \in 1..L /\ 1 <= k
      BY <2>1
    <3> QED BY <2>1, <3>1 DEF ReadersWriteNothing
  <2>3. Len(transactions') = L /\ \A k \in 1..L : transactions'[k].readonly = transactions[k].readonly
    <3>1. CASE Insert(a, v)
      <4>1. transactions' = [transactions EXCEPT ![1].items = @ \cup {a}]
        BY <3>1 DEF Insert
      <4> QED BY <1>0, <2>1, <4>1 DEF LevelType, LevelOf
    <3>2. CASE Overwrite(a, v)
      BY <3>2 DEF Overwrite
    <3> QED BY <1>5, <3>1, <3>2 DEF Put
  <2> QED BY <2>2, <2>3 DEF ReadersWriteNothing
<1>6. ASSUME CommitNestedTr PROVE ReadersWriteNothing'
  <2>1. /\ L >= 2 /\ Len(transactions') = L - 1 /\ transactions'[1] = Merged
        /\ Merged.readonly = transactions[2].readonly
        /\ Merged.items = transactions[1].items \cup transactions[2].items
        /\ \A k \in 2..(L - 1) : transactions'[k] = transactions[k + 1]
    BY <1>6, MergedLevels
  <2>2. ASSUME NEW k \in 1..(L - 1), NEW j \in 1..(L - 1), transactions'[k].readonly, j <= k
        PROVE  transactions'[j].readonly /\ transactions'[j].items = {}
    <3>1. k + 1 \in 1..L /\ 1 \in 1..L /\ 2 \in 1..L /\ 1 <= k + 1 /\ 2 <= k + 1
      BY <1>0, <2>1
    <3>2. transactions[k + 1].readonly
      <4>1. CASE k = 1
        BY <2>1, <2>2, <4>1
      <4>2. CASE k # 1
        <5>1. k \in 2..(L - 1)
          BY <4>2
        <5> QED BY <2>1, <2>2, <5>1
      <4> QED BY <4>1, <4>2
    <3>3. \A i \in 1..L : i <= k + 1 => transactions[i].readonly /\ transactions[i].items = {}
      BY <3>1, <3>2 DEF ReadersWriteNothing
    <3>4. CASE j = 1
      BY <2>1, <3>1, <3>3, <3>4
    <3>5. CASE j # 1
      <4>1. j \in 2..(L - 1) /\ j + 1 \in 1..L /\ j + 1 <= k + 1
        BY <1>0, <2>2, <3>5
      <4> QED BY <2>1, <3>3, <4>1
    <3> QED BY <3>4, <3>5
  <2> QED BY <2>1, <2>2 DEF ReadersWriteNothing
<1>7. ASSUME NEW t \in TransType, CommitTransaction(t) PROVE ReadersWriteNothing'
  <2>1. CommitFinalTr => transactions' = <<>>
    BY DEF CommitFinalTr
  <2>2. CommitNestedTr \/ CommitFinalTr
    BY <1>7, Zenon DEF CommitTransaction
  <2> QED BY <1>2, <1>6, <2>1, <2>2
<1>8. ASSUME NEW t \in TransType, AbortTransaction(t) PROVE ReadersWriteNothing'
  <2>1. transactions' = <<>> \/ (transactions' = Tail(transactions) /\ transactions # <<>>)
    BY <1>8 DEF AbortTransaction, AbortNestedTr, AbortFinalTr, InTransaction
  <2> QED BY <1>2, <1>3, <2>1
<1>9. ASSUME CloseProject PROVE ReadersWriteNothing'
  BY <1>2, <1>9 DEF CloseProject
<1>10. ASSUME UndoTransaction \/ RedoTransaction \/ UndoOrRedoFails \/ FlushUndoQueue \/ FlushRedoQueue
       PROVE ReadersWriteNothing'
  BY <1>1, <1>10 DEF UndoTransaction, RedoTransaction, UndoOrRedoFails, FlushUndoQueue, FlushRedoQueue
<1>11. ASSUME (\E a \in Attr : Get(a)) \/ (\E t \in TransType : CommitFails(t))
              \/ (\E size \in UndoSizes : OpenProject2(size)) \/ UNCHANGED vars
       PROVE  ReadersWriteNothing'
  BY <1>1, <1>11 DEF Get, CommitFails, OpenProject2, vars
<1> QED BY <1>4, <1>5, <1>7, <1>8, <1>9, <1>10, <1>11, Zenon DEF Next

\* The outermost level only reads: its step is in the list beside the others.
OuterReader == InTransaction /\ transactions[Len(transactions)].readonly

\* The list with room for m steps, m being the largest size it was given
FitsInto(m) ==
  /\ maxUndoStep <= m
  /\ Len(undos) <= m + (IF OuterReader THEN 1 ELSE 0)

LEMMA BoundInv ==
  ASSUME NEW m \in Nat, \A size \in UndoSizes : size \in 1..99 => size <= m,
         IInv, IInv', ReadersWriteNothing, FitsInto(m), [Next]_vars
  PROVE  FitsInto(m)'
<1> DEFINE L == Len(transactions)
<1>0. /\ transactions \in Seq(LevelType) /\ L \in Nat /\ (transactions = <<>> <=> L = 0)
      /\ undos \in Seq(SUBSET Attr) /\ Len(undos) \in Nat /\ Len(undos') \in Nat
      /\ maxUndoStep \in 1..99 /\ redo_count \in Nat
      /\ maxUndoStep <= m /\ Len(undos) <= m + (IF OuterReader THEN 1 ELSE 0)
  <2>1. /\ transactions \in Seq(LevelType) /\ undos \in Seq(SUBSET Attr) /\ undos' \in Seq(SUBSET Attr)
        /\ maxUndoStep \in 1..99 /\ redo_count \in Nat
    BY DEF IInv, TypeOK
  <2> QED BY <2>1 DEF FitsInto
<1>1. ASSUME UNCHANGED <<transactions, maxUndoStep>>, Len(undos') <= Len(undos)
      PROVE  FitsInto(m)'
  <2>1. OuterReader' <=> OuterReader
    BY <1>1 DEF OuterReader, InTransaction
  <2> QED BY <1>0, <1>1, <2>1 DEF FitsInto
<1>2. ASSUME maxUndoStep' = maxUndoStep, Len(undos') <= m PROVE FitsInto(m)'
  BY <1>0, <1>2 DEF FitsInto
<1>3. ASSUME InTransaction, transactions' # <<>>, UNCHANGED <<undos, maxUndoStep>>,
             transactions'[Len(transactions')].readonly = transactions[L].readonly
      PROVE  FitsInto(m)'
  BY <1>0, <1>3 DEF FitsInto, OuterReader, InTransaction
<1>4. ASSUME NEW t \in TransType, BeginTransaction(t) PROVE FitsInto(m)'
  <2>1. CASE ~InTransaction /\ IsRead(t)
    <3>1. transactions' = <<Level(TRUE)>> /\ undos' = <<{}>> \o undos /\ maxUndoStep' = maxUndoStep
      BY <1>4, <2>1 DEF BeginTransaction, BeginFinalTr, IsRead
    <3>2. Len(transactions') = 1 /\ transactions'[1] = Level(TRUE) /\ transactions' # <<>>
      BY <3>1
    <3>3. OuterReader'
      BY <3>2 DEF OuterReader, InTransaction, Level
    <3>4. Len(undos') = Len(undos) + 1
      BY <1>0, <3>1
    <3>5. ~OuterReader
      BY <2>1 DEF OuterReader
    <3> QED BY <1>0, <3>1, <3>3, <3>4, <3>5 DEF FitsInto
  <2>2. CASE ~InTransaction /\ ~IsRead(t)
    <3>1. undos' = <<{}>> \o SubSeq(undos, 1, Kept) /\ maxUndoStep' = maxUndoStep
      BY <1>4, <2>2 DEF BeginTransaction, BeginFinalTr
    <3>2. Len(undos) - redo_count >= 0
      BY <1>0, <2>2 DEF IInv, QueueSizesOK
    <3>3. Kept \in 0..Len(undos) /\ Kept <= maxUndoStep - 1
      BY <1>0, <3>2 DEF Kept
    <3>4. Len(undos') = Kept + 1
      <4> DEFINE n == Kept
      <4>1. n \in 0..Len(undos) /\ undos' = <<{}>> \o SubSeq(undos, 1, n)
        BY <3>1, <3>3
      <4> HIDE DEF n
      <4>2. Len(undos') = n + 1
        BY <1>0, <4>1
      <4> QED BY <4>2 DEF n
    <3> QED BY <1>0, <1>2, <3>1, <3>3, <3>4
  <2>3. CASE InTransaction
    <3> DEFINE new == Level(IsRead(t))
    <3>1. transactions' = <<new>> \o transactions /\ UNCHANGED <<undos, maxUndoStep>> /\ L >= 1
      BY <1>0, <1>4, <2>3 DEF BeginTransaction, BeginNestedTr, InTransaction
    <3>2. new \in LevelType
      BY DEF Level, LevelType, LevelOf, IsRead
    <3> HIDE DEF new
    <3>3. /\ Len(transactions') = L + 1 /\ transactions' # <<>>
          /\ \A k \in 2..(L + 1) : transactions'[k] = transactions[k - 1]
      BY <1>0, <3>1, <3>2, PrependFacts
    <3>4. L + 1 \in 2..(L + 1) /\ (L + 1) - 1 = L
      BY <1>0, <3>1
    <3>5. transactions'[L + 1] = transactions[L]
      BY <3>3, <3>4
    <3> QED BY <1>3, <2>3, <3>1, <3>3, <3>5
  <2> QED BY <2>1, <2>2, <2>3
<1>5. ASSUME NEW t \in TransType, CommitTransaction(t), CommitNestedTr PROVE FitsInto(m)'
  <2>1. /\ L >= 2 /\ Len(transactions') = L - 1 /\ transactions'[1] = Merged /\ InTransaction
        /\ Merged.readonly = transactions[2].readonly
        /\ \A k \in 2..Len(transactions') : transactions'[k] = transactions[k + 1]
        /\ InTransaction'
    BY <1>5, MergedLevels
  <2>2. UNCHANGED <<undos, maxUndoStep>>
    BY <1>5 DEF CommitTransaction, CommitNestedTr
  <2>3. transactions'[L - 1].readonly = transactions[L].readonly
    <3>1. CASE L = 2
      BY <2>1, <3>1
    <3>2. CASE L # 2
      <4>1. L - 1 \in 2..Len(transactions') /\ (L - 1) + 1 = L
        BY <1>0, <2>1, <3>2
      <4> QED BY <2>1, <4>1
    <3> QED BY <3>1, <3>2
  <2> QED BY <1>3, <2>1, <2>2, <2>3 DEF InTransaction
<1>6. ASSUME NEW t \in TransType, CommitTransaction(t), CommitFinalTr PROVE FitsInto(m)'
  <2>1. /\ L = 1 /\ InTransaction /\ undos' = PushStep(Committed, Tail(undos))
        /\ maxUndoStep' = maxUndoStep /\ Committed = dirty
    BY <1>6, CommittedIsDirty DEF CommitTransaction, MayCommit, CommitFinalTr
  <2>2. undos # <<>> /\ Tail(undos) \in Seq(SUBSET Attr) /\ Len(Tail(undos)) = Len(undos) - 1
    <3>1. undos # <<>>
      BY <2>1, LastLevel
    <3> QED BY <1>0, <3>1, TailFacts
  <2>3. dirty = transactions[1].items
    BY <2>1, TopOfHistory
  <2>4. CASE dirty = {}
    <3>1. undos' = Tail(undos)
      BY <2>1, <2>4 DEF PushStep
    <3>2. Len(undos') <= m
      BY <1>0, <2>2, <3>1
    <3> QED BY <1>2, <2>1, <3>2
  <2>5. CASE dirty # {}
    <3>1. undos' = <<dirty>> \o Tail(undos)
      BY <2>1, <2>5 DEF PushStep
    <3>2. Len(undos') = Len(undos)
      BY <1>0, <2>2, <3>1
    <3>3. ~OuterReader
      <4>1. 1 \in 1..L /\ 1 <= 1
        BY <2>1
      <4>2. transactions[1].readonly => transactions[1].items = {}
        BY <4>1 DEF ReadersWriteNothing
      <4> QED BY <2>1, <2>3, <2>5, <4>2 DEF OuterReader
    <3> QED BY <1>0, <1>2, <2>1, <3>2, <3>3
  <2> QED BY <2>4, <2>5
<1>7. ASSUME NEW t \in TransType, AbortTransaction(t) PROVE FitsInto(m)'
  <2>1. InTransaction /\ maxUndoStep' = maxUndoStep /\ (AbortNestedTr \/ AbortFinalTr)
    BY <1>7 DEF AbortTransaction
  <2>2. CASE AbortNestedTr
    <3>1. transactions' = Tail(transactions) /\ L >= 2 /\ undos' = undos
      BY <2>2 DEF AbortNestedTr
    <3>2. /\ Len(transactions') = L - 1 /\ transactions' # <<>>
          /\ \A k \in 1..(L - 1) : transactions'[k] = transactions[k + 1]
      BY <3>1, TwoLevels
    <3>3. L - 1 \in 1..(L - 1) /\ (L - 1) + 1 = L
      BY <1>0, <3>1
    <3>4. transactions'[L - 1] = transactions[L]
      BY <3>2, <3>3
    <3> QED BY <1>3, <2>1, <3>1, <3>2, <3>4
  <2>3. CASE AbortFinalTr
    <3>1. undos' = Tail(undos) /\ L = 1
      BY <2>3 DEF AbortFinalTr
    <3>2. undos # <<>>
      BY <3>1, LastLevel
    <3>3. Len(Tail(undos)) = Len(undos) - 1
      BY <1>0, <3>2, TailFacts
    <3>4. Len(undos') <= m
      BY <1>0, <3>1, <3>3
    <3> QED BY <1>2, <2>1, <3>4
  <2> QED BY <2>1, <2>2, <2>3
<1>8. ASSUME UndoTransaction \/ RedoTransaction PROVE FitsInto(m)'
  <2>1. UNCHANGED <<transactions, maxUndoStep>> /\ (undos' = RotateLeft(undos) \/ undos' = RotateRight(undos))
    BY <1>8 DEF UndoTransaction, RedoTransaction
  <2>2. undos # <<>>
    <3>1. Len(undos) > 0
      <4>1. Len(undos) - redo_count >= 0
        BY <1>0, <1>8 DEF IInv, QueueSizesOK, UndoTransaction, RedoTransaction, MayUndo, MayRedo
      <4> QED BY <1>0, <1>8, <4>1 DEF UndoTransaction, RedoTransaction, MayUndo, MayRedo
    <3>2. Len(<<>>) = 0
      OBVIOUS
    <3> QED BY <3>1, <3>2
  <2>3. Len(RotateLeft(undos)) = Len(undos) /\ Len(RotateRight(undos)) = Len(undos)
    BY <1>0, <2>2, Rotations
  <2>4. Len(undos') <= Len(undos)
    BY <1>0, <2>1, <2>3
  <2> QED BY <1>1, <2>1, <2>4
<1>9. ASSUME FlushUndoQueue \/ FlushRedoQueue PROVE FitsInto(m)'
  <2>1. UNCHANGED <<transactions, maxUndoStep>>
    BY <1>9 DEF FlushUndoQueue, FlushRedoQueue
  <2>2. PICK n : undos' = SubSeq(undos, 1, n) /\ (n = 0 \/ n = Len(undos) - redo_count)
    BY <1>9 DEF FlushUndoQueue, FlushRedoQueue, DiscardTo
  <2>3. n \in 0..Len(undos)
    <3>1. ~InTransaction
      BY <1>9 DEF FlushUndoQueue, FlushRedoQueue
    <3>2. Len(undos) - redo_count >= 0
      BY <1>0, <3>1 DEF IInv, QueueSizesOK
    <3> QED BY <1>0, <2>2, <3>2
  <2>4. Len(undos') <= Len(undos)
    BY <1>0, <2>2, <2>3, PrefixFacts
  <2> QED BY <1>1, <2>1, <2>4
<1>10. ASSUME NEW size \in UndoSizes, OpenProject2(size) PROVE FitsInto(m)'
  <2>1. UNCHANGED <<transactions, undos>>
    BY <1>10 DEF OpenProject2
  <2>2. maxUndoStep' <= m
    <3>1. size \in Int
      BY UndoSizesAssumption
    <3> QED BY <1>0, <1>10, <3>1 DEF OpenProject2, SetMaxUndoStep
  <2>3. OuterReader' <=> OuterReader
    BY <2>1 DEF OuterReader, InTransaction
  <2> QED BY <1>0, <2>1, <2>2, <2>3 DEF FitsInto
<1>11. ASSUME CloseProject PROVE FitsInto(m)'
  <2>1. undos' = <<>> /\ maxUndoStep' = maxUndoStep
    BY <1>11 DEF CloseProject
  <2>2. Len(undos') = 0
    BY <2>1
  <2> QED BY <1>2, <2>1, <2>2
<1>12. ASSUME (\E a \in Attr : Get(a)) \/ (\E t \in TransType : CommitFails(t))
              \/ UndoOrRedoFails \/ UNCHANGED vars
       PROVE  FitsInto(m)'
  <2>1. UNCHANGED <<transactions, undos, maxUndoStep>>
    BY <1>12 DEF Get, CommitFails, UndoOrRedoFails, vars
  <2>2. Len(undos') <= Len(undos)
    BY <1>0, <2>1
  <2> QED BY <1>1, <2>1, <2>2
<1>13. ASSUME NEW a \in Attr, NEW v \in Value, Put(a, v) PROVE FitsInto(m)'
  <2>1. InTransaction /\ UNCHANGED <<undos, maxUndoStep>>
    BY <1>13 DEF Put, InWriteTransaction
  <2>2. transactions' # <<>> /\ transactions'[Len(transactions')].readonly = transactions[L].readonly
    <3>0. L >= 1
      BY <1>0, <2>1 DEF InTransaction
    <3>1. CASE Insert(a, v)
      <4>1. transactions' = [transactions EXCEPT ![1].items = @ \cup {a}]
        BY <3>1 DEF Insert
      <4> QED BY <1>0, <3>0, <4>1 DEF LevelType, LevelOf
    <3>2. CASE Overwrite(a, v)
      BY <2>1, <3>2 DEF Overwrite, InTransaction
    <3> QED BY <1>13, <3>1, <3>2 DEF Put
  <2> QED BY <1>3, <2>1, <2>2
<1>14. ASSUME NEW t \in TransType, CommitTransaction(t) PROVE FitsInto(m)'
  <2>1. CommitNestedTr \/ CommitFinalTr
    BY <1>14, Zenon DEF CommitTransaction
  <2> QED BY <1>5, <1>6, <1>14, <2>1
<1> QED BY <1>4, <1>7, <1>8, <1>9, <1>10, <1>11, <1>12, <1>13, <1>14, Zenon DEF Next

\* Invariant whatever fails
LEMMA ReadersInvariance == Spec => []ReadersWriteNothing
<1>1. Init => ReadersWriteNothing
  <2> SUFFICES ASSUME Init PROVE ReadersWriteNothing
    OBVIOUS
  <2>1. transactions = <<>>
    BY DEF Init
  <2>2. Len(transactions) = 0
    BY <2>1
  <2> QED BY <2>2 DEF ReadersWriteNothing
<1>2. IInv /\ IInv' /\ ReadersWriteNothing /\ [Next]_vars => ReadersWriteNothing'
  BY ReadersInv
<1> QED BY <1>1, <1>2, Invariance, PTL DEF Spec

LEMMA BoundInit ==
  ASSUME NEW m \in Nat, DefaultUndoStep <= m, Init
  PROVE  FitsInto(m)
<1>1. undos = <<>> /\ maxUndoStep = DefaultUndoStep /\ ~InTransaction
  BY DEF Init, InTransaction
<1>2. Len(undos) = 0
  BY <1>1
<1> QED BY <1>1, <1>2 DEF FitsInto, OuterReader

(* Whatever sizes the project is opened with, also while it is open, the    *)
(* undo list has never more steps than the largest of them, and one more    *)
(* while the outermost transaction only reads (CCoreProject::BeginFinalTr). *)
THEOREM UndoListHasALimit ==
  ASSUME NEW m \in Nat, DefaultUndoStep <= m,
         \A size \in UndoSizes : size \in 1..99 => size <= m
  PROVE  Spec => []FitsInto(m)
<1>1. Init => FitsInto(m)
  BY BoundInit
<1>2. IInv /\ IInv' /\ ReadersWriteNothing /\ FitsInto(m) /\ [Next]_vars => FitsInto(m)'
  BY BoundInv
<1> QED BY <1>1, <1>2, ReadersInvariance, Invariance, PTL DEF Spec

(* A project that is always opened with the same size never keeps more than *)
(* that many steps (the ASSERT of CCoreProject::BeginFinalTr).              *)
THEOREM UndoListStaysBounded ==
  ASSUME \A size \in UndoSizes : size \in 1..99 => size = DefaultUndoStep
  PROVE  Spec => []UndoListBounded
<1> DEFINE m == DefaultUndoStep
           SizeStays == maxUndoStep = m
<1>1. m \in Nat /\ m <= m /\ \A size \in UndoSizes : size \in 1..99 => size <= m
  BY UndoSizesAssumption
<1>2. Spec => []FitsInto(m)
  <2>1. Init => FitsInto(m)
    BY <1>1, BoundInit
  <2>2. IInv /\ IInv' /\ ReadersWriteNothing /\ FitsInto(m) /\ [Next]_vars => FitsInto(m)'
    BY <1>1, BoundInv
  <2> QED BY <2>1, <2>2, ReadersInvariance, Invariance, PTL DEF Spec
<1>3. Spec => []SizeStays
  <2>1. Init => SizeStays
    BY DEF Init
  <2>2. ASSUME SizeStays, [Next]_vars PROVE SizeStays'
    <3>1. ASSUME NEW size \in UndoSizes, OpenProject2(size) PROVE SizeStays'
      <4>1. size \in Int
        BY UndoSizesAssumption
      <4> QED BY <2>2, <3>1, <4>1 DEF OpenProject2, SetMaxUndoStep
    <3>2. ASSUME NEW t \in TransType,
                 BeginTransaction(t) \/ CommitTransaction(t) \/ CommitFails(t) \/ AbortTransaction(t)
          PROVE SizeStays'
      BY <2>2, <3>2, Zenon DEF BeginTransaction, CommitTransaction, CommitFails, AbortTransaction
    <3>3. ASSUME (\E a \in Attr : Get(a)) \/ (\E a \in Attr, v \in Value : Put(a, v))
                 \/ UndoTransaction \/ RedoTransaction \/ UndoOrRedoFails
                 \/ FlushUndoQueue \/ FlushRedoQueue \/ CloseProject \/ UNCHANGED vars
          PROVE SizeStays'
      BY <2>2, <3>3, Zenon DEF Get, Put, UndoTransaction, RedoTransaction, UndoOrRedoFails,
                               FlushUndoQueue, FlushRedoQueue, CloseProject, vars
    <3> QED BY <2>2, <3>1, <3>2, <3>3, Zenon DEF Next
  <2> QED BY <2>1, <2>2, PTL DEF Spec
<1>4. ASSUME IInv, ReadersWriteNothing, FitsInto(m), SizeStays PROVE UndoListBounded
  <2>1. OuterReader => InReadTransaction
    <3> SUFFICES ASSUME OuterReader PROVE InReadTransaction
      OBVIOUS
    <3>1. transactions \in Seq(LevelType) /\ transactions # <<>>
      BY <1>4 DEF IInv, TypeOK, OuterReader, InTransaction
    <3>2. Len(transactions) \in 1..Len(transactions) /\ 1 \in 1..Len(transactions) /\ 1 <= Len(transactions)
      BY <3>1
    <3>3. transactions[1].readonly
      BY <1>4, <3>2 DEF ReadersWriteNothing, OuterReader
    <3> QED BY <3>3 DEF InReadTransaction, OuterReader
  <2>2. undos \in Seq(SUBSET Attr) /\ Len(undos) \in Nat
    BY <1>4 DEF IInv, TypeOK
  <2> QED BY <1>1, <1>4, <2>1, <2>2 DEF UndoListBounded, FitsInto
<1> HIDE DEF SizeStays
<1>5. IInv /\ ReadersWriteNothing /\ FitsInto(m) /\ SizeStays => UndoListBounded
  BY <1>4
<1> QED BY <1>2, <1>3, <1>5, ReadersInvariance, Invariance, PTL
=============================================================================
