----------------------------- MODULE CoreObjects -----------------------------
(***************************************************************************)
(* Objects that point to each other: CCorePointerAttrBase,                 *)
(* CCoreCollectionAttribute and the lock counts of CCoreLockAttribute      *)
(* (GME/Core/CoreAttribute.cpp), CCoreObject (CoreObject.cpp) and what     *)
(* CCoreProject does with them in a commit, an abort, an undo and when it  *)
(* discards a step (CoreProject.cpp).                                      *)
(*                                                                         *)
(* A pointer attribute has a ring of values as in CoreTransactions.  While *)
(* the ring has several values, its object is locked exclusively and every *)
(* object in the ring is locked for writing, once for each place it has in *)
(* the ring.  An object is deleted by setting all its pointers to NULL; it *)
(* leaves the storage only with the last of these locks, when no undo and  *)
(* no redo can bring it back.                                              *)
(*                                                                         *)
(* Opening, closing and a storage that fails are in CoreTransactions.      *)
(***************************************************************************)
EXTENDS Integers, Sequences, FiniteSets

CONSTANTS
  Object,        \* every object there can ever be
  Root,          \* the root object: no pointers, never deleted
  Pointer,       \* the pointer attributes of each object but the root
  Null,          \* a pointer that points nowhere
  MaxUndoStep,   \* m_maxUndoStep
  MaxNesting,    \* bound: levels of nested transactions
  MaxRefusals,   \* bound: Delete is refused no more once an object has been so often
  Careful        \* clients use the Core the way the Mga layer does

ASSUME ObjectsAssumption == Root \in Object /\ Null \notin Object
ASSUME UndoAssumption == MaxUndoStep \in 1..99 /\ MaxNesting \in Nat /\ MaxRefusals \in Nat
ASSUME FiniteAssumption == IsFiniteSet(Object) /\ IsFiniteSet(Pointer)
ASSUME CarefulAssumption == Careful \in BOOLEAN

Attr == (Object \ {Root}) \X Pointer
Owner == [a \in Attr |-> a[1]]
Target == Object \cup {Null}
AttrsOf(o) == {a \in Attr : Owner[a] = o}

VARIABLES
  transactions, finaltr_items, undos, redo_count, values, dirty, locked,
                 \* as in CoreTransactions; values are rings of targets
  storage,       \* the target the storage has for each pointer
  stored,        \* the objects in the storage
  used,          \* objects whose id has been given out
  created,       \* objects created in the open outermost transaction
  read_count,    \* the lock attribute of each object
  write_count,
  uptodate,      \* COREATTRIBUTE_COLL_UPTODATE of <<object, pointer>>
  refused        \* how often Delete of an object has been refused

levelVars == <<transactions, undos, redo_count, dirty>>
objectVars == <<storage, stored, used, created>>
lockVars == <<finaltr_items, locked, read_count, write_count>>
vars == <<levelVars, objectVars, lockVars, values, uptodate, refused>>

\* The transaction machinery, of which the operators without effect are used
T == INSTANCE CoreTransactions WITH
  Value <- Target, UndoSizes <- {MaxUndoStep}, DefaultUndoStep <- MaxUndoStep,
  MaxFailures <- 0, opened <- TRUE, maxUndoStep <- MaxUndoStep, failures <- 0

-----------------------------------------------------------------------------
(* Pointers, collections and locks *)

\* The target a client reads
Current(a) == IF values[a] = <<>> THEN storage[a] ELSE values[a][1]

HasEmptyPointers(o) == \A a \in AttrsOf(o) : Current(a) = Null

\* CCoreLockAttribute::IsEmpty and IsLoaded
IsEmpty(o) == read_count[o] = 0 /\ write_count[o] = 0
IsLoaded(o) == o \in locked \/ ~IsEmpty(o)

\* mutant: what undo needs is not looked at
HasEmptyPointersOnly(o) == HasEmptyPointers(o)

HasEmptyPointersAndLocks(o) == HasEmptyPointers(o) /\ IsEmpty(o)

\* The objects in memory whose pointer is in the collection of o
Collection(o, p) == {x \in Object \ {Root} : values[<<x, p>>] # <<>> /\ values[<<x, p>>][1] = o}

\* The objects the storage lists in the collection of o
Listed(o, p) == {x \in stored \ {Root} : storage[<<x, p>>] = o}

\* Objects that are in the object table because something refers to them
Referred(x) ==
  IsLoaded(x) \/ \E a \in Attr : \E k \in DOMAIN values[a] : values[a][k] = x

\* The attributes of an object can be read from the storage
Loadable(objs) ==
  /\ objs \subseteq stored
  /\ \A a \in Attr : Owner[a] \in objs => storage[a] \in stored \cup {Null}

\* How many places in the rings of some attributes name o
Mentions(rings, o) ==
  LET places(a, ring) == {<<a, k>> : k \in {i \in DOMAIN ring : ring[i] = o}}
  IN  Cardinality(UNION {places(a, rings[a]) : a \in DOMAIN rings})

\* The rings once the given objects are loaded
Loading(objs) ==
  [a \in Attr |-> IF Owner[a] \in objs /\ values[a] = <<>> THEN <<storage[a]>> ELSE values[a]]

\* CombineLock: which of the two locks are held
CombineLock(reads, writes) == <<reads > 0, writes > 0>>

\* RegisterLockTry: the lock attributes that have to be loaded because the
\* lock they combine to changes
NeedsLoad(reads, writes) ==
  {o \in Object : CombineLock(reads[o], writes[o])
                    # CombineLock(read_count[o], write_count[o])} \ locked

-----------------------------------------------------------------------------
(* Taking values off rings *)

FreesSelf(ring, lost) == Len(ring) >= 2 /\ Len(ring) - Len(lost) < 2

\* mutant: the second value that goes with the last lock is forgotten
FreesOnlyLost(ring, lost) == lost

\* RemoveValueTry: a ring that keeps several values gives back the locks of
\* those it loses; with the last but one it gives back all
Frees(ring, lost) ==
  IF FreesSelf(ring, lost) THEN ring ELSE lost

\* The counts when each ring loses the values lost[a]
SelfFreed(lost, o) == Cardinality({a \in AttrsOf(o) : FreesSelf(values[a], lost[a])})
ReadsWithout(lost) == [o \in Object |-> read_count[o] - SelfFreed(lost, o)]
WritesWithout(lost) ==
  LET freed == [a \in Attr |-> Frees(values[a], lost[a])]
  IN  [o \in Object |-> write_count[o] - SelfFreed(lost, o) - Mentions(freed, o)]

\* mutant: an unloaded pointer does not tell the collection it was in
ForgetsNothing(rings, keep) == uptodate

\* Unload: the collection that an unloaded object is in is not complete
StillUpToDate(rings, keep) ==
  uptodate \ {<<rings[a][1], a[2]>> : a \in {x \in Attr : rings[x] # <<>> /\ Owner[x] \notin keep}}

\* mutant: write locks keep nothing in memory
KeptByReads(reads, writes) == {o \in Object : reads[o] > 0}

\* CCoreLockAttribute::IsLoaded of an attribute that is not dirty
KeptBy(reads, writes) == {o \in Object : reads[o] > 0 \/ writes[o] > 0}

\* The counts become reads and writes, the rings become rings, and objects
\* that nothing keeps in memory are unloaded (ControlLockGroupDo).
Settle(rings, reads, writes, locks) ==
  LET keep == locks \cup KeptBy(reads, writes)
  IN  /\ read_count' = reads
      /\ write_count' = writes
      /\ locked' = locks
      /\ values' = [a \in Attr |-> IF Owner[a] \in keep THEN rings[a] ELSE <<>>]
      /\ uptodate' = StillUpToDate(rings, keep)

-----------------------------------------------------------------------------
Init ==
  /\ transactions = <<>>
  /\ finaltr_items = {}
  /\ undos = <<>>
  /\ redo_count = 0
  /\ values = [a \in Attr |-> <<>>]
  /\ dirty = {}
  /\ locked = {}
  /\ \E S \in SUBSET (Object \ {Root}) :
       /\ stored = S \cup {Root}
       /\ storage \in [Attr -> stored \cup {Null}]
       /\ \A o \in Object \ {Root} :
            o \in S <=> \E a \in AttrsOf(o) : storage[a] # Null
  /\ used = stored
  /\ created = {}
  /\ read_count = [o \in Object |-> 0]
  /\ write_count = [o \in Object |-> 0]
  /\ uptodate = {}
  /\ refused = [o \in Object |-> 0]

-----------------------------------------------------------------------------
(* Discarding steps of the undo list *)

\* The values each ring loses when only n steps are kept
LostAfter(n) ==
  [a \in Attr |-> SubSeq(values[a], Len(values[a]) - Cardinality(T!StepsAfter(n, a)) + 1, Len(values[a]))]

\* mutant: discarding a step deletes nothing
UnreachableKept(reads, writes) == {}

\* CCoreObject::CommitFinalTransaction: what the storage is told to delete
\* of the objects whose locks have gone
Unreachable(reads, writes) ==
  {o \in stored \ {Root} : /\ ~IsEmpty(o) /\ reads[o] = 0 /\ writes[o] = 0
                           /\ HasEmptyPointers(o)}

\* TryDiscardLastItem until n steps are left
DiscardTo(n) ==
  LET reads == ReadsWithout(LostAfter(n))
      writes == WritesWithout(LostAfter(n))
  IN  /\ Settle(T!DropLast(n), reads, writes, {})
      /\ stored' = stored \ Unreachable(reads, writes)

-----------------------------------------------------------------------------
(* Transactions: BeginTransaction, CommitTransaction, AbortTransaction *)

BeginFinalTr(readonly) ==
  /\ ~T!InTransaction
  /\ transactions' = <<T!Level(readonly)>>
  /\ IF readonly
       THEN /\ undos' = <<{}>> \o undos
            /\ UNCHANGED <<redo_count, values, stored, lockVars, uptodate>>
       ELSE /\ undos' = <<{}>> \o SubSeq(undos, 1, T!Kept)
            /\ redo_count' = 0
            /\ DiscardTo(T!Kept)
            /\ UNCHANGED finaltr_items
  /\ UNCHANGED <<dirty, storage, used, created, refused>>

BeginNestedTr(readonly) ==
  /\ T!InTransaction
  /\ T!InReadTransaction => readonly
  /\ T!BeginNestedTr(readonly)
  /\ UNCHANGED <<objectVars, read_count, write_count, uptodate, refused>>

\* DiscardPreviousValue of what both levels wrote
CommitNestedTr ==
  LET both == transactions[2].items \cap dirty
      lost == [a \in Attr |-> IF a \in both THEN <<values[a][2]>> ELSE <<>>]
      rings == [a \in Attr |-> IF a \in both THEN T!WithoutSecond(values[a]) ELSE values[a]]
  IN  /\ Len(transactions) >= 2
      /\ Settle(rings, ReadsWithout(lost), WritesWithout(lost), locked)
      /\ dirty' = dirty \cup transactions[2].items
      /\ transactions' = <<[items |-> transactions[1].items \cup transactions[2].items,
                            readonly |-> transactions[2].readonly]>>
                         \o SubSeq(transactions, 3, Len(transactions))
      /\ UNCHANGED <<undos, redo_count, objectVars, finaltr_items, refused>>

\* What takes part in the commit and neither points anywhere nor is needed
\* by a step is deleted; the others are saved and enter the new step.
CommitFinalTr ==
  LET gone == {o \in finaltr_items \ {Root} : HasEmptyPointersAndLocks(o)}
  IN  /\ Len(transactions) = 1
      /\ stored' = stored \ gone
      /\ storage' = [a \in Attr |-> IF a \in T!Committed THEN values[a][1] ELSE storage[a]]
      /\ undos' = T!PushStep(T!Committed, Tail(undos))
      /\ dirty' = dirty \ T!Committed
      /\ Settle(values, read_count, write_count, locked \ finaltr_items)
      /\ finaltr_items' = {}
      /\ transactions' = <<>>
      /\ created' = {}
      /\ UNCHANGED <<redo_count, used, refused>>

FirstLost(attrs) == [a \in Attr |-> IF a \in attrs THEN <<values[a][1]>> ELSE <<>>]

AbortNestedTr ==
  LET lost == FirstLost(transactions[1].items)
  IN  /\ Len(transactions) >= 2
      /\ Settle(T!DropFirst(transactions[1].items), ReadsWithout(lost),
                WritesWithout(lost), locked)
      /\ dirty' = T!DirtyAfterAbort
      /\ transactions' = Tail(transactions)
      /\ UNCHANGED <<undos, redo_count, objectVars, finaltr_items, refused>>

\* The storage takes the objects created in the transaction away again.
AbortFinalTr ==
  LET lost == FirstLost(T!Committed)
  IN  /\ Len(transactions) = 1
      /\ Settle(T!DropFirst(T!Committed), ReadsWithout(lost), WritesWithout(lost),
                locked \ finaltr_items)
      /\ stored' = stored \ created
      /\ undos' = Tail(undos)
      /\ dirty' = dirty \ T!Committed
      /\ finaltr_items' = {}
      /\ transactions' = <<>>
      /\ created' = {}
      /\ UNCHANGED <<redo_count, storage, used, refused>>

-----------------------------------------------------------------------------
(* Reading *)

\* A lock attribute is loaded and with it the attributes of its object
Load(objs) ==
  /\ Loadable(objs)
  /\ locked' = locked \cup objs
  /\ values' = Loading(objs)

\* get_Value of a pointer that is not in memory
GetPointer(o) ==
  /\ T!InTransaction
  /\ o # Root
  /\ ~IsLoaded(o)
  /\ Load({o})
  /\ finaltr_items' = finaltr_items \cup {o}
  /\ UNCHANGED <<levelVars, objectVars, read_count, write_count, uptodate, refused>>

\* get_Value of a collection that is not known to be complete.  It is known
\* to be when every object the storage lists is in memory.
GetCollection(o, p) ==
  LET here == IF IsLoaded(o) THEN {} ELSE {o}
  IN  /\ T!InTransaction
      /\ ~(IsLoaded(o) /\ <<o, p>> \in uptodate)
      /\ Load(here)
      /\ finaltr_items' = finaltr_items \cup here
      /\ uptodate' = IF \A x \in Listed(o, p) : x \in here \/ IsLoaded(x)
                       THEN uptodate \cup {<<o, p>>}
                       ELSE uptodate \ {<<o, p>>}
      /\ UNCHANGED <<levelVars, objectVars, read_count, write_count, refused>>

\* The last reference to an object that is not in memory is released, and
\* its flags are lost with it.
Forget(o) ==
  /\ ~Referred(o)
  /\ uptodate' = {c \in uptodate : c[1] # o}
  /\ uptodate' # uptodate
  /\ UNCHANGED <<levelVars, objectVars, lockVars, values, refused>>

-----------------------------------------------------------------------------
(* Writing *)

\* The lock requests of one put_Value: a first second value locks its object,
\* the new target and the old one (InsertFrontValue); a further value locks
\* the new target; overwriting moves the lock (ChangeFrontValue).
LocksSelf(a) == a \notin dirty /\ Len(values[a]) <= 1
LocksTargets(attrs, v, o) ==
  (IF v = o THEN Cardinality(attrs) ELSE 0)
  + Cardinality({a \in attrs : LocksSelf(a) /\ Current(a) = o})
  - Cardinality({a \in attrs \cap dirty : Current(a) = o})

Written(ring, a, v) == IF a \in dirty THEN <<v>> \o Tail(ring) ELSE <<v>> \o ring

\* put_Value of v on some pointers of o, one after the other
PutAll(o, attrs, v) ==
  LET selfs(x) == IF x = o THEN Cardinality({a \in attrs : LocksSelf(a)}) ELSE 0
      reads == [x \in Object |-> read_count[x] + selfs(x)]
      writes == [x \in Object |-> write_count[x] + selfs(x) + LocksTargets(attrs, v, x)]
      new == attrs \ dirty
      objs == NeedsLoad(reads, writes) \cup (IF IsLoaded(o) THEN {} ELSE {o})
  IN  /\ Loadable(objs)
      /\ read_count' = reads
      /\ write_count' = writes
      /\ locked' = locked \cup objs
      /\ finaltr_items' = finaltr_items \cup objs \cup {o}
      /\ values' = [a \in Attr |-> IF a \in attrs THEN Written(Loading(objs)[a], a, v)
                                                  ELSE Loading(objs)[a]]
      /\ dirty' = dirty \cup new
      /\ transactions' = [transactions EXCEPT ![1].items = @ \cup new]
      /\ UNCHANGED <<undos, redo_count, storage, used, created, stored, uptodate>>

\* An object that was created a moment ago and has not been written yet
IsNew(o) == o \in created /\ \A a \in AttrsOf(o) : Len(values[a]) = 1

\* What the Mga layer writes: pointers of objects it has not deleted, to
\* objects it has not deleted; it never takes the last pointer by hand.
MayPut(o, a, v) ==
  /\ IsNew(o) \/ ~HasEmptyPointers(o)
  /\ v \in Object \ {Root} => ~HasEmptyPointers(v)
  /\ v = Null => \E b \in AttrsOf(o) \ {a} : Current(b) # Null

PutPointer(a, v) ==
  /\ T!InWriteTransaction
  /\ Owner[a] \in stored
  /\ v \in stored \cup {Null}
  /\ Careful => MayPut(Owner[a], a, v)
  /\ PutAll(Owner[a], {a}, v)
  /\ UNCHANGED refused

\* CreateObject: the new object is in memory and takes part in the commit
CreateObject(o) ==
  /\ T!InWriteTransaction
  /\ o \notin used
  /\ used' = used \cup {o}
  /\ stored' = stored \cup {o}
  /\ created' = created \cup {o}
  /\ values' = [a \in Attr |-> IF Owner[a] = o THEN <<Null>> ELSE values[a]]
  /\ locked' = locked \cup {o}
  /\ finaltr_items' = finaltr_items \cup {o}
  /\ UNCHANGED <<levelVars, storage, read_count, write_count, uptodate, refused>>

\* What points to o when its collection is asked for: the pointers in memory,
\* to which Delete has added the pointers of o itself
PointsHere(o, p) == Collection(o, p) \cup {x \in {o} : Current(<<x, p>>) = o}

\* An object the storage lists is not in the object table.  It is there if
\* something refers to it, or if a client has not released it.
MayBeUnknown(x, o) ==
  x # o /\ ~Referred(x) /\ \A a \in AttrsOf(o) : Current(a) # x

\* mutant: only the storage is asked
MayBeFoundEmptyInStorage(o, p) == Listed(o, p) = {}

\* IsEmptyFromStorage answers yes if no pointer in memory leads here and the
\* collection is complete or all the storage lists is in the object table
MayBeFoundEmpty(o, p) == PointsHere(o, p) = {}

MayBeFoundNonempty(o, p) ==
  \/ PointsHere(o, p) # {}
  \/ <<o, p>> \notin uptodate /\ \E x \in Listed(o, p) : MayBeUnknown(x, o)

\* The Mga layer walks every collection of what it deletes, which loads the
\* objects it finds there, and redirects or deletes these first.
Walked(o, p) ==
  \/ IsLoaded(o) /\ <<o, p>> \in uptodate
  \/ \A x \in Listed(o, p) : x = o \/ IsLoaded(x)

\* Delete: the object is locked exclusively while all its pointers are set
\* to NULL.  An exclusive lock it does not have yet makes it be loaded; the
\* pointers then keep the lock.
Delete(o) ==
  /\ T!InWriteTransaction
  /\ o \in stored \ {Root}
  /\ Loadable({o})
  /\ \A p \in Pointer : MayBeFoundEmpty(o, p)
  /\ Careful => ~HasEmptyPointers(o) /\ \A p \in Pointer : Walked(o, p)
  /\ PutAll(o, AttrsOf(o), Null)
  /\ UNCHANGED refused

\* Delete leaves with E_NONEMPTY_COLL and does not give its lock back.
DeleteRefused(o) ==
  /\ T!InWriteTransaction
  /\ o \in stored \ {Root}
  /\ ~Careful
  /\ \A x \in Object : refused[x] < MaxRefusals
  /\ \E p \in Pointer : MayBeFoundNonempty(o, p)
  /\ refused' = [refused EXCEPT ![o] = @ + 1]
  /\ read_count' = [read_count EXCEPT ![o] = @ + 1]
  /\ write_count' = [write_count EXCEPT ![o] = @ + 1]
  /\ LET objs == NeedsLoad(read_count', write_count')
     IN  /\ Load(objs)
         /\ finaltr_items' = finaltr_items \cup objs
  /\ UNCHANGED <<levelVars, objectVars, uptodate>>

-----------------------------------------------------------------------------
(* Undo and redo: rings and list turn together, no lock changes *)

UndoTransaction ==
  LET step == undos[1]
  IN  /\ T!MayUndo
      /\ storage' = [a \in Attr |-> IF a \in step THEN T!Undone(a) ELSE storage[a]]
      /\ values' = [a \in Attr |-> IF a \in step THEN T!RotateLeft(values[a]) ELSE values[a]]
      /\ undos' = T!RotateLeft(undos)
      /\ redo_count' = redo_count + 1
      /\ UNCHANGED <<transactions, dirty, stored, used, created, lockVars, uptodate, refused>>

RedoTransaction ==
  LET step == undos[Len(undos)]
  IN  /\ T!MayRedo
      /\ storage' = [a \in Attr |-> IF a \in step THEN T!Redone(a) ELSE storage[a]]
      /\ values' = [a \in Attr |-> IF a \in step THEN T!RotateRight(values[a]) ELSE values[a]]
      /\ undos' = T!RotateRight(undos)
      /\ redo_count' = redo_count - 1
      /\ UNCHANGED <<transactions, dirty, stored, used, created, lockVars, uptodate, refused>>

Flush(n) ==
  /\ ~T!InTransaction
  /\ n < Len(undos)
  /\ DiscardTo(n)
  /\ undos' = SubSeq(undos, 1, n)
  /\ redo_count' = T!RedoneAfterDiscard(n)
  /\ UNCHANGED <<transactions, dirty, storage, used, created, finaltr_items, refused>>

FlushUndoQueue == Flush(0)
FlushRedoQueue == Flush(Len(undos) - redo_count)

-----------------------------------------------------------------------------
Next ==
  \/ \E readonly \in BOOLEAN : BeginFinalTr(readonly) \/ BeginNestedTr(readonly)
  \/ CommitNestedTr
  \/ CommitFinalTr
  \/ AbortNestedTr
  \/ AbortFinalTr
  \/ \E o \in Object : \/ GetPointer(o)
                       \/ Forget(o)
                       \/ CreateObject(o)
                       \/ Delete(o)
                       \/ DeleteRefused(o)
  \/ \E o \in Object, p \in Pointer : GetCollection(o, p)
  \/ \E a \in Attr, v \in Target : PutPointer(a, v)
  \/ UndoTransaction
  \/ RedoTransaction
  \/ FlushUndoQueue
  \/ FlushRedoQueue

Spec == Init /\ [][Next]_vars
=============================================================================
