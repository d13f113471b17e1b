-------------------------- MODULE CoreTransactions --------------------------
(***************************************************************************)
(* The transaction, undo and loading machinery of the Core:                *)
(* CCoreProject (GME/Core/CoreProject.cpp), CCoreDataAttribute and the     *)
(* part of CCoreLockAttribute and CCoreObject that decides what is loaded  *)
(* (CoreAttribute.cpp, CoreObject.cpp).                                    *)
(*                                                                         *)
(* Every attribute keeps a ring of values.  The first one is current;      *)
(* each open transaction level that wrote the attribute and each step of   *)
(* the undo list that touched it accounts for one more.  Undo moves the    *)
(* first value to the end, redo moves the last one to the front, so ring   *)
(* and undo list have to turn together.                                    *)
(*                                                                         *)
(* All attributes of an object are guarded by the lock attribute of that   *)
(* object.  They are in memory while the lock is being used by the open    *)
(* transaction or while one of them has more than one value (which is      *)
(* when it holds an exclusive lock).  This module has one client of the    *)
(* storage, so a lock is always granted; CoreLock has several.             *)
(***************************************************************************)
EXTENDS Integers, Sequences, FiniteSets

CONSTANTS
  Object,        \* the objects of the project
  Attr,          \* their data attributes
  Owner,         \* the object an attribute belongs to
  Value,         \* what an attribute can hold
  UndoSizes,     \* the arguments OpenProject2 is called with
  DefaultUndoStep, \* m_maxUndoStep of a new project (10 in the code)
  MaxNesting,    \* bound: levels of nested transactions
  MaxFailures    \* bound: how often a call of the storage fails

ASSUME OwnerAssumption == Owner \in [Attr -> Object]
ASSUME UndoSizesAssumption == UndoSizes \subseteq Int /\ DefaultUndoStep \in 1..99
ASSUME BoundsAssumption == MaxNesting \in Nat /\ MaxFailures \in Nat

VARIABLES
  opened,         \* storage != NULL
  transactions,   \* innermost level first: the attributes it wrote, its mode
  finaltr_items,  \* objects that take part in the final commit or abort
  undos,          \* attributes per step, newest first; undone steps last
  redo_count,     \* how many steps at the end of undos are undone
  maxUndoStep,    \* m_maxUndoStep
  values,         \* the ring of each attribute, <<>> while not loaded
  dirty,          \* attributes written by the innermost level
  locked,         \* objects whose lock attribute is dirty
  storage,        \* the value the storage has for each attribute
  failures        \* storage calls that have failed so far

vars == <<opened, transactions, finaltr_items, undos, redo_count, maxUndoStep,
          values, dirty, locked, storage, failures>>

-----------------------------------------------------------------------------
(* Status and helpers *)

InTransaction == transactions # <<>>
InReadTransaction == InTransaction /\ transactions[1].readonly
InWriteTransaction == InTransaction /\ ~transactions[1].readonly

\* transtype_enum: the bits a caller sets
TransType == SUBSET {"FIRST", "NESTED", "READ"}
IsRead(t) == "READ" \in t
Valid(t) == t \cap {"FIRST", "NESTED"} # {}

Level(readonly) == [items |-> {}, readonly |-> readonly]

\* The lock counts of an object are positive while one of its rings has
\* more than one value.
HoldsLock(vals, o) == \E a \in Attr : Owner[a] = o /\ Len(vals[a]) >= 2

\* LoadAttributes: all attributes of the object get the storage's value
LoadGroup(o) ==
  [a \in Attr |-> IF Owner[a] = o THEN <<storage[a]>> ELSE values[a]]

\* mutant: an object's attributes are never unloaded
ControlLockGroupNever(vals, locks) == vals

\* ControlLockGroupDo: attributes no lock keeps in memory are unloaded
ControlLockGroup(vals, locks) ==
  [a \in Attr |-> IF Owner[a] \in locks \/ HoldsLock(vals, Owner[a])
                    THEN vals[a] ELSE <<>>]

\* RemoveValue of the last value of every ring, once for each step of the
\* undo list from position n + 1 on that touched it
StepsAfter(n, a) == {i \in (n + 1)..Len(undos) : a \in undos[i]}

\* mutant: the values are taken off the wrong end of the ring
DropLastAtFront(n) ==
  [a \in Attr |-> SubSeq(values[a], 1 + Cardinality(StepsAfter(n, a)), Len(values[a]))]

DropLast(n) ==
  [a \in Attr |-> SubSeq(values[a], 1, Len(values[a]) - Cardinality(StepsAfter(n, a)))]

-----------------------------------------------------------------------------
Init ==
  /\ opened = FALSE
  /\ transactions = <<>>
  /\ finaltr_items = {}
  /\ undos = <<>>
  /\ redo_count = 0
  /\ maxUndoStep = DefaultUndoStep
  /\ values = [a \in Attr |-> <<>>]
  /\ dirty = {}
  /\ locked = {}
  /\ storage \in [Attr -> Value]
  /\ failures = 0

-----------------------------------------------------------------------------
(* Beginning a transaction *)

\* mutant: the counter is not kept from going below zero
RedoneUnclamped(n) == redo_count - (Len(undos) - n)

\* "if( --redo_count < 0 ) redo_count = 0", once per discarded step
RedoneAfterDiscard(n) ==
  IF redo_count > Len(undos) - n THEN redo_count - (Len(undos) - n) ELSE 0

\* TryDiscardLastItem, until only the n newest steps of the list are left.
\* Steps that were undone are at the end of the list and go first.
DiscardTo(n) ==
  /\ undos' = SubSeq(undos, 1, n)
  /\ redo_count' = RedoneAfterDiscard(n)
  /\ values' = ControlLockGroup(DropLast(n), {})

\* mutant: no room is made for the new step
KeptTooMany == LET alive == Len(undos) - redo_count
               IN  IF alive <= maxUndoStep THEN alive ELSE maxUndoStep

\* How many steps survive the start of a transaction that writes
Kept == LET alive == Len(undos) - redo_count
        IN  IF alive < maxUndoStep THEN alive ELSE maxUndoStep - 1

\* An empty step is put in front for the attributes to register in.
BeginFinalTr(readonly) ==
  /\ IF readonly
       THEN /\ undos' = <<{}>> \o undos
            /\ UNCHANGED <<redo_count, values>>
       ELSE /\ undos' = <<{}>> \o SubSeq(undos, 1, Kept)
            /\ redo_count' = 0
            /\ values' = ControlLockGroup(DropLast(Kept), {})
  /\ transactions' = <<Level(readonly)>>
  /\ UNCHANGED <<finaltr_items, dirty, locked>>

BeginNestedTr(readonly) ==
  /\ Len(transactions) < MaxNesting
  /\ dirty' = dirty \ transactions[1].items
  /\ transactions' = <<Level(readonly)>> \o transactions
  /\ UNCHANGED <<finaltr_items, undos, redo_count, values, locked>>

BeginTransaction(t) ==
  /\ opened
  /\ Valid(t)
  /\ InReadTransaction => IsRead(t)
  /\ InTransaction => "NESTED" \in t
  /\ IF InTransaction THEN BeginNestedTr(IsRead(t)) ELSE BeginFinalTr(IsRead(t))
  /\ UNCHANGED <<opened, maxUndoStep, storage, failures>>

-----------------------------------------------------------------------------
(* Reading and writing attributes *)

\* get_Value of an attribute that is not loaded
Get(a) ==
  /\ opened
  /\ InTransaction
  /\ values[a] = <<>>
  /\ values' = LoadGroup(Owner[a])
  /\ locked' = locked \cup {Owner[a]}
  /\ finaltr_items' = finaltr_items \cup {Owner[a]}
  /\ UNCHANGED <<opened, transactions, undos, redo_count, maxUndoStep, dirty,
                 storage, failures>>

\* InsertFrontValue: the first write of this level gets a value of its own,
\* and the object's lock is needed if it is the first second value
Insert(a, v) ==
  LET o == Owner[a]
      loaded == IF values[a] = <<>> THEN LoadGroup(o) ELSE values
  IN  /\ a \notin dirty
      /\ values' = [loaded EXCEPT ![a] = <<v>> \o @]
      /\ locked' = IF HoldsLock(loaded, o) THEN locked ELSE locked \cup {o}
      /\ finaltr_items' = finaltr_items \cup {o}
      /\ transactions' = [transactions EXCEPT ![1].items = @ \cup {a}]
      /\ dirty' = dirty \cup {a}

\* ChangeFrontValue
Overwrite(a, v) ==
  /\ a \in dirty
  /\ values' = [values EXCEPT ![a] = <<v>> \o Tail(@)]
  /\ UNCHANGED <<locked, finaltr_items, transactions, dirty>>

Put(a, v) ==
  /\ opened
  /\ InWriteTransaction
  /\ Insert(a, v) \/ Overwrite(a, v)
  /\ UNCHANGED <<opened, undos, redo_count, maxUndoStep, storage, failures>>

-----------------------------------------------------------------------------
(* Commit *)

MayCommit(t) ==
  /\ opened
  /\ Valid(t)
  /\ InTransaction
  /\ Len(transactions) = 1 => "FIRST" \in t
  /\ transactions[1].readonly = IsRead(t)

\* mutant: the value of the lower level stays in the ring
WithoutSecondKept(ring) == ring

\* DiscardPreviousValue
WithoutSecond(ring) == <<ring[1]>> \o SubSeq(ring, 3, Len(ring))

\* The level below is merged into the innermost one.  What both wrote has a
\* value too many; what only the lower one wrote becomes dirty again.
CommitNestedTr ==
  LET current == transactions[1]
      previous == transactions[2]
  IN  /\ Len(transactions) >= 2
      /\ values' = [a \in Attr |-> IF a \in previous.items \cap dirty
                                     THEN WithoutSecond(values[a])
                                     ELSE values[a]]
      /\ dirty' = dirty \cup previous.items
      /\ transactions' =
           <<[items |-> current.items \cup (previous.items \ dirty),
              readonly |-> previous.readonly]>>
           \o SubSeq(transactions, 3, Len(transactions))
      /\ UNCHANGED <<finaltr_items, undos, redo_count, locked, storage>>

\* The attributes that CommitFinalTransaction of the objects reaches
Committed == {a \in dirty : Owner[a] \in finaltr_items}

\* mutant: a step nobody registered in stays in the undo list
PushEmptyStep(step, older) == <<step>> \o older

\* A step in which nothing was registered is taken off the list again.
PushStep(step, older) == IF step = {} THEN older ELSE <<step>> \o older

CommitFinalTr ==
  /\ Len(transactions) = 1
  /\ storage' = [a \in Attr |-> IF a \in Committed THEN values[a][1] ELSE storage[a]]
  /\ undos' = PushStep(Committed, Tail(undos))
  /\ dirty' = dirty \ Committed
  /\ locked' = locked \ finaltr_items
  /\ values' = ControlLockGroup(values, locked')
  /\ finaltr_items' = {}
  /\ transactions' = <<>>
  /\ UNCHANGED redo_count

CommitTransaction(t) ==
  /\ MayCommit(t)
  /\ CommitNestedTr \/ CommitFinalTr
  /\ UNCHANGED <<opened, maxUndoStep, failures>>

\* The storage refuses a value or the commit itself: what it has taken so far
\* stays in it and the transaction stays open.
CommitFails(t) ==
  /\ MayCommit(t)
  /\ Len(transactions) = 1
  /\ failures < MaxFailures
  /\ failures' = failures + 1
  /\ \E written \in SUBSET Committed :
       storage' = [a \in Attr |-> IF a \in written THEN values[a][1] ELSE storage[a]]
  /\ UNCHANGED <<opened, transactions, finaltr_items, undos, redo_count,
                 maxUndoStep, values, dirty, locked>>

-----------------------------------------------------------------------------
(* Abort *)

DropFirst(attrs) ==
  [a \in Attr |-> IF a \in attrs THEN Tail(values[a]) ELSE values[a]]

\* mutant: the level below is not told that its attributes are dirty again
DirtyForgotten == dirty \ transactions[1].items

\* AbortNestedTransaction clears the flag, ChangeDirty(true) sets it for what
\* the level below had written.
DirtyAfterAbort == (dirty \ transactions[1].items) \cup transactions[2].items

AbortNestedTr ==
  /\ Len(transactions) >= 2
  /\ values' = ControlLockGroup(DropFirst(transactions[1].items), locked)
  /\ dirty' = DirtyAfterAbort
  /\ transactions' = Tail(transactions)
  /\ UNCHANGED <<finaltr_items, undos, locked>>

AbortFinalTr ==
  /\ Len(transactions) = 1
  /\ undos' = Tail(undos)
  /\ dirty' = dirty \ Committed
  /\ locked' = locked \ finaltr_items
  /\ values' = ControlLockGroup(DropFirst(Committed), locked')
  /\ finaltr_items' = {}
  /\ transactions' = <<>>

\* The storage keeps no values to return to (the code that recorded them in
\* put_AttributeValue is commented out), so its own abort changes none.
AbortTransaction(t) ==
  /\ opened
  /\ Valid(t)
  /\ InTransaction
  /\ Len(transactions) = 1 => "FIRST" \in t
  /\ AbortNestedTr \/ AbortFinalTr
  /\ UNCHANGED <<opened, redo_count, maxUndoStep, storage, failures>>

-----------------------------------------------------------------------------
(* Undo and redo *)

MayUndo == opened /\ ~InTransaction /\ Len(undos) > redo_count
MayRedo == opened /\ ~InTransaction /\ redo_count > 0

\* SpliceValue(values.end(), values.begin()) and its inverse
RotateLeft(s) == Tail(s) \o <<s[1]>>
RotateRight(s) == <<s[Len(s)]>> \o SubSeq(s, 1, Len(s) - 1)

\* mutant: undo writes the value the storage has already
UndoneStale(a) == values[a][1]

\* What undo and redo write to the storage
Undone(a) == values[a][2]
Redone(a) == values[a][Len(values[a])]

UndoTransaction ==
  LET step == undos[1]
  IN  /\ MayUndo
      /\ storage' = [a \in Attr |-> IF a \in step THEN Undone(a) ELSE storage[a]]
      /\ values' = [a \in Attr |-> IF a \in step THEN RotateLeft(values[a]) ELSE values[a]]
      /\ undos' = RotateLeft(undos)
      /\ redo_count' = redo_count + 1
      /\ UNCHANGED <<opened, transactions, finaltr_items, maxUndoStep, dirty,
                     locked, failures>>

RedoTransaction ==
  LET step == undos[Len(undos)]
  IN  /\ MayRedo
      /\ storage' = [a \in Attr |-> IF a \in step THEN Redone(a) ELSE storage[a]]
      /\ values' = [a \in Attr |-> IF a \in step THEN RotateRight(values[a]) ELSE values[a]]
      /\ undos' = RotateRight(undos)
      /\ redo_count' = redo_count - 1
      /\ UNCHANGED <<opened, transactions, finaltr_items, maxUndoStep, dirty,
                     locked, failures>>

\* A failing storage call inside TryUndoTransaction or TryRedoTransaction is
\* swallowed: the caller sees success and nothing has turned.
UndoOrRedoFails ==
  /\ failures < MaxFailures
  /\ failures' = failures + 1
  /\ \/ /\ MayUndo
        /\ \E written \in SUBSET undos[1] :
             storage' = [a \in Attr |-> IF a \in written THEN Undone(a) ELSE storage[a]]
     \/ /\ MayRedo
        /\ \E written \in SUBSET undos[Len(undos)] :
             storage' = [a \in Attr |-> IF a \in written THEN Redone(a) ELSE storage[a]]
  /\ UNCHANGED <<opened, transactions, finaltr_items, undos, redo_count,
                 maxUndoStep, values, dirty, locked>>

FlushUndoQueue ==
  /\ opened
  /\ ~InTransaction
  /\ undos # <<>>
  /\ DiscardTo(0)
  /\ UNCHANGED <<opened, transactions, finaltr_items, maxUndoStep, dirty, locked,
                 storage, failures>>

FlushRedoQueue ==
  /\ opened
  /\ ~InTransaction
  /\ redo_count > 0
  /\ DiscardTo(Len(undos) - redo_count)
  /\ UNCHANGED <<opened, transactions, finaltr_items, maxUndoStep, dirty, locked,
                 storage, failures>>

-----------------------------------------------------------------------------
(* Opening and closing the project *)

\* setMaxUndoStep ignores a size it does not like
SetMaxUndoStep(size) ==
  maxUndoStep' = IF 0 < size /\ size < 100 THEN size ELSE maxUndoStep

\* OpenProject2 sets the size before it finds out whether a project is open
OpenProject2(size) ==
  /\ SetMaxUndoStep(size)
  /\ opened' = TRUE
  /\ UNCHANGED <<transactions, finaltr_items, undos, redo_count, values, dirty,
                 locked, storage, failures>>

\* put_Storage(NULL): every open level is aborted, every step is discarded.
\* No lock is left then, so no attribute stays loaded.
CloseProject ==
  /\ opened
  /\ opened' = FALSE
  /\ transactions' = <<>>
  /\ finaltr_items' = {}
  /\ undos' = <<>>
  /\ redo_count' = 0
  /\ values' = [a \in Attr |-> <<>>]
  /\ dirty' = {}
  /\ locked' = {}
  /\ UNCHANGED <<maxUndoStep, storage, failures>>

-----------------------------------------------------------------------------
Next ==
  \/ \E t \in TransType : \/ BeginTransaction(t)
                          \/ CommitTransaction(t)
                          \/ CommitFails(t)
                          \/ AbortTransaction(t)
  \/ \E a \in Attr : Get(a)
  \/ \E a \in Attr, v \in Value : Put(a, v)
  \/ UndoTransaction
  \/ RedoTransaction
  \/ UndoOrRedoFails
  \/ FlushUndoQueue
  \/ FlushRedoQueue
  \/ \E size \in UndoSizes : OpenProject2(size)
  \/ CloseProject

Spec == Init /\ [][Next]_vars
=============================================================================
