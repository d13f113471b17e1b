----------------------- MODULE CoreTransactionsProps -----------------------
(***************************************************************************)
(* What CoreTransactions has to guarantee: the invariants that tie the     *)
(* rings of values to the undo list, to the open levels and to the locks,  *)
(* and the refinement of CoreUndo.                                         *)
(***************************************************************************)
EXTENDS CoreTransactions, Occurrences

-----------------------------------------------------------------------------
(* Types *)

LevelType == LevelOf(Attr)

\* The type of every variable of CoreTransactions.
TypeOK ==
  /\ opened \in BOOLEAN
  /\ transactions \in Seq(LevelType)
  /\ finaltr_items \in SUBSET Object
  /\ undos \in Seq(SUBSET Attr)
  /\ redo_count \in Nat
  /\ maxUndoStep \in 1..99
  /\ values \in [Attr -> Seq(Value)]
  /\ dirty \in SUBSET Attr
  /\ locked \in SUBSET Object
  /\ storage \in [Attr -> Value]
  /\ failures \in Nat

-----------------------------------------------------------------------------
(* The undo list *)

\* The counters stay inside the list: what the ASSERTs at the head of
\* UndoTransaction, RedoTransaction, get_UndoQueueSize and BeginTransaction
\* say, for every interleaving of transactions, undo, redo and flushes.  A
\* transaction has its own empty step in front, and one that writes has no
\* undone steps behind it.
QueueSizesOK ==
  /\ Len(undos) - redo_count - (IF InTransaction THEN 1 ELSE 0) >= 0
  /\ InTransaction => undos[1] = {}
  /\ InTransaction /\ ~transactions[Len(transactions)].readonly => redo_count = 0
  /\ \A i \in 1..Len(undos) : undos[i] = {} => InTransaction /\ i = 1

\* The list never holds more steps than the project was opened for, not
\* counting the step that belongs to an open reader; a writer has made room
\* for its own.
UndoListBounded ==
  Len(undos) <= maxUndoStep + (IF InReadTransaction THEN 1 ELSE 0)

-----------------------------------------------------------------------------
(* Rings, levels, steps and locks *)

\* How many values the ring of a needs besides the first one
Older(a) == Count(Items(transactions), a) + Count(undos, a)

RingMatches(ring, n) == IF ring = <<>> THEN n = 0 ELSE Len(ring) = 1 + n

\* A loaded attribute has one value besides the first for each open level
\* that wrote it and for each step of the undo list that touched it: the
\* picture of the value list in Core/Decisions.txt, kept by every path
\* through nested commit and abort, undo, redo and discarding.
RingMatchesHistory == \A a \in Attr : RingMatches(values[a], Older(a))

\* An attribute is in memory exactly while its object's lock attribute is in
\* use by the transaction or kept for undo (CCoreLockAttribute::IsLoaded and
\* COREATTRIBUTE_LOCKGROUP_LOADED), and nothing stays locked after the end of
\* the outermost transaction.
LoadedIffLocked ==
  /\ \A a \in Attr :
       values[a] # <<>> <=> Owner[a] \in locked \/ HoldsLock(values, Owner[a])
  /\ ~InTransaction => locked = {} /\ finaltr_items = {}
  /\ locked \subseteq finaltr_items

\* An attribute is dirty exactly when the innermost level has registered it
\* (the ASSERTs of BeginNestedTr, AbortNestedTr and CommitNestedTr), and the
\* object of every dirty attribute takes part in the final commit.
DirtyIffRegistered ==
  /\ dirty = IF InTransaction THEN transactions[1].items ELSE {}
  /\ \A k \in 1..Len(transactions), a \in Attr :
       a \in transactions[k].items => Owner[a] \in finaltr_items

-----------------------------------------------------------------------------
(* The documents behind the rings *)

Current(a) == IF values[a] = <<>> THEN storage[a] ELSE values[a][1]

\* The value a ring has n places behind its first one
Behind(a, n) == IF n = 0 THEN Current(a) ELSE values[a][n + 1]

\* The undo list without the step of the open transaction
Steps == IF InTransaction THEN Tail(undos) ELSE undos
Alive == Len(Steps) - redo_count

TouchedBy(a, m, n) == Cardinality({i \in m..n : a \in Steps[i]})
WrittenBy(a, k) == Cardinality({i \in 1..k : a \in transactions[i].items})

\* The document a client reads
DocNow == [a \in Attr |-> Current(a)]

\* The document as it was when level k was opened
DocBefore(k) == [a \in Attr |-> Behind(a, WrittenBy(a, k))]

\* The document k undo steps ago
DocPast(k) ==
  [a \in Attr |-> Behind(a, WrittenBy(a, Len(transactions)) + TouchedBy(a, 1, k))]

\* The storage holds the document the outermost transaction started from
\* until that transaction is committed, and the current document between
\* transactions.  get_PreviousValue relies on it to return the last committed
\* value of a dirty attribute.
StorageIsCommitted ==
  \A a \in Attr : storage[a] = Behind(a, WrittenBy(a, Len(transactions)))

\* The document k redo steps ahead: redo takes steps from the end
DocFuture(k) ==
  [a \in Attr |->
    LET n == TouchedBy(a, Len(Steps) - k + 1, Len(Steps))
    IN  IF n = 0 THEN Current(a) ELSE values[a][Len(values[a]) - n + 1]]

Undo == INSTANCE CoreUndo WITH
  doc    <- DocNow,
  saved  <- [k \in 1..Len(transactions) |->
              [doc |-> DocBefore(k), readonly |-> transactions[k].readonly]],
  past   <- [k \in 1..Alive |-> DocPast(k)],
  future <- [k \in 1..redo_count |-> DocFuture(k)],
  limit  <- maxUndoStep

\* The rings implement documents: every step of the Core is a step of
\* CoreUndo or changes no document at all.
ImplementsUndo == Undo!Spec

\* What aborting the outermost transaction promises ("abort transaction: -
\* discard changes in memory", Core/Decisions.txt:849-850; "if fails, call it
\* again or call abort", Interfaces/Core.idl:413, of a commit): the document
\* is again the one the transaction started from.
AbortRestores ==
  [][\A t \in TransType :
       Len(transactions) = 1 /\ AbortTransaction(t) => DocNow' = DocBefore(1)]_vars
=============================================================================
