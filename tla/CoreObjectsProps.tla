-------------------------- MODULE CoreObjectsProps --------------------------
(***************************************************************************)
(* What CoreObjects has to guarantee: locks, rings and collections agree,  *)
(* and the storage neither loses an object something can still return to   *)
(* nor keeps one that nothing can.                                         *)
(***************************************************************************)
EXTENDS CoreObjects, Occurrences

LevelType == LevelOf(Attr)

\* The type of every variable of CoreObjects.  A lock count that is given
\* back once too often would not be a number any more.
TypeOK ==
  /\ transactions \in Seq(LevelType)
  /\ finaltr_items \in SUBSET Object
  /\ undos \in Seq(SUBSET Attr)
  /\ redo_count \in Nat
  /\ values \in [Attr -> Seq(Target)]
  /\ dirty \in SUBSET Attr
  /\ locked \in SUBSET Object
  /\ storage \in [Attr -> Target]
  /\ stored \in SUBSET Object
  /\ used \in SUBSET Object
  /\ created \in SUBSET Object
  /\ read_count \in [Object -> Nat]
  /\ write_count \in [Object -> Nat]
  /\ uptodate \in SUBSET (Object \X Pointer)
  /\ refused \in [Object -> Nat]

-----------------------------------------------------------------------------
(* Locks *)

Held(o) == Cardinality({a \in AttrsOf(o) : Len(values[a]) >= 2})
Aimed(o) == Mentions([a \in {b \in Attr : Len(values[b]) >= 2} |-> values[a]], o)

\* The lock counts of an object, which the code adjusts by one at a time in
\* InsertFrontValue, ChangeFrontValue and the RemoveValue functions, are what
\* the rings call for: one exclusive lock for each of its rings that keeps
\* several values, one write lock for each place in such a ring that names
\* it.  Only an object whose deletion was refused has more.
CountsMatchRings ==
  \A o \in Object : /\ read_count[o] = Held(o) + refused[o]
                    /\ write_count[o] = Held(o) + Aimed(o) + refused[o]

\* Every object that takes part in the final commit is in memory.  Commit
\* looks at its pointers to decide whether to delete it, and pointers that
\* are not in memory look empty.
FinalItemsLoaded ==
  /\ \A o \in finaltr_items : IsLoaded(o)
  /\ \A a \in Attr : values[a] # <<>> <=> IsLoaded(Owner[a])

-----------------------------------------------------------------------------
(* Objects in the storage *)

\* Whatever undo, redo or an abort can bring back still exists: the object
\* that has the ring and every object in it.
RingTargetsStored ==
  \A a \in Attr : Len(values[a]) >= 2 =>
    /\ Owner[a] \in stored
    /\ \A k \in DOMAIN values[a] : values[a][k] \in stored \cup {Null}

Exists(v) == v = Null \/ v = Root \/ (v \in stored /\ ~HasEmptyPointers(v))

\* No pointer leads to an object that is deleted, now or in the storage.
NoDangling ==
  \A a \in Attr : Owner[a] \in stored =>
    /\ Exists(Current(a)) \/ IsNew(Current(a))
    /\ storage[a] \in stored \cup {Null}

\* A deleted object does not stay in the storage: between transactions an
\* object without pointers is one that a step of the undo list can return to.
NoGarbage ==
  ~T!InTransaction =>
    \A o \in stored \ {Root} : HasEmptyPointers(o) => ~IsEmpty(o)

-----------------------------------------------------------------------------
(* Collections *)

\* A collection that says it is complete has in memory every object whose
\* pointer leads here, so get_Value may answer without asking the storage.
UpToDateMeansComplete ==
  \A o \in Object, p \in Pointer :
    IsLoaded(o) /\ <<o, p>> \in uptodate =>
      Collection(o, p) = {x \in stored \ {Root} : Current(<<x, p>>) = o}
=============================================================================
