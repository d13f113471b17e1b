--------------------------- MODULE MgaDeriveProps ---------------------------
(***************************************************************************)
(* What the clients of types, subtypes and instances rely on.              *)
(***************************************************************************)
EXTENDS MgaDerive

RelId == -LongMax - 1..LongMax

\* The type of every variable of MgaDerive.
TypeOK ==
  /\ created \in Object
  /\ DOMAIN fco \subseteq 0..created /\ Folder \in DOMAIN fco
  /\ \A o \in DOMAIN fco :
       /\ fco[o].kind \in {"folder", "model", "reference"} /\ (fco[o].kind = "folder" <=> o = Folder)
       /\ {fco[o].parent, fco[o].derived, fco[o].master, fco[o].referred} \subseteq Object \cup {None}
       /\ fco[o].relid \in RelId /\ fco[o].lastrelid \in 0..RelIdSpace - 1
       /\ fco[o].instance \in BOOLEAN

\* An object is derived along with its parent: both have their bases in each
\* other.
Secondary(o) ==
  LET base == fco[o].derived
  IN  /\ base # None /\ fco[o].parent \in FCOs(fco)
      /\ fco[base].parent # Folder /\ fco[base].parent = fco[fco[o].parent].derived

\* A derived model has exactly one counterpart of each child of its base
\* (CreateChildObject, DeriveFCO, MoveFCOs and DeleteObject keep all models
\* derived from a type, directly or not, in step with it), so that
\* GetDerivedEquivalent finds one.
EachChildOnce ==
  \A d \in Models(fco) : fco[d].derived # None =>
    \A o \in FCOs(fco) : fco[o].parent = fco[d].derived =>
      Cardinality({x \in Deriveds(fco, o) : fco[x].parent = d}) = 1

\* The relative id tells which objects came with their parents: these, and
\* no others, cannot be deleted, moved or dumped on their own (DeleteObject,
\* MoveFCOs, get_IsPrimaryDerived).
RelIdTellsSecondary ==
  \A o \in FCOs(fco) : fco[o].relid >= RelIdSpace <=> Secondary(o)

\* Nothing is ever added to an instance: all of it is instance and came with
\* it; and what is derived from an instance is an instance.
InstancesAreClosed ==
  \A o \in FCOs(fco) :
    /\ fco[o].parent \in FCOs(fco) /\ fco[fco[o].parent].instance =>
         fco[o].instance /\ Secondary(o)
    /\ fco[o].derived # None /\ fco[fco[o].derived].instance => fco[o].instance

\* "inherited ref can only refer to a derived instance of the target of its
\* base" (MgaCheck.cpp, CheckRCS): it is checked where it could break, for
\* whatever is derived from what a method touches.
InheritedRefsAgree == Check(fco, FCOs(fco))

\* When an object is deleted or leaves its type, nothing is left inside of
\* it, derived from it or referring to it (inDeleteObject).
NothingLeftBehind ==
  \A o \in FCOs(fco) :
    /\ fco[o].parent \in DOMAIN fco
    /\ {fco[o].derived, fco[o].master, fco[o].referred} \subseteq FCOs(fco) \cup {None}

\* What has a part of a derived model among its bases, without coming from the
\* derived model.
FromAPart(o) ==
  \E x \in Tree(fco, o) : \E b \in {x} \cup Bases(fco, x) :
    /\ fco[b].relid < RelIdSpace /\ fco[b].derived # None
    /\ fco[fco[b].derived].relid >= RelIdSpace

\* The copying of what is derived or moved into a type comes to an end: the
\* checks refuse to put what is derived from a container into that container
\* (CheckConflict), unless a part of a derived model has been derived.
CopyingEnds ==
  \A o \in FCOs(fco) : fco[o].relid < RelIdSpace /\ ~FromAPart(o) =>
    \A c \in Containers(fco) : ~Returns(o, c) =>
      /\ ~(ClientDerives(o, c) /\ MayDerive(o, c))
      /\ ~(ClientMoves(o, c) /\ MayMove(o, c) /\ Newcomer(o, c))

\* The object that o was derived along with, or else o itself.
Subtype(o) ==
  LET subtype[x \in FCOs(fco)] == IF fco[x].relid < RelIdSpace THEN x ELSE subtype[fco[x].parent]
  IN  subtype[o]

\* An inherited reference refers to what its base refers to, or when that was
\* derived along with it, to what became of it (IsInternalRelation,
\* GetDerivedEquivalent).
InternalRefsFollow ==
  \A o \in References(fco) : fco[o].master # None =>
    LET target == fco[fco[o].master].referred
        d == Subtype(o)
    IN  IF IsInternalRelation(fco, o) /\ target \in Tree(fco, fco[d].derived)
          THEN fco[o].referred \in Deriveds(fco, target) \cap Tree(fco, d)
          ELSE fco[o].referred = target
=============================================================================
