------------------------------ MODULE MgaDerive ------------------------------
(***************************************************************************)
(* Types, subtypes and instances in Mga: creating, deriving, moving and    *)
(* deleting models and references so that every derived model follows its  *)
(* base (GME/Mga/MgaComplexOps.cpp, MgaDeriveOps.cpp, MgaReference.cpp,    *)
(* MgaModel.cpp, MgaFolder.cpp, MgaCoreObj.cpp).                           *)
(*                                                                         *)
(* Each action is a whole method of FCO.  A method that fails is rolled    *)
(* back by its nested transaction and so is no step.  Kinds, roles and     *)
(* names are left out: the paradigm lets the root folder hold models, a    *)
(* model models and references, and a reference refer to anything.  The    *)
(* preferences and the operations mask have their default values; nothing  *)
(* is in a library.                                                        *)
(***************************************************************************)
EXTENDS Integers, FiniteSetsExt, SequencesExt

CONSTANTS
  None,         \* no object
  Failed,       \* the pointer an operation could not find
  MaxObject,    \* bound: objects ever created, less one for each reference that is not derived
  MaxModels,    \* bound: models that are not derived
  MaxReferences,\* bound: references that are not derived
  MaxDerived,   \* bound: objects that are derived and not with their parents
  RelIdSpace,   \* RELIDSPACE, 2^27 in the code
  LongMax,      \* LONG_MAX, 2^31 - 1 in the code
  AnyClient     \* whether clients also derive what is not "derivable"

ASSUME SizesAssumption ==
  /\ MaxObject \in Nat /\ MaxModels \in Nat /\ MaxReferences \in Nat
  /\ MaxDerived \in Nat
  /\ RelIdSpace \in Nat \ {0} /\ LongMax \in Nat /\ LongMax >= RelIdSpace
ASSUME NoneAssumption == None \notin Nat /\ Failed \notin Nat /\ None # Failed
ASSUME ClientAssumption == AnyClient \in BOOLEAN

Folder == 0
Object == 0..MaxObject

VARIABLES
  fco,       \* the objects there are, with their attributes
  created    \* how many objects have been created

vars == <<fco, created>>

FCOs(f) == DOMAIN f \ {Folder}
Models(f) == {o \in FCOs(f) : f[o].kind = "model"}
References(f) == {o \in FCOs(f) : f[o].kind = "reference"}
Containers(f) == {Folder} \cup Models(f)

NewFCO(kind) ==
  [kind |-> kind, parent |-> None, derived |-> None, master |-> None, referred |-> None,
   relid |-> 0, lastrelid |-> 0, instance |-> FALSE]

Init == fco = (Folder :> NewFCO("folder")) /\ created = 0

-----------------------------------------------------------------------------
(* Walking the objects *)

\* The object offset steps up a chain of pointers.
FollowChain(f, attr, o, offset) ==
  LET step[i \in 0..offset] ==
        IF i = 0 THEN o
        ELSE LET p == step[i - 1] IN IF p \in DOMAIN f THEN f[p][attr] ELSE None
  IN  step[offset]

\* Everything that leads to o by a chain of pointers, o included.
Below(f, attr, o) ==
  LET leads[x \in DOMAIN f] == x = o \/ (f[x][attr] # None /\ leads[f[x][attr]])
  IN  {x \in FCOs(f) : leads[x]}

Tree(f, o) == Below(f, "parent", o)
Deriveds(f, o) == {d \in FCOs(f) : f[d].derived = o}

Bases(f, o) ==
  LET bases[x \in DOMAIN f] ==
        IF f[x].derived = None THEN {} ELSE {f[x].derived} \cup bases[f[x].derived]
  IN  IF o \in FCOs(f) THEN bases[o] ELSE {}

\* GetRootOfDeriv: the outermost of the ancestors that, one after the other,
\* have been derived from; -1 if o itself has not.
RootLevel(f, o) ==
  LET level[x \in DOMAIN f] ==
        IF x # Folder /\ Deriveds(f, x) # {} THEN 1 + level[f[x].parent] ELSE -1
  IN  IF o = None THEN -1 ELSE level[o]

GetRootOfDeriv(f, o) ==
  LET n == RootLevel(f, o) IN IF n < 0 THEN None ELSE FollowChain(f, "parent", o, n)

\* The reference that o has been derived from in the end.
Original(f, o) ==
  LET original[x \in FCOs(f)] ==
        IF f[x].master = None THEN x ELSE original[f[x].master]
  IN  original[o]

IsInternalRelation(f, o) ==
  LET src == Original(f, o)
      p1 == GetRootOfDeriv(f, f[src].referred)
  IN  f[src].referred # None /\ p1 # None /\ p1 = GetRootOfDeriv(f, src)

Only(S) == IF S = {} THEN Failed ELSE CHOOSE x \in S : TRUE

\* GetDerivedEquivalent: what in subtype is derived from o, which is level
\* steps below the base of subtype.
EquivalentAt(f, o, subtype, level) ==
  IF subtype \notin FCOs(f) THEN Failed
  ELSE Only({d \in Deriveds(f, o) : FollowChain(f, "parent", d, level) = subtype})

\* The same when o may be outside of the base, and then stays.
GetDerivedEquivalent(f, o, subtype) ==
  IF subtype \notin FCOs(f) THEN Failed
  ELSE LET base == f[subtype].derived
           level == {n \in 0..MaxObject : FollowChain(f, "parent", o, n) = base}
       IN  IF o = None \/ base = None \/ level = {} THEN o
           ELSE EquivalentAt(f, o, subtype, Min(level))

-----------------------------------------------------------------------------
(* Relative ids *)

\* The id of what is derived along with its parent.  The check for
\* overflow looks at the id of the new object, which is 0: the sum wraps.
DerivedRelId(relid) ==
  LET r == relid + RelIdSpace IN IF r > LongMax THEN r - 2 * (LongMax + 1) ELSE r

\* assignnewchild succeeds until the counter is full: then it looks for an id
\* that is free, but never leaves the loop when it has found one.
HasRelId(f, c) == f[c].lastrelid + 1 < RelIdSpace

AssignNewChild(f, o, c) ==
  [f EXCEPT ![o].parent = c, ![o].relid = f[c].lastrelid + 1, ![c].lastrelid = @ + 1]

-----------------------------------------------------------------------------
(* Deriving trees of objects.  A state of this work has the objects, how   *)
(* many have been created, the top of the new tree in each container, and  *)
(* what has to be checked in the end.                                      *)

\* ObjTreeReconnect, for one reference of the new tree.
Reconnected(f, o, crealist, derivtgt) ==
  LET old == f[o].referred
  IN  IF f[o].master # None /\ ~IsInternalRelation(f, o) THEN old
      ELSE IF old \in DOMAIN crealist THEN crealist[old]
      ELSE IF derivtgt # None THEN GetDerivedEquivalent(f, old, derivtgt) ELSE old

\* mutant: references keep their targets
NotReconnected(f, S, crealist, derivtgt) == f

ObjTreeReconnect(f, S, crealist, derivtgt) ==
  [o \in S \cap References(f) |->
     [f[o] EXCEPT !.referred = Reconnected(f, o, crealist, derivtgt)]] @@ f

\* ObjTreeDerive into the container c, and ObjTreeReconnect.
DeriveTree(work, orig, c, instance, derivtgt) ==
  LET f == work.fco
      T == Tree(f, orig)
      crealist == [t \in T |-> work.created + Cardinality({u \in T : u <= t})]
      New(t) == [f[t] EXCEPT
                   !.parent = IF t = orig THEN c ELSE crealist[f[t].parent],
                   !.derived = t,
                   !.master = IF f[t].kind = "reference" THEN t ELSE None,
                   !.relid = DerivedRelId(@),
                   !.lastrelid = 0,
                   !.instance = @ \/ instance]
      source == [n \in Range(crealist) |-> CHOOSE t \in T : crealist[t] = n]
      g == [n \in DOMAIN source |-> New(source[n])] @@ f
  IN  [work EXCEPT !.fco = ObjTreeReconnect(g, Range(crealist), crealist, derivtgt),
                   !.created = @ + Cardinality(T),
                   !.top = (c :> crealist[orig]) @@ @]

\* mutant: only what is derived from c itself follows, not what is derived
\* from that
DirectContainers(f, c) == IF c = Folder THEN <<>> ELSE SetToSortSeq(Deriveds(f, c), <)

\* The containers that are derived from c, each after its base, which is
\* older.
DerivedContainers(f, c) ==
  IF c = Folder THEN <<>> ELSE SetToSortSeq(Below(f, "derived", c) \ {c}, <)

\* ReDeriveNewObjs: the new object o in c is derived in all that is derived
\* from c.
ReDeriveNewObj(work, c, o) ==
  FoldLeft(LAMBDA w, d :
             DeriveTree(w, w.top[w.fco[d].derived], d, w.fco[d].instance,
                        FollowChain(w.fco, "parent", d, RootLevel(fco, c))),
           [work EXCEPT !.top = (c :> o)],
           DerivedContainers(fco, c))

\* ReDeriveNewObjs and DeriveMoveds do not return when they derive one of the
\* containers they go through.
Returns(o, c) == Deriveds(fco, c) # {} => Tree(fco, o) \cap Below(fco, "derived", c) = {}

Start == [fco |-> fco, created |-> created, top |-> <<>>, touched |-> {}]

\* An inherited reference refers to what its base does or to something
\* derived from that (CheckRCS).
CheckRCS(f, o) ==
  LET base == f[o].derived
  IN  base # None => f[base].referred \in {None, f[o].referred} \cup Bases(f, f[o].referred)

Check(f, S) == \A o \in S : f[o].kind = "reference" => CheckRCS(f, o)

NotDerived(f, S) == Cardinality({o \in S : f[o].derived = None})

\* A reference takes the room of an object.
Fits(f, n) == n + Cardinality(References(f)) <= MaxObject

PrimaryDerived == Cardinality({o \in FCOs(fco) : fco[o].derived # None /\ fco[o].relid < RelIdSpace})

\* The method ends with this work, if nothing has failed.
Finish(work) ==
  \E w \in {work} :
    /\ Fits(w.fco, w.created)
    /\ \A o \in FCOs(w.fco) : w.fco[o].referred # Failed
    /\ Check(w.fco, w.touched)
    /\ fco' = w.fco /\ created' = w.created

\* mutant: instances are not closed
MayHoldMore(c, kind) == c = Folder => kind = "model"

\* The paradigm lets c hold the kind, and c is not closed.
MayHold(c, kind) ==
  /\ c = Folder => kind = "model"
  /\ c # Folder => ~fco[c].instance

-----------------------------------------------------------------------------
(* References *)

\* putreftask: o and all that inherits its target refer to v, or to what is
\* derived from v along with them.
PutReferred(f, o, v, external) ==
  LET heirs == Below(f, "master", o)
      depth == RootLevel(f, o)
      internal == /\ heirs # {o} /\ ~external /\ v # None
                  /\ GetRootOfDeriv(f, v) = GetRootOfDeriv(f, o)
      target[x \in heirs] ==
        IF x = o THEN v
        ELSE IF internal
               THEN EquivalentAt(f, target[f[x].master], FollowChain(f, "parent", x, depth),
                                 RootLevel(f, v))
               ELSE target[f[x].master]
  IN  [x \in heirs |-> [f[x] EXCEPT !.referred = target[x]]] @@ f

\* mutant: what overrides the target is not checked again
HeirsOnly(f, changed) == changed

\* What the task checks: the references it changes, and those derived from
\* them that have targets of their own.
ToCheck(f, changed) ==
  changed \cup {d \in FCOs(f) : f[d].derived \in changed /\ f[d].master = None}

Referred(work, f, o, v, external) ==
  LET g == PutReferred(f, o, v, external)
      changed == {x \in Below(f, "master", o) : f[x].referred # g[x].referred}
  IN  [work EXCEPT !.fco = g, !.touched = ToCheck(g, changed)]

\* put_Referred; the reference no longer inherits its target.
Refer(o, v) ==
  /\ fco[o].kind = "reference"
  /\ Finish(Referred(Start, [fco EXCEPT ![o].master = None], o, v, FALSE))

\* RefRevertToBase
Reverted(o) ==
  LET base == fco[o].derived
      internal == IsInternalRelation(fco, base)
      subtype == FollowChain(fco, "parent", o, RootLevel(fco, base))
      v == IF internal THEN GetDerivedEquivalent(fco, fco[base].referred, subtype)
                       ELSE fco[base].referred
  IN  Referred(Start, [fco EXCEPT ![o].master = base], o, v, ~internal)

RefRevertToBase(o) ==
  /\ fco[o].kind = "reference" /\ fco[o].derived # None
  /\ Finish(Reverted(o))

-----------------------------------------------------------------------------
(* Creating and deriving *)

CreateIn(c, kind) ==
  LET o == created + 1
      f == AssignNewChild((o :> NewFCO(kind)) @@ fco, o, c)
  IN  ReDeriveNewObj([Start EXCEPT !.fco = f, !.created = o], c, o)

\* CreateRootObject, CreateChildObject
CreateModel(c) ==
  /\ Fits(fco, created + 1) /\ NotDerived(fco, Models(fco)) < MaxModels
  /\ MayHold(c, "model") /\ HasRelId(fco, c)
  /\ Finish(CreateIn(c, "model"))

\* CreateReference
CreateReference(c, v) ==
  LET work == CreateIn(c, "reference")
  IN  /\ Fits(fco, created + 1) /\ NotDerived(fco, References(fco)) < MaxReferences
      /\ MayHold(c, "reference") /\ HasRelId(fco, c)
      /\ Finish(Referred(work, work.fco, created + 1, v, FALSE))

\* mutant: only o itself is looked at, not what it contains
CheckOne(f, o, root) == f[o].kind = "model" => root \notin Bases(f, o)

\* CheckConflict: neither o nor a model in it is derived from root.
NoConflict(f, o, root) == \A m \in Tree(f, o) : f[m].kind = "model" => root \notin Bases(f, m)

\* What a comment in DeriveFCO calls derivable; the code that refused the
\* rest is commented out.
Derivable(f, base) ==
  RootLevel(f, base) # 0 => \A o \in Tree(f, base) : Deriveds(f, o) = {}

\* What clients derive.
ClientDerives(base, c) == ~AnyClient => Derivable(fco, base) /\ c \notin Tree(fco, base)

MayDerive(base, c) ==
  LET root == GetRootOfDeriv(fco, c)
  IN  /\ MayHold(c, fco[base].kind)
      /\ root # None => base # root /\ NoConflict(fco, base, root)

\* DeriveRootObject, DeriveChildObject (DeriveFCO)
Derived(base, c, instance) ==
  LET first == DeriveTree(Start, base, c, instance, None)
      o == first.top[c]
      work == ReDeriveNewObj([first EXCEPT !.fco = AssignNewChild(@, o, c)], c, o)
  IN  [work EXCEPT !.touched = DOMAIN work.fco \ DOMAIN fco]

DeriveFCO(base, c, instance) ==
  /\ Fits(fco, created + Cardinality(Tree(fco, base))) /\ PrimaryDerived < MaxDerived
  /\ ClientDerives(base, c) /\ Returns(base, c)
  /\ MayDerive(base, c) /\ HasRelId(fco, c)
  /\ Finish(Derived(base, c, instance))

-----------------------------------------------------------------------------
(* Deleting *)

\* mutant: what is derived from the parts of o stays
PartsOnly(f, S) == UNION {Tree(f, o) : o \in S} \cup UNION {Deriveds(f, o) : o \in S}

\* inDeleteObject: with an object go what it contains and what is derived
\* from it, and with them the same again.
Doomed(f, S) ==
  FoldLeft(LAMBDA D, n : D \cup {x \in FCOs(f) : f[x].parent \in D \/ f[x].derived \in D},
           S, [n \in 1..MaxObject |-> n])

Released(f, S) == {x \in FCOs(f) \ S : f[x].referred \in S}

Without(f, S) ==
  [x \in Released(f, S) |-> [f[x] EXCEPT !.referred = None]] @@ Restrict(f, DOMAIN f \ S)

\* DestroyObject (DeleteObject)
Deleted(S) == [Start EXCEPT !.fco = Without(fco, S), !.touched = Released(fco, S)]

DeleteObject(o) == fco[o].relid < RelIdSpace /\ Finish(Deleted(Doomed(fco, {o})))

-----------------------------------------------------------------------------
(* Moving *)

\* DeriveMoveds for the container d: what has been moved from elsewhere is
\* derived anew, the counterpart of what was in the type before is moved.
FollowMove(w, d, into, level) ==
  LET f == w.fco
      orig == w.top[f[d].derived]
      subtype == FollowChain(f, "parent", d, level)
      o == EquivalentAt(f, orig, subtype, into)
      g == [f EXCEPT ![o].parent = d]
  IN  IF into < 0 THEN DeriveTree(w, orig, d, f[d].instance, subtype)
      ELSE IF o = Failed THEN [w EXCEPT !.fco = [x \in DOMAIN f |-> [f[x] EXCEPT !.referred = Failed]],
                                        !.top = (d :> orig) @@ @]
      ELSE [w EXCEPT !.fco = ObjTreeReconnect(g, Tree(g, o), <<>>, subtype),
                     !.top = (d :> o) @@ @]

DeriveMoved(work, c, o, into) ==
  FoldLeft(LAMBDA w, d : FollowMove(w, d, into, RootLevel(fco, c)),
           [work EXCEPT !.top = (c :> o)],
           DerivedContainers(work.fco, c))

\* o comes from outside of the type that c belongs to.
Newcomer(o, c) ==
  LET root == GetRootOfDeriv(fco, c) IN root = None \/ GetRootOfDeriv(fco, o) # root

\* What clients move.  The counterparts of what is moved move with it, and
\* references in them that have their own targets may get others
\* (ObjTreeReconnect): what is derived from such a reference neither follows nor
\* is checked, so there is nothing.  What an inherited reference refers to stays
\* in its type, as ObjTreeInternalize passes over references.  And what enters a
\* type is derived along with it.
ClientMoves(o, c) ==
  ~AnyClient =>
    /\ \A d \in Below(fco, "derived", o) \ {o} : \A x \in Tree(fco, d) \cap References(fco) :
         fco[x].master = None => Deriveds(fco, x) = {}
    /\ Newcomer(o, c) => \A x \in References(fco) :
         fco[x].master # None => fco[fco[x].master].referred \notin Tree(fco, o)
    /\ Newcomer(o, c) /\ GetRootOfDeriv(fco, c) # None => Derivable(fco, o)

\* mutant: what was derived from a part that leaves its type stays
NothingErased(o, c) == {}

\* What was derived from o along with the type that it leaves.
Erased(o, c) ==
  IF Newcomer(o, c) /\ RootLevel(fco, o) >= 1 THEN Doomed(fco, Deriveds(fco, o)) ELSE {}

\* It cannot go on when it erases what it moves or where it moves it.
MayMove(o, c) ==
  LET root == GetRootOfDeriv(fco, c)
  IN  /\ MayHold(c, fco[o].kind)
      /\ fco[o].relid < RelIdSpace
      /\ c \notin Tree(fco, o) /\ {o, c} \cap Erased(o, c) = {}
      /\ root # None => NoConflict(fco, o, root)
      /\ Newcomer(o, c) /\ RootLevel(fco, o) = 0 => Deriveds(fco, c) = {}
      /\ fco[o].parent # c => HasRelId(fco, c)

\* MoveFCOs of one object.
Moved(o, c) ==
  LET S == Erased(o, c)
      f == IF fco[o].parent = c THEN fco ELSE AssignNewChild(fco, o, c)
      into == IF Newcomer(o, c) THEN -1 ELSE RootLevel(fco, o)
      work == DeriveMoved([Start EXCEPT !.fco = Without(f, S)], c, o, into)
      g == work.fco
      moved == UNION {Tree(g, x) : x \in Range(work.top)}
  IN  [work EXCEPT !.touched =
         moved \cup {x \in FCOs(g) : g[x].referred \in moved} \cup Released(f, S)]

MoveFCO(o, c) ==
  ClientMoves(o, c) /\ MayMove(o, c) /\ (Newcomer(o, c) => Returns(o, c)) /\ Finish(Moved(o, c))

-----------------------------------------------------------------------------

Next ==
  \/ \E c \in Containers(fco) :
       \/ CreateModel(c)
       \/ \E v \in FCOs(fco) \cup {None} : CreateReference(c, v)
       \/ \E o \in FCOs(fco) : MoveFCO(o, c)
       \/ \E o \in FCOs(fco), instance \in BOOLEAN : DeriveFCO(o, c, instance)
  \/ \E o \in FCOs(fco) :
       \/ DeleteObject(o)
       \/ RefRevertToBase(o)
       \/ \E v \in FCOs(fco) \cup {None} : Refer(o, v)

Spec == Init /\ [][Next]_vars
=============================================================================
