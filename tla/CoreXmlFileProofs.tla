-------------------------- MODULE CoreXmlFileProofs --------------------------
(***************************************************************************)
(* Invariants of CoreXmlFile, for any users, models and bounds: first what *)
(* holds whatever the users do, then what holds for users without habits.  *)
(***************************************************************************)
EXTENDS CoreXmlFileProps, FiniteSetTheorems, WellFoundedInduction, TLAPS

-----------------------------------------------------------------------------
(* Views *)

LEMMA ContentFacts ==
  /\ \A p \in File \cup {None} : Fresh(p) \in Content
  /\ Deleted \in Content
  /\ \A c \in Content : /\ [c EXCEPT !.lastrelid = @ + 1] \in Content
                        /\ \A p \in File \cup {None} : [c EXCEPT !.parent = p] \in Content
                        /\ \A t \in Model \cup {None} : [c EXCEPT !.referred = t] \in Content
  /\ Root \in File /\ Model \subseteq File
BY DEF Fresh, Deleted, Content, File

LEMMA LiveIsThere ==
  ASSUME NEW view \in View, NEW f \in File, Live(view, f)
  PROVE  view[f] \in Content
BY DEF View, Live

LEMMA ReadIsView ==
  ASSUME NEW view \in View PROVE Read(view) \in View
<1> SUFFICES ASSUME NEW f \in File PROVE Read(view)[f] \in Content \cup {NoFile}
  BY DEF Read, View
<1>1. CASE Live(view, f) /\ f # Root
  <2>1. view[f] \in Content
    BY <1>1, LiveIsThere
  <2>2. Resolved(view, view[f].parent) \in File \cup {None}
    BY DEF Resolved
  <2>3. Resolved(view, view[f].referred) \in Model \cup {None}
    BY <2>1 DEF Resolved, Content
  <2>4. [view[f] EXCEPT !.parent = Resolved(view, @), !.referred = Resolved(view, @)] \in Content
    BY <2>1, <2>2, <2>3 DEF Content
  <2> QED BY <1>1, <2>4 DEF Read
<1>2. CASE ~(Live(view, f) /\ f # Root)
  BY <1>2 DEF Read, View
<1> QED BY <1>1, <1>2

LEMMA IntoIsView ==
  ASSUME NEW view \in View, NEW m \in Model, NEW content \in Content, Live(view, content.parent),
         content.parent \in File
  PROVE  Into(view, m, content) \in View
<1>1. view[content.parent] \in Content
  BY LiveIsThere
<1>2. \A f \in File : view[f] \in Content \cup {NoFile}
  BY DEF View
<1> QED BY <1>1, <1>2, ContentFacts DEF View, Into, Content

LEMMA TargetsAreModels ==
  ASSUME NEW old, NEW new \in View
  PROVE  Targets(old, new) \subseteq Model
<1> SUFFICES ASSUME NEW m \in Models(new), new[m].referred # None PROVE new[m].referred \in Model
  BY DEF Targets
<1>1. new[m] \in Content
  BY LiveIsThere, ContentFacts DEF Models
<1> QED BY <1>1 DEF Content

LEMMA ProtectedAreObjects ==
  ASSUME NEW old \in View, NEW new \in View
  PROVE  Protected(old, new) \subseteq Object
<1>1. Removed(old, new) \subseteq Object /\ Redirected(old, new) \subseteq Model
  BY DEF Removed, Redirected, Models, Object
<1> QED BY <1>1, TargetsAreModels DEF Protected, Object

-----------------------------------------------------------------------------
(* The least number *)

Below == {pair \in Nat \X Nat : pair[1] < pair[2]}

LEMMA LeastNumber ==
  ASSUME NEW T \in SUBSET Nat, T # {}
  PROVE  \E x \in T : \A y \in T : x <= y
<1>1. IsWellFoundedOn(Below, Nat)
  BY NatLessThanWellFounded DEF OpToRel, Below
<1>2. PICK x \in T : \A y \in T : <<y, x>> \notin Below
  BY <1>1, WFMin
<1>3. ASSUME NEW y \in T, ~(x <= y) PROVE FALSE
  <2>1. <<y, x>> \in Nat \X Nat /\ <<y, x>>[1] < <<y, x>>[2]
    BY <1>3
  <2>2. <<y, x>> \in Below
    BY <2>1 DEF Below
  <2> QED BY <2>2, <1>2
<1> QED BY <1>3

-----------------------------------------------------------------------------
(* The steps *)

LEMMA StepCases ==
  ASSUME [Next]_vars
  PROVE  \/ \E u \in User :
              \/ GetLatestVersion(u) \/ SignIn(u) \/ CloseProject(u) \/ Crash(u)
              \/ Change(u)
              \/ CommitTransaction(u) \/ CommitFails(u) \/ OnCommited(u)
              \/ SaveProject(u) \/ \E f \in File : WriteXMLFile(u, f)
         \/ UNCHANGED vars
BY DEF Next, Step

\* Every change is a Write, of a view.
LEMMA ChangeIsWrite ==
  ASSUME NEW u \in User, memory[u] \in View, before[u] \in View \cup {None}, Change(u)
  PROVE  \E new \in View : Write(u, new)
<1>1. ASSUME NEW p \in File, CreateModel(u, p) PROVE \E new \in View : Write(u, new)
  <2>1. Live(memory[u], p) /\ \E m \in Model : Write(u, Into(memory[u], m, Fresh(p)))
    <3> DEFINE least == CHOOSE x \in Unused : \A y \in Unused : x <= y
    <3>1. Unused # {} /\ Live(memory[u], p) /\ Write(u, Into(memory[u], least, Fresh(p)))
      BY <1>1 DEF CreateModel
    <3>2. least \in Model
      <4>1. \E x \in Unused : \A y \in Unused : x <= y
        <5>1. Unused \subseteq Nat /\ Unused # {}
          BY <3>1, XmlAssumption DEF Unused, Model
        <5> QED BY <5>1, LeastNumber
      <4> QED BY <4>1 DEF Unused
    <3> QED BY <3>1, <3>2
  <2>2. Fresh(p) \in Content /\ Fresh(p).parent = p
    BY ContentFacts DEF Fresh
  <2> QED BY <2>1, <2>2, IntoIsView
<1>2. ASSUME NEW m \in Model, NEW p \in File, MoveModel(u, m, p) PROVE \E new \in View : Write(u, new)
  <2>1. memory[u][m] \in Content
    BY <1>2, LiveIsThere, ContentFacts DEF MoveModel
  <2>2. [memory[u][m] EXCEPT !.parent = p] \in Content /\ [memory[u][m] EXCEPT !.parent = p].parent = p
    BY <2>1, ContentFacts DEF Content
  <2> QED BY <1>2, <2>2, IntoIsView DEF MoveModel
<1>3. ASSUME NEW m \in Model, DeleteModel(u, m) PROVE \E new \in View : Write(u, new)
  <2> DEFINE doomed == Tree(memory[u], m)
             new == [f \in File |-> IF f \in doomed THEN Deleted
                                    ELSE IF f \in Models(memory[u]) /\ memory[u][f].referred \in doomed
                                         THEN [memory[u][f] EXCEPT !.referred = None]
                                         ELSE memory[u][f]]
  <2>1. Write(u, new)
    BY <1>3 DEF DeleteModel
  <2> HIDE DEF doomed
  <2>2. \A f \in Models(memory[u]) : [memory[u][f] EXCEPT !.referred = None] \in Content
    BY LiveIsThere, ContentFacts DEF Models
  <2>3. new \in View
    BY <2>2, ContentFacts DEF View
  <2> QED BY <2>1, <2>3
<1>4. ASSUME NEW m \in Model, NEW t \in Model \cup {None}, Refer(u, m, t) PROVE \E new \in View : Write(u, new)
  <2>1. memory[u][m] \in Content /\ [memory[u][m] EXCEPT !.referred = t] \in Content
    BY <1>4, LiveIsThere, ContentFacts DEF Refer
  <2>2. [memory[u] EXCEPT ![m].referred = t] \in View
    BY <2>1, ContentFacts DEF View
  <2> QED BY <1>4, <2>2 DEF Refer
<1>5. ASSUME Undo(u) PROVE \E new \in View : Write(u, new)
  <2>1. before[u] \in View
    BY <1>5 DEF Undo
  <2>2. [f \in File |-> IF before[u][f] = NoFile /\ memory[u][f] # NoFile THEN Deleted ELSE before[u][f]] \in View
    BY <2>1, ContentFacts DEF View
  <2> QED BY <1>5, <2>2 DEF Undo
<1> QED BY <1>1, <1>2, <1>3, <1>4, <1>5 DEF Change

-----------------------------------------------------------------------------
(* Types *)

\* What a transaction takes back is there while it runs.
TypeInv ==
  /\ TypeOK
  /\ pending \in [User -> SUBSET Entry] /\ before \in [User -> View \cup {None}]
  /\ \A u \in User : phase[u] = "writing" => before[u] \in View

LEMMA EntriesStay ==
  ASSUME NEW E \in SUBSET Entry, NEW u \in User
  PROVE  Later(E, u) \in SUBSET Entry
BY DEF Later, Entry

LEMMA TypeStep ==
  TypeInv /\ [Next]_vars => TypeInv'
<1> SUFFICES ASSUME TypeInv, [Next]_vars PROVE TypeInv'
  OBVIOUS
<1>a. /\ TypeOK /\ \A u \in User : phase[u] = "writing" => before[u] \in View
      /\ pending \in [User -> SUBSET Entry] /\ before \in [User -> View \cup {None}]
  BY DEF TypeInv
<1> USE DEF server, client, bounds
<1>1. ASSUME NEW u \in User, GetLatestVersion(u) PROVE TypeInv'
  BY <1>1, <1>a, ReadIsView, XmlAssumption DEF GetLatestVersion, TypeInv, TypeOK
<1>2. ASSUME NEW u \in User, SignIn(u) PROVE TypeInv'
  <2>1. listed' \in [User -> SUBSET Entry]
    <3> DEFINE all == [v \in User |-> Later(listed[v], u)]
    <3>1. all \in [User -> SUBSET Entry]
      BY <1>a, EntriesStay DEF TypeOK
    <3>2. listed' = [all EXCEPT ![u] = @ \ Outdated(@, signed')]
      BY <1>2 DEF SignIn
    <3> HIDE DEF all
    <3> QED BY <3>1, <3>2
  <2>2. \A v \in User : pending'[v] \in SUBSET Entry /\ (pending'[v] # {} => pending[v] # {})
    BY <1>2, <1>a, EntriesStay DEF SignIn, TypeOK, Later
  <2>3. \A v \in User : phase'[v] # phase[v] => v = u /\ phase[v] = "opening" /\ phase'[v] = "open"
    BY <1>2, <1>a DEF SignIn, TypeOK
  <2>4. /\ UNCHANGED <<repository, owner, disk, stale, memory, before, sessions, changes>>
        /\ phase' = [phase EXCEPT ![u] = "open"] /\ signed' = signed \cup {u}
    BY <1>2 DEF SignIn
  <2>6. pending' \in [User -> SUBSET Entry]
    BY <1>2, <1>a, EntriesStay DEF SignIn, TypeOK
  <2>5. \A v \in User : pending'[v] # {} => phase'[v] \in {"writing", "locked"}
    BY <2>2, <2>3, <1>a DEF TypeOK
  <2> QED BY <2>1, <2>2, <2>4, <2>5, <2>6, <1>a DEF TypeInv, TypeOK
<1>3. ASSUME NEW u \in User, Leave(u), UNCHANGED signed \/ signed' = signed \ {u},
             listed' \in [User -> SUBSET Entry]
      PROVE  TypeInv'
  <2>1. Nothing \in View
    BY DEF Nothing, View
  <2> QED BY <1>3, <2>1, <1>a DEF Leave, TypeInv, TypeOK
<1>4. ASSUME NEW u \in User, CloseProject(u) PROVE TypeInv'
  BY <1>4, <1>3, <1>a DEF CloseProject, TypeOK
<1>5. ASSUME NEW u \in User, Crash(u) PROVE TypeInv'
  BY <1>5, <1>3, <1>a DEF Crash, TypeOK
<1>6. ASSUME NEW u \in User, Change(u) PROVE TypeInv'
  <2>1. PICK new \in View : Write(u, new)
    BY <1>6, <1>a, ChangeIsWrite DEF TypeOK
  <2>2. [object : Protected(memory[u], new), later : {{}}] \in SUBSET Entry
    BY <1>a, ProtectedAreObjects DEF TypeOK, Entry
  <2>3. changes' \in 0..MaxChanges
    BY <2>1, <1>a, XmlAssumption DEF Write, TypeOK
  <2> QED BY <2>1, <2>2, <2>3, <1>a DEF Write, TypeInv, TypeOK
<1>7. ASSUME NEW u \in User, CommitTransaction(u) PROVE TypeInv'
  BY <1>7, <1>a DEF CommitTransaction, Lock, TypeInv, TypeOK
<1>8. ASSUME NEW u \in User, CommitFails(u) PROVE TypeInv'
  BY <1>8, <1>a DEF CommitFails, Lock, TypeInv, TypeOK
<1>9. ASSUME NEW u \in User, OnCommited(u) PROVE TypeInv'
  BY <1>9, <1>a DEF OnCommited, TypeInv, TypeOK
<1>10. ASSUME NEW u \in User, SaveProject(u) PROVE TypeInv'
  BY <1>10, <1>a DEF SaveProject, TypeInv, TypeOK
<1>11. ASSUME NEW u \in User, NEW f \in File, WriteXMLFile(u, f) PROVE TypeInv'
  <2>1. memory[u][f] \in Content \cup {NoFile}
    BY <1>a DEF TypeOK, View
  <2>2. repository' \in View /\ disk' \in [User -> View]
    BY <1>11, <2>1, <1>a DEF WriteXMLFile, TypeOK, View
  <2>3. stale' \in [User -> SUBSET File] /\ owner' \in [File -> User \cup {None}]
    BY <1>11, <1>a DEF WriteXMLFile, TypeOK
  <2> QED BY <1>11, <2>2, <2>3, <1>a DEF WriteXMLFile, TypeInv, TypeOK
<1>12. ASSUME UNCHANGED vars PROVE TypeInv'
  BY <1>12, <1>a DEF vars, TypeInv, TypeOK
<1> QED BY StepCases, <1>1, <1>2, <1>4, <1>5, <1>6, <1>7, <1>8, <1>9, <1>10, <1>11, <1>12

LEMMA TypeInit ==
  Init => TypeInv
<1> SUFFICES ASSUME Init PROVE TypeInv
  OBVIOUS
<1>1. [Deleted EXCEPT !.lastrelid = Initially] \in Content
  BY XmlAssumption DEF Deleted, Fresh, Content, File
<1>2. repository \in View
  BY <1>1, ContentFacts DEF Init, View
<1>3. Nothing \in View
  BY DEF Nothing, View
<1> QED BY <1>2, <1>3, XmlAssumption DEF Init, TypeInv, TypeOK

\* Every variable has its type, whatever users do.
THEOREM TypeCorrect == Spec => []TypeOK
<1>1. TypeInv => TypeOK
  BY DEF TypeInv
<1> QED BY <1>1, TypeInit, TypeStep, PTL DEF Spec

-----------------------------------------------------------------------------
(* Locks and copies *)

\* A copy that is not known to be old is the newest revision, and so is what
\* somebody has locked.
CopyInv ==
  \A u \in User, f \in File :
    /\ owner[f] = u => f \notin stale[u]
    /\ f \notin stale[u] /\ disk[u][f] # NoFile => disk[u][f] = repository[f]

LEMMA CopyStep ==
  TypeInv /\ CopyInv /\ [Next]_vars => CopyInv'
<1> SUFFICES ASSUME TypeInv, CopyInv, [Next]_vars PROVE CopyInv'
  OBVIOUS
<1>a. TypeOK /\ \A u \in User : u # None
  BY XmlAssumption DEF TypeInv
<1>1. ASSUME NEW u \in User, GetLatestVersion(u) PROVE CopyInv'
  BY <1>1, <1>a DEF GetLatestVersion, server, TypeOK, CopyInv
<1>2. ASSUME NEW u \in User, Leave(u) PROVE CopyInv'
  BY <1>2, <1>a DEF Leave, Nothing, TypeOK, CopyInv
<1>3. ASSUME UNCHANGED <<repository, owner, disk, stale>> PROVE CopyInv'
  BY <1>3 DEF CopyInv
<1>4. ASSUME NEW u \in User, CloseProject(u) \/ Crash(u) PROVE CopyInv'
  BY <1>4, <1>2 DEF CloseProject, Crash
<1>5. ASSUME NEW u \in User, SignIn(u) \/ OnCommited(u) \/ SaveProject(u)
      PROVE  UNCHANGED <<repository, owner, disk, stale>>
  BY <1>5 DEF SignIn, OnCommited, SaveProject, server
<1>6. ASSUME NEW u \in User, Change(u) PROVE UNCHANGED <<repository, owner, disk, stale>>
  <2>1. PICK new \in View : Write(u, new)
    BY <1>6, <1>a, ChangeIsWrite DEF TypeOK
  <2> QED BY <2>1 DEF Write, server
<1>7. ASSUME NEW u \in User, CommitTransaction(u) \/ CommitFails(u) PROVE CopyInv'
  <2>1. PICK F \in SUBSET File : /\ \A f \in F : Lockable(u, f)
                                 /\ Lock(u, F)
                                 /\ UNCHANGED <<repository, disk, stale>>
    <3>1. Needed(u) \subseteq File /\ {f \in Needed(u) : Lockable(u, f)} \subseteq File
      <4>1. Targets(before[u], memory[u]) \subseteq File
        BY <1>a, TargetsAreModels, ContentFacts DEF TypeOK
      <4> QED BY <4>1 DEF Needed, Modified
    <3>2. CASE CommitTransaction(u)
      BY <3>1, <3>2 DEF CommitTransaction
    <3>3. CASE CommitFails(u)
      BY <3>1, <3>3 DEF CommitFails
    <3> QED BY <1>7, <3>2, <3>3
  <2> QED BY <2>1, <1>a DEF Lock, Lockable, TypeOK, CopyInv
<1>8. ASSUME NEW u \in User, NEW f \in File, WriteXMLFile(u, f) PROVE CopyInv'
  <2>1. /\ owner' = [owner EXCEPT ![f] = None]
        /\ repository' = [repository EXCEPT ![f] = memory[u][f]]
        /\ disk' = [disk EXCEPT ![u][f] = memory[u][f]]
        /\ stale' = [v \in User |-> IF v # u /\ disk[v][f] # NoFile /\ memory[u][f] # repository[f]
                                    THEN stale[v] \cup {f} ELSE stale[v]]
    BY <1>8 DEF WriteXMLFile
  <2>2. ASSUME NEW v \in User, NEW g \in File
        PROVE  /\ owner'[g] = v => g \notin stale'[v]
               /\ g \notin stale'[v] /\ disk'[v][g] # NoFile => disk'[v][g] = repository'[g]
    <3>1. CASE g # f
      <4>1. owner'[g] = owner[g] /\ repository'[g] = repository[g] /\ disk'[v][g] = disk[v][g]
        BY <2>1, <3>1, <1>a DEF TypeOK, View
      <4>2. g \in stale'[v] <=> g \in stale[v]
        BY <2>1, <3>1
      <4> QED BY <4>1, <4>2 DEF CopyInv
    <3>2. CASE g = f /\ v = u
      BY <2>1, <3>2, <1>a DEF TypeOK, View
    <3>3. CASE g = f /\ v # u
      <4>1. owner'[f] = None /\ repository'[f] = memory[u][f] /\ disk'[v][f] = disk[v][f]
        BY <2>1, <3>3, <1>a DEF TypeOK, View
      <4>2. f \notin stale'[v] => f \notin stale[v] /\ (disk[v][f] = NoFile \/ memory[u][f] = repository[f])
        BY <2>1, <3>3
      <4> QED BY <3>3, <4>1, <4>2, <1>a DEF CopyInv
    <3> QED BY <3>1, <3>2, <3>3
  <2> QED BY <2>2 DEF CopyInv
<1>9. ASSUME UNCHANGED vars PROVE UNCHANGED <<repository, owner, disk, stale>>
  BY <1>9 DEF vars, server, client
<1> QED BY StepCases, <1>1, <1>3, <1>4, <1>5, <1>6, <1>7, <1>8, <1>9

LEMMA CopyInit ==
  Init => CopyInv
BY XmlAssumption DEF Init, CopyInv, Nothing

LEMMA CopyInvariant ==
  Spec => [](TypeInv /\ CopyInv)
<1>1. Init => TypeInv /\ CopyInv
  BY TypeInit, CopyInit
<1>2. TypeInv /\ CopyInv /\ [Next]_vars => (TypeInv /\ CopyInv)'
  BY TypeStep, CopyStep
<1> QED BY <1>1, <1>2, PTL DEF Spec

\* Who has locked a file has its newest revision, also when several users
\* have tried and some of the locks were refused.
THEOREM LocksAreCurrent == Spec => []OwnersAreCurrent
<1>1. CopyInv => OwnersAreCurrent
  BY DEF CopyInv, OwnersAreCurrent
<1> QED BY <1>1, CopyInvariant, PTL

\* No file that was read is saved over a revision its user has not seen.
NothingOverwritten ==
  [][\A u \in User, f \in File :
       WriteXMLFile(u, f) /\ disk[u][f] # NoFile => disk[u][f] = repository[f]]_vars

(* SaveProject publishes a file only over the revision that its user has   *)
(* in the working copy (WriteXMLFile, the lock that the server has given). *)
THEOREM NoLostUpdate == Spec => NothingOverwritten
<1>1. ASSUME TypeInv, CopyInv, NEW u \in User, NEW f \in File, WriteXMLFile(u, f), disk[u][f] # NoFile
      PROVE  disk[u][f] = repository[f]
  <2>1. owner[f] = u
    BY <1>1 DEF WriteXMLFile, Writable, ReadOnly
  <2> QED BY <1>1, <2>1 DEF CopyInv
<1>2. TypeInv /\ CopyInv /\ [Next]_vars =>
        [\A u \in User, f \in File :
           WriteXMLFile(u, f) /\ disk[u][f] # NoFile => disk[u][f] = repository[f]]_vars
  BY <1>1
<1> QED BY <1>2, CopyInvariant, PTL DEF Spec, NothingOverwritten

\* Model m is in p, and its reference leads to t.
Within(view, m, p) == m \in Models(view) /\ view[m].parent = p
Refers(view, m, t) == m \in Models(view) /\ view[m].referred = t

\* Every pointer leads somewhere, and what is deleted has none.
Consistent(view) ==
  \A m \in Model : view[m] # NoFile =>
    /\ view[m].parent # None => Live(view, view[m].parent)
    /\ view[m].referred # None => view[m].parent # None /\ Live(view, view[m].referred)

\* What a user has made of his copies while he held the files in held, and
\* while others had the objects in noted on their lists.
Sound(view, copy, held, noted) ==
  /\ Consistent(view)
  /\ \A f \in File : f \notin held => view[f] = copy[f]
  /\ \A f \in File : Live(view, f) /\ Live(copy, f) => copy[f].lastrelid <= view[f].lastrelid
  /\ \A m \in Model, p \in File : Within(view, m, p) /\ ~Within(copy, m, p) =>
        p \in held /\ (Live(copy, p) => copy[p].lastrelid < view[p].lastrelid)
  /\ \A m \in Model, t \in Model : Refers(view, m, t) /\ ~Refers(copy, m, t) => t \in held
  /\ \A t \in Model : Live(copy, t) /\ ~Live(view, t) => <<t, "model">> \notin noted

\* What a transaction that is not an undo does to its user's objects.
Grows(old, new) ==
  /\ Consistent(new)
  /\ \A f \in File : old[f] # NoFile => new[f] # NoFile
  /\ \A f \in File : Live(new, f) =>
       old[f] = NoFile \/ (Live(old, f) /\ old[f].lastrelid <= new[f].lastrelid)
  /\ \A m \in Model, p \in File : Within(new, m, p) /\ ~Within(old, m, p) =>
       Live(old, p) /\ old[p].lastrelid < new[p].lastrelid

-----------------------------------------------------------------------------
LEMMA ViewFacts ==
  /\ Root \in File /\ Root \notin Model /\ Model \subseteq File /\ File = {Root} \cup Model
  /\ None \notin Model /\ None # Root
  /\ \A view \in View, f \in File : view[f] \in Content \cup {NoFile}
  /\ \A c \in Content : /\ c # NoFile /\ c.parent \in File \cup {None}
                        /\ c.referred \in Model \cup {None} /\ c.lastrelid \in Nat
BY MarkerAssumption DEF Root, Model, File, View, Content

LEMMA ModelsFacts ==
  ASSUME NEW view \in View, NEW m
  PROVE  /\ m \in Models(view) <=> m \in Model /\ Live(view, m)
         /\ m \in Model => (Live(view, m) <=> view[m] # NoFile /\ view[m].parent # None)
         /\ m \in Models(view) => /\ view[m] \in Content /\ view[m].parent \in File
                                  /\ view[m].referred \in Model \cup {None}
<1>1. m \in Models(view) <=> m \in Model /\ Live(view, m)
  BY DEF Models
<1>2. m \in Model => (Live(view, m) <=> view[m] # NoFile /\ view[m].parent # None)
  BY ViewFacts DEF Live
<1>3. m \in Models(view) => view[m] \in Content
  BY <1>1, <1>2, ViewFacts
<1> QED BY <1>1, <1>2, <1>3, ViewFacts

\* Reading files in which every pointer leads somewhere changes nothing.
LEMMA ReadIsSame ==
  ASSUME NEW view \in View, Consistent(view)
  PROVE  Read(view) = view
<1> SUFFICES ASSUME NEW f \in File PROVE Read(view)[f] = view[f]
  <2>1. view = [f \in File |-> view[f]]
    BY DEF View
  <2> QED BY <2>1 DEF Read
<1>1. CASE Live(view, f) /\ f # Root
  <2>1. f \in Model /\ view[f] \in Content /\ view[f] # NoFile /\ view[f].parent \in File
    BY <1>1, ViewFacts, ModelsFacts
  <2>2. Live(view, view[f].parent) /\ (view[f].referred # None => Live(view, view[f].referred))
    BY <2>1, ViewFacts DEF Consistent
  <2>3. Resolved(view, view[f].parent) = view[f].parent /\ Resolved(view, view[f].referred) = view[f].referred
    BY <2>1, <2>2, ViewFacts DEF Resolved
  <2>4. Read(view)[f] = [view[f] EXCEPT !.parent = Resolved(view, view[f].parent),
                                        !.referred = Resolved(view, view[f].referred)]
    BY <1>1 DEF Read
  <2> QED BY <2>1, <2>3, <2>4 DEF Content
<1>2. CASE ~(Live(view, f) /\ f # Root)
  BY <1>2 DEF Read
<1> QED BY <1>1, <1>2

LEMMA SoundSame ==
  ASSUME NEW view \in View, Consistent(view), NEW held, NEW noted
  PROVE  Sound(view, view, held, noted)
<1>1. \A f \in File : Live(view, f) => view[f].lastrelid \in Nat
  BY LiveIsThere, ViewFacts
<1> QED BY <1>1 DEF Sound

LEMMA SoundStays ==
  ASSUME NEW view, NEW copy, NEW held, NEW noted, NEW more, NEW less,
         Sound(view, copy, held, noted), held \subseteq more, less \subseteq noted
  PROVE  Sound(view, copy, more, less)
BY DEF Sound

\* A new target, and a removed model.
LEMMA TargetIsNew ==
  ASSUME NEW old \in View, NEW new \in View, Consistent(old), NEW m \in Model, NEW t \in Model,
         Refers(new, m, t), ~Refers(old, m, t)
  PROVE  t \in Targets(old, new)
<1>1. m \in Models(new) /\ new[m].referred = t /\ t # None
  BY ViewFacts DEF Refers
<1>2. old[m] = NoFile \/ old[m].referred # t
  <2> SUFFICES ASSUME old[m] # NoFile, old[m].referred = t PROVE FALSE
    OBVIOUS
  <2>1. old[m].parent # None
    BY <1>1 DEF Consistent
  <2>2. m \in Models(old)
    BY <2>1, ModelsFacts
  <2> QED BY <2>2 DEF Refers
<1> QED BY <1>1, <1>2 DEF Targets

LEMMA DeletedIsRemoved ==
  ASSUME NEW old \in View, NEW new \in View, NEW t \in Model, Live(old, t), ~Live(new, t), new[t] # NoFile
  PROVE  <<t, "model">> \in Removed(old, new)
<1>1. t \in Models(old) /\ old[t].parent # None /\ new[t].parent = None
  BY ModelsFacts
<1> QED BY <1>1 DEF Removed

LEMMA GrowsIsSound ==
  ASSUME NEW old \in View, NEW new \in View, NEW copy \in View, NEW held, NEW noted,
         Sound(old, copy, held, noted), Grows(old, new), Removed(old, new) \cap noted = {},
         \A f \in File : copy[f] # NoFile => old[f] # NoFile
  PROVE  Sound(new, copy, held \cup Modified(old, new), noted)
<1> DEFINE more == held \cup Modified(old, new)
<1>1. Consistent(new) /\ Consistent(old)
  BY DEF Grows, Sound
<1>2. \A f \in File : f \notin more => new[f] = copy[f]
  BY DEF Sound, Modified
<1>a. \A f \in File : /\ Live(old, f) => old[f].lastrelid \in Nat
                      /\ Live(new, f) => new[f].lastrelid \in Nat
                      /\ Live(copy, f) => copy[f].lastrelid \in Nat /\ copy[f] # NoFile
  BY LiveIsThere, ViewFacts
<1>3. \A f \in File : Live(new, f) /\ Live(copy, f) => copy[f].lastrelid <= new[f].lastrelid
  <2> SUFFICES ASSUME NEW f \in File, Live(new, f), Live(copy, f) PROVE copy[f].lastrelid <= new[f].lastrelid
    OBVIOUS
  <2>1. Live(old, f) /\ old[f].lastrelid <= new[f].lastrelid
    BY <1>a DEF Grows
  <2>2. copy[f].lastrelid <= old[f].lastrelid
    BY <2>1 DEF Sound
  <2> HIDE DEF Live
  <2> QED BY <2>1, <2>2, <1>a
<1>4. ASSUME NEW m \in Model, NEW p \in File, Within(new, m, p), ~Within(copy, m, p)
      PROVE  p \in more /\ (Live(copy, p) => copy[p].lastrelid < new[p].lastrelid)
  <2>0. Live(new, p)
    <3>1. m \in Models(new) /\ new[m].parent = p /\ new[m] # NoFile /\ p # None
      BY <1>4, ModelsFacts, ViewFacts DEF Within
    <3> QED BY <3>1, <1>1 DEF Consistent
  <2>1. CASE Within(old, m, p)
    <3>1. p \in held /\ (Live(copy, p) => copy[p].lastrelid < old[p].lastrelid)
      BY <1>4, <2>1 DEF Sound
    <3>2. Live(copy, p) => Live(old, p) /\ old[p].lastrelid <= new[p].lastrelid
      BY <2>0, <1>a DEF Grows
    <3> QED BY <3>1, <3>2, <2>0, <1>a
  <2>2. CASE ~Within(old, m, p)
    <3>1. Live(old, p) /\ old[p].lastrelid < new[p].lastrelid
      BY <1>4, <2>2 DEF Grows
    <3>2. Live(copy, p) => copy[p].lastrelid <= old[p].lastrelid
      BY <3>1 DEF Sound
    <3>3. old[p].lastrelid # new[p].lastrelid
      BY <3>1, <2>0, <1>a
    <3>4. p \in more
      BY <3>3 DEF Modified
    <3> QED BY <3>1, <3>2, <3>4, <2>0, <1>a
  <2> QED BY <2>1, <2>2
<1>5. ASSUME NEW m \in Model, NEW t \in Model, Refers(new, m, t), ~Refers(copy, m, t)
      PROVE  t \in more
  <2>1. CASE Refers(old, m, t)
    BY <1>5, <2>1 DEF Sound
  <2>2. CASE ~Refers(old, m, t)
    BY <1>5, <1>1, <2>2, TargetIsNew DEF Modified
  <2> QED BY <2>1, <2>2
<1>6. ASSUME NEW t \in Model, Live(copy, t), ~Live(new, t)
      PROVE  <<t, "model">> \notin noted
  <2>1. CASE Live(old, t)
    <3>1. new[t] # NoFile
      BY <2>1, ViewFacts DEF Grows, Live
    <3> QED BY <2>1, <3>1, <1>6, DeletedIsRemoved
  <2>2. CASE ~Live(old, t)
    BY <2>2, <1>6 DEF Sound
  <2> QED BY <2>1, <2>2
<1> HIDE DEF more
<1>7. Sound(new, copy, more, noted)
  BY <1>1, <1>2, <1>3, <1>4, <1>5, <1>6 DEF Sound
<1> QED BY <1>7 DEF more

-----------------------------------------------------------------------------
(* What is in a model *)

LEMMA TreeFacts ==
  ASSUME NEW view \in View, NEW m \in Model
  PROVE  /\ m \in Tree(view, m) /\ Tree(view, m) \subseteq Model
         /\ Tree(view, m) \subseteq {m} \cup Models(view)
         /\ \A x \in Models(view) : view[x].parent \in Tree(view, m) => x \in Tree(view, m)
<1> DEFINE Below1(S) == S \cup {x \in Models(view) : view[x].parent \in S}
           Is(N, g) == g = [n \in 0..N |-> IF n = 0 THEN {m} ELSE Below1(g[n - 1])]
<1>1. MaxModel \in Nat
  BY XmlAssumption
<1>2. \A N \in 0..MaxModel : \E g : Is(N, g)
  <2> DEFINE T == {N \in 0..MaxModel : ~\E g : Is(N, g)}
  <2> SUFFICES ASSUME T # {} PROVE FALSE
    <3> HIDE DEF Is
    <3> QED OBVIOUS
  <2>1. PICK N \in T : \A y \in T : N <= y
    <3>1. T \subseteq Nat
      OBVIOUS
    <3> HIDE DEF T
    <3> QED BY <3>1, LeastNumber
  <2>2. N \in 0..MaxModel /\ ~\E g : Is(N, g)
    OBVIOUS
  <2>3. CASE N = 0
    <3> DEFINE g0 == [n \in 0..0 |-> {m}]
    <3>1. Is(0, g0)
      OBVIOUS
    <3> QED BY <3>1, <2>2, <2>3
  <2>4. CASE N # 0
    <3>0. N - 1 \in 0..MaxModel /\ ~(N <= N - 1)
      BY <2>2, <2>4, <1>1
    <3>1. N - 1 \in 0..MaxModel /\ N - 1 \notin T
      <4> HIDE DEF T
      <4> QED BY <2>1, <3>0
    <3>2. PICK g : Is(N - 1, g)
      BY <3>1
    <3> DEFINE h == [n \in 0..N |-> IF n = N THEN Below1(g[N - 1]) ELSE g[n]]
    <3>3. ASSUME NEW n \in 0..N
          PROVE  h[n] = IF n = 0 THEN {m} ELSE Below1(h[n - 1])
      <4>1. N \in Nat
        BY <2>2, <1>1
      <4>2. CASE n = N
        <5>1. n - 1 \in 0..N /\ n - 1 # N /\ n # 0
          BY <4>1, <4>2, <2>4
        <5>2. h[n - 1] = g[n - 1]
          BY <5>1
        <5>3. h[n] = Below1(g[N - 1])
          BY <4>2
        <5> HIDE DEF h
        <5> QED BY <5>1, <5>2, <5>3, <4>2
      <4>3. CASE n # N
        <5>1. n \in 0..(N - 1)
          BY <4>1, <4>3
        <5>2. g[n] = IF n = 0 THEN {m} ELSE Below1(g[n - 1])
          BY <5>1, <3>2
        <5>3. n # 0 => n - 1 \in 0..N /\ n - 1 # N
          BY <4>1, <4>3
        <5>4. n # 0 => h[n - 1] = g[n - 1]
          BY <5>3
        <5>5. h[n] = g[n]
          BY <4>3
        <5> HIDE DEF h
        <5> QED BY <5>2, <5>4, <5>5
      <4> QED BY <4>2, <4>3
    <3>4. Is(N, h)
      <4>1. h = [n \in 0..N |-> h[n]]
        OBVIOUS
      <4> HIDE DEF h
      <4> QED BY <3>3, <4>1
    <3> QED BY <3>4, <2>2
  <2> QED BY <2>3, <2>4
<1> DEFINE D == CHOOSE g : Is(MaxModel, g)
<1>3. Is(MaxModel, D)
  <2>1. \E g : Is(MaxModel, g)
    <3>1. MaxModel \in 0..MaxModel
      BY <1>1
    <3> HIDE DEF Is
    <3> QED BY <3>1, <1>2
  <2> HIDE DEF Is
  <2> QED BY <2>1
<1>4. Tree(view, m) = D[MaxModel]
  BY DEF Tree
<1> HIDE DEF D
<1>5. D[0] = {m} /\ \A n \in 0..MaxModel : n # 0 => n - 1 \in 0..MaxModel /\ D[n] = Below1(D[n - 1])
  BY <1>1, <1>3
<1>a. Models(view) \subseteq Model
  BY DEF Models
<1>6. \A n \in 0..MaxModel : m \in D[n] /\ D[n] \subseteq {m} \cup Models(view)
  <2> DEFINE T == {n \in 0..MaxModel : ~(m \in D[n] /\ D[n] \subseteq {m} \cup Models(view))}
  <2> SUFFICES ASSUME T # {} PROVE FALSE
    OBVIOUS
  <2>1. PICK n \in T : \A y \in T : n <= y
    <3>1. T \subseteq Nat
      OBVIOUS
    <3> HIDE DEF T
    <3> QED BY <3>1, LeastNumber
  <2>2. n \in 0..MaxModel /\ n # 0
    BY <1>5
  <2>3. n - 1 \in 0..MaxModel /\ n - 1 \notin T
    BY <2>1, <2>2, <1>1
  <2>4. m \in D[n - 1] /\ D[n - 1] \subseteq {m} \cup Models(view)
    BY <2>3
  <2> QED BY <2>4, <2>2, <1>5
<1> DEFINE Closed(S) == \A x \in Models(view) : view[x].parent \in S => x \in S
<1>7. IsFiniteSet(Model) /\ Cardinality(Model) = MaxModel
  BY <1>1, FS_Interval DEF Model
<1>8. \A n \in 0..MaxModel : /\ IsFiniteSet(D[n]) /\ Cardinality(D[n]) \in Nat
                             /\ Cardinality(D[n]) <= MaxModel
  <2> SUFFICES ASSUME NEW n \in 0..MaxModel
               PROVE  IsFiniteSet(D[n]) /\ Cardinality(D[n]) \in Nat /\ Cardinality(D[n]) <= MaxModel
    OBVIOUS
  <2>1. D[n] \subseteq Model
    BY <1>6, <1>a
  <2> QED BY <2>1, <1>7, FS_Subset, FS_CardinalityType
<1>9. \A n \in 0..MaxModel : Closed(D[n]) \/ n + 1 <= Cardinality(D[n])
  <2> DEFINE T == {n \in 0..MaxModel : ~(Closed(D[n]) \/ n + 1 <= Cardinality(D[n]))}
  <2> SUFFICES ASSUME T # {} PROVE FALSE
    OBVIOUS
  <2>1. PICK n \in T : \A y \in T : n <= y
    <3>1. T \subseteq Nat
      OBVIOUS
    <3> HIDE DEF T
    <3> QED BY <3>1, LeastNumber
  <2>a. n \in 0..MaxModel /\ ~Closed(D[n]) /\ ~(n + 1 <= Cardinality(D[n]))
    OBVIOUS
  <2>2. n # 0
    <3> SUFFICES ASSUME n = 0 PROVE FALSE
      OBVIOUS
    <3>1. Cardinality({m}) = 1
      BY FS_Singleton
    <3>2. D[n] = {m}
      BY <1>5
    <3>3. Cardinality(D[n]) = 1
      BY <3>1, <3>2
    <3>4. n + 1 <= Cardinality(D[n])
      BY <3>3
    <3> QED BY <3>4, <2>a
  <2>3. n - 1 \in 0..MaxModel /\ n - 1 \notin T
    BY <2>1, <2>2, <2>a, <1>1
  <2>4. Closed(D[n - 1]) \/ n <= Cardinality(D[n - 1])
    BY <2>3, <2>a
  <2>5. D[n] = Below1(D[n - 1])
    BY <2>2, <2>a, <1>5
  <2>6. ~Closed(D[n - 1])
    <3> SUFFICES ASSUME Closed(D[n - 1]) PROVE FALSE
      OBVIOUS
    <3>1. D[n] = D[n - 1]
      BY <2>5
    <3> QED BY <3>1, <2>a
  <2>7. PICK x \in Models(view) : view[x].parent \in D[n - 1] /\ x \notin D[n - 1]
    BY <2>6
  <2>8. D[n - 1] \cup {x} \subseteq D[n]
    BY <2>5, <2>7
  <2>9. Cardinality(D[n - 1] \cup {x}) = Cardinality(D[n - 1]) + 1
    <3> DEFINE S == D[n - 1]
    <3>1. IsFiniteSet(S) /\ x \notin S
      BY <2>3, <2>7, <1>8
    <3> HIDE DEF S
    <3>2. Cardinality(S \cup {x}) = Cardinality(S) + 1
      BY <3>1, FS_AddElement
    <3> QED BY <3>2 DEF S
  <2>10. Cardinality(D[n - 1] \cup {x}) <= Cardinality(D[n])
    BY <2>8, <2>a, <1>8, FS_Subset
  <2>b. Cardinality(D[n]) \in Nat /\ Cardinality(D[n - 1]) \in Nat /\ n \in Nat
    BY <1>8, <2>a, <2>3, <1>1
  <2>11. n <= Cardinality(D[n - 1])
    BY <2>4, <2>6
  <2> DEFINE c == Cardinality(D[n])
             d == Cardinality(D[n - 1])
  <2>12. c \in Nat /\ d \in Nat /\ n \in Nat /\ n <= d /\ d + 1 <= c /\ ~(n + 1 <= c)
    BY <2>9, <2>10, <2>b, <2>11, <2>a
  <2> HIDE DEF c, d
  <2> QED BY <2>12
<1>10. Closed(D[MaxModel])
  <2>1. MaxModel \in 0..MaxModel
    BY <1>1
  <2>2. ~(MaxModel + 1 <= Cardinality(D[MaxModel]))
    BY <2>1, <1>1, <1>8
  <2> QED BY <2>1, <2>2, <1>9
<1>11. MaxModel \in 0..MaxModel
  BY <1>1
<1> QED BY <1>4, <1>6, <1>10, <1>11, <1>a

-----------------------------------------------------------------------------
(* What changes make of the objects *)

LEMMA IntoFacts ==
  ASSUME NEW view \in View, NEW m \in Model, NEW c \in Content, NEW p \in File,
         c.parent = p, p # m, Live(view, p)
  PROVE  /\ Into(view, m, c)[m] = c
         /\ Into(view, m, c)[p] \in Content
         /\ Into(view, m, c)[p].lastrelid = view[p].lastrelid + 1
         /\ Into(view, m, c)[p].parent = view[p].parent
         /\ Into(view, m, c)[p].referred = view[p].referred
         /\ \A f \in File \ {m, p} : Into(view, m, c)[f] = view[f]
         /\ \A f \in File : Live(Into(view, m, c), f) <=> f = m \/ Live(view, f)
<1> DEFINE new == Into(view, m, c)
<1>1. new = [view EXCEPT ![m] = c, ![p].lastrelid = @ + 1]
  BY DEF Into
<1>2. view[p] \in Content /\ m \in File /\ p \in File /\ p # m
  BY LiveIsThere, ViewFacts
<1>3. new[m] = c /\ new[p] = [view[p] EXCEPT !.lastrelid = @ + 1] /\ \A f \in File \ {m, p} : new[f] = view[f]
  BY <1>1, <1>2 DEF View
<1>4. /\ new[p] \in Content /\ new[p].lastrelid = view[p].lastrelid + 1
      /\ new[p].parent = view[p].parent /\ new[p].referred = view[p].referred
  BY <1>2, <1>3 DEF Content
<1>5. c # NoFile /\ c.parent # None /\ new[p] # NoFile /\ view[p] # NoFile
  BY <1>2, <1>4, ViewFacts
<1>6. ASSUME NEW f \in File PROVE Live(new, f) <=> f = m \/ Live(view, f)
  <2> HIDE DEF new
  <2>1. CASE f = m
    BY <2>1, <1>3, <1>5 DEF Live
  <2>2. CASE f = p
    BY <2>2, <1>4, <1>5 DEF Live
  <2>3. CASE f \notin {m, p}
    BY <2>3, <1>3 DEF Live
  <2> QED BY <2>1, <2>2, <2>3
<1> HIDE DEF new
<1>7. /\ new[m] = c /\ new[p] \in Content /\ new[p].lastrelid = view[p].lastrelid + 1
      /\ new[p].parent = view[p].parent /\ new[p].referred = view[p].referred
      /\ \A f \in File \ {m, p} : new[f] = view[f]
      /\ \A f \in File : Live(new, f) <=> f = m \/ Live(view, f)
  BY <1>3, <1>4, <1>6
<1> QED BY <1>7 DEF new

LEMMA IntoGrows ==
  ASSUME NEW view \in View, NEW m \in Model, NEW c \in Content, NEW p \in File,
         c.parent = p, p # m, Live(view, p), Consistent(view),
         c.referred # None => Live(view, c.referred),
         view[m] = NoFile \/ (Live(view, m) /\ c.lastrelid = view[m].lastrelid)
  PROVE  Grows(view, Into(view, m, c))
<1> DEFINE new == Into(view, m, c)
<1>1. /\ new[m] = c
      /\ new[p] \in Content
      /\ new[p].lastrelid = view[p].lastrelid + 1
      /\ new[p].parent = view[p].parent
      /\ new[p].referred = view[p].referred
      /\ \A f \in File \ {m, p} : new[f] = view[f]
      /\ \A f \in File : Live(new, f) <=> f = m \/ Live(view, f)
  BY IntoFacts
<1>2. new \in View
  BY IntoIsView
<1> HIDE DEF new
<1>3. m \in File /\ c # NoFile /\ p # None /\ view[p] \in Content /\ view[p].lastrelid \in Nat
      /\ c.lastrelid \in Nat /\ c.referred \in Model \cup {None}
  BY ViewFacts, LiveIsThere
<1>4. Consistent(new)
  <2> SUFFICES ASSUME NEW x \in Model, new[x] # NoFile
               PROVE  /\ new[x].parent # None => Live(new, new[x].parent)
                      /\ new[x].referred # None => new[x].parent # None /\ Live(new, new[x].referred)
    BY DEF Consistent
  <2>1. CASE x = m
    BY <2>1, <1>1, <1>3, ViewFacts
  <2>2. CASE x # m
    <3>1. view[x] # NoFile /\ new[x].parent = view[x].parent /\ new[x].referred = view[x].referred
      BY <2>2, <1>1, <1>3, ViewFacts
    <3>2. view[x] \in Content
      BY <3>1, ViewFacts
    <3>3. view[x].parent \in File \cup {None} /\ view[x].referred \in Model \cup {None}
      BY <3>2, ViewFacts
    <3> QED BY <3>1, <3>3, <1>1, ViewFacts DEF Consistent
  <2> QED BY <2>1, <2>2
<1>5. \A f \in File : view[f] # NoFile => new[f] # NoFile
  BY <1>1, <1>3, ViewFacts
<1>6. ASSUME NEW f \in File, Live(new, f)
      PROVE  view[f] = NoFile \/ (Live(view, f) /\ view[f].lastrelid <= new[f].lastrelid)
  <2>1. CASE f = m
    <3>1. new[f] = c
      BY <2>1, <1>1
    <3>2. c.lastrelid <= c.lastrelid
      BY <1>3
    <3> QED BY <2>1, <3>1, <3>2
  <2>2. CASE f = p
    BY <2>2, <1>1, <1>3
  <2>3. CASE f \notin {m, p}
    <3>1. Live(view, f) /\ new[f] = view[f]
      BY <1>6, <2>3, <1>1
    <3>2. view[f].lastrelid \in Nat
      BY <3>1, LiveIsThere, ViewFacts
    <3> QED BY <3>1, <3>2
  <2> QED BY <2>1, <2>2, <2>3
<1>7. ASSUME NEW x \in Model, NEW q \in File, Within(new, x, q), ~Within(view, x, q)
      PROVE  Live(view, q) /\ view[q].lastrelid < new[q].lastrelid
  <2>1. Live(new, x) /\ new[x].parent = q
    BY <1>7, <1>2, ModelsFacts DEF Within
  <2>2. x = m
    <3> SUFFICES ASSUME x # m PROVE FALSE
      OBVIOUS
    <3>1. Live(view, x) /\ new[x].parent = view[x].parent
      BY <2>1, <1>1, ViewFacts
    <3> QED BY <2>1, <3>1, <1>7, ModelsFacts DEF Within
  <2>3. q = p
    BY <2>1, <2>2, <1>1
  <2> QED BY <2>3, <1>1, <1>3
<1>8. Grows(view, new)
  BY <1>4, <1>5, <1>6, <1>7 DEF Grows
<1> QED BY <1>8 DEF new

LEMMA DeleteGrows ==
  ASSUME NEW view \in View, NEW new \in View, NEW doomed, Consistent(view), doomed \subseteq Model,
         \A x \in Models(view) : view[x].parent \in doomed => x \in doomed,
         new = [f \in File |-> IF f \in doomed THEN Deleted
                               ELSE IF f \in Models(view) /\ view[f].referred \in doomed
                                    THEN [view[f] EXCEPT !.referred = None]
                                    ELSE view[f]]
  PROVE  Grows(view, new)
<1>1. Deleted \in Content /\ Deleted.parent = None /\ Deleted.referred = None /\ Deleted # NoFile
  <2>1. Deleted \in Content /\ Deleted.parent = None /\ Deleted.referred = None
    BY ContentFacts DEF Deleted, Fresh
  <2> QED BY <2>1, ViewFacts
<1>2. \A f \in doomed : new[f] = Deleted
  BY ViewFacts
<1>3. ASSUME NEW f \in File, f \notin doomed, f \in Models(view), view[f].referred \in doomed
      PROVE  /\ new[f] \in Content /\ new[f].parent = view[f].parent /\ new[f].referred = None
             /\ new[f].lastrelid = view[f].lastrelid
  <2>1. new[f] = [view[f] EXCEPT !.referred = None]
    BY <1>3
  <2>2. view[f] \in Content
    BY <1>3, ModelsFacts
  <2> QED BY <2>1, <2>2, ContentFacts DEF Content
<1>4. \A f \in File : f \notin doomed /\ ~(f \in Models(view) /\ view[f].referred \in doomed) => new[f] = view[f]
  OBVIOUS
<1>5. \A f \in File : f \notin doomed => /\ new[f] = NoFile <=> view[f] = NoFile
                                         /\ new[f].parent = view[f].parent
                                         /\ new[f].lastrelid = view[f].lastrelid
  <2> SUFFICES ASSUME NEW f \in File, f \notin doomed
               PROVE  /\ new[f] = NoFile <=> view[f] = NoFile
                      /\ new[f].parent = view[f].parent
                      /\ new[f].lastrelid = view[f].lastrelid
    OBVIOUS
  <2>1. CASE f \in Models(view) /\ view[f].referred \in doomed
    <3>1. new[f] \in Content /\ view[f] \in Content
      BY <2>1, <1>3, ModelsFacts
    <3> QED BY <2>1, <3>1, <1>3, ViewFacts
  <2>2. CASE ~(f \in Models(view) /\ view[f].referred \in doomed)
    BY <2>2, <1>4
  <2> QED BY <2>1, <2>2
<1>6. \A f \in File : Live(new, f) <=> f \notin doomed /\ Live(view, f)
  <2> SUFFICES ASSUME NEW f \in File PROVE Live(new, f) <=> f \notin doomed /\ Live(view, f)
    OBVIOUS
  <2>1. CASE f \in doomed
    BY <2>1, <1>1, <1>2, ViewFacts DEF Live
  <2>2. CASE f \notin doomed
    BY <2>2, <1>5 DEF Live
  <2> QED BY <2>1, <2>2
<1>7. Consistent(new)
  <2> SUFFICES ASSUME NEW x \in Model, new[x] # NoFile
               PROVE  /\ new[x].parent # None => Live(new, new[x].parent)
                      /\ new[x].referred # None => new[x].parent # None /\ Live(new, new[x].referred)
    BY DEF Consistent
  <2>1. CASE x \in doomed
    BY <2>1, <1>1, <1>2
  <2>2. CASE x \notin doomed
    <3>1. view[x] # NoFile /\ new[x].parent = view[x].parent /\ x \in File
      BY <2>2, <1>5, ViewFacts
    <3>2. view[x] \in Content
      BY <3>1, ViewFacts
    <3>3. view[x].parent \in File \cup {None} /\ view[x].referred \in Model \cup {None}
      BY <3>2, ViewFacts
    <3>4. ASSUME view[x].parent # None PROVE Live(new, view[x].parent)
      <4>1. x \in Models(view) /\ Live(view, view[x].parent)
        BY <3>1, <3>4, ModelsFacts DEF Consistent
      <4> QED BY <4>1, <3>3, <3>4, <2>2, <1>6
    <3>5. ASSUME new[x].referred # None PROVE new[x].parent # None /\ Live(new, new[x].referred)
      <4>1. ~(x \in Models(view) /\ view[x].referred \in doomed)
        BY <3>5, <2>2, <3>1, <1>3
      <4>2. new[x] = view[x]
        BY <4>1, <2>2, <3>1, <1>4
      <4>3. view[x].parent # None /\ Live(view, view[x].referred)
        BY <4>2, <3>5, <3>1 DEF Consistent
      <4>4. x \in Models(view)
        BY <4>3, <3>1, ModelsFacts
      <4>5. view[x].referred \in File /\ view[x].referred \notin doomed
        BY <4>1, <4>2, <4>4, <3>5, <3>3, ViewFacts
      <4> QED BY <4>2, <4>3, <4>5, <1>6
    <3> QED BY <3>1, <3>4, <3>5
  <2> QED BY <2>1, <2>2
<1>8. \A f \in File : view[f] # NoFile => new[f] # NoFile
  BY <1>1, <1>2, <1>5
<1>9. ASSUME NEW f \in File, Live(new, f) PROVE Live(view, f) /\ view[f].lastrelid <= new[f].lastrelid
  <2>1. Live(view, f) /\ new[f].lastrelid = view[f].lastrelid
    BY <1>9, <1>5, <1>6
  <2>2. view[f].lastrelid \in Nat
    BY <2>1, LiveIsThere, ViewFacts
  <2> QED BY <2>1, <2>2
<1>10. ASSUME NEW x \in Model, NEW q \in File, Within(new, x, q) PROVE Within(view, x, q)
  <2>1. Live(new, x) /\ new[x].parent = q /\ x \in File
    BY <1>10, ModelsFacts, ViewFacts DEF Within
  <2>2. Live(view, x) /\ view[x].parent = q
    BY <2>1, <1>5, <1>6
  <2> QED BY <2>2, ModelsFacts DEF Within
<1> QED BY <1>7, <1>8, <1>9, <1>10 DEF Grows

LEMMA ReferGrows ==
  ASSUME NEW view \in View, NEW m \in Model, NEW t \in Model \cup {None}, NEW new \in View, Consistent(view),
         Live(view, m), t # None => Live(view, t), new = [view EXCEPT ![m].referred = t]
  PROVE  Grows(view, new)
<1>1. view[m] \in Content /\ m \in File
  BY LiveIsThere, ViewFacts
<1>2. new[m] = [view[m] EXCEPT !.referred = t] /\ \A f \in File \ {m} : new[f] = view[f]
  BY <1>1 DEF View
<1>3. /\ new[m] \in Content /\ new[m].parent = view[m].parent /\ new[m].referred = t
      /\ new[m].lastrelid = view[m].lastrelid
  BY <1>1, <1>2, ContentFacts DEF Content
<1>4. view[m] # NoFile /\ new[m] # NoFile /\ view[m].parent # None
  BY <1>1, <1>3, ViewFacts, ModelsFacts
<1>5. \A f \in File : /\ new[f] = NoFile <=> view[f] = NoFile
                      /\ new[f].parent = view[f].parent
                      /\ new[f].lastrelid = view[f].lastrelid
  BY <1>2, <1>3, <1>4
<1>6. \A f \in File : Live(new, f) <=> Live(view, f)
  BY <1>5 DEF Live
<1>7. Consistent(new)
  <2> SUFFICES ASSUME NEW x \in Model, new[x] # NoFile
               PROVE  /\ new[x].parent # None => Live(new, new[x].parent)
                      /\ new[x].referred # None => new[x].parent # None /\ Live(new, new[x].referred)
    BY DEF Consistent
  <2>1. view[x] # NoFile /\ new[x].parent = view[x].parent /\ x \in File
    BY <1>5, ViewFacts
  <2>2. view[x] \in Content
    BY <2>1, ViewFacts
  <2>3. view[x].parent \in File \cup {None} /\ view[x].referred \in Model \cup {None}
    BY <2>2, ViewFacts
  <2>4. view[x].parent # None => Live(view, view[x].parent)
    BY <2>1 DEF Consistent
  <2>5. CASE x = m
    BY <2>5, <2>1, <2>3, <2>4, <1>3, <1>4, <1>6, ViewFacts
  <2>6. CASE x # m
    <3>1. new[x] = view[x]
      BY <2>6, <2>1, <1>2
    <3> QED BY <3>1, <2>1, <2>3, <1>6, ViewFacts DEF Consistent
  <2> QED BY <2>5, <2>6
<1>8. ASSUME NEW f \in File, Live(new, f) PROVE Live(view, f) /\ view[f].lastrelid <= new[f].lastrelid
  <2>1. Live(view, f) /\ new[f].lastrelid = view[f].lastrelid
    BY <1>8, <1>5, <1>6
  <2>2. view[f].lastrelid \in Nat
    BY <2>1, LiveIsThere, ViewFacts
  <2> QED BY <2>1, <2>2
<1>9. ASSUME NEW x \in Model, NEW q \in File, Within(new, x, q) PROVE Within(view, x, q)
  <2>1. Live(new, x) /\ new[x].parent = q /\ x \in File
    BY <1>9, ModelsFacts, ViewFacts DEF Within
  <2>2. Live(view, x) /\ view[x].parent = q
    BY <2>1, <1>5, <1>6
  <2> QED BY <2>2, ModelsFacts DEF Within
<1> QED BY <1>5, <1>7, <1>8, <1>9 DEF Grows

LEMMA UndoIsSound ==
  ASSUME NEW old \in View, NEW past \in View, NEW copy \in View, NEW new \in View, NEW held, NEW noted,
         Sound(past, copy, held, noted),
         new = [f \in File |-> IF past[f] = NoFile /\ old[f] # NoFile THEN Deleted ELSE past[f]],
         \A f \in File : copy[f] # NoFile => past[f] # NoFile,
         \A f \in File : copy[f] = NoFile /\ old[f] # NoFile => f \in held
  PROVE  Sound(new, copy, held, noted)
<1>1. Deleted \in Content /\ Deleted.parent = None /\ Deleted.referred = None /\ Deleted # NoFile
  <2>1. Deleted \in Content /\ Deleted.parent = None /\ Deleted.referred = None
    BY ContentFacts DEF Deleted, Fresh
  <2> QED BY <2>1, ViewFacts
<1>2. \A f \in File : \/ new[f] = past[f]
                      \/ new[f] = Deleted /\ past[f] = NoFile /\ copy[f] = NoFile /\ f \in held
  OBVIOUS
<1>3. \A f \in File : /\ Live(past, f) => Live(new, f) /\ new[f] = past[f]
                      /\ f \in Model /\ Live(new, f) => Live(past, f)
                      /\ Live(new, f) /\ Live(copy, f) => Live(past, f)
  BY <1>1, <1>2, ViewFacts DEF Live
<1>4. Consistent(new)
  <2> SUFFICES ASSUME NEW x \in Model, new[x] # NoFile
               PROVE  /\ new[x].parent # None => Live(new, new[x].parent)
                      /\ new[x].referred # None => new[x].parent # None /\ Live(new, new[x].referred)
    BY DEF Consistent
  <2>1. CASE new[x] = Deleted
    BY <2>1, <1>1
  <2>2. CASE new[x] = past[x] /\ past[x] # NoFile
    <3>1. past[x] \in Content
      BY <2>2, ViewFacts
    <3>2. past[x].parent \in File \cup {None} /\ past[x].referred \in Model \cup {None}
      BY <3>1, ViewFacts
    <3>3. Consistent(past)
      BY DEF Sound
    <3> QED BY <2>2, <3>2, <3>3, <1>3, ViewFacts DEF Consistent
  <2> QED BY <2>1, <2>2, <1>2, ViewFacts
<1>5. \A m \in Model : \A p : (Within(new, m, p) => Within(past, m, p)) /\ (Refers(new, m, p) => Refers(past, m, p))
  BY <1>3, ModelsFacts, ViewFacts DEF Within, Refers
<1>6. \A m \in Model, p \in File : Within(new, m, p) => Live(past, p)
  <2> SUFFICES ASSUME NEW m \in Model, NEW p \in File, Within(new, m, p) PROVE Live(past, p)
    OBVIOUS
  <2>1. m \in Models(past) /\ past[m].parent = p /\ Consistent(past)
    BY <1>5 DEF Within, Sound
  <2>2. past[m] # NoFile /\ p # None
    BY <2>1, ModelsFacts, ViewFacts
  <2> QED BY <2>1, <2>2 DEF Consistent
<1>7. \A f \in File : f \notin held => new[f] = copy[f]
  BY <1>2 DEF Sound
<1>8. \A f \in File : Live(new, f) /\ Live(copy, f) => copy[f].lastrelid <= new[f].lastrelid
  BY <1>3 DEF Sound
<1>9. \A m \in Model, p \in File : Within(new, m, p) /\ ~Within(copy, m, p) =>
        p \in held /\ (Live(copy, p) => copy[p].lastrelid < new[p].lastrelid)
  <2> SUFFICES ASSUME NEW m \in Model, NEW p \in File, Within(new, m, p), ~Within(copy, m, p)
               PROVE  p \in held /\ (Live(copy, p) => copy[p].lastrelid < new[p].lastrelid)
    OBVIOUS
  <2>1. Within(past, m, p) /\ new[p] = past[p]
    BY <1>3, <1>5, <1>6
  <2> QED BY <2>1 DEF Sound
<1>10. \A m \in Model, t \in Model : Refers(new, m, t) /\ ~Refers(copy, m, t) => t \in held
  BY <1>5 DEF Sound
<1>11. \A t \in Model : Live(copy, t) /\ ~Live(new, t) => <<t, "model">> \notin noted
  BY <1>3, ViewFacts DEF Sound
<1> QED BY <1>4, <1>7, <1>8, <1>9, <1>10, <1>11 DEF Sound

-----------------------------------------------------------------------------
(* Users without habits *)

Active(u) == phase[u] \in {"open", "writing", "locked", "saving"}

\* What the open transaction of a user makes him lock, and all he may change.
WriteSet(u) == IF phase[u] = "writing" THEN Modified(before[u], memory[u]) ELSE {}
Held(u) == Writable(u) \cup WriteSet(u)

\* The files as they will be when those who are saving have finished.
SavedBy(u, f) == phase[u] = "saving" /\ f \in Writable(u)
Final ==
  [f \in File |-> IF \E u \in User : SavedBy(u, f)
                  THEN memory[CHOOSE u \in User : SavedBy(u, f)][f] ELSE repository[f]]

\* User w has told v not to delete t.
Noticed(w, v, t) == \E e \in listed[w] : e.object = <<t, "model">> /\ v \notin e.later
Pending(w, t) == \E e \in pending[w] : e.object = <<t, "model">>

\* What comes before what.
Quiet ==
  /\ \A u, v \in User : phase[u] = "writing" /\ phase[v] = "writing" => u = v
  /\ \A u \in User :
       /\ Active(u) => u \in signed
       /\ \A e \in pending[u] : e.later = {}
       /\ phase[u] = "saving" => before[u] = None
       /\ phase[u] = "closed" => disk[u] = Nothing /\ memory[u] = Nothing /\ before[u] = None
       /\ phase[u] = "opening" =>
            /\ disk[u] = repository /\ memory[u] = repository /\ before[u] = None
            /\ \A v \in User \ {u} : memory[v] = disk[v] /\ phase[v] \notin {"writing", "locked"}

\* Which files are there: a new file is its user's alone.
Files ==
  /\ \A f \in File : owner[f] # None => repository[f] # NoFile
  /\ \A u \in User, f \in File :
       /\ disk[u][f] # NoFile => repository[f] # NoFile /\ memory[u][f] # NoFile
       /\ before[u] # None => /\ disk[u][f] # NoFile => before[u][f] # NoFile
                              /\ before[u][f] # NoFile => memory[u][f] # NoFile
  /\ \A u, v \in User, f \in File :
       disk[u][f] = NoFile /\ memory[u][f] # NoFile =>
         repository[f] = NoFile /\ (v # u => memory[v][f] = NoFile)

\* What users have in memory and can go back to.
UserViews(u) ==
  /\ phase[u] # "saving" =>
       /\ Sound(memory[u], disk[u], Held(u), OnLists(u))
       /\ before[u] # None => Sound(before[u], disk[u], Writable(u), OnLists(u))
  /\ phase[u] = "saving" =>
       /\ Consistent(memory[u])
       /\ \A f \in File : f \notin Writable(u) => memory[u][f] = disk[u][f]

Views == \A u \in User : UserViews(u)

\* What u has led to since the last save, v has been told of.
Tells(u, v) ==
  \A m, t \in Model :
    phase[u] # "saving" /\ disk[u][t] # NoFile =>
      /\ Refers(memory[u], m, t) /\ ~Refers(disk[u], m, t) => Noticed(u, v, t) \/ Pending(u, t)
      /\ phase[u] = "writing" /\ Refers(before[u], m, t) /\ ~Refers(disk[u], m, t) => Noticed(u, v, t)

\* Others know of new targets before they get to see the pointers.
Announced ==
  /\ \A u \in User, t \in Model : Pending(u, t) => t \in Held(u)
  /\ \A u, v \in User : u # v /\ Active(v) => Tells(u, v)

\* A file that is not there for u, or that he has no chance to lock.
Kept(u, f) == (disk[u][f] = NoFile /\ memory[u][f] = NoFile) \/ f \in stale[u]

\* Who saves has locked f, and has changed it.
Saves(w, f) == SavedBy(w, f) /\ owner[f] = w /\ memory[w][f] # repository[f]

\* What the pointers in m that u has not seen lead to is not his to delete.
Safe(u, m) ==
  /\ \A p \in File : Within(Final, m, p) /\ ~Within(disk[u], m, p) =>
       Kept(u, p) \/ \E w \in User \ {u} : Saves(w, p)
  /\ \A t \in Model : Refers(Final, m, t) /\ ~Refers(disk[u], m, t) =>
       Kept(u, t) \/ \E w \in User \ {u} : Noticed(w, u, t)

Guarded == \A u \in User, m \in Model : Active(u) /\ m \notin Writable(u) => Safe(u, m)

XmlInv ==
  /\ TypeInv /\ CopyInv
  /\ Quiet /\ Files /\ Views /\ Announced /\ Consistent(Final) /\ Guarded

-----------------------------------------------------------------------------
(* Who writes what *)

LEMMA XmlTypes ==
  ASSUME TypeInv
  PROVE  /\ repository \in View /\ owner \in [File -> User \cup {None}]
         /\ disk \in [User -> View] /\ memory \in [User -> View] /\ stale \in [User -> SUBSET File]
         /\ phase \in [User -> {"closed", "opening", "open", "writing", "locked", "saving"}]
         /\ listed \in [User -> SUBSET Entry] /\ signed \in SUBSET User
         /\ pending \in [User -> SUBSET Entry] /\ before \in [User -> View \cup {None}]
         /\ \A u \in User : /\ phase[u] = "writing" => before[u] \in View /\ before[u] # None
                            /\ pending[u] # {} => phase[u] \in {"writing", "locked"}
                            /\ before[u] # None => before[u] \in View
                            /\ disk[u] \in View /\ memory[u] \in View /\ u # None
BY MarkerAssumption, XmlAssumption DEF TypeInv, TypeOK

LEMMA OneWriter ==
  ASSUME Files, NEW u \in User, NEW v \in User, NEW f \in File, f \in Writable(u), f \in Writable(v)
  PROVE  u = v
BY DEF Files, Writable, ReadOnly

FinalFacts ==
  /\ Final \in View
  /\ \A u \in User, f \in File : SavedBy(u, f) => Final[f] = memory[u][f]
  /\ \A f \in File : (\A u \in User : ~SavedBy(u, f)) => Final[f] = repository[f]

LEMMA FinalIs ==
  TypeInv /\ Files => FinalFacts
<1> SUFFICES ASSUME TypeInv, Files PROVE FinalFacts
  OBVIOUS
<1>1. ASSUME NEW u \in User, NEW f \in File, SavedBy(u, f) PROVE Final[f] = memory[u][f]
  <2> DEFINE w == CHOOSE v \in User : SavedBy(v, f)
  <2>1. w \in User /\ SavedBy(w, f)
    BY <1>1
  <2>2. Final[f] = memory[w][f]
    BY <1>1 DEF Final
  <2> HIDE DEF w
  <2>3. w = u
    BY <1>1, <2>1, OneWriter DEF SavedBy
  <2> QED BY <2>2, <2>3
<1>2. ASSUME NEW f \in File, \A u \in User : ~SavedBy(u, f) PROVE Final[f] = repository[f]
  BY <1>2 DEF Final
<1>3. Final \in View
  <2>1. \A f \in File : Final[f] \in Content \cup {NoFile}
    BY <1>1, <1>2, XmlTypes, ViewFacts
  <2> QED BY <2>1 DEF Final, View
<1> QED BY <1>1, <1>2, <1>3 DEF FinalFacts

LEMMA FinalIsNext ==
  TypeInv' /\ Files' => FinalFacts'
BY FinalIs, PTL

\* What somebody has locked, or created, and does not save.
LEMMA FinalIsCurrent ==
  ASSUME TypeInv, CopyInv, Files, NEW u \in User, NEW f \in File, f \in Writable(u), phase[u] # "saving"
  PROVE  /\ Final[f] = repository[f] /\ repository[f] = disk[u][f]
         /\ disk[u][f] # NoFile => owner[f] = u
<1>1. \A v \in User : ~SavedBy(v, f)
  BY OneWriter DEF SavedBy
<1>2. Final[f] = repository[f]
  BY <1>1, FinalIs DEF FinalFacts
<1>3. memory[u][f] # NoFile /\ ~ReadOnly(u, f)
  BY DEF Writable
<1>4. CASE disk[u][f] = NoFile
  BY <1>2, <1>3, <1>4 DEF Files
<1>5. CASE disk[u][f] # NoFile
  BY <1>2, <1>3, <1>5 DEF CopyInv, ReadOnly
<1> QED BY <1>2, <1>4, <1>5

\* While nobody saves, the files are what they will be.
LEMMA FinalIsRepository ==
  ASSUME TypeInv, Files, \A u \in User : phase[u] # "saving"
  PROVE  Final = repository
<1>1. \A f \in File : Final[f] = repository[f]
  BY FinalIs DEF SavedBy, FinalFacts
<1> QED BY <1>1, FinalIs, XmlTypes DEF View, FinalFacts

\* Final changes with what is saved, and with nothing else.
LEMMA FinalStays ==
  ASSUME TypeInv, Files, TypeInv', Files', repository' = repository,
         \A u \in User : /\ phase'[u] = "saving" <=> phase[u] = "saving"
                         /\ phase[u] = "saving" => memory'[u] = memory[u] /\ Writable(u)' = Writable(u)
  PROVE  Final' = Final
<1> SUFFICES ASSUME NEW f \in File PROVE Final'[f] = Final[f]
  <2>1. Final \in View /\ Final' \in View
    BY FinalIs, FinalIsNext DEF FinalFacts
  <2> QED BY <2>1 DEF View
<1>1. \A u \in User : SavedBy(u, f)' <=> SavedBy(u, f)
  BY DEF SavedBy
<1>2. CASE \E u \in User : SavedBy(u, f)
  <2>1. PICK u \in User : SavedBy(u, f)
    BY <1>2
  <2>2. Final[f] = memory[u][f]
    BY <2>1, FinalIs DEF FinalFacts
  <2>3. Final'[f] = memory'[u][f]
    BY <2>1, <1>1, FinalIsNext DEF FinalFacts
  <2>4. memory'[u] = memory[u]
    BY <2>1 DEF SavedBy
  <2> QED BY <2>2, <2>3, <2>4
<1>3. CASE \A u \in User : ~SavedBy(u, f)
  <2>1. Final[f] = repository[f]
    BY <1>3, FinalIs DEF FinalFacts
  <2>2. Final'[f] = repository'[f]
    BY <1>1, <1>3, FinalIsNext DEF FinalFacts
  <2> QED BY <2>1, <2>2
<1> QED BY <1>2, <1>3

\* A file that nobody has is not there.
LEMMA UnusedIsNowhere ==
  ASSUME TypeInv, Files, NEW f \in Unused
  PROVE  /\ f \in Model /\ f \in File /\ repository[f] = NoFile /\ Final[f] = NoFile
         /\ \A u \in User : /\ memory[u][f] = NoFile /\ disk[u][f] = NoFile
                            /\ before[u] # None => before[u][f] = NoFile
<1>1. f \in Model /\ f \in File /\ repository[f] = NoFile /\ \A u \in User : memory[u][f] = NoFile
  BY ViewFacts DEF Unused
<1>2. \A u \in User : ~SavedBy(u, f)
  BY <1>1 DEF SavedBy, Writable
<1>3. Final[f] = NoFile
  BY <1>1, <1>2, FinalIs DEF FinalFacts
<1> QED BY <1>1, <1>3 DEF Files

-----------------------------------------------------------------------------
(* The writes of a transaction *)

LEMMA ChangeIsOpen ==
  ASSUME NEW u \in User, Change(u)
  PROVE  phase[u] = "open"
BY DEF Change, CreateModel, MoveModel, DeleteModel, Refer, Undo, Write

LEMMA GrowingWrite ==
  ASSUME TypeInv, Files, Views, NEW u \in User, NEW new \in View, Write(u, new), Grows(memory[u], new)
  PROVE  /\ \A f \in File : memory[u][f] # NoFile => new[f] # NoFile
         /\ Sound(new, disk[u], Writable(u) \cup Modified(memory[u], new), OnLists(u))
<1>1. phase[u] = "open" /\ Removed(memory[u], new) \cap OnLists(u) = {}
  BY DEF Write
<1>2. Sound(memory[u], disk[u], Writable(u), OnLists(u))
  BY <1>1 DEF Views, UserViews, Held, WriteSet
<1>3. \A f \in File : disk[u][f] # NoFile => memory[u][f] # NoFile
  BY DEF Files
<1>4. memory[u] \in View /\ disk[u] \in View
  BY XmlTypes
<1> QED BY <1>1, <1>2, <1>3, <1>4, GrowsIsSound DEF Grows

LEMMA ChangeIsSound ==
  ASSUME TypeInv, Files, Views, NEW u \in User, Change(u)
  PROVE  \E new \in View :
           /\ Write(u, new)
           /\ \A f \in File : memory[u][f] # NoFile => new[f] # NoFile
           /\ \A f \in File : new[f] # NoFile => memory[u][f] # NoFile \/ f \in Unused
           /\ Sound(new, disk[u], Writable(u) \cup Modified(memory[u], new), OnLists(u))
<1> DEFINE Good(new) ==
      /\ Write(u, new)
      /\ \A f \in File : memory[u][f] # NoFile => new[f] # NoFile
      /\ \A f \in File : new[f] # NoFile => memory[u][f] # NoFile \/ f \in Unused
      /\ Sound(new, disk[u], Writable(u) \cup Modified(memory[u], new), OnLists(u))
<1>a. phase[u] = "open" /\ memory[u] \in View /\ disk[u] \in View /\ before[u] \in View \cup {None}
  BY ChangeIsOpen, XmlTypes
<1>b. Sound(memory[u], disk[u], Writable(u), OnLists(u)) /\ Consistent(memory[u])
  BY <1>a DEF Views, UserViews, Held, WriteSet, Sound
<1>c. ASSUME NEW new \in View, Write(u, new), Grows(memory[u], new),
             \A f \in File : new[f] # NoFile => memory[u][f] # NoFile \/ f \in Unused
      PROVE  \E n \in View : Good(n)
  <2>1. Good(new)
    BY <1>c, GrowingWrite
  <2> HIDE DEF Good
  <2> QED BY <2>1
<1>1. ASSUME NEW p \in File, CreateModel(u, p) PROVE \E n \in View : Good(n)
  <2> DEFINE m == CHOOSE x \in Unused : \A y \in Unused : x <= y
             new == Into(memory[u], m, Fresh(p))
  <2>1. Unused # {} /\ Live(memory[u], p) /\ Write(u, new)
    BY <1>1 DEF CreateModel
  <2>2. m \in Unused
    <3>1. \E x \in Unused : \A y \in Unused : x <= y
      <4>1. Unused \subseteq Nat /\ Unused # {}
        BY <2>1, XmlAssumption DEF Unused, Model
      <4> QED BY <4>1, LeastNumber
    <3> QED BY <3>1
  <2> HIDE DEF m
  <2>3. Fresh(p) \in Content /\ Fresh(p).parent = p /\ Fresh(p).referred = None
    BY ContentFacts DEF Fresh
  <2>4. m \in Model /\ memory[u][m] = NoFile
    BY <2>2, UnusedIsNowhere
  <2>5. p # m
    BY <2>1, <2>4 DEF Live
  <2>6. new \in View
    BY <2>1, <2>3, <2>4, <1>a, IntoIsView
  <2>7. Grows(memory[u], new)
    BY <2>1, <2>3, <2>4, <2>5, <1>a, <1>b, IntoGrows
  <2>8. \A f \in File : new[f] # NoFile => memory[u][f] # NoFile \/ f \in Unused
    <3>1. \A f \in File \ {m, p} : new[f] = memory[u][f]
      BY <2>1, <2>3, <2>4, <2>5, <1>a, IntoFacts
    <3>2. memory[u][p] # NoFile
      BY <2>1 DEF Live
    <3> QED BY <3>1, <3>2, <2>2
  <2> HIDE DEF new
  <2> QED BY <2>1, <2>6, <2>7, <2>8, <1>c
<1>2. ASSUME NEW m \in Model, NEW p \in File, MoveModel(u, m, p) PROVE \E n \in View : Good(n)
  <2> DEFINE c == [memory[u][m] EXCEPT !.parent = p]
             new == Into(memory[u], m, c)
  <2>1. Live(memory[u], m) /\ Live(memory[u], p) /\ p \notin Tree(memory[u], m) /\ Write(u, new)
    BY <1>2 DEF MoveModel
  <2>2. memory[u][m] \in Content /\ m \in Models(memory[u]) /\ memory[u][m] # NoFile
    BY <2>1, <1>a, ModelsFacts
  <2>3. /\ c \in Content /\ c.parent = p /\ c.referred = memory[u][m].referred
        /\ c.lastrelid = memory[u][m].lastrelid
    BY <2>2, ContentFacts DEF Content
  <2>4. c.referred # None => Live(memory[u], c.referred)
    BY <2>2, <2>3, <1>b DEF Consistent
  <2>5. p # m
    BY <2>1, <1>a, TreeFacts
  <2> HIDE DEF c
  <2>6. new \in View
    BY <2>1, <2>3, <1>a, IntoIsView
  <2>7. Grows(memory[u], new)
    BY <2>1, <2>3, <2>4, <2>5, <1>a, <1>b, IntoGrows
  <2>8. \A f \in File : new[f] # NoFile => memory[u][f] # NoFile \/ f \in Unused
    <3>1. \A f \in File \ {m, p} : new[f] = memory[u][f]
      BY <2>1, <2>3, <2>5, <1>a, IntoFacts
    <3>2. memory[u][p] # NoFile
      BY <2>1 DEF Live
    <3> QED BY <3>1, <3>2, <2>2
  <2> HIDE DEF new
  <2> QED BY <2>1, <2>6, <2>7, <2>8, <1>c
<1>3. ASSUME NEW m \in Model, DeleteModel(u, m) PROVE \E n \in View : Good(n)
  <2> DEFINE doomed == Tree(memory[u], m)
             new == [f \in File |-> IF f \in doomed THEN Deleted
                                    ELSE IF f \in Models(memory[u]) /\ memory[u][f].referred \in doomed
                                         THEN [memory[u][f] EXCEPT !.referred = None]
                                         ELSE memory[u][f]]
  <2>1. Live(memory[u], m) /\ Write(u, new)
    BY <1>3 DEF DeleteModel
  <2>2. /\ doomed \subseteq Model /\ doomed \subseteq {m} \cup Models(memory[u])
        /\ \A x \in Models(memory[u]) : memory[u][x].parent \in doomed => x \in doomed
    BY <1>a, TreeFacts
  <2>3. m \in Models(memory[u])
    BY <2>1, <1>a, ModelsFacts
  <2> HIDE DEF doomed
  <2>4. new \in View
    <3>1. \A f \in Models(memory[u]) : [memory[u][f] EXCEPT !.referred = None] \in Content
      BY <1>a, LiveIsThere, ContentFacts DEF Models
    <3> QED BY <3>1, <1>a, ContentFacts DEF View
  <2>5. \A f \in File : new[f] # NoFile => memory[u][f] # NoFile
    <3>1. \A f \in Models(memory[u]) : memory[u][f] # NoFile
      BY <1>a, ModelsFacts
    <3> QED BY <3>1, <2>2, <2>3
  <2> DEFINE new2 == new
  <2>6. new2 = [f \in File |-> IF f \in doomed THEN Deleted
                               ELSE IF f \in Models(memory[u]) /\ memory[u][f].referred \in doomed
                                    THEN [memory[u][f] EXCEPT !.referred = None]
                                    ELSE memory[u][f]]
    OBVIOUS
  <2>7. new2 \in View /\ Write(u, new2) /\ \A f \in File : new2[f] # NoFile => memory[u][f] # NoFile
    BY <2>1, <2>4, <2>5
  <2> HIDE DEF new2
  <2>8. Grows(memory[u], new2)
    BY <2>2, <2>6, <2>7, <1>a, <1>b, DeleteGrows
  <2> QED BY <2>7, <2>8, <1>c
<1>4. ASSUME NEW m \in Model, NEW t \in Model \cup {None}, Refer(u, m, t) PROVE \E n \in View : Good(n)
  <2> DEFINE new == [memory[u] EXCEPT ![m].referred = t]
  <2>1. Live(memory[u], m) /\ t \in {None} \cup Models(memory[u]) /\ Write(u, new)
    BY <1>4 DEF Refer
  <2>2. t # None => Live(memory[u], t)
    BY <2>1 DEF Models
  <2>3. memory[u][m] \in Content /\ m \in File /\ memory[u][m] # NoFile
    BY <2>1, <1>a, LiveIsThere, ViewFacts
  <2>4. new \in View
    BY <2>3, <1>a, ContentFacts DEF View
  <2>5. \A f \in File : new[f] # NoFile => memory[u][f] # NoFile
    BY <2>3, <1>a DEF View
  <2>6. Grows(memory[u], new)
    BY <2>1, <2>2, <2>4, <1>a, <1>b, ReferGrows
  <2> HIDE DEF new
  <2> QED BY <2>1, <2>4, <2>5, <2>6, <1>c
<1>5. ASSUME Undo(u) PROVE \E n \in View : Good(n)
  <2> DEFINE new == [f \in File |-> IF before[u][f] = NoFile /\ memory[u][f] # NoFile
                                    THEN Deleted ELSE before[u][f]]
  <2>1. before[u] # None /\ before[u] \in View /\ Write(u, new)
    BY <1>5, <1>a DEF Undo
  <2>2. new \in View
    BY <2>1, ContentFacts DEF View
  <2>3. Sound(before[u], disk[u], Writable(u), OnLists(u))
    BY <2>1, <1>a DEF Views, UserViews
  <2>4. \A f \in File : /\ disk[u][f] # NoFile => before[u][f] # NoFile
                        /\ before[u][f] # NoFile => memory[u][f] # NoFile
                        /\ disk[u][f] = NoFile /\ memory[u][f] # NoFile => f \in Writable(u)
    BY <2>1 DEF Files, Writable, ReadOnly
  <2>5. Sound(new, disk[u], Writable(u), OnLists(u))
    BY <2>1, <2>2, <2>3, <2>4, <1>a, UndoIsSound
  <2>6. Sound(new, disk[u], Writable(u) \cup Modified(memory[u], new), OnLists(u))
    BY <2>5, SoundStays
  <2>7. \A f \in File : new[f] # NoFile <=> memory[u][f] # NoFile
    <3>1. Deleted # NoFile
      BY ContentFacts, ViewFacts
    <3> QED BY <3>1, <2>4
  <2>8. Good(new)
    BY <2>1, <2>6, <2>7
  <2> HIDE DEF Good
  <2> QED BY <2>2, <2>8
<1> QED BY <1>1, <1>2, <1>3, <1>4, <1>5 DEF Change

-----------------------------------------------------------------------------
(* Opening, writing and files *)

LEMMA GetLatestFacts ==
  ASSUME Habits = {}, XmlInv, NEW u \in User, GetLatestVersion(u)
  PROVE  /\ phase[u] = "closed" /\ before[u] = None /\ memory[u] = Nothing /\ disk[u] = Nothing
         /\ Final = repository
         /\ \A v \in User \ {u} : memory[v] = disk[v] /\ phase[v] \notin {"writing", "locked", "saving"}
         /\ \A v \in User : phase[v] \notin {"writing", "locked", "saving"}
         /\ disk' = [disk EXCEPT ![u] = repository] /\ memory' = [memory EXCEPT ![u] = repository]
         /\ phase' = [phase EXCEPT ![u] = "opening"]
         /\ UNCHANGED <<repository, owner, listed, signed, stale, before, pending>>
<1>1. /\ phase[u] = "closed" /\ disk' = [disk EXCEPT ![u] = repository]
      /\ memory' = [memory EXCEPT ![u] = Read(repository)] /\ phase' = [phase EXCEPT ![u] = "opening"]
      /\ UNCHANGED <<repository, owner, listed, signed, stale, before, pending>>
  BY DEF GetLatestVersion, server
<1>2. before[u] = None /\ memory[u] = Nothing /\ disk[u] = Nothing
  BY <1>1 DEF XmlInv, Quiet
<1>3. \A v \in User \ {u} : ~Unsaved(v)
  BY DEF GetLatestVersion, MayOpen
<1>4. \A v \in User \ {u} : memory[v] = disk[v] /\ phase[v] \notin {"writing", "locked", "saving"}
  BY <1>3 DEF Unsaved
<1>5. \A v \in User : phase[v] \notin {"writing", "locked", "saving"}
  BY <1>1, <1>4
<1>6. Final = repository
  BY <1>5, FinalIsRepository DEF XmlInv
<1>7. repository \in View
  BY XmlTypes DEF XmlInv
<1>8. Read(repository) = repository
  BY <1>6, <1>7, ReadIsSame DEF XmlInv
<1> QED BY <1>1, <1>2, <1>4, <1>5, <1>6, <1>8

\* Nobody changes a file while somebody opens the project.
LEMMA OpeningIsQuiet ==
  ASSUME XmlInv, NEW u \in User, NEW w \in User, NEW f \in File, phase[u] = "opening", WriteXMLFile(w, f)
  PROVE  repository' = repository /\ disk' = disk
<1>1. phase[w] = "saving" /\ w # u /\ f \in Writable(w)
  BY DEF WriteXMLFile
<1>2. memory[w] = disk[w]
  BY <1>1 DEF XmlInv, Quiet
<1>3. memory[w][f] = disk[w][f] /\ disk[w][f] # NoFile /\ owner[f] = w
  BY <1>1, <1>2 DEF Writable, ReadOnly
<1>4. memory[w][f] = repository[f]
  BY <1>3 DEF XmlInv, CopyInv
<1>5. repository \in View /\ disk \in [User -> View]
  BY XmlTypes DEF XmlInv
<1>6. repository' = [repository EXCEPT ![f] = memory[w][f]] /\ disk' = [disk EXCEPT ![w][f] = memory[w][f]]
  BY DEF WriteXMLFile
<1>7. repository' = repository
  BY <1>4, <1>5, <1>6 DEF View
<1>8. disk' = disk
  BY <1>3, <1>5, <1>6 DEF View
<1> QED BY <1>7, <1>8

LEMMA ModifiedAreFiles ==
  ASSUME TypeInv, NEW u \in User, NEW old
  PROVE  Modified(old, memory[u]) \subseteq File
<1>1. memory[u] \in View
  BY XmlTypes
<1> QED BY <1>1, TargetsAreModels, ViewFacts DEF Modified

LEMMA TurnFacts ==
  ASSUME Habits = {}, NEW u \in User
  PROVE  /\ Turn(u) => \A v \in User \ {u} : phase[v] # "writing"
         /\ MayChange(u) => \A v \in User \ {u} : phase[v] # "opening"
BY DEF Turn, MayChange

LEMMA SignInFacts ==
  ASSUME XmlInv, NEW u \in User, SignIn(u)
  PROVE  /\ phase[u] = "opening" /\ \A v \in User : pending[v] = {} /\ pending'[v] = {}
         /\ phase' = [phase EXCEPT ![u] = "open"] /\ signed' = signed \cup {u}
         /\ pending' = pending
         /\ UNCHANGED <<repository, owner, disk, stale, memory, before>>
<1>1. /\ phase[u] = "opening" /\ phase' = [phase EXCEPT ![u] = "open"] /\ signed' = signed \cup {u}
      /\ UNCHANGED <<repository, owner, disk, stale, memory, before>>
      /\ pending' = [v \in User |-> Later(pending[v], u)]
  BY DEF SignIn
<1>2. \A v \in User : phase[v] \notin {"writing", "locked"}
  BY <1>1 DEF XmlInv, Quiet
<1>3. \A v \in User : pending[v] = {}
  BY <1>2, XmlTypes DEF XmlInv
<1>4. \A v \in User : pending'[v] = {}
  BY <1>1, <1>3 DEF Later
<1>5. pending' = pending
  <2>1. pending = [v \in User |-> pending[v]]
    BY XmlTypes DEF XmlInv
  <2>2. pending' = [v \in User |-> pending'[v]]
    BY <1>1
  <2> QED BY <2>1, <2>2, <1>3, <1>4
<1> QED BY <1>1, <1>3, <1>4, <1>5

LEMMA QuietStep ==
  ASSUME Habits = {}, XmlInv, [Next]_vars
  PROVE  Quiet'
<1>a. Quiet /\ TypeInv
  BY DEF XmlInv
<1>b. /\ disk \in [User -> View] /\ memory \in [User -> View]
      /\ phase \in [User -> {"closed", "opening", "open", "writing", "locked", "saving"}]
      /\ pending \in [User -> SUBSET Entry] /\ before \in [User -> View \cup {None}]
      /\ \A u \in User : pending[u] # {} => phase[u] \in {"writing", "locked"}
  BY <1>a, XmlTypes
<1>1. ASSUME NEW u \in User, GetLatestVersion(u) PROVE Quiet'
  BY <1>1, <1>a, <1>b, GetLatestFacts DEF Quiet, Active
<1>2. ASSUME NEW u \in User, SignIn(u) PROVE Quiet'
  BY <1>2, <1>a, <1>b, SignInFacts DEF Quiet, Active
<1>3. ASSUME NEW u \in User, Leave(u), signed' = signed \/ signed' = signed \ {u} PROVE Quiet'
  <2>1. /\ disk' = [disk EXCEPT ![u] = Nothing] /\ memory' = [memory EXCEPT ![u] = Nothing]
        /\ before' = [before EXCEPT ![u] = None] /\ repository' = repository
        /\ pending' = [pending EXCEPT ![u] = {}] /\ phase' = [phase EXCEPT ![u] = "closed"]
    BY <1>3 DEF Leave
  <2> QED BY <2>1, <1>3, <1>a, <1>b DEF Quiet, Active
<1>4. ASSUME NEW u \in User, CloseProject(u) PROVE Quiet'
  BY <1>4, <1>3 DEF CloseProject
<1>5. ASSUME NEW u \in User, Crash(u) PROVE Quiet'
  BY <1>5, <1>3 DEF Crash
<1>6. ASSUME NEW u \in User, Change(u) PROVE Quiet'
  <2>1. PICK new \in View : Write(u, new)
    BY <1>6, ChangeIsSound DEF XmlInv
  <2>2. /\ phase[u] = "open" /\ \A v \in User \ {u} : phase[v] # "writing" /\ phase[v] # "opening"
        /\ memory' = [memory EXCEPT ![u] = new] /\ before' = [before EXCEPT ![u] = memory[u]]
        /\ pending' = [pending EXCEPT ![u] = [object : Protected(memory[u], new), later : {{}}]]
        /\ phase' = [phase EXCEPT ![u] = "writing"] /\ UNCHANGED <<repository, signed, disk>>
    BY <2>1, TurnFacts DEF Write, server
  <2>3. \A e \in [object : Protected(memory[u], new), later : {{}}] : e.later = {}
    OBVIOUS
  <2> QED BY <2>2, <2>3, <1>a, <1>b DEF Quiet, Active
<1>7. ASSUME NEW u \in User, CommitTransaction(u) \/ CommitFails(u) PROVE Quiet'
  <2>1. /\ phase[u] = "writing" /\ UNCHANGED <<repository, signed, disk>>
        /\ \/ phase' = [phase EXCEPT ![u] = "open"] \/ phase' = [phase EXCEPT ![u] = "locked"]
        /\ pending' = pending \/ pending' = [pending EXCEPT ![u] = {}]
        /\ before' = before \/ before' = [before EXCEPT ![u] = None]
        /\ memory' = memory \/ memory' = [memory EXCEPT ![u] = before[u]]
    <3>1. CASE CommitTransaction(u)
      BY <3>1 DEF CommitTransaction
    <3>2. CASE CommitFails(u)
      BY <3>2 DEF CommitFails
    <3> QED BY <1>7, <3>1, <3>2
  <2>2. \A v \in User : phase[v] # "opening"
    BY <2>1, <1>a DEF Quiet
  <2>3. \A v \in User : pending'[v] \subseteq pending[v]
    BY <2>1, <1>b
  <2>4. \A v \in User : /\ v # u => phase'[v] = phase[v] /\ memory'[v] = memory[v] /\ before'[v] = before[v]
                        /\ phase'[u] \in {"open", "locked"}
    BY <2>1, <1>b
  <2> QED BY <2>1, <2>2, <2>3, <2>4, <1>a DEF Quiet, Active
<1>8. ASSUME NEW u \in User, OnCommited(u) PROVE Quiet'
  <2>1. /\ phase[u] = "locked" /\ UNCHANGED <<repository, signed, disk, memory, before>>
        /\ phase' = [phase EXCEPT ![u] = "open"] /\ pending' = [pending EXCEPT ![u] = {}]
    BY <1>8 DEF OnCommited
  <2> QED BY <2>1, <1>a, <1>b DEF Quiet, Active
<1>9. ASSUME NEW u \in User, SaveProject(u) PROVE Quiet'
  <2>1. /\ phase[u] = "open" /\ UNCHANGED <<repository, signed, disk, memory, pending>>
        /\ phase' = [phase EXCEPT ![u] = "saving"] /\ before' = [before EXCEPT ![u] = None]
    BY <1>9 DEF SaveProject, server
  <2> QED BY <2>1, <1>a, <1>b DEF Quiet, Active
<1>10. ASSUME NEW u \in User, NEW f \in File, WriteXMLFile(u, f) PROVE Quiet'
  <2>1. /\ phase[u] = "saving" /\ UNCHANGED <<signed, memory, before, pending>>
        /\ phase' = [phase EXCEPT ![u] = "saving"] \/ phase' = [phase EXCEPT ![u] = "open"]
        /\ disk' = [disk EXCEPT ![u][f] = memory[u][f]]
    BY <1>10 DEF WriteXMLFile
  <2>2. \A v \in User : phase[v] = "opening" => repository' = repository /\ disk' = disk
    BY <1>10, OpeningIsQuiet
  <2>3. \A v \in User : /\ v # u => phase'[v] = phase[v] /\ disk'[v] = disk[v]
                        /\ phase'[u] \in {"saving", "open"}
    BY <2>1, <1>b
  <2>4. u \in signed /\ (phase'[u] = "saving" => before[u] = None)
    BY <2>1, <1>a DEF Quiet, Active
  <2> QED BY <2>1, <2>2, <2>3, <2>4, <1>a DEF Quiet, Active
<1>11. ASSUME UNCHANGED vars PROVE Quiet'
  BY <1>11, <1>a DEF vars, server, client, Quiet, Active
<1> QED BY StepCases, <1>1, <1>2, <1>4, <1>5, <1>6, <1>7, <1>8, <1>9, <1>10, <1>11

LEMMA FilesStep ==
  ASSUME Habits = {}, XmlInv, [Next]_vars
  PROVE  Files'
<1>a. Files /\ TypeInv
  BY DEF XmlInv
<1>b. /\ repository \in View /\ owner \in [File -> User \cup {None}]
      /\ disk \in [User -> View] /\ memory \in [User -> View] /\ before \in [User -> View \cup {None}]
      /\ \A u \in User : phase[u] = "writing" => before[u] # None /\ before[u] \in View
  BY <1>a, XmlTypes
<1>1. ASSUME NEW u \in User, GetLatestVersion(u) PROVE Files'
  BY <1>1, <1>a, <1>b, GetLatestFacts DEF Files, Nothing
<1>2. ASSUME UNCHANGED <<repository, owner, disk, memory>>, before' = before \/ \E u \in User : before' = [before EXCEPT ![u] = None]
      PROVE  Files'
  BY <1>2, <1>a, <1>b DEF Files
<1>3. ASSUME NEW u \in User, Leave(u) PROVE Files'
  <2>1. /\ disk' = [disk EXCEPT ![u] = Nothing] /\ memory' = [memory EXCEPT ![u] = Nothing]
        /\ before' = [before EXCEPT ![u] = None] /\ UNCHANGED <<repository, owner>>
    BY <1>3 DEF Leave
  <2> QED BY <2>1, <1>a, <1>b DEF Files, Nothing
<1>6. ASSUME NEW u \in User, Change(u) PROVE Files'
  <2>1. PICK new \in View :
           /\ Write(u, new)
           /\ \A f \in File : memory[u][f] # NoFile => new[f] # NoFile
           /\ \A f \in File : new[f] # NoFile => memory[u][f] # NoFile \/ f \in Unused
    BY <1>6, ChangeIsSound DEF XmlInv
  <2>2. /\ memory' = [memory EXCEPT ![u] = new] /\ before' = [before EXCEPT ![u] = memory[u]]
        /\ UNCHANGED <<repository, owner, disk>>
    BY <2>1 DEF Write, server
  <2>3. \A f \in Unused : repository[f] = NoFile /\ \A v \in User : memory[v][f] = NoFile
    BY DEF Unused
  <2>4. \A f \in File, v \in User : v # u => memory'[v] = memory[v] /\ before'[v] = before[v]
    BY <2>2, <1>b
  <2>5. memory'[u] = new /\ before'[u] = memory[u]
    BY <2>2, <1>b
  <2>6. \A v \in User, f \in File :
          /\ disk[v][f] # NoFile => repository[f] # NoFile /\ memory'[v][f] # NoFile
          /\ before'[v] # None => /\ disk[v][f] # NoFile => before'[v][f] # NoFile
                                  /\ before'[v][f] # NoFile => memory'[v][f] # NoFile
    BY <2>1, <2>4, <2>5, <1>a DEF Files
  <2>7. ASSUME NEW v \in User, NEW w \in User, NEW f \in File, disk[v][f] = NoFile, memory'[v][f] # NoFile
        PROVE  repository[f] = NoFile /\ (w # v => memory'[w][f] = NoFile)
    <3>1. CASE f \in Unused
      <4>1. \A x \in User : memory[x][f] = NoFile
        BY <3>1, <2>3
      <4>2. v = u
        BY <4>1, <2>4, <2>7
      <4> QED BY <4>1, <4>2, <2>3, <2>4, <3>1
    <3>2. CASE f \notin Unused
      <4>1. memory[v][f] # NoFile
        BY <3>2, <2>1, <2>4, <2>5, <2>7
      <4>2. repository[f] = NoFile /\ (w # v => memory[w][f] = NoFile)
        BY <4>1, <2>7, <1>a DEF Files
      <4> QED BY <4>2, <3>2, <2>1, <2>4, <2>5
    <3> QED BY <3>1, <3>2
  <2> QED BY <2>2, <2>6, <2>7, <1>a DEF Files
<1>7. ASSUME NEW u \in User, NEW F \in SUBSET Needed(u), phase[u] = "writing", Lock(u, F),
             UNCHANGED <<repository, disk>>,
             \/ UNCHANGED <<memory, before>>
             \/ memory' = [memory EXCEPT ![u] = before[u]] /\ before' = [before EXCEPT ![u] = None]
      PROVE  Files'
  <2>1. \A f \in F : repository[f] # NoFile
    <3>1. Needed(u) \subseteq File
      BY <1>a, ModifiedAreFiles DEF Needed
    <3> QED BY <3>1, <1>a DEF Needed, ReadOnly, Files
  <2>2. \A f \in File : owner'[f] # None => repository[f] # NoFile
    BY <2>1, <1>7, <1>a DEF Lock, Files
  <2>3. \A v \in User, f \in File : /\ disk[v][f] # NoFile => memory'[v][f] # NoFile
                                    /\ memory'[v][f] # NoFile => memory[v][f] # NoFile
    BY <1>7, <1>a, <1>b DEF Files
  <2>4. \A v \in User : before'[v] # None => before'[v] = before[v] /\ memory'[v] = memory[v]
    BY <1>7, <1>b
  <2> QED BY <2>2, <2>3, <2>4, <1>7, <1>a DEF Files
<1>8. ASSUME NEW u \in User, CommitTransaction(u) PROVE Files'
  BY <1>8, <1>7 DEF CommitTransaction
<1>9. ASSUME NEW u \in User, CommitFails(u) PROVE Files'
  BY <1>9, <1>7 DEF CommitFails
<1>10. ASSUME NEW u \in User, NEW f \in File, WriteXMLFile(u, f) PROVE Files'
  <2>1. /\ f \in Writable(u) /\ memory[u][f] # NoFile /\ UNCHANGED <<memory, before>>
        /\ disk' = [disk EXCEPT ![u][f] = memory[u][f]]
        /\ repository' = [repository EXCEPT ![f] = memory[u][f]]
        /\ owner' = [owner EXCEPT ![f] = None]
    BY <1>10 DEF WriteXMLFile, Writable
  <2>2. /\ repository'[f] # NoFile /\ \A g \in File : g # f => repository'[g] = repository[g]
        /\ disk'[u][f] = memory[u][f]
        /\ \A v \in User, g \in File : ~(v = u /\ g = f) => disk'[v][g] = disk[v][g]
        /\ \A g \in File : owner'[g] # None => owner[g] # None
    BY <2>1, <1>b DEF View
  <2>3. \A v \in User : v # u => disk[v][f] # NoFile \/ memory[v][f] = NoFile
    BY <2>1, <1>a, OneWriter DEF Writable, ReadOnly
  <2>5. before[u] = None
    BY <1>10 DEF WriteXMLFile, XmlInv, Quiet
  <2>6. \A v \in User, g \in File :
          /\ disk'[v][g] # NoFile => repository'[g] # NoFile /\ memory[v][g] # NoFile
          /\ before[v] # None => /\ disk'[v][g] # NoFile => before[v][g] # NoFile
                                 /\ before[v][g] # NoFile => memory[v][g] # NoFile
    BY <2>1, <2>2, <2>5, <1>a DEF Files
  <2>7. \A v, w \in User, g \in File : disk'[v][g] = NoFile /\ memory[v][g] # NoFile =>
          repository'[g] = NoFile /\ (w # v => memory[w][g] = NoFile)
    BY <2>1, <2>2, <2>3, <1>a DEF Files
  <2>8. \A g \in File : owner'[g] # None => repository'[g] # NoFile
    BY <2>2, <1>a DEF Files
  <2> QED BY <2>1, <2>6, <2>7, <2>8 DEF Files
<1>11. ASSUME NEW u \in User, SignIn(u) \/ OnCommited(u) \/ SaveProject(u) PROVE Files'
  <2>1. CASE SignIn(u)
    BY <2>1, <1>2 DEF SignIn
  <2>2. CASE OnCommited(u)
    BY <2>2, <1>2 DEF OnCommited
  <2>3. CASE SaveProject(u)
    BY <2>3, <1>2 DEF SaveProject, server
  <2> QED BY <1>11, <2>1, <2>2, <2>3
<1>12. ASSUME NEW u \in User, CloseProject(u) \/ Crash(u) PROVE Files'
  BY <1>12, <1>3 DEF CloseProject, Crash
<1>13. ASSUME UNCHANGED vars PROVE Files'
  BY <1>13, <1>2 DEF vars, server, client
<1> QED BY StepCases, <1>1, <1>6, <1>8, <1>9, <1>10, <1>11, <1>12, <1>13

-----------------------------------------------------------------------------
(* What users have in memory *)

LEMMA SoundShrinks ==
  ASSUME NEW view \in View, NEW copy \in View, NEW held, NEW noted, NEW less,
         Sound(view, copy, held, noted), \A f \in File : copy[f] # NoFile => view[f] # NoFile,
         \A f \in File : f \in held /\ view[f] # NoFile => f \in less
  PROVE  Sound(view, copy, less, noted)
<1>1. Consistent(view)
  BY DEF Sound
<1>2. \A f \in File : f \notin less => view[f] = copy[f]
  BY DEF Sound
<1>3. \A m \in Model, p \in File : Within(view, m, p) => view[p] # NoFile
  <2> SUFFICES ASSUME NEW m \in Model, NEW p \in File, Within(view, m, p) PROVE view[p] # NoFile
    OBVIOUS
  <2>1. view[m] # NoFile /\ view[m].parent = p /\ p # None
    BY ModelsFacts, ViewFacts DEF Within
  <2> QED BY <2>1, <1>1 DEF Consistent, Live
<1>4. \A m \in Model, t \in Model : Refers(view, m, t) => view[t] # NoFile
  <2> SUFFICES ASSUME NEW m \in Model, NEW t \in Model, Refers(view, m, t) PROVE view[t] # NoFile
    OBVIOUS
  <2>1. view[m] # NoFile /\ view[m].referred = t /\ t # None
    BY ModelsFacts, ViewFacts DEF Refers
  <2> QED BY <2>1, <1>1 DEF Consistent, Live
<1>5. Model \subseteq File
  BY ViewFacts
<1> QED BY <1>1, <1>2, <1>3, <1>4, <1>5 DEF Sound

LEMMA UserViewsStay ==
  ASSUME NEW u \in User, UserViews(u), disk'[u] = disk[u], memory'[u] = memory[u],
         before'[u] = before[u] \/ before'[u] = None,
         phase'[u] = "saving" <=> phase[u] = "saving",
         Writable(u) \subseteq Writable(u)', Held(u) \subseteq Held(u)', OnLists(u)' \subseteq OnLists(u)
  PROVE  UserViews(u)'
<1>1. CASE phase[u] # "saving"
  <2>1. Sound(memory[u], disk[u], Held(u)', OnLists(u)')
    BY <1>1, SoundStays DEF UserViews
  <2>2. ASSUME before[u] # None PROVE Sound(before[u], disk[u], Writable(u)', OnLists(u)')
    BY <1>1, <2>2, SoundStays DEF UserViews
  <2> QED BY <1>1, <2>1, <2>2 DEF UserViews
<1>2. CASE phase[u] = "saving"
  <2>1. Consistent(memory[u]) /\ \A f \in File : f \notin Writable(u) => memory[u][f] = disk[u][f]
    BY <1>2 DEF UserViews
  <2>2. \A f \in File : f \notin Writable(u)' => memory'[u][f] = disk'[u][f]
    BY <2>1
  <2>3. Consistent(memory'[u])
    BY <2>1
  <2> QED BY <1>2, <2>2, <2>3 DEF UserViews
<1> QED BY <1>1, <1>2

\* What another's step leaves alone.
LEMMA WritableSame ==
  ASSUME NEW u \in User, disk'[u] = disk[u], memory'[u] = memory[u],
         \A f \in File : memory[u][f] # NoFile => (owner'[f] = u <=> owner[f] = u)
  PROVE  Writable(u)' = Writable(u)
BY DEF Writable, ReadOnly

LEMMA HeldSame ==
  ASSUME NEW u \in User, disk'[u] = disk[u], memory'[u] = memory[u], before'[u] = before[u],
         phase'[u] = phase[u],
         \A f \in File : memory[u][f] # NoFile => (owner'[f] = u <=> owner[f] = u)
  PROVE  Writable(u)' = Writable(u) /\ Held(u)' = Held(u)
<1>1. Writable(u)' = Writable(u)
  BY WritableSame
<1>2. WriteSet(u)' = WriteSet(u)
  BY DEF WriteSet
<1> QED BY <1>1, <1>2 DEF Held

LEMMA UserViewsSame ==
  ASSUME NEW u \in User, UserViews(u), disk'[u] = disk[u], memory'[u] = memory[u], before'[u] = before[u],
         phase'[u] = phase[u],
         \A f \in File : memory[u][f] # NoFile => (owner'[f] = u <=> owner[f] = u),
         OnLists(u)' \subseteq OnLists(u)
  PROVE  UserViews(u)'
<1>1. Writable(u)' = Writable(u) /\ Held(u)' = Held(u)
  BY HeldSame
<1> QED BY <1>1, UserViewsStay

\* No list but that of the commit grows.
LEMMA ListsShrink ==
  ASSUME NEW u \in User,
         \A w \in User : \A x \in listed'[w] : \E e \in listed[w] : e.object = x.object
  PROVE  OnLists(u)' \subseteq OnLists(u)
BY DEF OnLists

LEMMA SignInLists ==
  ASSUME Habits = {}, TypeInv, NEW u \in User, SignIn(u)
  PROVE  /\ \A w \in User : \A x \in listed'[w] : \E e \in listed[w] : e.object = x.object
         /\ \A w, v \in User, t \in Model : v # u /\ v \in signed /\ Noticed(w, v, t) => Noticed(w, v, t)'
<1> DEFINE all == [v \in User |-> Later(listed[v], u)]
<1>1. listed' = [all EXCEPT ![u] = @ \ Outdated(@, signed')] /\ signed' = signed \cup {u}
  BY DEF SignIn
<1>2. \A w \in User : listed'[w] = IF w = u THEN all[u] \ Outdated(all[u], signed') ELSE all[w]
  BY <1>1
<1>3. \A w \in User : all[w] = {[e EXCEPT !.later = @ \cup {u}] : e \in listed[w]}
  BY DEF Later
<1> HIDE DEF all
<1>a. listed \in [User -> SUBSET Entry]
  BY XmlTypes
<1>4. ASSUME NEW w \in User, NEW x \in listed'[w] PROVE \E e \in listed[w] : e.object = x.object
  <2>1. x \in all[w]
    BY <1>2
  <2>2. PICK e \in listed[w] : x = [e EXCEPT !.later = @ \cup {u}]
    BY <2>1, <1>3
  <2>3. e \in Entry
    BY <1>a
  <2> QED BY <2>2, <2>3 DEF Entry
<1>5. ASSUME NEW w \in User, NEW v \in User, NEW t \in Model, v # u, v \in signed, Noticed(w, v, t)
      PROVE  Noticed(w, v, t)'
  <2>1. PICK e \in listed[w] : e.object = <<t, "model">> /\ v \notin e.later
    BY <1>5 DEF Noticed
  <2> DEFINE x == [e EXCEPT !.later = @ \cup {u}]
  <2>2. e \in Entry
    BY <1>a
  <2>3. x.object = <<t, "model">> /\ v \notin x.later
    BY <2>1, <2>2, <1>5 DEF Entry
  <2>4. x \in all[w]
    BY <1>3
  <2> HIDE DEF x
  <2>5. ~(signed' \subseteq x.later) => x \notin Outdated(all[w], signed')
    BY DEF Outdated
  <2>6. v \in signed'
    BY <1>1, <1>5
  <2> QED BY <2>3, <2>4, <2>5, <2>6, <1>2 DEF Noticed
<1> QED BY <1>4, <1>5

LEMMA PurgedLists ==
  ASSUME TypeInv, NEW u \in User, CloseProject(u) \/ Crash(u)
  PROVE  /\ \A w \in User : \A x \in listed'[w] : \E e \in listed[w] : e.object = x.object
         /\ Habits = {} => \A w, v \in User, t \in Model :
                             v \in signed /\ Noticed(w, v, t) => Noticed(w, v, t)'
<1>1. CASE Crash(u)
  <2>1. listed' = listed
    BY <1>1 DEF Crash
  <2> QED BY <2>1 DEF Noticed
<1>2. CASE CloseProject(u)
  <2>1. PICK purged \in SUBSET Outdated(listed[u], signed) : listed' = [listed EXCEPT ![u] = @ \ purged]
    BY <1>2 DEF CloseProject
  <2>2. \A w \in User : listed'[w] = IF w = u THEN listed[u] \ purged ELSE listed[w]
    BY <2>1, XmlTypes
  <2>3. \A e \in purged : Habits = {} => signed \subseteq e.later
    BY DEF Outdated
  <2> QED BY <2>2, <2>3 DEF Noticed
<1> QED BY <1>1, <1>2

\* When all others keep what they have, only the views of u are to be looked at.
LEMMA OthersKeepViews ==
  ASSUME Views, TypeInv, NEW u \in User,
         \A v \in User \ {u} :
           /\ disk'[v] = disk[v] /\ memory'[v] = memory[v] /\ before'[v] = before[v] /\ phase'[v] = phase[v]
           /\ \A f \in File : memory[v][f] # NoFile => (owner'[f] = v <=> owner[f] = v)
           /\ OnLists(v)' \subseteq OnLists(v),
         UserViews(u)'
  PROVE  Views'
<1> SUFFICES ASSUME NEW v \in User, v # u PROVE UserViews(v)'
  BY DEF Views
<1>1. UserViews(v)
  BY DEF Views
<1> QED BY <1>1, UserViewsSame

\* Whoever has in memory what he has on disk.
LEMMA FreshViews ==
  ASSUME NEW u \in User, NEW view \in View, Consistent(view), memory'[u] = view, disk'[u] = view,
         before'[u] = None, phase'[u] # "saving"
  PROVE  UserViews(u)'
<1>1. Sound(view, view, Held(u)', OnLists(u)')
  BY SoundSame
<1> QED BY <1>1 DEF UserViews

LEMMA GetLatestViews ==
  ASSUME Habits = {}, XmlInv, NEW u \in User, GetLatestVersion(u)
  PROVE  Views'
<1>1. /\ Final = repository /\ before[u] = None
      /\ disk' = [disk EXCEPT ![u] = repository] /\ memory' = [memory EXCEPT ![u] = repository]
      /\ phase' = [phase EXCEPT ![u] = "opening"]
      /\ UNCHANGED <<repository, owner, listed, signed, stale, before, pending>>
  BY GetLatestFacts
<1>2. /\ repository \in View /\ disk \in [User -> View] /\ memory \in [User -> View]
      /\ phase \in [User -> {"closed", "opening", "open", "writing", "locked", "saving"}]
  BY XmlTypes DEF XmlInv
<1>3. UserViews(u)'
  <2>1. Consistent(repository)
    BY <1>1 DEF XmlInv
  <2>2. memory'[u] = repository /\ disk'[u] = repository /\ before'[u] = None /\ phase'[u] = "opening"
    BY <1>1, <1>2
  <2> QED BY <2>1, <2>2, <1>2, FreshViews
<1>4. \A v \in User \ {u} :
        /\ disk'[v] = disk[v] /\ memory'[v] = memory[v] /\ before'[v] = before[v] /\ phase'[v] = phase[v]
        /\ \A f \in File : memory[v][f] # NoFile => (owner'[f] = v <=> owner[f] = v)
  BY <1>1, <1>2
<1>5. \A v \in User : OnLists(v)' \subseteq OnLists(v)
  BY <1>1 DEF OnLists
<1> QED BY <1>3, <1>4, <1>5, OthersKeepViews DEF XmlInv

LEMMA LeaveViews ==
  ASSUME XmlInv, NEW u \in User, CloseProject(u) \/ Crash(u)
  PROVE  Views'
<1>1. /\ disk' = [disk EXCEPT ![u] = Nothing] /\ memory' = [memory EXCEPT ![u] = Nothing]
      /\ before' = [before EXCEPT ![u] = None] /\ phase' = [phase EXCEPT ![u] = "closed"]
      /\ owner' = owner
  BY DEF CloseProject, Crash, Leave
<1>2. /\ disk \in [User -> View] /\ memory \in [User -> View] /\ before \in [User -> View \cup {None}]
      /\ phase \in [User -> {"closed", "opening", "open", "writing", "locked", "saving"}]
  BY XmlTypes DEF XmlInv
<1>3. UserViews(u)'
  <2>1. Nothing \in View /\ Consistent(Nothing)
    BY ViewFacts DEF Nothing, View, Consistent
  <2>2. memory'[u] = Nothing /\ disk'[u] = Nothing /\ before'[u] = None /\ phase'[u] = "closed"
    BY <1>1, <1>2
  <2> QED BY <2>1, <2>2, FreshViews
<1>4. \A v \in User \ {u} :
        /\ disk'[v] = disk[v] /\ memory'[v] = memory[v] /\ before'[v] = before[v] /\ phase'[v] = phase[v]
        /\ \A f \in File : memory[v][f] # NoFile => (owner'[f] = v <=> owner[f] = v)
  BY <1>1, <1>2
<1>5. \A v \in User : OnLists(v)' \subseteq OnLists(v)
  BY PurgedLists, ListsShrink DEF XmlInv
<1> QED BY <1>3, <1>4, <1>5, OthersKeepViews DEF XmlInv

LEMMA SignInViews ==
  ASSUME Habits = {}, XmlInv, NEW u \in User, SignIn(u)
  PROVE  Views'
<1>1. /\ phase[u] = "opening" /\ phase' = [phase EXCEPT ![u] = "open"]
      /\ UNCHANGED <<repository, owner, disk, stale, memory, before>>
  BY SignInFacts
<1>2. phase \in [User -> {"closed", "opening", "open", "writing", "locked", "saving"}]
  BY XmlTypes DEF XmlInv
<1>3. \A v \in User : OnLists(v)' \subseteq OnLists(v)
  BY SignInLists, ListsShrink DEF XmlInv
<1>4. \A v \in User : UserViews(v)
  BY DEF XmlInv, Views
<1>5. \A v \in User \ {u} :
        /\ disk'[v] = disk[v] /\ memory'[v] = memory[v] /\ before'[v] = before[v] /\ phase'[v] = phase[v]
        /\ \A f \in File : memory[v][f] # NoFile => (owner'[f] = v <=> owner[f] = v)
  BY <1>1, <1>2
<1>6. UserViews(u)'
  <2>1. phase'[u] = "open"
    BY <1>1, <1>2
  <2>2. Held(u) \subseteq Held(u)' /\ Writable(u) \subseteq Writable(u)'
    BY <1>1, <2>1 DEF Held, WriteSet, Writable, ReadOnly
  <2>3. /\ disk'[u] = disk[u] /\ memory'[u] = memory[u] /\ before'[u] = before[u]
        /\ phase'[u] = "saving" <=> phase[u] = "saving"
    BY <1>1, <2>1
  <2> QED BY <2>2, <2>3, <1>3, <1>4, UserViewsStay
<1> QED BY <1>3, <1>5, <1>6, OthersKeepViews DEF XmlInv

LEMMA ChangeViews ==
  ASSUME XmlInv, NEW u \in User, Change(u)
  PROVE  Views'
<1>1. PICK new \in View :
           /\ Write(u, new)
           /\ \A f \in File : memory[u][f] # NoFile => new[f] # NoFile
           /\ Sound(new, disk[u], Writable(u) \cup Modified(memory[u], new), OnLists(u))
  BY ChangeIsSound DEF XmlInv
<1>2. /\ phase[u] = "open"
      /\ memory' = [memory EXCEPT ![u] = new] /\ before' = [before EXCEPT ![u] = memory[u]]
      /\ phase' = [phase EXCEPT ![u] = "writing"] /\ UNCHANGED <<owner, listed, disk>>
  BY <1>1 DEF Write, server
<1>3. /\ memory \in [User -> View] /\ before \in [User -> View \cup {None}]
      /\ phase \in [User -> {"closed", "opening", "open", "writing", "locked", "saving"}]
  BY XmlTypes DEF XmlInv
<1>4. \A v \in User : OnLists(v)' = OnLists(v)
  BY <1>2 DEF OnLists
<1>5. memory'[u] = new /\ before'[u] = memory[u] /\ phase'[u] = "writing" /\ disk'[u] = disk[u]
  BY <1>2, <1>3
<1>6. UserViews(u)'
  <2>1. Writable(u) \subseteq Writable(u)'
    BY <1>1, <1>2, <1>5 DEF Writable, ReadOnly
  <2>2. WriteSet(u)' = Modified(memory[u], new)
    BY <1>5 DEF WriteSet
  <2>3. Writable(u) \cup Modified(memory[u], new) \subseteq Held(u)'
    BY <2>1, <2>2 DEF Held
  <2>4. Sound(new, disk[u], Held(u)', OnLists(u)')
    BY <1>1, <1>4, <2>3, SoundStays
  <2>5. Sound(memory[u], disk[u], Writable(u), OnLists(u))
    BY <1>2 DEF XmlInv, Views, UserViews, Held, WriteSet
  <2>6. Sound(memory[u], disk[u], Writable(u)', OnLists(u)')
    BY <2>5, <2>1, <1>4, SoundStays
  <2> QED BY <2>4, <2>6, <1>5 DEF UserViews
<1>7. \A v \in User \ {u} :
        /\ disk'[v] = disk[v] /\ memory'[v] = memory[v] /\ before'[v] = before[v] /\ phase'[v] = phase[v]
        /\ \A f \in File : memory[v][f] # NoFile => (owner'[f] = v <=> owner[f] = v)
  BY <1>2, <1>3
<1> QED BY <1>4, <1>6, <1>7, OthersKeepViews DEF XmlInv

\* What a commit locks: nobody else loses or gets anything.
LEMMA CommitLocks ==
  ASSUME XmlInv, NEW u \in User, CommitTransaction(u) \/ CommitFails(u)
  PROVE  /\ phase[u] = "writing" /\ UNCHANGED <<repository, disk, listed, stale, signed>>
         /\ before[u] \in View /\ before[u] # None
         /\ \A v \in User, f \in File : owner[f] = v => owner'[f] = v
         /\ \A v \in User \ {u}, f \in File : owner'[f] = v <=> owner[f] = v
<1>1. PICK F \in SUBSET File : (\A f \in F : Lockable(u, f)) /\ Lock(u, F)
  <2>1. Needed(u) \subseteq File
    BY ModifiedAreFiles DEF XmlInv, Needed
  <2>2. CASE CommitTransaction(u)
    BY <2>1, <2>2 DEF CommitTransaction
  <2>3. CASE CommitFails(u)
    <3>1. {f \in Needed(u) : Lockable(u, f)} \in SUBSET File
      BY <2>1
    <3> QED BY <3>1, <2>3 DEF CommitFails
  <2> QED BY <2>2, <2>3
<1>2. phase[u] = "writing" /\ UNCHANGED <<repository, disk, listed, stale, signed>>
  BY DEF CommitTransaction, CommitFails
<1>3. \A v \in User : v # None
  BY XmlAssumption
<1>4. before[u] \in View /\ before[u] # None
  BY <1>2, XmlTypes DEF XmlInv
<1> QED BY <1>1, <1>2, <1>3, <1>4 DEF Lock, Lockable

\* A commit that succeeds has locked what it changes.
LEMMA CommitHolds ==
  ASSUME XmlInv, NEW u \in User, CommitTransaction(u)
  PROVE  Held(u) \subseteq Writable(u)' /\ Writable(u) \subseteq Writable(u)' /\ Held(u)' = Writable(u)'
<1>1. /\ phase[u] = "writing" /\ Lock(u, Needed(u)) /\ UNCHANGED <<disk, memory>>
      /\ phase' = [phase EXCEPT ![u] = IF pending[u] = {} THEN "open" ELSE "locked"]
  BY DEF CommitTransaction
<1>2. \A f \in File : owner[f] = u => owner'[f] = u
  BY CommitLocks
<1>3. Writable(u) \subseteq Writable(u)'
  BY <1>1, <1>2 DEF Writable, ReadOnly
<1>4. Modified(before[u], memory[u]) \subseteq Writable(u)'
  <2> SUFFICES ASSUME NEW f \in Modified(before[u], memory[u]) PROVE f \in Writable(u)'
    OBVIOUS
  <2>1. f \in File
    BY ModifiedAreFiles DEF XmlInv
  <2>2. memory[u][f] # NoFile
    <3>1. CASE before[u][f] # memory[u][f]
      <4>1. before[u] # None
        BY <1>1, XmlTypes DEF XmlInv
      <4> QED BY <2>1, <3>1, <4>1 DEF XmlInv, Files
    <3>2. CASE f \in Targets(before[u], memory[u])
      <4>1. PICK m \in Models(memory[u]) : memory[u][m].referred = f /\ f # None
        BY <3>2 DEF Targets
      <4>2. Consistent(memory[u])
        BY <1>1 DEF XmlInv, Views, UserViews, Sound
      <4>3. m \in Model /\ memory[u][m] # NoFile
        BY <4>1, XmlTypes, ModelsFacts DEF XmlInv
      <4> QED BY <4>1, <4>2, <4>3 DEF Consistent, Live
    <3> QED BY <3>1, <3>2 DEF Modified
  <2>3. ReadOnly(u, f) => owner'[f] = u
    BY <2>1, <1>1 DEF Needed, Lock
  <2> QED BY <2>1, <2>2, <2>3, <1>1, <1>2 DEF Writable, ReadOnly
<1>5. phase'[u] # "writing"
  BY <1>1, XmlTypes DEF XmlInv
<1> QED BY <1>1, <1>3, <1>4, <1>5 DEF Held, WriteSet

LEMMA CommitViews ==
  ASSUME XmlInv, NEW u \in User, CommitTransaction(u) \/ CommitFails(u)
  PROVE  Views'
<1>1. /\ phase[u] = "writing" /\ UNCHANGED <<repository, disk, listed, stale, signed>>
      /\ before[u] \in View /\ before[u] # None
      /\ \A v \in User, f \in File : owner[f] = v => owner'[f] = v
      /\ \A v \in User \ {u}, f \in File : owner'[f] = v <=> owner[f] = v
  BY CommitLocks
<1>2. /\ memory \in [User -> View] /\ before \in [User -> View \cup {None}] /\ disk \in [User -> View]
      /\ phase \in [User -> {"closed", "opening", "open", "writing", "locked", "saving"}]
  BY XmlTypes DEF XmlInv
<1>3. \A v \in User : OnLists(v)' = OnLists(v)
  BY <1>1 DEF OnLists
<1>4. UserViews(u)
  BY DEF XmlInv, Views
<1>5. CASE CommitTransaction(u)
  <2>1. /\ UNCHANGED <<memory, before>>
        /\ phase' = [phase EXCEPT ![u] = IF pending[u] = {} THEN "open" ELSE "locked"]
    BY <1>5 DEF CommitTransaction
  <2>2. UserViews(u)'
    <3>1. Held(u) \subseteq Held(u)' /\ Writable(u) \subseteq Writable(u)'
      BY <1>5, CommitHolds
    <3>2. phase'[u] # "saving" /\ phase[u] # "saving"
      BY <1>1, <1>2, <2>1
    <3> QED BY <1>1, <1>3, <1>4, <2>1, <3>1, <3>2, UserViewsStay
  <2>3. \A v \in User \ {u} : phase'[v] = phase[v]
    BY <2>1, <1>2
  <2> QED BY <1>1, <1>3, <2>1, <2>2, <2>3, OthersKeepViews DEF XmlInv
<1>6. CASE CommitFails(u)
  <2>1. /\ memory' = [memory EXCEPT ![u] = before[u]] /\ before' = [before EXCEPT ![u] = None]
        /\ phase' = [phase EXCEPT ![u] = "open"]
    BY <1>6 DEF CommitFails
  <2>2. memory'[u] = before[u] /\ before'[u] = None /\ phase'[u] = "open" /\ disk'[u] = disk[u]
    BY <1>1, <1>2, <2>1
  <2>3. UserViews(u)'
    <3>1. Sound(before[u], disk[u], Writable(u), OnLists(u))
      BY <1>1, <1>4 DEF UserViews
    <3>2. \A f \in File : disk[u][f] # NoFile => before[u][f] # NoFile
      BY <1>1 DEF XmlInv, Files
    <3>3. \A f \in File : f \in Writable(u) /\ before[u][f] # NoFile => f \in Writable(u)'
      BY <1>1, <2>2 DEF Writable, ReadOnly
    <3>4. Sound(before[u], disk[u], Writable(u)', OnLists(u)')
      BY <1>1, <1>2, <1>3, <3>1, <3>2, <3>3, SoundShrinks
    <3>5. Held(u)' = Writable(u)'
      BY <2>2 DEF Held, WriteSet
    <3> QED BY <2>2, <3>4, <3>5 DEF UserViews
  <2>4. \A v \in User \ {u} : phase'[v] = phase[v] /\ memory'[v] = memory[v] /\ before'[v] = before[v]
    BY <2>1, <1>2
  <2> QED BY <1>1, <1>3, <2>3, <2>4, OthersKeepViews DEF XmlInv
<1> QED BY <1>5, <1>6

LEMMA OnCommitedFacts ==
  ASSUME Habits = {}, XmlInv, NEW u \in User, OnCommited(u)
  PROVE  /\ phase[u] = "locked" /\ \A v \in User : phase[v] # "writing" /\ Held(v) = Writable(v)
         /\ UNCHANGED <<repository, owner, signed, disk, stale, memory, before>>
         /\ phase' = [phase EXCEPT ![u] = "open"] /\ pending' = [pending EXCEPT ![u] = {}]
         /\ \A w \in User : w # u => listed'[w] = listed[w]
         /\ listed'[u] = {e \in listed[u] : \A n \in pending[u] : n.object # e.object} \cup pending[u]
<1>1. /\ phase[u] = "locked" /\ Turn(u)
      /\ UNCHANGED <<repository, owner, signed, disk, stale, memory, before>>
      /\ phase' = [phase EXCEPT ![u] = "open"] /\ pending' = [pending EXCEPT ![u] = {}]
      /\ listed' = [listed EXCEPT ![u] = {e \in @ : \A n \in pending[u] : n.object # e.object} \cup pending[u]]
  BY DEF OnCommited
<1>2. \A v \in User : phase[v] # "writing"
  BY <1>1, TurnFacts
<1>3. \A v \in User : Held(v) = Writable(v)
  BY <1>2 DEF Held, WriteSet
<1>4. listed \in [User -> SUBSET Entry]
  BY XmlTypes DEF XmlInv
<1>5. \A w \in User : w # u => listed'[w] = listed[w]
  BY <1>1, <1>4
<1>6. listed'[u] = {e \in listed[u] : \A n \in pending[u] : n.object # e.object} \cup pending[u]
  BY <1>1, <1>4
<1> QED BY <1>1, <1>2, <1>3, <1>5, <1>6

\* What somebody else announces is not what a user has deleted.
LEMMA SoundAfterCommit ==
  ASSUME Habits = {}, XmlInv, NEW u \in User, OnCommited(u), NEW v \in User, v # u, NEW view \in View,
         Sound(view, disk[v], Writable(v), OnLists(v))
  PROVE  Sound(view, disk[v], Writable(v), OnLists(v)')
<1>1. ASSUME NEW t \in Model, Live(disk[v], t), ~Live(view, t), <<t, "model">> \in OnLists(v)' PROVE FALSE
  <2>1. <<t, "model">> \notin OnLists(v)
    BY <1>1 DEF Sound
  <2>2. PICK w \in User \ {v} : \E e \in listed'[w] : e.object = <<t, "model">>
    BY <1>1 DEF OnLists
  <2>3. \A e \in listed[w] : e.object # <<t, "model">>
    BY <2>1 DEF OnLists
  <2>4. Pending(u, t)
    BY <2>2, <2>3, OnCommitedFacts DEF Pending
  <2>5. t \in Writable(u)
    BY <2>4, OnCommitedFacts DEF XmlInv, Announced
  <2>6. t \in Writable(v)
    <3>1. view[t] # disk[v][t]
      BY <1>1 DEF Live
    <3> QED BY <3>1, ViewFacts DEF Sound
  <2> QED BY <2>5, <2>6, OneWriter, ViewFacts DEF XmlInv
<1> QED BY <1>1 DEF Sound

LEMMA OnCommitedViews ==
  ASSUME Habits = {}, XmlInv, NEW u \in User, OnCommited(u)
  PROVE  Views'
<1>1. /\ phase[u] = "locked" /\ \A v \in User : phase[v] # "writing" /\ Held(v) = Writable(v)
      /\ UNCHANGED <<repository, owner, signed, disk, stale, memory, before>>
      /\ phase' = [phase EXCEPT ![u] = "open"]
      /\ \A w \in User : w # u => listed'[w] = listed[w]
  BY OnCommitedFacts
<1>2. /\ phase \in [User -> {"closed", "opening", "open", "writing", "locked", "saving"}]
      /\ \A v \in User : memory[v] \in View /\ (before[v] # None => before[v] \in View)
  BY XmlTypes DEF XmlInv
<1>3. \A v \in User : phase'[v] # "writing" /\ (phase'[v] = "saving" <=> phase[v] = "saving")
  BY <1>1, <1>2
<1>4. \A v \in User : Writable(v)' = Writable(v) /\ Held(v)' = Writable(v)
  BY <1>1, <1>3 DEF Held, WriteSet, Writable, ReadOnly
<1>5. ASSUME NEW v \in User PROVE UserViews(v)'
  <2>1. UserViews(v)
    BY DEF XmlInv, Views
  <2>2. CASE v = u
    <3>1. OnLists(v)' \subseteq OnLists(v)
      BY <2>2, <1>1 DEF OnLists
    <3>2. Held(v) \subseteq Held(v)'
      BY <1>1, <1>4
    <3> QED BY <2>1, <3>1, <3>2, <1>1, <1>3, <1>4, UserViewsStay
  <2>3. CASE v # u /\ phase[v] # "saving"
    <3>1. Sound(memory[v], disk[v], Writable(v), OnLists(v)')
      BY <2>1, <2>3, <1>1, <1>2, SoundAfterCommit DEF UserViews
    <3>2. before[v] # None => Sound(before[v], disk[v], Writable(v), OnLists(v)')
      BY <2>1, <2>3, <1>1, <1>2, SoundAfterCommit DEF UserViews
    <3> QED BY <3>1, <3>2, <2>3, <1>1, <1>3, <1>4 DEF UserViews
  <2>4. CASE phase[v] = "saving"
    <3>1. Consistent(memory[v]) /\ \A f \in File : f \notin Writable(v) => memory[v][f] = disk[v][f]
      BY <2>1, <2>4 DEF UserViews
    <3>2. Consistent(memory'[v]) /\ \A f \in File : f \notin Writable(v)' => memory'[v][f] = disk'[v][f]
      BY <3>1, <1>1, <1>4
    <3> QED BY <3>2, <2>4, <1>3 DEF UserViews
  <2> QED BY <2>2, <2>3, <2>4
<1> QED BY <1>5 DEF Views

LEMMA SaveProjectFacts ==
  ASSUME Habits = {}, TypeInv, NEW u \in User, SaveProject(u)
  PROVE  /\ phase[u] = "open" /\ phase' = [phase EXCEPT ![u] = "saving"]
         /\ before' = [before EXCEPT ![u] = None]
         /\ UNCHANGED <<repository, owner, listed, signed, disk, stale, memory, pending>>
         /\ Held(u) = Writable(u) /\ Held(u)' = Writable(u)
         /\ \A v \in User : Writable(v)' = Writable(v)
         /\ \A v \in User \ {u} : phase'[v] = phase[v] /\ before'[v] = before[v]
<1>1. /\ phase[u] = "open" /\ phase' = [phase EXCEPT ![u] = "saving"]
      /\ before' = [before EXCEPT ![u] = None]
      /\ UNCHANGED <<repository, owner, listed, signed, disk, stale, memory, pending>>
  BY DEF SaveProject, server
<1>2. phase'[u] = "saving" /\ \A v \in User \ {u} : phase'[v] = phase[v] /\ before'[v] = before[v]
  BY <1>1, XmlTypes
<1>3. \A v \in User : Writable(v)' = Writable(v)
  BY <1>1 DEF Writable, ReadOnly
<1> QED BY <1>1, <1>2, <1>3 DEF Held, WriteSet

LEMMA SaveViews ==
  ASSUME Habits = {}, XmlInv, NEW u \in User, SaveProject(u)
  PROVE  Views'
<1>1. /\ phase[u] = "open" /\ phase' = [phase EXCEPT ![u] = "saving"]
      /\ before' = [before EXCEPT ![u] = None]
      /\ UNCHANGED <<repository, owner, listed, signed, disk, stale, memory, pending>>
      /\ Held(u) = Writable(u) /\ Held(u)' = Writable(u)
      /\ \A v \in User : Writable(v)' = Writable(v)
      /\ \A v \in User \ {u} : phase'[v] = phase[v] /\ before'[v] = before[v]
  BY SaveProjectFacts DEF XmlInv
<1>2. phase'[u] = "saving"
  BY <1>1, XmlTypes DEF XmlInv
<1>3. UserViews(u)'
  <2>1. Sound(memory[u], disk[u], Writable(u), OnLists(u))
    BY <1>1 DEF XmlInv, Views, UserViews
  <2>2. Consistent(memory[u]) /\ \A f \in File : f \notin Writable(u) => memory[u][f] = disk[u][f]
    BY <2>1 DEF Sound
  <2>3. Consistent(memory'[u]) /\ \A f \in File : f \notin Writable(u)' => memory'[u][f] = disk'[u][f]
    BY <2>2, <1>1
  <2> QED BY <2>3, <1>2 DEF UserViews
<1>4. \A v \in User : OnLists(v)' \subseteq OnLists(v)
  BY <1>1 DEF OnLists
<1> QED BY <1>1, <1>3, <1>4, OthersKeepViews DEF XmlInv

LEMMA WriteFileFacts ==
  ASSUME XmlInv, NEW u \in User, NEW f \in File, WriteXMLFile(u, f)
  PROVE  /\ phase[u] = "saving" /\ f \in Writable(u) /\ memory[u][f] # NoFile
         /\ UNCHANGED <<listed, signed, memory, before, pending>> /\ before[u] = None
         /\ repository'[f] = memory[u][f] /\ \A g \in File : g # f => repository'[g] = repository[g]
         /\ disk'[u][f] = memory[u][f] /\ \A g \in File : g # f => disk'[u][g] = disk[u][g]
         /\ \A v \in User : v # u => disk'[v] = disk[v] /\ phase'[v] = phase[v]
         /\ owner'[f] = None /\ \A g \in File : g # f => owner'[g] = owner[g]
         /\ phase'[u] = IF Writable(u) = {f} THEN "open" ELSE "saving"
         /\ stale' = [v \in User |-> IF v # u /\ disk[v][f] # NoFile /\ memory[u][f] # repository[f]
                                     THEN stale[v] \cup {f} ELSE stale[v]]
         /\ Writable(u)' = Writable(u) \ {f}
         /\ \A v \in User : v # u => f \notin Writable(v) /\ Writable(v)' = Writable(v) /\ Held(v)' = Held(v)
<1>1. /\ phase[u] = "saving" /\ f \in Writable(u) /\ memory[u][f] # NoFile
      /\ UNCHANGED <<listed, signed, memory, before, pending>>
      /\ disk' = [disk EXCEPT ![u][f] = memory[u][f]]
      /\ repository' = [repository EXCEPT ![f] = memory[u][f]]
      /\ owner' = [owner EXCEPT ![f] = None]
      /\ phase' = [phase EXCEPT ![u] = IF Writable(u) = {f} THEN "open" ELSE "saving"]
      /\ stale' = [v \in User |-> IF v # u /\ disk[v][f] # NoFile /\ memory[u][f] # repository[f]
                                  THEN stale[v] \cup {f} ELSE stale[v]]
  BY DEF WriteXMLFile, Writable
<1>2. /\ repository \in View /\ owner \in [File -> User \cup {None}] /\ disk \in [User -> View]
      /\ phase \in [User -> {"closed", "opening", "open", "writing", "locked", "saving"}]
      /\ \A v \in User : v # None
  BY XmlTypes DEF XmlInv
<1>3. before[u] = None
  BY <1>1 DEF XmlInv, Quiet
<1>4. /\ repository'[f] = memory[u][f] /\ \A g \in File : g # f => repository'[g] = repository[g]
      /\ disk'[u][f] = memory[u][f] /\ \A g \in File : g # f => disk'[u][g] = disk[u][g]
      /\ \A v \in User : v # u => disk'[v] = disk[v] /\ phase'[v] = phase[v]
      /\ owner'[f] = None /\ \A g \in File : g # f => owner'[g] = owner[g]
      /\ phase'[u] = IF Writable(u) = {f} THEN "open" ELSE "saving"
  BY <1>1, <1>2 DEF View
<1>5. Writable(u)' = Writable(u) \ {f}
  <2>1. f \notin Writable(u)'
    BY <1>1, <1>2, <1>4 DEF Writable, ReadOnly
  <2>2. \A g \in File : g # f => (g \in Writable(u)' <=> g \in Writable(u))
    BY <1>1, <1>4 DEF Writable, ReadOnly
  <2> QED BY <2>1, <2>2 DEF Writable
<1>6. ASSUME NEW v \in User, v # u PROVE f \notin Writable(v) /\ Writable(v)' = Writable(v) /\ Held(v)' = Held(v)
  <2>1. f \notin Writable(v)
    BY <1>1, <1>6, OneWriter DEF XmlInv
  <2>2. memory[v][f] # NoFile => owner[f] # v
    BY <2>1 DEF Writable, ReadOnly
  <2>3. \A g \in File : memory[v][g] # NoFile => (owner'[g] = v <=> owner[g] = v)
    BY <2>2, <1>2, <1>4
  <2> QED BY <2>1, <2>3, <1>1, <1>4, <1>6, HeldSame
<1> QED BY <1>1, <1>3, <1>4, <1>5, <1>6

LEMMA WriteFileViews ==
  ASSUME XmlInv, NEW u \in User, NEW f \in File, WriteXMLFile(u, f)
  PROVE  Views'
<1> USE WriteFileFacts
<1>1. \A v \in User : OnLists(v)' \subseteq OnLists(v)
  BY DEF OnLists
<1>2. ASSUME NEW v \in User, v # u PROVE UserViews(v)'
  <2>1. UserViews(v)
    BY DEF XmlInv, Views
  <2> QED BY <2>1, <1>1, <1>2, UserViewsStay
<1>3. UserViews(u)'
  <2>1. Consistent(memory[u]) /\ \A g \in File : g \notin Writable(u) => memory[u][g] = disk[u][g]
    BY DEF XmlInv, Views, UserViews
  <2>2. \A g \in File : g \notin Writable(u)' => memory[u][g] = disk'[u][g]
    BY <2>1
  <2>3. CASE Writable(u) = {f}
    <3>1. \A g \in File : memory[u][g] = disk'[u][g]
      BY <2>2, <2>3
    <3>2. memory[u] \in View /\ disk'[u] \in View
      <4>1. TypeInv'
        BY TypeStep DEF XmlInv, Next, Step
      <4>2. memory \in [User -> View] /\ disk' \in [User -> View]
        BY <4>1, XmlTypes DEF XmlInv, TypeInv, TypeOK
      <4> QED BY <4>2
    <3>3. disk'[u] = memory[u]
      BY <3>1, <3>2 DEF View
    <3>4. memory'[u] = memory[u] /\ before'[u] = None /\ phase'[u] # "saving"
      BY <2>3
    <3> QED BY <2>1, <3>2, <3>3, <3>4, FreshViews
  <2>4. CASE Writable(u) # {f}
    <3>1. phase'[u] = "saving" /\ memory'[u] = memory[u]
      BY <2>4
    <3>2. Consistent(memory'[u])
      BY <2>1, <3>1
    <3> QED BY <2>2, <3>1, <3>2 DEF UserViews
  <2> QED BY <2>3, <2>4
<1> QED BY <1>2, <1>3 DEF Views

LEMMA ViewsStep ==
  ASSUME Habits = {}, XmlInv, [Next]_vars
  PROVE  Views'
<1>1. ASSUME UNCHANGED vars PROVE Views'
  <2>1. UNCHANGED <<repository, owner, listed, disk, memory, before, phase>>
    BY <1>1 DEF vars, server, client
  <2>2. \A v \in User : Writable(v)' = Writable(v) /\ Held(v)' = Held(v) /\ OnLists(v)' = OnLists(v)
    BY <2>1 DEF Held, WriteSet, Writable, ReadOnly, OnLists
  <2>3. \A v \in User : UserViews(v)
    BY DEF XmlInv, Views
  <2>4. ASSUME NEW v \in User PROVE UserViews(v)'
    BY <2>1, <2>2, <2>3, UserViewsStay
  <2> QED BY <2>4 DEF Views
<1> QED BY StepCases, <1>1, GetLatestViews, SignInViews, LeaveViews, ChangeViews, CommitViews,
           OnCommitedViews, SaveViews, WriteFileViews

-----------------------------------------------------------------------------
(* What is announced *)

\* Nothing that v has to know of is forgotten while v is there.
LEMMA TellsStays ==
  ASSUME XmlInv, NEW u \in User, memory'[u] = memory[u], disk'[u] = disk[u], pending'[u] = pending[u],
         before'[u] = before[u], phase'[u] = phase[u], NEW v \in User, u # v, Active(v),
         \A t \in Model : Noticed(u, v, t) => Noticed(u, v, t)'
  PROVE  Tells(u, v)'
<1>1. Tells(u, v)
  BY DEF XmlInv, Announced
<1>2. \A t : Pending(u, t)' <=> Pending(u, t)
  BY DEF Pending
<1> QED BY <1>1, <1>2 DEF Tells

\* Who has in memory what he has on disk has nothing to tell.
LEMMA TellsNothing ==
  ASSUME NEW u \in User, NEW v \in User, memory'[u] = disk'[u], phase'[u] # "writing"
  PROVE  Tells(u, v)'
BY DEF Tells

LEMMA PendingIsHeld ==
  ASSUME XmlInv, NEW u \in User, NEW t \in Model, Pending(u, t)
  PROVE  t \in Held(u)
BY DEF XmlInv, Announced

LEMMA GetLatestAnnounced ==
  ASSUME Habits = {}, XmlInv, NEW w \in User, GetLatestVersion(w)
  PROVE  Announced'
<1>1. /\ phase[w] = "closed"
      /\ disk' = [disk EXCEPT ![w] = repository] /\ memory' = [memory EXCEPT ![w] = repository]
      /\ phase' = [phase EXCEPT ![w] = "opening"]
      /\ UNCHANGED <<repository, owner, listed, signed, stale, before, pending>>
  BY GetLatestFacts
<1>2. /\ disk \in [User -> View] /\ memory \in [User -> View]
      /\ phase \in [User -> {"closed", "opening", "open", "writing", "locked", "saving"}]
      /\ \A u \in User : pending[u] # {} => phase[u] \in {"writing", "locked"}
  BY XmlTypes DEF XmlInv
<1>3. ASSUME NEW u \in User, NEW t \in Model, Pending(u, t)' PROVE t \in Held(u)'
  <2>1. Pending(u, t) /\ u # w
    BY <1>1, <1>2, <1>3 DEF Pending
  <2>2. Held(u)' = Held(u)
    BY <2>1, <1>1, <1>2, HeldSame
  <2> QED BY <2>1, <2>2, PendingIsHeld
<1>4. ASSUME NEW u \in User, NEW v \in User, u # v, Active(v)' PROVE Tells(u, v)'
  <2>1. v # w /\ Active(v)
    BY <1>1, <1>2, <1>4 DEF Active
  <2>2. CASE u = w
    BY <2>2, <1>1, <1>2, TellsNothing
  <2>3. CASE u # w
    <3>1. \A t \in Model : Noticed(u, v, t) => Noticed(u, v, t)'
      BY <1>1 DEF Noticed
    <3> QED BY <2>1, <2>3, <3>1, <1>1, <1>2, <1>4, TellsStays
  <2> QED BY <2>2, <2>3
<1> QED BY <1>3, <1>4 DEF Announced

LEMMA SignInAnnounced ==
  ASSUME Habits = {}, XmlInv, NEW w \in User, SignIn(w)
  PROVE  Announced'
<1>1. /\ phase[w] = "opening" /\ \A v \in User : pending[v] = {} /\ pending'[v] = {}
      /\ phase' = [phase EXCEPT ![w] = "open"] /\ signed' = signed \cup {w}
      /\ UNCHANGED <<repository, owner, disk, stale, memory, before>>
  BY SignInFacts
<1>2. phase \in [User -> {"closed", "opening", "open", "writing", "locked", "saving"}]
  BY XmlTypes DEF XmlInv
<1>3. \A u \in User : \A t : ~Pending(u, t)'
  BY <1>1 DEF Pending
<1>4. ASSUME NEW u \in User, NEW v \in User, u # v, Active(v)' PROVE Tells(u, v)'
  <2>1. CASE v = w
    <3>1. memory[u] = disk[u] /\ phase[u] \notin {"writing", "locked"}
      BY <2>1, <1>1, <1>4 DEF XmlInv, Quiet
    <3> QED BY <3>1, <2>1, <1>1, <1>2, <1>4, TellsNothing
  <2>2. CASE u = w
    <3>1. memory[u] = disk[u]
      BY <2>2, <1>1 DEF XmlInv, Quiet
    <3> QED BY <3>1, <2>2, <1>1, <1>2, TellsNothing
  <2>3. CASE v # w /\ u # w
    <3>1. Active(v) /\ v \in signed
      BY <2>3, <1>1, <1>2, <1>4 DEF Active, XmlInv, Quiet
    <3>2. \A t \in Model : Noticed(u, v, t) => Noticed(u, v, t)'
      BY <2>3, <3>1, SignInLists DEF XmlInv
    <3> QED BY <2>3, <3>1, <3>2, <1>1, <1>2, <1>4, TellsStays
  <2> QED BY <2>1, <2>2, <2>3
<1> QED BY <1>3, <1>4 DEF Announced

LEMMA LeaveAnnounced ==
  ASSUME Habits = {}, XmlInv, NEW w \in User, CloseProject(w) \/ Crash(w)
  PROVE  Announced'
<1>1. /\ disk' = [disk EXCEPT ![w] = Nothing] /\ memory' = [memory EXCEPT ![w] = Nothing]
      /\ before' = [before EXCEPT ![w] = None] /\ phase' = [phase EXCEPT ![w] = "closed"]
      /\ pending' = [pending EXCEPT ![w] = {}] /\ owner' = owner
  BY DEF CloseProject, Crash, Leave
<1>2. /\ disk \in [User -> View] /\ memory \in [User -> View] /\ before \in [User -> View \cup {None}]
      /\ pending \in [User -> SUBSET Entry]
      /\ phase \in [User -> {"closed", "opening", "open", "writing", "locked", "saving"}]
  BY XmlTypes DEF XmlInv
<1>3. ASSUME NEW u \in User, NEW t \in Model, Pending(u, t)' PROVE t \in Held(u)'
  <2>1. Pending(u, t) /\ u # w
    BY <1>1, <1>2, <1>3 DEF Pending
  <2>2. Held(u)' = Held(u)
    BY <2>1, <1>1, <1>2, HeldSame
  <2> QED BY <2>1, <2>2, PendingIsHeld
<1>4. ASSUME NEW u \in User, NEW v \in User, u # v, Active(v)' PROVE Tells(u, v)'
  <2>1. v # w /\ Active(v) /\ v \in signed
    BY <1>1, <1>2, <1>4 DEF Active, XmlInv, Quiet
  <2>2. CASE u = w
    BY <2>2, <1>1, <1>2, TellsNothing
  <2>3. CASE u # w
    <3>1. \A t \in Model : Noticed(u, v, t) => Noticed(u, v, t)'
      BY <2>1, PurgedLists DEF XmlInv
    <3> QED BY <2>1, <2>3, <3>1, <1>1, <1>2, <1>4, TellsStays
  <2> QED BY <2>2, <2>3
<1> QED BY <1>3, <1>4 DEF Announced

LEMMA ChangeAnnounced ==
  ASSUME XmlInv, NEW w \in User, Change(w)
  PROVE  Announced'
<1>0. PICK new \in View : Write(w, new)
  BY ChangeIsSound DEF XmlInv
<1>1. /\ phase[w] = "open"
      /\ memory' = [memory EXCEPT ![w] = new] /\ before' = [before EXCEPT ![w] = memory[w]]
      /\ pending' = [pending EXCEPT ![w] = [object : Protected(memory[w], new), later : {{}}]]
      /\ phase' = [phase EXCEPT ![w] = "writing"] /\ UNCHANGED <<owner, listed, disk>>
  BY <1>0 DEF Write, server
<1>2. /\ disk \in [User -> View] /\ memory \in [User -> View] /\ before \in [User -> View \cup {None}]
      /\ pending \in [User -> SUBSET Entry]
      /\ phase \in [User -> {"closed", "opening", "open", "writing", "locked", "saving"}]
      /\ \A u \in User : pending[u] # {} => phase[u] \in {"writing", "locked"}
  BY XmlTypes DEF XmlInv
<1>3. /\ memory'[w] = new /\ before'[w] = memory[w] /\ phase'[w] = "writing" /\ disk'[w] = disk[w]
      /\ pending'[w] = [object : Protected(memory[w], new), later : {{}}] /\ pending[w] = {}
      /\ memory[w] \in View
  BY <1>1, <1>2
<1>4. \A t \in Model : Pending(w, t)' <=> <<t, "model">> \in Protected(memory[w], new)
  <2> DEFINE P == Protected(memory[w], new)
  <2>1. \A t \in Model : Pending(w, t)' <=> \E e \in [object : P, later : {{}}] : e.object = <<t, "model">>
    BY <1>3 DEF Pending
  <2> HIDE DEF P
  <2>2. \A o : (\E e \in [object : P, later : {{}}] : e.object = o) <=> o \in P
    <3>1. \A o \in P : [object |-> o, later |-> {}] \in [object : P, later : {{}}]
      OBVIOUS
    <3> QED BY <3>1
  <2>3. \A t \in Model : Pending(w, t)' <=> <<t, "model">> \in P
    BY <2>1, <2>2
  <2> QED BY <2>3 DEF P
<1>5. ASSUME NEW u \in User, NEW t \in Model, Pending(u, t)' PROVE t \in Held(u)'
  <2>1. CASE u = w
    <3>1. <<t, "model">> \in Removed(memory[w], new) \/ t \in Targets(memory[w], new)
      BY <1>4, <1>5, <2>1 DEF Protected
    <3>2. t \in Modified(memory[w], new)
      <4>1. ASSUME <<t, "model">> \in Removed(memory[w], new) PROVE t \in Modified(memory[w], new)
        <5>1. new[t].parent # memory[w][t].parent
          BY <4>1 DEF Removed
        <5>2. new[t] # memory[w][t] /\ t \in File
          BY <5>1, ViewFacts
        <5> QED BY <5>2 DEF Modified
      <4> QED BY <3>1, <4>1 DEF Modified
    <3>3. WriteSet(w)' = Modified(memory[w], new)
      BY <1>3 DEF WriteSet
    <3> QED BY <2>1, <3>2, <3>3 DEF Held
  <2>2. CASE u # w
    <3>1. Pending(u, t)
      BY <2>2, <1>1, <1>2, <1>5 DEF Pending
    <3>2. Held(u)' = Held(u)
      BY <2>2, <1>1, <1>2, HeldSame
    <3> QED BY <3>1, <3>2, PendingIsHeld
  <2> QED BY <2>1, <2>2
<1>6. ASSUME NEW u \in User, NEW v \in User, u # v, Active(v)' PROVE Tells(u, v)'
  <2>1. Active(v)
    BY <1>1, <1>2, <1>6 DEF Active
  <2>2. \A x \in User, t \in Model : Noticed(x, v, t) <=> Noticed(x, v, t)'
    BY <1>1 DEF Noticed
  <2>3. CASE u = w
    <3>1. Tells(w, v)
      BY <2>1, <2>3, <1>6 DEF XmlInv, Announced
    <3>2. ASSUME NEW m \in Model, NEW t \in Model, disk[w][t] # NoFile, Refers(memory[w], m, t), ~Refers(disk[w], m, t)
          PROVE  Noticed(w, v, t)'
      <4>1. ~Pending(w, t)
        BY <1>3 DEF Pending
      <4> QED BY <3>1, <3>2, <4>1, <2>2, <1>1 DEF Tells
    <3>3. ASSUME NEW m \in Model, NEW t \in Model, disk[w][t] # NoFile, Refers(new, m, t), ~Refers(disk[w], m, t)
          PROVE  Noticed(w, v, t)' \/ Pending(w, t)'
      <4>1. CASE Refers(memory[w], m, t)
        BY <4>1, <3>2, <3>3
      <4>2. CASE ~Refers(memory[w], m, t)
        <5>1. Consistent(memory[w])
          BY <1>1 DEF XmlInv, Views, UserViews, Sound
        <5>2. t \in Targets(memory[w], new)
          BY <5>1, <4>2, <3>3, <1>3, TargetIsNew
        <5> QED BY <5>2, <1>4 DEF Protected
      <4> QED BY <4>1, <4>2
    <3> QED BY <2>3, <3>2, <3>3, <1>3 DEF Tells
  <2>4. CASE u # w
    BY <2>1, <2>2, <2>4, <1>1, <1>2, <1>6, TellsStays
  <2> QED BY <2>3, <2>4
<1> QED BY <1>5, <1>6 DEF Announced

LEMMA CommitAnnounced ==
  ASSUME XmlInv, NEW w \in User, CommitTransaction(w) \/ CommitFails(w)
  PROVE  Announced'
<1>1. /\ phase[w] = "writing" /\ UNCHANGED <<repository, disk, listed, stale, signed>>
      /\ \A v \in User, f \in File : owner[f] = v => owner'[f] = v
      /\ \A v \in User \ {w}, f \in File : owner'[f] = v <=> owner[f] = v
  BY CommitLocks
<1>2. /\ disk \in [User -> View] /\ memory \in [User -> View] /\ before \in [User -> View \cup {None}]
      /\ pending \in [User -> SUBSET Entry]
      /\ phase \in [User -> {"closed", "opening", "open", "writing", "locked", "saving"}]
  BY XmlTypes DEF XmlInv
<1>3. \A x, v \in User, t \in Model : Noticed(x, v, t) <=> Noticed(x, v, t)'
  BY <1>1 DEF Noticed
<1>a. /\ \A v \in User : v # w => phase'[v] = phase[v] /\ memory'[v] = memory[v] /\ before'[v] = before[v]
                                  /\ pending'[v] = pending[v]
      /\ phase'[w] \in {"open", "locked"}
  BY <1>2 DEF CommitTransaction, CommitFails
<1>4. ASSUME NEW u \in User, NEW t \in Model, Pending(u, t)' PROVE t \in Held(u)'
  <2>1. CASE u = w
    <3>1. CommitTransaction(w) /\ pending' = pending
      BY <2>1, <1>2, <1>4 DEF CommitTransaction, CommitFails, Pending
    <3>2. Pending(w, t)
      BY <3>1, <2>1, <1>4 DEF Pending
    <3> QED BY <2>1, <3>1, <3>2, PendingIsHeld, CommitHolds
  <2>2. CASE u # w
    <3>1. Pending(u, t)
      BY <2>2, <1>a, <1>4 DEF Pending
    <3>2. Held(u)' = Held(u)
      BY <2>2, <1>1, <1>a, HeldSame
    <3> QED BY <3>1, <3>2, PendingIsHeld
  <2> QED BY <2>1, <2>2
<1>5. ASSUME NEW u \in User, NEW v \in User, u # v, Active(v)' PROVE Tells(u, v)'
  <2>1. Active(v)
    BY <1>1, <1>a, <1>5 DEF Active
  <2>2. CASE u # w
    BY <2>1, <2>2, <1>1, <1>3, <1>a, <1>5, TellsStays
  <2>3. CASE u = w
    <3>1. Tells(w, v)
      BY <2>1, <2>3, <1>5 DEF XmlInv, Announced
    <3>2. CASE CommitTransaction(w)
      <4>1. memory' = memory /\ pending' = pending
        BY <3>2 DEF CommitTransaction
      <4>2. \A t : Pending(w, t)' <=> Pending(w, t)
        BY <4>1 DEF Pending
      <4> QED BY <2>3, <3>1, <4>1, <4>2, <1>1, <1>3, <1>a DEF Tells
    <3>3. CASE CommitFails(w)
      <4>1. memory'[w] = before[w]
        BY <3>3, <1>2 DEF CommitFails
      <4> QED BY <2>3, <3>1, <4>1, <1>1, <1>3, <1>a DEF Tells
    <3> QED BY <3>2, <3>3
  <2> QED BY <2>2, <2>3
<1> QED BY <1>4, <1>5 DEF Announced

\* What was on the list stays on it, and what was pending gets there.
LEMMA CommitNotices ==
  ASSUME Habits = {}, XmlInv, NEW w \in User, OnCommited(w), NEW v \in User, NEW t \in Model
  PROVE  /\ \A x \in User : Noticed(x, v, t) => Noticed(x, v, t)'
         /\ Pending(w, t) => Noticed(w, v, t)'
<1>1. /\ \A x \in User : x # w => listed'[x] = listed[x]
      /\ listed'[w] = {e \in listed[w] : \A n \in pending[w] : n.object # e.object} \cup pending[w]
  BY OnCommitedFacts
<1>2. \A e \in pending[w] : e.later = {}
  BY DEF XmlInv, Quiet
<1>3. Pending(w, t) => Noticed(w, v, t)'
  BY <1>1, <1>2 DEF Pending, Noticed
<1>4. ASSUME NEW x \in User, Noticed(x, v, t) PROVE Noticed(x, v, t)'
  <2>1. CASE x # w
    BY <2>1, <1>1, <1>4 DEF Noticed
  <2>2. CASE x = w /\ ~Pending(w, t)
    <3>1. PICK e \in listed[w] : e.object = <<t, "model">> /\ v \notin e.later
      BY <2>2, <1>4 DEF Noticed
    <3>2. \A n \in pending[w] : n.object # e.object
      BY <2>2, <3>1 DEF Pending
    <3> QED BY <2>2, <3>1, <3>2, <1>1 DEF Noticed
  <2> QED BY <2>1, <2>2, <1>3
<1> QED BY <1>3, <1>4

LEMMA OnCommitedAnnounced ==
  ASSUME Habits = {}, XmlInv, NEW w \in User, OnCommited(w)
  PROVE  Announced'
<1>1. /\ phase[w] = "locked" /\ \A v \in User : phase[v] # "writing" /\ Held(v) = Writable(v)
      /\ UNCHANGED <<repository, owner, signed, disk, stale, memory, before>>
      /\ phase' = [phase EXCEPT ![w] = "open"] /\ pending' = [pending EXCEPT ![w] = {}]
  BY OnCommitedFacts
<1>2. /\ pending \in [User -> SUBSET Entry]
      /\ phase \in [User -> {"closed", "opening", "open", "writing", "locked", "saving"}]
  BY XmlTypes DEF XmlInv
<1>3. ASSUME NEW u \in User, NEW t \in Model, Pending(u, t)' PROVE t \in Held(u)'
  <2>1. Pending(u, t) /\ u # w
    BY <1>1, <1>2, <1>3 DEF Pending
  <2>2. Held(u)' = Held(u)
    BY <2>1, <1>1, <1>2, HeldSame
  <2> QED BY <2>1, <2>2, PendingIsHeld
<1>4. ASSUME NEW u \in User, NEW v \in User, u # v, Active(v)' PROVE Tells(u, v)'
  <2>1. Active(v)
    BY <1>1, <1>2, <1>4 DEF Active
  <2>2. CASE u # w
    <3>1. \A t \in Model : Noticed(u, v, t) => Noticed(u, v, t)'
      BY CommitNotices
    <3> QED BY <2>1, <2>2, <3>1, <1>1, <1>2, <1>4, TellsStays
  <2>3. CASE u = w
    <3>1. Tells(w, v)
      BY <2>1, <2>3, <1>4 DEF XmlInv, Announced
    <3>2. \A t \in Model : Noticed(w, v, t) \/ Pending(w, t) => Noticed(w, v, t)'
      BY CommitNotices
    <3>3. phase'[w] = "open"
      BY <1>1, <1>2
    <3> QED BY <2>3, <3>1, <3>2, <3>3, <1>1 DEF Tells
  <2> QED BY <2>2, <2>3
<1> QED BY <1>3, <1>4 DEF Announced

LEMMA SaveAnnounced ==
  ASSUME Habits = {}, XmlInv, NEW w \in User, SaveProject(w)
  PROVE  Announced'
<1>1. /\ phase[w] = "open" /\ phase' = [phase EXCEPT ![w] = "saving"]
      /\ UNCHANGED <<repository, owner, listed, signed, disk, stale, memory, pending>>
      /\ Held(w) = Writable(w) /\ Held(w)' = Writable(w)
      /\ \A v \in User : Writable(v)' = Writable(v)
      /\ \A v \in User \ {w} : phase'[v] = phase[v] /\ before'[v] = before[v]
  BY SaveProjectFacts DEF XmlInv
<1>2. phase'[w] = "saving"
  BY <1>1, XmlTypes DEF XmlInv
<1>3. ASSUME NEW u \in User, NEW t \in Model, Pending(u, t)' PROVE t \in Held(u)'
  <2>1. Pending(u, t)
    BY <1>1, <1>3 DEF Pending
  <2>2. CASE u = w
    BY <2>1, <2>2, <1>1, PendingIsHeld
  <2>3. CASE u # w
    <3>1. Held(u)' = Held(u)
      BY <2>3, <1>1, HeldSame
    <3> QED BY <2>1, <3>1, PendingIsHeld
  <2> QED BY <2>2, <2>3
<1>4. ASSUME NEW u \in User, NEW v \in User, u # v, Active(v)' PROVE Tells(u, v)'
  <2>1. Active(v)
    BY <1>1, <1>2, <1>4 DEF Active
  <2>2. CASE u # w
    <3>1. \A t \in Model : Noticed(u, v, t) => Noticed(u, v, t)'
      BY <1>1 DEF Noticed
    <3> QED BY <2>1, <2>2, <3>1, <1>1, <1>4, TellsStays
  <2>3. CASE u = w
    BY <2>3, <1>2 DEF Tells
  <2> QED BY <2>2, <2>3
<1> QED BY <1>3, <1>4 DEF Announced

LEMMA WriteFileAnnounced ==
  ASSUME XmlInv, NEW w \in User, NEW f \in File, WriteXMLFile(w, f)
  PROVE  Announced'
<1> USE WriteFileFacts
<1>1. \A u \in User : pending[u] # {} => phase[u] \in {"writing", "locked"}
  BY XmlTypes DEF XmlInv
<1>2. ASSUME NEW u \in User, NEW t \in Model, Pending(u, t)' PROVE t \in Held(u)'
  <2>1. Pending(u, t)
    BY <1>2 DEF Pending
  <2>2. u # w
    BY <2>1, <1>1 DEF Pending
  <2>3. Held(u)' = Held(u)
    BY <2>2
  <2> QED BY <2>1, <2>3, PendingIsHeld
<1>3. ASSUME NEW u \in User, NEW v \in User, u # v, Active(v)' PROVE Tells(u, v)'
  <2>1. Active(v)
    BY <1>3 DEF Active
  <2>2. CASE u # w
    <3>1. \A t \in Model : Noticed(u, v, t) => Noticed(u, v, t)'
      BY DEF Noticed
    <3> QED BY <2>1, <2>2, <3>1, <1>3, TellsStays
  <2>3. CASE u = w
    <3>1. CASE phase'[w] = "saving"
      BY <2>3, <3>1 DEF Tells
    <3>2. CASE phase'[w] = "open"
      <4>1. UserViews(w)'
        BY WriteFileViews DEF Views
      <4>2. Sound(memory'[w], disk'[w], Held(w)', OnLists(w)')
        BY <3>2, <4>1 DEF UserViews
      <4>3. Held(w)' = {}
        <5>1. Writable(w) = {f}
          BY <3>2
        <5>2. Writable(w)' = {}
          BY <5>1
        <5> QED BY <5>2, <3>2 DEF Held, WriteSet
      <4>4. \A m, t \in Model : Refers(memory'[w], m, t) => Refers(disk'[w], m, t)
        BY <4>2, <4>3 DEF Sound
      <4> QED BY <2>3, <3>2, <4>4 DEF Tells
    <3> QED BY <3>1, <3>2
  <2> QED BY <2>2, <2>3
<1> QED BY <1>2, <1>3 DEF Announced

LEMMA AnnouncedStep ==
  ASSUME Habits = {}, XmlInv, [Next]_vars
  PROVE  Announced'
<1>1. ASSUME UNCHANGED vars PROVE Announced'
  <2>1. UNCHANGED <<repository, owner, listed, disk, memory, before, phase, pending>>
    BY <1>1 DEF vars, server, client
  <2>2. \A v \in User : Held(v)' = Held(v)
    BY <2>1 DEF Held, WriteSet, Writable, ReadOnly
  <2>3. \A u, v \in User, t \in Model : (Noticed(u, v, t)' <=> Noticed(u, v, t)) /\ (Pending(u, t)' <=> Pending(u, t))
    BY <2>1 DEF Noticed, Pending
  <2> QED BY <2>1, <2>2, <2>3 DEF XmlInv, Announced, Active, Tells
<1> QED BY StepCases, <1>1, GetLatestAnnounced, SignInAnnounced, LeaveAnnounced, ChangeAnnounced,
           CommitAnnounced, OnCommitedAnnounced, SaveAnnounced, WriteFileAnnounced

-----------------------------------------------------------------------------
(* The files as they will be *)

LEMMA NextFacts ==
  ASSUME Habits = {}, XmlInv, [Next]_vars
  PROVE  TypeInv' /\ Files' /\ FinalFacts' /\ FinalFacts /\ TypeInv /\ Files
<1>1. TypeInv' /\ TypeInv /\ Files
  BY TypeStep DEF XmlInv
<1>2. Files'
  BY FilesStep
<1> QED BY <1>1, <1>2, FinalIs, FinalIsNext

\* Nothing but the beginning of a save changes what there will be.
LEMMA FinalIsKept ==
  ASSUME Habits = {}, XmlInv, NEW w \in User,
         \/ GetLatestVersion(w) \/ SignIn(w) \/ CloseProject(w) \/ Crash(w) \/ Change(w)
         \/ CommitTransaction(w) \/ CommitFails(w) \/ OnCommited(w)
  PROVE  Final' = Final
<1>a. TypeInv' /\ Files' /\ TypeInv /\ Files
  BY NextFacts DEF Next, Step
<1>b. /\ disk \in [User -> View] /\ memory \in [User -> View]
      /\ phase \in [User -> {"closed", "opening", "open", "writing", "locked", "saving"}]
  BY <1>a, XmlTypes
<1>1. /\ phase[w] # "saving" /\ repository' = repository
      /\ \A v \in User \ {w} : phase'[v] = phase[v] /\ disk'[v] = disk[v] /\ memory'[v] = memory[v]
      /\ phase'[w] # "saving"
      /\ \A v \in User \ {w}, f \in File : owner'[f] = v <=> owner[f] = v
  <2>1. CASE GetLatestVersion(w)
    BY <2>1, <1>b, GetLatestFacts
  <2>2. CASE SignIn(w)
    BY <2>2, <1>b, SignInFacts
  <2>3. CASE CloseProject(w) \/ Crash(w)
    BY <2>3, <1>b DEF CloseProject, Crash, Leave
  <2>4. CASE Change(w)
    <3>1. PICK new \in View : Write(w, new)
      BY <2>4, ChangeIsSound DEF XmlInv
    <3> QED BY <3>1, <1>b DEF Write, server
  <2>5. CASE CommitTransaction(w) \/ CommitFails(w)
    <3>1. /\ phase[w] = "writing" /\ UNCHANGED <<repository, disk>>
          /\ \A v \in User \ {w}, f \in File : owner'[f] = v <=> owner[f] = v
      BY <2>5, CommitLocks
    <3> QED BY <3>1, <2>5, <1>b DEF CommitTransaction, CommitFails
  <2>6. CASE OnCommited(w)
    BY <2>6, <1>b, OnCommitedFacts
  <2> QED BY <2>1, <2>2, <2>3, <2>4, <2>5, <2>6
<1>2. \A v \in User \ {w} : Writable(v)' = Writable(v)
  BY <1>1, WritableSame
<1> QED BY <1>a, <1>1, <1>2, FinalStays

LEMMA WrittenIsFinal ==
  ASSUME Habits = {}, XmlInv, NEW w \in User, NEW f \in File, WriteXMLFile(w, f)
  PROVE  Final' = Final
<1>a. FinalFacts' /\ FinalFacts
  BY NextFacts DEF Next, Step
<1> USE WriteFileFacts
<1>1. \A g \in File : /\ \A v \in User \ {w} : SavedBy(v, g)' <=> SavedBy(v, g)
                      /\ SavedBy(w, g)' <=> SavedBy(w, g) /\ g # f
                      /\ SavedBy(w, f)
  BY DEF SavedBy
<1>2. ASSUME NEW g \in File PROVE Final'[g] = Final[g]
  <2>1. CASE g = f
    <3>1. Final[f] = memory[w][f]
      BY <1>1, <1>a DEF FinalFacts
    <3>2. \A v \in User : ~SavedBy(v, f)'
      BY <1>1 DEF SavedBy
    <3>3. Final'[f] = repository'[f]
      BY <3>2, <1>a DEF FinalFacts
    <3> QED BY <2>1, <3>1, <3>3
  <2>2. CASE g # f /\ \E v \in User : SavedBy(v, g)
    <3>1. PICK v \in User : SavedBy(v, g)
      BY <2>2
    <3>2. SavedBy(v, g)'
      BY <3>1, <1>1, <2>2
    <3>3. Final[g] = memory[v][g] /\ Final'[g] = memory'[v][g]
      BY <3>1, <3>2, <1>a DEF FinalFacts
    <3> QED BY <3>3
  <2>3. CASE g # f /\ \A v \in User : ~SavedBy(v, g)
    <3>1. \A v \in User : ~SavedBy(v, g)'
      BY <2>3, <1>1
    <3>2. Final[g] = repository[g] /\ Final'[g] = repository'[g]
      BY <2>3, <3>1, <1>a DEF FinalFacts
    <3> QED BY <3>2, <2>3
  <2> QED BY <2>1, <2>2, <2>3
<1> QED BY <1>2, <1>a DEF FinalFacts, View

\* Who begins to save gives everybody what he has.
LEMMA SavedIsFinal ==
  ASSUME Habits = {}, XmlInv, NEW w \in User, SaveProject(w), NEW g \in File
  PROVE  /\ g \in Writable(w) => /\ Final'[g] = memory[w][g]
                                 /\ Final[g] = disk[w][g] /\ Final[g] = repository[g]
                                 /\ disk[w][g] # NoFile => owner[g] = w /\ g \notin stale[w]
                                 /\ \A v \in User : v # w => g \notin Writable(v)
         /\ g \notin Writable(w) => Final'[g] = Final[g] /\ memory[w][g] = disk[w][g]
<1>a. FinalFacts' /\ FinalFacts /\ TypeInv /\ Files /\ CopyInv
  BY NextFacts DEF Next, Step, XmlInv
<1>1. /\ phase[w] = "open" /\ phase'[w] = "saving" /\ UNCHANGED <<repository, owner, disk, memory>>
      /\ Held(w) = Writable(w) /\ \A v \in User : Writable(v)' = Writable(v)
      /\ \A v \in User \ {w} : phase'[v] = phase[v]
  BY SaveProjectFacts, XmlTypes, <1>a
<1>2. ASSUME g \in Writable(w)
      PROVE  /\ Final'[g] = memory[w][g]
             /\ Final[g] = disk[w][g] /\ Final[g] = repository[g]
             /\ disk[w][g] # NoFile => owner[g] = w /\ g \notin stale[w]
             /\ \A v \in User : v # w => g \notin Writable(v)
  <2>1. SavedBy(w, g)'
    BY <1>1, <1>2 DEF SavedBy
  <2>2. Final'[g] = memory'[w][g]
    BY <2>1, <1>a DEF FinalFacts
  <2>3. Final[g] = repository[g] /\ repository[g] = disk[w][g] /\ (disk[w][g] # NoFile => owner[g] = w)
    BY <1>1, <1>2, <1>a, FinalIsCurrent
  <2>4. owner[g] = w => g \notin stale[w]
    BY <1>a DEF CopyInv
  <2>5. \A v \in User : v # w => g \notin Writable(v)
    BY <1>a, <1>2, OneWriter
  <2> QED BY <2>2, <2>3, <2>4, <2>5, <1>1
<1>3. ASSUME g \notin Writable(w) PROVE Final'[g] = Final[g] /\ memory[w][g] = disk[w][g]
  <2>1. \A v \in User : SavedBy(v, g)' <=> SavedBy(v, g)
    BY <1>1, <1>3 DEF SavedBy
  <2>2. Final'[g] = Final[g]
    <3>1. CASE \E v \in User : SavedBy(v, g)
      <4>1. PICK v \in User : SavedBy(v, g)
        BY <3>1
      <4>2. SavedBy(v, g)'
        BY <4>1, <2>1
      <4>3. Final[g] = memory[v][g] /\ Final'[g] = memory'[v][g]
        BY <4>1, <4>2, <1>a DEF FinalFacts
      <4> QED BY <4>3, <1>1
    <3>2. CASE \A v \in User : ~SavedBy(v, g)
      <4>1. \A v \in User : ~SavedBy(v, g)'
        BY <3>2, <2>1
      <4>2. Final[g] = repository[g] /\ Final'[g] = repository'[g]
        BY <3>2, <4>1, <1>a DEF FinalFacts
      <4> QED BY <4>2, <1>1
    <3> QED BY <3>1, <3>2
  <2>3. Sound(memory[w], disk[w], Writable(w), OnLists(w))
    BY <1>1 DEF XmlInv, Views, UserViews
  <2> QED BY <2>2, <2>3, <1>3 DEF Sound
<1> QED BY <1>2, <1>3

\* What others will have pointers to is not deleted by who begins to save.
LEMMA TargetsLive ==
  ASSUME Habits = {}, XmlInv, NEW w \in User, SaveProject(w), NEW m \in Model, m \notin Writable(w), NEW p \in File,
         Within(Final, m, p) \/ (Refers(Final, m, p) /\ p \in Model), p \in Writable(w)
  PROVE  Live(memory[w], p)
<1>1. phase[w] = "open" /\ Held(w) = Writable(w) /\ Active(w)
  BY SaveProjectFacts DEF XmlInv, Active
<1>2. Sound(memory[w], disk[w], Writable(w), OnLists(w)) /\ Consistent(memory[w])
  BY <1>1 DEF XmlInv, Views, UserViews, Sound
<1>3. /\ Final \in View /\ memory[w] \in View /\ disk[w] \in View
      /\ \A f \in File : disk[w][f] # NoFile => memory[w][f] # NoFile
  BY FinalIs, XmlTypes DEF XmlInv, FinalFacts, Files
<1>4. Live(Final, p)
  <2>1. m \in Models(Final) /\ (Final[m].parent = p \/ Final[m].referred = p) /\ p # None
    BY ViewFacts, MarkerAssumption DEF Within, Refers
  <2>2. Final[m] # NoFile
    BY <2>1, <1>3, ModelsFacts
  <2> QED BY <2>1, <2>2 DEF XmlInv, Consistent
<1>5. /\ Final[p] = disk[w][p] /\ (disk[w][p] # NoFile => p \notin stale[w])
      /\ \A v \in User : v # w => p \notin Writable(v)
      /\ memory[w][m] = disk[w][m]
  BY ViewFacts, SavedIsFinal
<1>6. Live(disk[w], p) /\ disk[w][p] # NoFile
  BY <1>4, <1>5 DEF Live
<1>7. ~Kept(w, p) /\ \A v \in User \ {w} : ~SavedBy(v, p)
  BY <1>5, <1>6 DEF Kept, SavedBy
<1>8. m \in Model /\ m \in Models(disk[w]) => m \in Models(memory[w])
  BY <1>5, <1>3, ModelsFacts
<1>9. CASE Within(Final, m, p)
  <2>1. Within(disk[w], m, p)
    BY <1>1, <1>7, <1>9 DEF XmlInv, Guarded, Safe, Saves
  <2>2. memory[w][m].parent = p /\ memory[w][m] # NoFile /\ p # None
    BY <2>1, <1>3, <1>5, <1>8, ModelsFacts, MarkerAssumption DEF Within
  <2> QED BY <2>2, <1>2 DEF Consistent
<1>10. CASE Refers(Final, m, p) /\ p \in Model
  <2>1. CASE Refers(disk[w], m, p)
    <3>1. memory[w][m].referred = p /\ memory[w][m] # NoFile /\ p # None
      BY <2>1, <1>3, <1>5, <1>8, ModelsFacts, MarkerAssumption DEF Refers
    <3> QED BY <3>1, <1>2 DEF Consistent
  <2>2. CASE ~Refers(disk[w], m, p)
    <3>1. PICK v \in User \ {w} : Noticed(v, w, p)
      BY <1>1, <1>7, <1>10, <2>2 DEF XmlInv, Guarded, Safe
    <3>2. <<p, "model">> \in OnLists(w)
      BY <3>1 DEF Noticed, OnLists
    <3> QED BY <3>2, <1>2, <1>6, <1>10 DEF Sound
  <2> QED BY <2>1, <2>2
<1> QED BY <1>9, <1>10

LEMMA SavedIsConsistent ==
  ASSUME Habits = {}, XmlInv, NEW w \in User, SaveProject(w)
  PROVE  Consistent(Final')
<1> DEFINE W == Writable(w)
           old == Final
           new == Final'
           mem == memory[w]
           copy == disk[w]
<1>1. phase[w] = "open" /\ Held(w) = W
  BY SaveProjectFacts DEF XmlInv
<1>2. Sound(mem, copy, W, OnLists(w)) /\ Consistent(mem) /\ Consistent(old)
  BY <1>1 DEF XmlInv, Views, UserViews, Sound
<1>3. old \in View /\ new \in View /\ mem \in View /\ copy \in View
  BY NextFacts, XmlTypes DEF FinalFacts, Next, Step
<1>4. \A g \in File : /\ g \in W => new[g] = mem[g] /\ old[g] = copy[g]
                      /\ g \notin W => new[g] = old[g] /\ mem[g] = copy[g]
  BY SavedIsFinal
<1>5. \A m \in Model, p \in File :
        m \notin W /\ p \in W /\ (Within(old, m, p) \/ (Refers(old, m, p) /\ p \in Model)) => Live(mem, p)
  BY TargetsLive
<1> HIDE DEF W, old, new, mem, copy
<1>6. \A p \in File : /\ p \in W => (Live(new, p) <=> Live(mem, p)) /\ (Live(old, p) <=> Live(copy, p))
                      /\ p \notin W => (Live(new, p) <=> Live(old, p))
  BY <1>4 DEF Live
<1> SUFFICES Consistent(new)
  BY DEF new
<1> SUFFICES ASSUME NEW m \in Model, new[m] # NoFile
             PROVE  /\ new[m].parent # None => Live(new, new[m].parent)
                    /\ new[m].referred # None => new[m].parent # None /\ Live(new, new[m].referred)
  BY DEF Consistent
<1>7. /\ m \in File /\ new[m] \in Content /\ new[m].parent \in File \cup {None}
      /\ new[m].referred \in Model \cup {None} /\ Model \subseteq File
  BY <1>3, ViewFacts
<1>8. CASE m \in W
  <2>1. new[m] = mem[m] /\ old[m] = copy[m]
    BY <1>4, <1>7, <1>8
  <2>2. /\ new[m].parent # None => Live(mem, new[m].parent)
        /\ new[m].referred # None => new[m].parent # None /\ Live(mem, new[m].referred)
    BY <1>2, <2>1 DEF Consistent
  <2>3. ASSUME new[m].parent # None PROVE Live(new, new[m].parent) /\ m \in Models(mem)
    <3> DEFINE p == new[m].parent
    <3>1. p \in File /\ p = mem[m].parent /\ p # None /\ Live(mem, p)
      BY <1>7, <2>1, <2>2, <2>3
    <3> HIDE DEF p
    <3>2. m \in Models(mem)
      BY <3>1, <2>1, <1>3, ModelsFacts
    <3>3. CASE p \in W
      BY <3>1, <3>2, <3>3, <1>6 DEF p
    <3>4. CASE p \notin W
      <4>1. Within(copy, m, p)
        BY <3>1, <3>2, <3>4, <1>2 DEF Within, Sound
      <4>2. old[m] # NoFile /\ old[m].parent = p
        BY <4>1, <2>1, <1>3, ModelsFacts DEF Within
      <4>3. Live(old, p)
        BY <4>2, <3>1, <1>2 DEF Consistent
      <4> QED BY <4>3, <3>1, <3>2, <3>4, <1>6 DEF p
    <3> QED BY <3>3, <3>4
  <2>4. ASSUME new[m].referred # None PROVE Live(new, new[m].referred)
    <3> DEFINE t == new[m].referred
    <3>1. t \in Model /\ t \in File /\ t = mem[m].referred /\ t # None /\ Live(mem, t)
      BY <1>7, <2>1, <2>2, <2>4
    <3>2. m \in Models(mem)
      BY <2>2, <2>3, <2>4
    <3> HIDE DEF t
    <3>3. CASE t \in W
      BY <3>1, <3>3, <1>6 DEF t
    <3>4. CASE t \notin W
      <4>1. Refers(copy, m, t)
        BY <3>1, <3>2, <3>4, <1>2 DEF Refers, Sound
      <4>2. old[m] # NoFile /\ old[m].referred = t
        BY <4>1, <2>1, <1>3, ModelsFacts DEF Refers
      <4>3. Live(old, t)
        BY <4>2, <3>1, <1>2 DEF Consistent
      <4> QED BY <4>3, <3>1, <3>4, <1>6 DEF t
    <3> QED BY <3>3, <3>4
  <2> QED BY <2>2, <2>3, <2>4
<1>9. CASE m \notin W
  <2>1. new[m] = old[m]
    BY <1>4, <1>7, <1>9
  <2>2. /\ new[m].parent # None => Live(old, new[m].parent)
        /\ new[m].referred # None => new[m].parent # None /\ Live(old, new[m].referred)
    BY <1>2, <2>1 DEF Consistent
  <2>3. new[m].parent # None => m \in Models(old)
    BY <2>1, <1>3, ModelsFacts
  <2>4. ASSUME NEW p \in File, Live(old, p), m \in Models(old),
               old[m].parent = p \/ (p \in Model /\ old[m].referred = p)
        PROVE  Live(new, p)
    <3>1. CASE p \in W
      BY <3>1, <2>4, <1>5, <1>6, <1>9 DEF Within, Refers
    <3>2. CASE p \notin W
      BY <3>2, <2>4, <1>6
    <3> QED BY <3>1, <3>2
  <2> QED BY <2>1, <2>2, <2>3, <2>4, <1>7
<1> QED BY <1>8, <1>9

LEMMA FinalStep ==
  ASSUME Habits = {}, XmlInv, [Next]_vars
  PROVE  Consistent(Final')
<1>0. Consistent(Final)
  BY DEF XmlInv
<1>1. ASSUME UNCHANGED vars PROVE Final' = Final
  BY <1>1 DEF vars, server, client, Final, SavedBy, Writable, ReadOnly
<1> QED BY StepCases, <1>0, <1>1, FinalIsKept, WrittenIsFinal, SavedIsConsistent

-----------------------------------------------------------------------------
(* Pointers that a user has not seen *)

LEMMA PointsAtFiles ==
  ASSUME XmlInv, NEW m \in Model
  PROVE  /\ \A p \in File : Within(Final, m, p) => Final[p] # NoFile
         /\ \A t \in Model : Refers(Final, m, t) => Final[t] # NoFile
<1>1. Final \in View /\ Consistent(Final)
  BY FinalIs DEF XmlInv, FinalFacts
<1>2. ASSUME m \in Models(Final) PROVE Final[m] # NoFile
  BY <1>1, <1>2, ModelsFacts
<1>3. \A p \in File : p # None
  BY MarkerAssumption
<1> QED BY <1>1, <1>2, <1>3, ViewFacts DEF Within, Refers, Consistent, Live

LEMMA SamePointers ==
  ASSUME NEW view \in View, NEW other \in View, NEW m \in Model, view[m] = other[m]
  PROVE  \A p : (Within(view, m, p) <=> Within(other, m, p)) /\ (Refers(view, m, p) <=> Refers(other, m, p))
<1>1. m \in Models(view) <=> m \in Models(other)
  BY ModelsFacts
<1> QED BY <1>1 DEF Within, Refers

LEMMA SafeStays ==
  ASSUME XmlInv, NEW u \in User, NEW m \in Model, Safe(u, m),
         Final' \in View, disk'[u] \in View, Final'[m] = Final[m], disk'[u][m] = disk[u][m],
         \A f \in File : Final[f] # NoFile /\ Kept(u, f) => Kept(u, f)',
         \A w \in User \ {u}, f \in File : Saves(w, f) => Saves(w, f)' \/ Kept(u, f)',
         \A w \in User \ {u}, t \in Model : Noticed(w, u, t) => Noticed(w, u, t)'
  PROVE  Safe(u, m)'
<1>1. Final \in View /\ disk[u] \in View
  BY FinalIs, XmlTypes DEF XmlInv, FinalFacts
<1>2. \A p : /\ Within(Final', m, p) <=> Within(Final, m, p)
             /\ Refers(Final', m, p) <=> Refers(Final, m, p)
  BY <1>1, SamePointers
<1>3. \A p : /\ Within(disk'[u], m, p) <=> Within(disk[u], m, p)
             /\ Refers(disk'[u], m, p) <=> Refers(disk[u], m, p)
  BY <1>1, SamePointers
<1>4. ASSUME NEW p \in File, Within(Final', m, p), ~Within(disk'[u], m, p)
      PROVE  Kept(u, p)' \/ \E w \in User \ {u} : Saves(w, p)'
  <2>1. Final[p] # NoFile
    BY <1>2, <1>4, PointsAtFiles
  <2>2. Kept(u, p) \/ \E w \in User \ {u} : Saves(w, p)
    BY <1>2, <1>3, <1>4 DEF Safe
  <2> QED BY <2>1, <2>2
<1>5. ASSUME NEW t \in Model, Refers(Final', m, t), ~Refers(disk'[u], m, t)
      PROVE  Kept(u, t)' \/ \E w \in User \ {u} : Noticed(w, u, t)'
  <2>1. Final[t] # NoFile /\ t \in File
    BY <1>2, <1>5, PointsAtFiles, ViewFacts
  <2>2. Kept(u, t) \/ \E w \in User \ {u} : Noticed(w, u, t)
    BY <1>2, <1>3, <1>5 DEF Safe
  <2> QED BY <2>1, <2>2
<1> QED BY <1>4, <1>5 DEF Safe

\* Who has m as it will be has seen all there is in it.
LEMMA SafeKnown ==
  ASSUME NEW u \in User, NEW m \in Model, Final' \in View, disk'[u] \in View, Final'[m] = disk'[u][m]
  PROVE  Safe(u, m)'
<1>1. \A p : /\ Within(Final', m, p) <=> Within(disk'[u], m, p)
             /\ Refers(Final', m, p) <=> Refers(disk'[u], m, p)
  BY SamePointers
<1> QED BY <1>1 DEF Safe

LEMMA ViewsNext ==
  ASSUME Habits = {}, XmlInv, [Next]_vars
  PROVE  /\ Final' \in View /\ Final \in View
         /\ \A u \in User : disk'[u] \in View /\ disk[u] \in View /\ memory[u] \in View /\ memory'[u] \in View
<1>1. TypeInv' /\ FinalFacts' /\ FinalFacts /\ TypeInv
  BY NextFacts
<1>2. disk' \in [User -> View] /\ memory' \in [User -> View]
  BY <1>1 DEF TypeInv, TypeOK
<1> QED BY <1>1, <1>2, XmlTypes DEF FinalFacts

LEMMA GetLatestGuarded ==
  ASSUME Habits = {}, XmlInv, NEW w \in User, GetLatestVersion(w)
  PROVE  Guarded'
<1>1. /\ Final' \in View /\ \A u \in User : disk'[u] \in View
      /\ Final' = Final
  BY ViewsNext, FinalIsKept DEF Next, Step
<1>2. /\ disk' = [disk EXCEPT ![w] = repository] /\ memory' = [memory EXCEPT ![w] = repository]
      /\ phase' = [phase EXCEPT ![w] = "opening"]
      /\ UNCHANGED <<repository, owner, listed, signed, stale, before, pending>>
      /\ \A v \in User : phase[v] # "saving"
  BY GetLatestFacts
<1>3. /\ disk \in [User -> View] /\ memory \in [User -> View]
      /\ phase \in [User -> {"closed", "opening", "open", "writing", "locked", "saving"}]
  BY XmlTypes DEF XmlInv
<1>4. ASSUME NEW u \in User, NEW m \in Model, Active(u)', m \notin Writable(u)' PROVE Safe(u, m)'
  <2>1. /\ u # w /\ Active(u) /\ disk'[u] = disk[u] /\ memory'[u] = memory[u]
    BY <1>2, <1>3, <1>4 DEF Active
  <2>2. Writable(u)' = Writable(u)
    BY <2>1, <1>2, WritableSame
  <2>3. Safe(u, m)
    BY <2>1, <2>2, <1>4 DEF XmlInv, Guarded
  <2>4. \A f \in File : Kept(u, f) => Kept(u, f)'
    BY <2>1, <1>2 DEF Kept
  <2>5. \A v \in User, f \in File : ~Saves(v, f)
    BY <1>2 DEF Saves, SavedBy
  <2>6. \A v \in User, t \in Model : Noticed(v, u, t) => Noticed(v, u, t)'
    BY <1>2 DEF Noticed
  <2> QED BY <2>1, <2>3, <2>4, <2>5, <2>6, <1>1, SafeStays
<1> QED BY <1>4 DEF Guarded

LEMMA SignInGuarded ==
  ASSUME Habits = {}, XmlInv, NEW w \in User, SignIn(w)
  PROVE  Guarded'
<1>1. /\ Final' \in View /\ \A u \in User : disk'[u] \in View
      /\ Final' = Final
  BY ViewsNext, FinalIsKept DEF Next, Step
<1>2. /\ phase[w] = "opening" /\ phase' = [phase EXCEPT ![w] = "open"]
      /\ UNCHANGED <<repository, owner, disk, stale, memory, before>>
  BY SignInFacts
<1>3. phase \in [User -> {"closed", "opening", "open", "writing", "locked", "saving"}]
  BY XmlTypes DEF XmlInv
<1>4. \A f \in File : Final[f] = disk[w][f]
  <2> SUFFICES ASSUME NEW f \in File PROVE Final[f] = disk[w][f]
    OBVIOUS
  <2>1. disk[w] = repository /\ \A v \in User \ {w} : memory[v] = disk[v]
    BY <1>2 DEF XmlInv, Quiet
  <2>2. CASE \E v \in User : SavedBy(v, f)
    <3>1. PICK v \in User : SavedBy(v, f)
      BY <2>2
    <3>2. v # w /\ memory[v] = disk[v] /\ f \in Writable(v)
      BY <3>1, <2>1, <1>2 DEF SavedBy
    <3>3. disk[v][f] # NoFile /\ owner[f] = v
      BY <3>2 DEF Writable, ReadOnly
    <3>4. disk[v][f] = repository[f]
      BY <3>3 DEF XmlInv, CopyInv
    <3>5. Final[f] = memory[v][f]
      BY <3>1, FinalIs DEF XmlInv, FinalFacts
    <3> QED BY <3>2, <3>4, <3>5, <2>1
  <2>3. CASE \A v \in User : ~SavedBy(v, f)
    BY <2>1, <2>3, FinalIs DEF XmlInv, FinalFacts
  <2> QED BY <2>2, <2>3
<1>5. ASSUME NEW u \in User, NEW m \in Model, Active(u)', m \notin Writable(u)' PROVE Safe(u, m)'
  <2>1. CASE u = w
    BY <2>1, <1>1, <1>2, <1>4, ViewFacts, SafeKnown
  <2>2. CASE u # w
    <3>1. Active(u) /\ u \in signed
      BY <2>2, <1>2, <1>3, <1>5 DEF Active, XmlInv, Quiet
    <3>2. Writable(u)' = Writable(u)
      BY <1>2, WritableSame
    <3>3. Safe(u, m)
      BY <3>1, <3>2, <1>5 DEF XmlInv, Guarded
    <3>4. \A f \in File : Kept(u, f) => Kept(u, f)'
      BY <1>2 DEF Kept
    <3>5. \A v \in User, f \in File : Saves(v, f) => Saves(v, f)'
      BY <1>2, <1>3 DEF Saves, SavedBy, Writable, ReadOnly
    <3>6. \A v \in User, t \in Model : Noticed(v, u, t) => Noticed(v, u, t)'
      BY <2>2, <3>1, SignInLists DEF XmlInv
    <3> QED BY <3>3, <3>4, <3>5, <3>6, <1>1, <1>2, SafeStays
  <2> QED BY <2>1, <2>2
<1> QED BY <1>5 DEF Guarded

LEMMA LeaveGuarded ==
  ASSUME Habits = {}, XmlInv, NEW w \in User, CloseProject(w) \/ Crash(w)
  PROVE  Guarded'
<1>1. /\ Final' \in View /\ \A u \in User : disk'[u] \in View
      /\ Final' = Final
  BY ViewsNext, FinalIsKept DEF Next, Step
<1>2. /\ phase[w] # "saving" /\ phase' = [phase EXCEPT ![w] = "closed"]
      /\ disk' = [disk EXCEPT ![w] = Nothing] /\ memory' = [memory EXCEPT ![w] = Nothing]
      /\ stale' = [stale EXCEPT ![w] = {}] /\ UNCHANGED <<repository, owner>>
  BY DEF CloseProject, Crash, Leave
<1>3. /\ disk \in [User -> View] /\ memory \in [User -> View] /\ stale \in [User -> SUBSET File]
      /\ phase \in [User -> {"closed", "opening", "open", "writing", "locked", "saving"}]
  BY XmlTypes DEF XmlInv
<1>4. ASSUME NEW u \in User, NEW m \in Model, Active(u)', m \notin Writable(u)' PROVE Safe(u, m)'
  <2>1. /\ u # w /\ Active(u) /\ u \in signed
        /\ disk'[u] = disk[u] /\ memory'[u] = memory[u] /\ stale'[u] = stale[u]
    BY <1>2, <1>3, <1>4 DEF Active, XmlInv, Quiet
  <2>2. Writable(u)' = Writable(u)
    BY <2>1, <1>2, WritableSame
  <2>3. Safe(u, m)
    BY <2>1, <2>2, <1>4 DEF XmlInv, Guarded
  <2>4. \A f \in File : Kept(u, f) => Kept(u, f)'
    BY <2>1 DEF Kept
  <2>5. ASSUME NEW v \in User, NEW f \in File, Saves(v, f) PROVE Saves(v, f)'
    <3>1. v # w /\ disk'[v] = disk[v] /\ memory'[v] = memory[v] /\ phase'[v] = phase[v]
      BY <2>5, <1>2, <1>3 DEF Saves, SavedBy
    <3>2. Writable(v)' = Writable(v)
      BY <3>1, <1>2, WritableSame
    <3> QED BY <3>1, <3>2, <2>5, <1>2 DEF Saves, SavedBy
  <2>6. \A v \in User, t \in Model : Noticed(v, u, t) => Noticed(v, u, t)'
    BY <2>1, PurgedLists DEF XmlInv
  <2> QED BY <2>1, <2>3, <2>4, <2>5, <2>6, <1>1, SafeStays
<1> QED BY <1>4 DEF Guarded

LEMMA ChangeGuarded ==
  ASSUME Habits = {}, XmlInv, NEW w \in User, Change(w)
  PROVE  Guarded'
<1>1. /\ Final' \in View /\ \A u \in User : disk'[u] \in View
      /\ Final' = Final
  BY ViewsNext, FinalIsKept DEF Next, Step
<1>2. PICK new \in View :
           /\ Write(w, new)
           /\ \A f \in File : memory[w][f] # NoFile => new[f] # NoFile
           /\ \A f \in File : new[f] # NoFile => memory[w][f] # NoFile \/ f \in Unused
  BY ChangeIsSound DEF XmlInv
<1>3. /\ phase[w] = "open" /\ memory' = [memory EXCEPT ![w] = new]
      /\ phase' = [phase EXCEPT ![w] = "writing"] /\ UNCHANGED <<repository, owner, listed, disk, stale>>
  BY <1>2 DEF Write, server
<1>4. /\ memory \in [User -> View]
      /\ phase \in [User -> {"closed", "opening", "open", "writing", "locked", "saving"}]
  BY XmlTypes DEF XmlInv
<1>5. \A v \in User : /\ v # w => memory'[v] = memory[v] /\ phase'[v] = phase[v]
                      /\ memory'[w] = new
  BY <1>3, <1>4
<1>6. ASSUME NEW u \in User, NEW m \in Model, Active(u)', m \notin Writable(u)' PROVE Safe(u, m)'
  <2>1. Active(u)
    BY <1>3, <1>5, <1>6 DEF Active
  <2>2. Writable(u) \subseteq Writable(u)'
    BY <1>2, <1>3, <1>5 DEF Writable, ReadOnly
  <2>3. Safe(u, m)
    BY <2>1, <2>2, <1>6 DEF XmlInv, Guarded
  <2>4. ASSUME NEW f \in File, Final[f] # NoFile, Kept(u, f) PROVE Kept(u, f)'
    <3>1. f \notin Unused
      BY <2>4, UnusedIsNowhere DEF XmlInv
    <3>2. memory[u][f] = NoFile => memory'[u][f] = NoFile
      BY <3>1, <1>2, <1>5
    <3> QED BY <3>2, <2>4, <1>3 DEF Kept
  <2>5. ASSUME NEW v \in User, NEW f \in File, Saves(v, f) PROVE Saves(v, f)'
    <3>1. v # w /\ memory'[v] = memory[v] /\ phase'[v] = phase[v]
      BY <2>5, <1>3, <1>5 DEF Saves, SavedBy
    <3>2. Writable(v)' = Writable(v)
      BY <3>1, <1>3, WritableSame
    <3> QED BY <3>1, <3>2, <2>5, <1>3 DEF Saves, SavedBy
  <2>6. \A v \in User, t \in Model : Noticed(v, u, t) => Noticed(v, u, t)'
    BY <1>3 DEF Noticed
  <2> QED BY <2>3, <2>4, <2>5, <2>6, <1>1, <1>3, SafeStays
<1> QED BY <1>6 DEF Guarded

LEMMA CommitGuarded ==
  ASSUME Habits = {}, XmlInv, NEW w \in User, CommitTransaction(w) \/ CommitFails(w)
  PROVE  Guarded'
<1>1. /\ Final' \in View /\ \A u \in User : disk'[u] \in View
      /\ Final' = Final
  BY ViewsNext, FinalIsKept DEF Next, Step
<1>2. /\ phase[w] = "writing" /\ UNCHANGED <<repository, disk, listed, stale, signed>>
      /\ before[w] \in View /\ before[w] # None
      /\ \A v \in User, f \in File : owner[f] = v => owner'[f] = v
      /\ \A v \in User \ {w}, f \in File : owner'[f] = v <=> owner[f] = v
  BY CommitLocks
<1>3. /\ memory \in [User -> View]
      /\ phase \in [User -> {"closed", "opening", "open", "writing", "locked", "saving"}]
  BY XmlTypes DEF XmlInv
<1>4. /\ \A v \in User \ {w} : memory'[v] = memory[v] /\ phase'[v] = phase[v]
      /\ memory'[w] = memory[w] \/ memory'[w] = before[w]
  BY <1>3 DEF CommitTransaction, CommitFails
<1>5. \A f \in File : memory[w][f] = NoFile => memory'[w][f] = NoFile
  BY <1>2, <1>4 DEF XmlInv, Files
<1>6. ASSUME NEW u \in User, NEW m \in Model, Active(u)', m \notin Writable(u)' PROVE Safe(u, m)'
  <2>1. Active(u)
    BY <1>2, <1>4, <1>6 DEF Active
  <2>2. CASE m \in Writable(u)
    <3>1. memory'[u][m] = NoFile /\ memory[u][m] # NoFile
      BY <2>2, <1>2, <1>6 DEF Writable, ReadOnly
    <3>2. u = w /\ before[w][m] = NoFile
      BY <3>1, <1>4
    <3>3. disk[w][m] = NoFile /\ m \in File
      BY <3>2, <1>2, ViewFacts DEF XmlInv, Files
    <3>4. Final[m] = disk[w][m]
      BY <2>2, <3>2, <3>3, <1>2, FinalIsCurrent DEF XmlInv
    <3> QED BY <3>2, <3>4, <1>1, <1>2, SafeKnown
  <2>3. CASE m \notin Writable(u)
    <3>1. Safe(u, m)
      BY <2>1, <2>3 DEF XmlInv, Guarded
    <3>2. \A f \in File : Kept(u, f) => Kept(u, f)'
      BY <1>2, <1>4, <1>5 DEF Kept
    <3>3. ASSUME NEW v \in User, NEW f \in File, Saves(v, f) PROVE Saves(v, f)'
      <4>1. v # w /\ memory'[v] = memory[v] /\ phase'[v] = phase[v]
        BY <3>3, <1>2, <1>4 DEF Saves, SavedBy
      <4>2. Writable(v)' = Writable(v)
        BY <4>1, <1>2, WritableSame
      <4> QED BY <4>1, <4>2, <3>3, <1>2 DEF Saves, SavedBy
    <3>4. \A v \in User, t \in Model : Noticed(v, u, t) => Noticed(v, u, t)'
      BY <1>2 DEF Noticed
    <3> QED BY <3>1, <3>2, <3>3, <3>4, <1>1, <1>2, SafeStays
  <2> QED BY <2>2, <2>3
<1> QED BY <1>6 DEF Guarded

LEMMA OnCommitedGuarded ==
  ASSUME Habits = {}, XmlInv, NEW w \in User, OnCommited(w)
  PROVE  Guarded'
<1>1. /\ Final' \in View /\ \A u \in User : disk'[u] \in View
      /\ Final' = Final
  BY ViewsNext, FinalIsKept DEF Next, Step
<1>2. /\ phase[w] = "locked" /\ UNCHANGED <<repository, owner, signed, disk, stale, memory, before>>
      /\ phase' = [phase EXCEPT ![w] = "open"]
  BY OnCommitedFacts
<1>3. phase \in [User -> {"closed", "opening", "open", "writing", "locked", "saving"}]
  BY XmlTypes DEF XmlInv
<1>4. ASSUME NEW u \in User, NEW m \in Model, Active(u)', m \notin Writable(u)' PROVE Safe(u, m)'
  <2>1. Active(u)
    BY <1>2, <1>3, <1>4 DEF Active
  <2>2. \A v \in User : Writable(v)' = Writable(v)
    BY <1>2, WritableSame
  <2>3. Safe(u, m)
    BY <2>1, <2>2, <1>4 DEF XmlInv, Guarded
  <2>4. \A f \in File : Kept(u, f) => Kept(u, f)'
    BY <1>2 DEF Kept
  <2>5. \A v \in User, f \in File : Saves(v, f) => Saves(v, f)'
    BY <2>2, <1>2, <1>3 DEF Saves, SavedBy
  <2>6. \A v \in User, t \in Model : Noticed(v, u, t) => Noticed(v, u, t)'
    BY CommitNotices
  <2> QED BY <2>3, <2>4, <2>5, <2>6, <1>1, <1>2, SafeStays
<1> QED BY <1>4 DEF Guarded

LEMMA SaveGuarded ==
  ASSUME Habits = {}, XmlInv, NEW w \in User, SaveProject(w)
  PROVE  Guarded'
<1>1. /\ Final' \in View /\ Final \in View
      /\ \A u \in User : disk'[u] \in View /\ disk[u] \in View /\ memory[u] \in View
  BY ViewsNext DEF Next, Step
<1>2. /\ phase[w] = "open" /\ phase'[w] = "saving"
      /\ UNCHANGED <<repository, owner, listed, signed, disk, stale, memory, pending>>
      /\ Held(w) = Writable(w) /\ \A v \in User : Writable(v)' = Writable(v)
      /\ \A v \in User \ {w} : phase'[v] = phase[v]
  BY SaveProjectFacts, XmlTypes DEF XmlInv
<1>3. /\ Sound(memory[w], disk[w], Writable(w), OnLists(w)) /\ Consistent(memory[w])
      /\ pending[w] = {}
  BY <1>2, XmlTypes DEF XmlInv, Views, UserViews, Sound
<1>4. ASSUME NEW u \in User, NEW m \in Model, Active(u)', m \notin Writable(u)' PROVE Safe(u, m)'
  <2>1. Active(u) /\ m \notin Writable(u)
    BY <1>2, <1>4 DEF Active
  <2>2. Safe(u, m)
    BY <2>1 DEF XmlInv, Guarded
  <2>3. \A f \in File : Kept(u, f)' <=> Kept(u, f)
    BY <1>2 DEF Kept
  <2>4. ASSUME NEW v \in User, NEW f \in File, Saves(v, f) PROVE Saves(v, f)'
    <3>1. v # w
      BY <2>4, <1>2 DEF Saves, SavedBy
    <3> QED BY <3>1, <2>4, <1>2 DEF Saves, SavedBy
  <2>5. \A v \in User, t \in Model : Noticed(v, u, t) <=> Noticed(v, u, t)'
    BY <1>2 DEF Noticed
  <2>6. CASE m \notin Writable(w)
    <3>1. Final'[m] = Final[m]
      BY <2>6, SavedIsFinal, ViewFacts
    <3> QED BY <3>1, <2>2, <2>3, <2>4, <2>5, <1>1, <1>2, SafeStays
  <2>7. CASE m \in Writable(w)
    <3>0. u # w /\ m \in File
      BY <2>1, <2>7, ViewFacts
    <3>1. Final'[m] = memory[w][m] /\ Final[m] = disk[w][m]
      BY <2>7, <3>0, SavedIsFinal
    <3>2. \A p : /\ Within(Final', m, p) <=> Within(memory[w], m, p)
                 /\ Refers(Final', m, p) <=> Refers(memory[w], m, p)
      BY <3>1, <1>1, SamePointers
    <3>3. \A p : /\ Within(Final, m, p) <=> Within(disk[w], m, p)
                 /\ Refers(Final, m, p) <=> Refers(disk[w], m, p)
      BY <3>1, <1>1, SamePointers
    <3>4. \A f \in File : disk[w][f] = NoFile /\ f \in Writable(w) => Kept(u, f)
      BY <3>0 DEF XmlInv, Files, Kept, Writable
    <3>5. ASSUME NEW p \in File, Within(Final', m, p), ~Within(disk'[u], m, p)
          PROVE  Kept(u, p)' \/ \E v \in User \ {u} : Saves(v, p)'
      <4>1. Within(memory[w], m, p) /\ ~Within(disk[u], m, p)
        BY <3>2, <3>5, <1>2
      <4>2. CASE Within(disk[w], m, p)
        <5>1. Kept(u, p) \/ \E v \in User \ {u} : Saves(v, p)
          BY <3>3, <4>1, <4>2, <2>2 DEF Safe
        <5> QED BY <5>1, <2>3, <2>4
      <4>3. CASE ~Within(disk[w], m, p) /\ disk[w][p] = NoFile
        <5>1. p \in Writable(w)
          BY <4>1, <4>3, <1>3 DEF Sound
        <5> QED BY <5>1, <4>3, <3>4, <2>3
      <4>4. CASE ~Within(disk[w], m, p) /\ disk[w][p] # NoFile
        <5>1. p \in Writable(w) /\ (Live(disk[w], p) => disk[w][p].lastrelid < memory[w][p].lastrelid)
          BY <4>1, <4>4, <1>3 DEF Sound
        <5>2. owner[p] = w /\ repository[p] = disk[w][p]
          BY <5>1, <4>4, SavedIsFinal
        <5>3. Live(memory[w], p)
          <6>1. memory[w][m] # NoFile /\ memory[w][m].parent = p /\ p # None
            BY <4>1, <1>1, ModelsFacts, MarkerAssumption DEF Within
          <6> QED BY <6>1, <1>3 DEF Consistent
        <5>4. memory[w][p] # disk[w][p]
          <6>1. CASE Live(disk[w], p)
            <7>1. disk[w][p].lastrelid \in Nat
              BY <6>1, <1>1, LiveIsThere, ViewFacts
            <7> QED BY <7>1, <6>1, <5>1
          <6>2. CASE ~Live(disk[w], p)
            BY <6>2, <5>3 DEF Live
          <6> QED BY <6>1, <6>2
        <5>5. Saves(w, p)'
          BY <5>1, <5>2, <5>4, <1>2 DEF Saves, SavedBy
        <5> QED BY <5>5, <3>0
      <4> QED BY <4>2, <4>3, <4>4
    <3>6. ASSUME NEW t \in Model, Refers(Final', m, t), ~Refers(disk'[u], m, t)
          PROVE  Kept(u, t)' \/ \E v \in User \ {u} : Noticed(v, u, t)'
      <4>0. t \in File
        BY ViewFacts
      <4>1. Refers(memory[w], m, t) /\ ~Refers(disk[u], m, t)
        BY <3>2, <3>6, <1>2
      <4>2. CASE Refers(disk[w], m, t)
        <5>1. Kept(u, t) \/ \E v \in User \ {u} : Noticed(v, u, t)
          BY <3>3, <4>1, <4>2, <2>2 DEF Safe
        <5> QED BY <5>1, <4>0, <2>3, <2>5
      <4>3. CASE ~Refers(disk[w], m, t) /\ disk[w][t] = NoFile
        <5>1. t \in Writable(w)
          BY <4>1, <4>3, <1>3 DEF Sound
        <5> QED BY <5>1, <4>0, <4>3, <3>4, <2>3
      <4>4. CASE ~Refers(disk[w], m, t) /\ disk[w][t] # NoFile
        <5>1. Tells(w, u)
          BY <2>1, <3>0 DEF XmlInv, Announced
        <5>2. ~Pending(w, t)
          BY <1>3 DEF Pending
        <5>3. Noticed(w, u, t)
          BY <5>1, <5>2, <4>1, <4>4, <1>2 DEF Tells
        <5> QED BY <5>3, <3>0, <2>5
      <4> QED BY <4>2, <4>3, <4>4
    <3> QED BY <3>5, <3>6 DEF Safe
  <2> QED BY <2>6, <2>7
<1> QED BY <1>4 DEF Guarded

LEMMA WriteFileGuarded ==
  ASSUME Habits = {}, XmlInv, NEW w \in User, NEW f \in File, WriteXMLFile(w, f)
  PROVE  Guarded'
<1>1. /\ Final' \in View /\ \A u \in User : disk'[u] \in View
      /\ Final' = Final
  BY ViewsNext, WrittenIsFinal DEF Next, Step
<1>2. /\ phase[w] = "saving" /\ f \in Writable(w) /\ memory[w][f] # NoFile
      /\ UNCHANGED <<listed, signed, memory, before, pending>>
      /\ \A g \in File : g # f => repository'[g] = repository[g]
      /\ disk'[w][f] = memory[w][f] /\ \A g \in File : g # f => disk'[w][g] = disk[w][g]
      /\ \A v \in User : v # w => disk'[v] = disk[v] /\ phase'[v] = phase[v]
      /\ \A g \in File : g # f => owner'[g] = owner[g]
      /\ phase'[w] = IF Writable(w) = {f} THEN "open" ELSE "saving"
      /\ stale' = [v \in User |-> IF v # w /\ disk[v][f] # NoFile /\ memory[w][f] # repository[f]
                                  THEN stale[v] \cup {f} ELSE stale[v]]
      /\ Writable(w)' = Writable(w) \ {f}
      /\ \A v \in User : v # w => f \notin Writable(v) /\ Writable(v)' = Writable(v)
  BY WriteFileFacts
<1>3. Active(w) /\ Final[f] = memory[w][f]
  <2>1. SavedBy(w, f)
    BY <1>2 DEF SavedBy
  <2> QED BY <2>1, <1>2, FinalIs DEF Active, XmlInv, FinalFacts
<1>4. \A v \in User, g \in File : Saves(v, g) /\ g # f => Saves(v, g)'
  <2> SUFFICES ASSUME NEW v \in User, NEW g \in File, Saves(v, g), g # f PROVE Saves(v, g)'
    OBVIOUS
  <2>1. phase[v] = "saving" /\ g \in Writable(v) /\ owner[g] = v /\ memory[v][g] # repository[g]
    BY DEF Saves, SavedBy
  <2>2. g \in Writable(v)' /\ owner'[g] = v /\ memory'[v][g] # repository'[g]
    BY <2>1, <1>2
  <2>3. phase'[v] = "saving"
    BY <2>1, <1>2
  <2> QED BY <2>2, <2>3 DEF Saves, SavedBy
<1>5. \A u, v \in User, t \in Model : Noticed(v, u, t) => Noticed(v, u, t)'
  BY <1>2 DEF Noticed
<1>6. ASSUME NEW u \in User, NEW m \in Model, Active(u)', m \notin Writable(u)' PROVE Safe(u, m)'
  <2>0. m \in File
    BY ViewFacts
  <2>1. CASE u = w /\ m = f
    BY <2>1, <1>1, <1>2, <1>3, SafeKnown
  <2>2. CASE u = w /\ m # f
    <3>1. Safe(w, m)
      BY <2>2, <1>2, <1>3, <1>6 DEF XmlInv, Guarded
    <3>2. \A g \in File : Kept(w, g) => Kept(w, g)'
      BY <1>2 DEF Kept
    <3>3. \A v \in User \ {w} : ~Saves(v, f)
      BY <1>2 DEF Saves, SavedBy
    <3>4. \A v \in User \ {w}, g \in File : Saves(v, g) => Saves(v, g)'
      BY <3>3, <1>4
    <3> QED BY <2>0, <2>2, <3>1, <3>2, <3>4, <1>1, <1>2, <1>5, SafeStays
  <2>3. CASE u # w
    <3>1. Active(u)
      BY <2>3, <1>2, <1>6 DEF Active
    <3>2. Safe(u, m)
      BY <2>3, <3>1, <1>2, <1>6 DEF XmlInv, Guarded
    <3>3. \A g \in File : Kept(u, g) => Kept(u, g)'
      BY <2>3, <1>2 DEF Kept
    <3>4. ASSUME NEW v \in User, Saves(v, f) PROVE Kept(u, f)'
      <4>1. v = w /\ owner[f] = w /\ memory[w][f] # repository[f]
        BY <3>4, <1>2 DEF Saves, SavedBy
      <4>2. CASE disk[u][f] # NoFile
        BY <2>3, <4>1, <4>2, <1>2 DEF Kept
      <4>3. CASE disk[u][f] = NoFile
        <5>1. repository[f] # NoFile
          BY <4>1, XmlAssumption DEF XmlInv, Files
        <5>2. memory[u][f] = NoFile
          BY <5>1, <4>3 DEF XmlInv, Files
        <5> QED BY <2>3, <4>3, <5>2, <1>2 DEF Kept
      <4> QED BY <4>2, <4>3
    <3>5. \A v \in User \ {u}, g \in File : Saves(v, g) => Saves(v, g)' \/ Kept(u, g)'
      BY <3>4, <1>4
    <3> QED BY <2>3, <3>2, <3>3, <3>5, <1>1, <1>2, <1>5, SafeStays
  <2> QED BY <2>1, <2>2, <2>3
<1> QED BY <1>6 DEF Guarded

LEMMA GuardedStep ==
  ASSUME Habits = {}, XmlInv, [Next]_vars
  PROVE  Guarded'
<1>1. ASSUME UNCHANGED vars PROVE Guarded'
  <2>1. UNCHANGED <<repository, owner, listed, disk, stale, memory, phase>>
    BY <1>1 DEF vars, server, client
  <2>2. Final' = Final /\ \A u \in User : Writable(u)' = Writable(u)
    BY <2>1 DEF Final, SavedBy, Writable, ReadOnly
  <2>3. /\ \A u \in User, f \in File : Kept(u, f)' <=> Kept(u, f)
        /\ \A u \in User, f \in File : Saves(u, f)' <=> Saves(u, f)
        /\ \A u, v \in User, t \in Model : Noticed(u, v, t)' <=> Noticed(u, v, t)
        /\ \A u \in User : Active(u)' <=> Active(u)
    BY <2>1, <2>2 DEF Kept, Saves, SavedBy, Noticed, Active
  <2>4. \A u \in User, m \in Model : Safe(u, m) => Safe(u, m)'
    BY <2>1, <2>2, <2>3, ViewFacts DEF Safe
  <2> QED BY <2>2, <2>3, <2>4 DEF XmlInv, Guarded
<1> QED BY StepCases, <1>1, GetLatestGuarded, SignInGuarded, LeaveGuarded, ChangeGuarded,
           CommitGuarded, OnCommitedGuarded, SaveGuarded, WriteFileGuarded

-----------------------------------------------------------------------------
(* The invariant *)

LEMMA XmlStep ==
  ASSUME Habits = {}
  PROVE  XmlInv /\ [Next]_vars => XmlInv'
<1> SUFFICES ASSUME XmlInv, [Next]_vars PROVE XmlInv'
  OBVIOUS
<1>1. TypeInv' /\ CopyInv'
  BY TypeStep, CopyStep DEF XmlInv
<1>2. Quiet' /\ Files' /\ Views' /\ Announced' /\ Guarded'
  BY QuietStep, FilesStep, ViewsStep, AnnouncedStep, GuardedStep
<1>3. Consistent(Final)'
  BY FinalStep
<1> QED BY <1>1, <1>2, <1>3 DEF XmlInv

LEMMA XmlInit ==
  Init => XmlInv
<1> SUFFICES ASSUME Init PROVE XmlInv
  OBVIOUS
<1>1. TypeInv /\ CopyInv
  BY TypeInit, CopyInit
<1>2. /\ \A u \in User : /\ disk[u] = Nothing /\ memory[u] = Nothing /\ before[u] = None
                         /\ pending[u] = {} /\ phase[u] = "closed"
      /\ \A f \in File : owner[f] = None /\ Nothing[f] = NoFile
  BY DEF Init, Nothing
<1>3. Quiet /\ Files
  BY <1>2 DEF Quiet, Files, Active
<1>4. Views
  <2>1. Nothing \in View /\ Consistent(Nothing)
    BY <1>2, ViewFacts DEF Nothing, View, Consistent
  <2>2. \A u \in User : Sound(memory[u], disk[u], Held(u), OnLists(u))
    BY <2>1, <1>2, SoundSame
  <2> QED BY <2>2, <1>2 DEF Views, UserViews
<1>5. Announced /\ Guarded
  BY <1>2 DEF Announced, Guarded, Tells, Active, Pending, Noticed
<1>6. Consistent(Final)
  <2>1. Final = repository /\ repository \in View
    BY <1>1, <1>2, <1>3, FinalIsRepository, XmlTypes
  <2>2. /\ Root \in File /\ Root \notin Model /\ None # Root
        /\ repository[Root] = [Deleted EXCEPT !.lastrelid = Initially]
        /\ \A m \in Model : repository[m] = IF m <= Initially THEN Fresh(Root) ELSE NoFile
    BY ViewFacts DEF Init
  <2>3. repository[Root] # NoFile
    <3>1. [Deleted EXCEPT !.lastrelid = Initially] \in Content
      BY XmlAssumption DEF Deleted, Fresh, Content, File
    <3> QED BY <3>1, <2>2, ViewFacts
  <2>4. Live(repository, Root)
    BY <2>3 DEF Live
  <2>5. Fresh(Root).parent = Root /\ Fresh(Root).referred = None
    BY DEF Fresh
  <2>6. Consistent(repository)
    BY <2>2, <2>4, <2>5 DEF Consistent
  <2> QED BY <2>1, <2>6
<1> QED BY <1>1, <1>3, <1>4, <1>5, <1>6 DEF XmlInv

LEMMA XmlInvariant ==
  ASSUME Habits = {}
  PROVE  Spec => []XmlInv
<1>1. XmlInv /\ [Next]_vars => XmlInv'
  BY XmlStep
<1> QED BY <1>1, XmlInit, PTL DEF Spec

(* The pointers that resolvePointers follows when a project is read        *)
(* ("ASSERT( still_unresolved == 0 )") lead to objects whenever nobody is  *)
(* in the middle of a save: the locks and the lists keep users who do what *)
(* is usual from deleting what others have begun to point to.              *)
THEOREM NoPointerIsLost ==
  ASSUME Habits = {}
  PROVE  Spec => []PointersResolve
<1>1. ASSUME XmlInv PROVE PointersResolve
  <2> SUFFICES ASSUME \A u \in User : phase[u] # "saving", NEW m \in Models(repository)
               PROVE  /\ Live(repository, repository[m].parent)
                      /\ repository[m].referred # None => Live(repository, repository[m].referred)
    BY DEF PointersResolve
  <2>1. repository \in View /\ Consistent(repository)
    BY <1>1, FinalIsRepository, XmlTypes DEF XmlInv
  <2>2. m \in Model /\ repository[m] # NoFile /\ repository[m].parent # None
    BY <2>1, ModelsFacts
  <2> QED BY <2>1, <2>2 DEF Consistent
<1> QED BY <1>1, XmlInvariant, PTL

(* writeXMLFile skips a file that is read-only on disk, "it also means     *)
(* there was no change": no transaction of a user who does what is usual   *)
(* leaves a change in memory without the lock of its file.                 *)
THEOREM NoChangeIsSkipped ==
  ASSUME Habits = {}
  PROVE  Spec => []ChangesAreLocked
<1>1. ASSUME XmlInv PROVE ChangesAreLocked
  <2> SUFFICES ASSUME NEW u \in User, NEW f \in File, phase[u] \in {"open", "locked", "saving"}, ReadOnly(u, f)
               PROVE  memory[u][f] = disk[u][f]
    BY DEF ChangesAreLocked
  <2>1. f \notin Writable(u) /\ Held(u) = Writable(u) /\ UserViews(u)
    BY <1>1 DEF Writable, Held, WriteSet, XmlInv, Views
  <2> QED BY <2>1 DEF UserViews, Sound
<1> QED BY <1>1, XmlInvariant, PTL
=============================================================================
