---------------------------- MODULE CoreXmlFile ----------------------------
(***************************************************************************)
(* Several users share a project through CCoreXmlFile                      *)
(* (GME/XmlBackEnd/CoreXmlFile.cpp) and Subversion: the root and every     *)
(* model are a file of their own, of which each user has a copy on disk    *)
(* and in memory.  A transaction locks the files it changes, saving        *)
(* commits and unlocks them.  What is not in the file of the object it is  *)
(* about is guarded by lists that every user publishes, of objects that    *)
(* others must not move or delete any more.                                *)
(*                                                                         *)
(* A model has one reference object, whose target is another model or      *)
(* none.  Bulk commits and partial loading are off, as they are by         *)
(* default.  The server and the network do not fail; clients do (Crash).   *)
(***************************************************************************)
EXTENDS Naturals, FiniteSets

CONSTANTS
  User,
  None,         \* no user, no object
  NoFile,       \* a file that is not there
  MaxModel,     \* bound: the models that are ever created
  Initially,    \* the models that are in the root when the project is created
  MaxSessions,  \* bound: how often the project is opened
  MaxChanges,   \* bound: how often it is changed
  Habits        \* what users do besides the usual, see below

(* "meanwhile"     somebody opens the project while another user has        *)
(*                 changes that are not saved                               *)
(* "midsave"       somebody opens it while another user is saving           *)
(* "slow"          others do something between the first write of a         *)
(*                 transaction and its commit                               *)
(* "longsessions"  sessions last longer than the limit of the purge delay   *)
(* "undoespast"    somebody undoes what is saved already                    *)
(* "diesinsave"    a client ends in the middle of a save                    *)
Habit == {"meanwhile", "midsave", "slow", "longsessions", "undoespast", "diesinsave"}

ASSUME XmlAssumption ==
  /\ None \notin User /\ Habits \subseteq Habit
  /\ {MaxModel, Initially, MaxSessions, MaxChanges} \subseteq Nat /\ Initially <= MaxModel

Root == 0
Model == 1..MaxModel
File == {Root} \cup Model
Object == Model \X {"model", "reference"}
Content == [parent : File \cup {None}, referred : Model \cup {None}, lastrelid : Nat]
View == [File -> Content \cup {NoFile}]
\* An item of a list, and the users that have signed in since its time.
Entry == [object : Object, later : SUBSET User]

\* What stands for nothing is nothing else.
ASSUME MarkerAssumption == None \notin File /\ None \notin View /\ NoFile \notin Content

VARIABLES
  repository,  \* the newest revision of every file
  owner,       \* who has its lock
  listed,      \* the entries on the list of every user
  signed,      \* the users that are signed in
  disk,        \* the copies of the files
  stale,       \* the copies that are not the newest revision
  memory,      \* the objects as the user has them
  before,      \* the same before the last transaction, or None
  pending,     \* the entries of the open transaction (m_list)
  phase,       \* what the user's client is about to do
  sessions, changes  \* counters for the bounds

server == <<repository, owner, listed, signed>>
client == <<disk, stale, memory, before, pending, phase>>
bounds == <<sessions, changes>>
vars == <<server, client, bounds>>

-----------------------------------------------------------------------------
(* Files and objects *)

Fresh(p) == [parent |-> p, referred |-> None, lastrelid |-> 0]
\* A model is deleted when it has no parent; the file is then empty.
Deleted == Fresh(None)
Nothing == [f \in File |-> NoFile]

Live(view, f) == view[f] # NoFile /\ (f = Root \/ view[f].parent # None)
Models(view) == {m \in Model : Live(view, m)}

Init ==
  /\ repository = [f \in File |-> IF f = Root THEN [Deleted EXCEPT !.lastrelid = Initially]
                                  ELSE IF f <= Initially THEN Fresh(Root) ELSE NoFile]
  /\ owner = [f \in File |-> None]
  /\ listed = [u \in User |-> {}] /\ signed = {}
  /\ disk = [u \in User |-> Nothing] /\ memory = [u \in User |-> Nothing]
  /\ stale = [u \in User |-> {}] /\ before = [u \in User |-> None]
  /\ pending = [u \in User |-> {}] /\ phase = [u \in User |-> "closed"]
  /\ sessions = 0 /\ changes = 0

\* What reading the files gives: a pointer that leads nowhere is NULL.
Resolved(view, target) == IF target \in File /\ Live(view, target) THEN target ELSE None
Read(view) ==
  [f \in File |-> IF Live(view, f) /\ f # Root
                  THEN [view[f] EXCEPT !.parent = Resolved(view, @), !.referred = Resolved(view, @)]
                  ELSE view[f]]

Tree(view, m) ==
  LET Down[n \in 0..MaxModel] ==
        IF n = 0 THEN {m} ELSE Down[n - 1] \cup {x \in Models(view) : view[x].parent \in Down[n - 1]}
  IN  Down[MaxModel]

-----------------------------------------------------------------------------
(* When users act *)

Turn(u) == "slow" \in Habits \/ \A v \in User \ {u} : phase[v] # "writing"

Unsaved(u) == memory[u] # disk[u] \/ phase[u] \in {"writing", "locked", "saving"}

MayOpen(u) ==
  \A v \in User \ {u} :
    Unsaved(v) => (IF phase[v] = "saving" THEN "midsave" ELSE "meanwhile") \in Habits
MayChange(u) == "meanwhile" \in Habits \/ \A v \in User \ {u} : phase[v] # "opening"

-----------------------------------------------------------------------------
(* Opening and closing *)

GetLatestVersion(u) ==
  /\ phase[u] = "closed" /\ sessions < MaxSessions /\ Turn(u) /\ MayOpen(u)
  /\ disk' = [disk EXCEPT ![u] = repository]
  /\ memory' = [memory EXCEPT ![u] = Read(repository)]
  /\ phase' = [phase EXCEPT ![u] = "opening"]
  /\ sessions' = sessions + 1
  /\ UNCHANGED <<server, stale, before, pending, changes>>

\* Entries that are older than the time at which any of the users S signed in.
Outdated(entries, S) == {e \in entries : "longsessions" \in Habits \/ S \subseteq e.later}

Later(entries, u) == {[e EXCEPT !.later = @ \cup {u}] : e \in entries}

\* The rest of OpenProject: signing in and purging the list.
SignIn(u) ==
  /\ phase[u] = "opening" /\ Turn(u)
  /\ signed' = signed \cup {u}
  /\ LET all == [v \in User |-> Later(listed[v], u)]
     IN  listed' = [all EXCEPT ![u] = @ \ Outdated(@, signed')]
  /\ pending' = [v \in User |-> Later(pending[v], u)]
  /\ phase' = [phase EXCEPT ![u] = "open"]
  /\ UNCHANGED <<repository, owner, disk, stale, memory, before, bounds>>

\* What is in memory is gone; the locks stay.
Leave(u) ==
  /\ disk' = [disk EXCEPT ![u] = Nothing] /\ memory' = [memory EXCEPT ![u] = Nothing]
  /\ stale' = [stale EXCEPT ![u] = {}] /\ before' = [before EXCEPT ![u] = None]
  /\ pending' = [pending EXCEPT ![u] = {}] /\ phase' = [phase EXCEPT ![u] = "closed"]
  /\ UNCHANGED <<repository, owner, bounds>>

\* The copy of the file that says who is signed in may be old, which keeps
\* entries on the list.
CloseProject(u) ==
  /\ phase[u] = "open" /\ Turn(u)
  /\ \E purged \in SUBSET Outdated(listed[u], signed) : listed' = [listed EXCEPT ![u] = @ \ purged]
  /\ signed' = signed \ {u}
  /\ Leave(u)

Crash(u) ==
  /\ phase[u] \notin {"closed", "opening"} /\ Turn(u)
  /\ phase[u] = "saving" => "diesinsave" \in Habits
  /\ Leave(u) /\ UNCHANGED <<listed, signed>>

-----------------------------------------------------------------------------
(* Writing *)

\* What a transaction does that changes the objects from old to new: models
\* and references are taken out of their parents, references led away from
\* their target and to a new one.
Removed(old, new) ==
  LET moved == {m \in Models(old) : new[m].parent # old[m].parent}
  IN  (moved \X {"model"}) \cup ({m \in moved : new[m].parent = None} \X {"reference"})

Redirected(old, new) == {m \in Models(old) : old[m].referred \notin {None, new[m].referred}}

Targets(old, new) ==
  {new[m].referred : m \in {n \in Models(new) : old[n] = NoFile \/ old[n].referred # new[n].referred}}
    \ {None}

\* mutant: the new target of a pointer is not added.
ProtectedButTargets(old, new) == Removed(old, new) \cup (Redirected(old, new) \X {"reference"})

Protected(old, new) ==
  Removed(old, new) \cup (Redirected(old, new) \X {"reference"}) \cup (Targets(old, new) \X {"model"})

\* mutant: only what moves makes its file modified.
Moved(old, new) ==
  {f \in File : old[f] = NoFile \/ old[f].parent # new[f].parent} \cup Targets(old, new)

\* The files of all objects that are written, and of new targets.
Modified(old, new) == {f \in File : old[f] # new[f]} \cup Targets(old, new)

OnLists(u) == {e.object : e \in UNION {listed[v] : v \in User \ {u}}}

\* The writes of a transaction: what is on a list is not moved or deleted.
Write(u, new) ==
  /\ phase[u] = "open" /\ changes < MaxChanges /\ Turn(u) /\ MayChange(u)
  /\ Removed(memory[u], new) \cap OnLists(u) = {}
  /\ memory' = [memory EXCEPT ![u] = new]
  /\ before' = [before EXCEPT ![u] = memory[u]]
  /\ pending' = [pending EXCEPT ![u] =
                   [object : Protected(memory[u], new), later : {{}}]]
  /\ phase' = [phase EXCEPT ![u] = "writing"]
  /\ changes' = changes + 1
  /\ UNCHANGED <<server, disk, stale, sessions>>

\* A relative id is taken from the new parent.
Into(view, m, content) ==
  [view EXCEPT ![m] = content, ![content.parent].lastrelid = @ + 1]

Unused == {m \in Model : repository[m] = NoFile /\ \A u \in User : memory[u][m] = NoFile}

CreateModel(u, p) ==
  /\ Unused # {} /\ Live(memory[u], p)
  /\ LET m == CHOOSE x \in Unused : \A y \in Unused : x <= y
     IN  Write(u, Into(memory[u], m, Fresh(p)))

MoveModel(u, m, p) ==
  /\ Live(memory[u], m) /\ Live(memory[u], p)
  /\ p \notin Tree(memory[u], m) \cup {memory[u][m].parent}
  /\ Write(u, Into(memory[u], m, [memory[u][m] EXCEPT !.parent = p]))

\* With a model go its parts, and references to any of these lose their target.
DeleteModel(u, m) ==
  /\ Live(memory[u], m)
  /\ LET doomed == Tree(memory[u], m)
     IN  Write(u, [f \in File |->
                     IF f \in doomed THEN Deleted
                     ELSE IF f \in Models(memory[u]) /\ memory[u][f].referred \in doomed
                          THEN [memory[u][f] EXCEPT !.referred = None]
                          ELSE memory[u][f]])

Refer(u, m, t) ==
  /\ Live(memory[u], m) /\ t \in {None} \cup Models(memory[u])
  /\ memory[u][m].referred # t
  /\ Write(u, [memory[u] EXCEPT ![m].referred = t])

\* Undo of the last transaction, and redo of what is undone last.
Undo(u) ==
  /\ before[u] # None
  /\ Write(u, [f \in File |-> IF before[u][f] = NoFile /\ memory[u][f] # NoFile
                              THEN Deleted ELSE before[u][f]])

-----------------------------------------------------------------------------
(* Committing a transaction *)

\* Files that are there and not locked by the user are read-only.
ReadOnly(u, f) == disk[u][f] # NoFile /\ owner[f] # u

\* mutant: whether the copy is the newest is not asked.
Free(u, f) == owner[f] = None

\* The lock of a file is granted if nobody has it and the copy is the newest.
Lockable(u, f) == owner[f] = None /\ f \notin stale[u]

Needed(u) == {f \in Modified(before[u], memory[u]) : ReadOnly(u, f)}

Lock(u, F) == owner' = [f \in File |-> IF f \in F THEN u ELSE owner[f]]

CommitTransaction(u) ==
  /\ phase[u] = "writing"
  /\ \A f \in Needed(u) : Lockable(u, f)
  /\ Lock(u, Needed(u))
  /\ phase' = [phase EXCEPT ![u] = IF pending[u] = {} THEN "open" ELSE "locked"]
  /\ UNCHANGED <<repository, listed, signed, disk, stale, memory, before, pending, bounds>>

\* mutant: the abort keeps the entries.
CommitFailsKeepingEntries(u) ==
  /\ phase[u] = "writing"
  /\ \E f \in Needed(u) : ~Lockable(u, f)
  /\ memory' = [memory EXCEPT ![u] = before[u]]
  /\ phase' = [phase EXCEPT ![u] = "open"]
  /\ UNCHANGED <<server, disk, stale, before, pending, bounds>>

\* The transaction is aborted.  The locks that were granted stay.
CommitFails(u) ==
  /\ phase[u] = "writing"
  /\ \E f \in Needed(u) : ~Lockable(u, f)
  /\ Lock(u, {f \in Needed(u) : Lockable(u, f)})
  /\ memory' = [memory EXCEPT ![u] = before[u]]
  /\ before' = [before EXCEPT ![u] = None]
  /\ pending' = [pending EXCEPT ![u] = {}]
  /\ phase' = [phase EXCEPT ![u] = "open"]
  /\ UNCHANGED <<repository, listed, signed, disk, stale, bounds>>

\* The last thing a commit does is to put the entries on the list.  Of the
\* entries for an object the youngest is kept.
OnCommited(u) ==
  /\ phase[u] = "locked" /\ Turn(u)
  /\ listed' = [listed EXCEPT ![u] =
                  {e \in @ : \A n \in pending[u] : n.object # e.object} \cup pending[u]]
  /\ pending' = [pending EXCEPT ![u] = {}]
  /\ phase' = [phase EXCEPT ![u] = "open"]
  /\ UNCHANGED <<repository, owner, signed, disk, stale, memory, before, bounds>>

-----------------------------------------------------------------------------
(* Saving *)

Writable(u) == {f \in File : memory[u][f] # NoFile /\ ~ReadOnly(u, f)}

\* What was read goes first, then what was created, in that order.
Due(u, f) ==
  disk[u][f] = NoFile => \A g \in Writable(u) : disk[u][g] = NoFile /\ f <= g

SaveProject(u) ==
  /\ phase[u] = "open" /\ Writable(u) # {} /\ Turn(u)
  /\ phase' = [phase EXCEPT ![u] = "saving"]
  /\ before' = IF "undoespast" \in Habits THEN before ELSE [before EXCEPT ![u] = None]
  /\ UNCHANGED <<server, disk, stale, memory, pending, bounds>>

\* A file is written, committed if that changed it, and unlocked.
WriteXMLFile(u, f) ==
  /\ phase[u] = "saving" /\ Turn(u)
  /\ f \in Writable(u) /\ Due(u, f)
  /\ disk' = [disk EXCEPT ![u][f] = memory[u][f]]
  /\ repository' = [repository EXCEPT ![f] = memory[u][f]]
  /\ stale' = [v \in User |-> IF v # u /\ disk[v][f] # NoFile /\ memory[u][f] # repository[f]
                              THEN stale[v] \cup {f} ELSE stale[v]]
  /\ owner' = [owner EXCEPT ![f] = None]
  /\ phase' = [phase EXCEPT ![u] = IF Writable(u) = {f} THEN "open" ELSE "saving"]
  /\ UNCHANGED <<listed, signed, memory, before, pending, bounds>>

-----------------------------------------------------------------------------
Change(u) ==
  \/ \E p \in File : CreateModel(u, p)
  \/ \E m \in Model, p \in File : MoveModel(u, m, p)
  \/ \E m \in Model : DeleteModel(u, m)
  \/ \E m \in Model, t \in Model \cup {None} : Refer(u, m, t)
  \/ Undo(u)

Step(u) ==
  \/ GetLatestVersion(u) \/ SignIn(u) \/ CloseProject(u) \/ Crash(u)
  \/ Change(u)
  \/ CommitTransaction(u) \/ CommitFails(u) \/ OnCommited(u)
  \/ SaveProject(u) \/ \E f \in File : WriteXMLFile(u, f)

Next == \E u \in User : Step(u)

Spec == Init /\ [][Next]_vars
=============================================================================
