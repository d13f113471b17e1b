# A formal model of GME's model repository

GME (the Generic Modeling Environment) keeps domain models in a repository
with transactions, undo and redo, notifications and derived types. This
directory holds TLA+ modules that model the layers of that repository, the TLC
configurations that check them on small instances, and theorems about them
proved with TLAPS. `PROJECT.json` lists the runs, the theorems, the source lines
every definition stands for, the hazards the properties are aimed at and what was
found.

## The system

A running GME is one process. Windows and interpreters (Gme, GMEActiveBrowser,
ObjectInspector, the components of users) talk through COM to the **Mga** layer, which
knows models, connections, references, sets, types and instances. Mga keeps
everything it knows in the **Core**, which knows only objects, typed attributes,
pointers and collections, and gives transactions and undo over them. The Core keeps
its data in a **storage**: a binary file (`CoreBinFile`) or an XML file under source
control, which several users share, each with a GME of their own. Otherwise everything runs on one COM apartment thread; what interleaves are the calls
of the clients, and the callbacks (event handlers, add-ons) that the Mga layer makes
in the middle of a commit.

| component | state | operations | what makes it correct |
|---|---|---|---|
| `CCoreProject` | stack of transactions with the attributes each wrote, undo list, redo counter, list of objects in the final commit | begin, commit, abort (nested or final), undo, redo, flushes, open, close | the lists stay consistent; the whole implements documents with undo |
| `CCoreDataAttribute` | a ring of values: current, one per open level that wrote it, one per undo step | read, write, nested/final commit and abort, undo, redo, discard | the ring has exactly the values the lists call for |
| `CCoreLockAttribute` | counts of readers and writers, the other clients' share of the lock value | register, load, unload, save | attributes are in memory exactly while locked; lock values never count wrong |
| `CCorePointerAttrBase`, `CCoreCollectionAttribute` | ring of targets, set of loaded objects pointing here, "up to date" flag | write, read collection, delete object | collections and pointers agree; nothing points to a deleted object |
| `CCoreObject` | its attributes, membership in the final commit | create, delete, load group, commit, abort | the storage loses an object only when no step can bring it back |
| `CCoreBinFile` | object table, values still in the mapped file, created and deleted objects, output stream | its own transactions, save, load, close | the file always holds a whole document; the table depends on no file that is gone |
| `CCoreXmlFile`, Subversion | the newest files and their locks, lists of objects not to be deleted, who is signed in; copies of each user | open, sign in, transactions that lock, save file by file, close | nobody's change is lost; every pointer in the files leads somewhere |
| `CMgaProject`, `CMgaTerritory` | open state, count of changes, GUID state, base and active territory, nesting flags, three notification queues | begin, commit, abort, nested, undo, redo, save, close, notify | handlers hear of each change; the status tells the truth |
| add-ons, territories | two lists without references, masks, who holds which object | create, destroy, release, notify | every loop over the lists survives what handlers do to them |
| Mga objects | change masks, parent, base, target, relative id | create, move, derive, delete, refer | derived objects follow their types; deletion cascades; copying ends |
| paradigms, parser, dumper, constraint manager, user interface, decorators, SDK, tools | their own | clients of the layers above | not modelled, see below |

Hard behaviours: any nesting of commit and abort between undo and redo; the release of
a lock in the middle of the loop that walks over locks; a storage that fails half-way
through a commit; callbacks that change what is being announced; counters and flags that
live outside of the transactions and survive a save, an abort or an undo; a disk that fails or a
process that ends in the middle of a save; users who change, at the same time and in different
files, things that depend on each other; transformations of a type that have to be
repeated in everything that is derived from it.

## The modules

| module | models | lines of code it stands for |
|---|---|---|
| `CoreUndo` | abstract: documents, transactions, undo and redo as a client sees them | the contract of `ICoreProject` |
| `CoreTransactions` | `CCoreProject`, the rings of `CCoreDataAttribute`, what is loaded | `CoreProject.cpp`, `CoreAttribute.cpp`, `CoreObject.cpp` |
| `CoreTransactionsProps` | its invariants and the refinement of `CoreUndo` | |
| `Occurrences`, `CoreTransactionsProofs` | counting lemmas and the proofs of the invariants of `CoreTransactions` | |
| `CoreUndoProofs` | the proofs that it implements `CoreUndo`, that the storage holds what is committed and that the list is bounded | |
| `CoreObjects` | pointers, collections, lock counts, creation and deletion of objects | `CoreAttribute.cpp`, `CoreObject.cpp` |
| `CoreObjectsProps`, `CoreObjectsProofs` | its invariants, and their proofs | |
| `MgaProject` | `CMgaProject` on top of `CoreUndo`, the masks of `FCO` | `MgaProject.cpp`, `MgaFCO.cpp`, `MgaTrukk.h` |
| `MgaProjectProps`, `MgaProjectProofs` | its invariants, the liveness of its methods, and the proofs of the invariants | |
| `CoreBinFile` | the table of objects in memory, its transactions, saving step by step with failures and crashes | `CoreBinFile.cpp`, `CoreBinFile.h` |
| `CoreBinFileProps`, `CoreBinFileProofs` | its invariants and the proofs of all of them | |
| `MgaDerive` | models and references that are created, derived, moved, redirected and deleted | `MgaComplexOps.cpp`, `MgaDeriveOps.cpp`, `MgaReference.cpp`, `MgaModel.cpp`, `MgaFolder.cpp`, `MgaCoreObj.cpp`, `MgaCheck.cpp` |
| `MgaDeriveProps` | what clients of types and instances rely on | |
| `MgaSinks` | add-ons and territories that come and go while they are notified | `MgaProject.cpp`, `MgaTerritory.cpp`, `MgaFCO.cpp` |
| `MgaSinksProps`, `MgaSinksProofs` | what they rely on, and the proofs of it | |
| `CoreXmlFile` | users that share a project in XML files | `XmlBackEnd/CoreXmlFile.cpp`, `SVNCode/HiClient.cpp` |
| `CoreXmlFileProps`, `CoreXmlFileProofs` | what they rely on, and its proofs | |
| `MC*` | the small instances TLC checks | |

`CoreObjects` instantiates `CoreTransactions` for the operators the two share;
`CoreTransactions` is shown to implement `CoreUndo`; `MgaProject` is built on
`CoreUndo`, which that refinement entitles it to. `CoreBinFile` stands on its own: its
guards about the Core (it stores only in a commit, deletes only what nothing points to)
are what `CoreObjects` shows of it. `MgaDerive` takes every method as a step, since a
method that fails is undone by its nested transaction, which `CoreTransactions` shows.
`MgaSinks` has the steps inside of what `MgaProject` takes as the call of a handler.
`CoreXmlFile` takes a transaction of the Core as one change of a user's copy.

### CoreTransactions

One variable per field of `CCoreProject`: `transactions` (innermost first, with the
attributes the level has registered and its mode), `finaltr_items`, `undos` (newest
first; the last `redo_count` of them are undone), `redo_count`, `maxUndoStep`. Every
attribute has a ring `values[a]`, empty while it is not loaded, and may be in `dirty`,
the flags of the innermost level. `locked` are the objects whose lock attribute is dirty
(they were used by the open transaction); `storage` is what the storage holds.
Each public method is one action with everything it calls: `BeginTransaction` discards
redo steps and the oldest undo steps; `CommitTransaction` and `AbortTransaction`, nested
or final, walk over the registered attributes and release locks at the end;
`UndoTransaction` and `RedoTransaction` turn the rings of the attributes of one step and
the list; `CommitFails` and `UndoOrRedoFails` are a storage that fails in the middle,
after any part of the values has been stored. `Get` and `Put` are `get_Value` and
`put_Value` of an attribute.

### CoreObjects

The same levels, list and rings for pointer attributes, and in addition the counts
`read_count` and `write_count` of every lock, the objects that are `stored` and that have
been `created` in the open transaction, the ids `used`, and `uptodate`, the flag by which
a collection says that it is complete in memory. A ring with several values locks its own
object exclusively and every object in it for writing. Deleting an object sets its
pointers to NULL; the storage loses it with the last lock, in a commit, an abort, or when
the last step that knows it is discarded. `Careful` says that clients use the Core as the
Mga layer does: it deletes an object after whatever points to it, and writes no pointer
to a deleted object. Some properties hold for such clients only, others for all.

### MgaProject

`doc`, `saved`, `past`, `future`, `limit` are those of `CoreUndo`; the attributes are one
per object, one for the properties of the root and its GUID. `opened`,
`transactioncount`, `guidstat`, `pendingguid`, `must_abort` and `notifyqueueprocessed` are
fields of the class; `mode` stands for `read_only`, `non_nestable` and whether `baseterr`
is there. The queues are `temporalobjs`, `changedobjs` and `notifyobjs`, as sets, and
`temporalmask`, `changemask`, `notifymask` are the objects whose mask is not zero.
`seen` and `shown` are the objects as the add-on and the territory know them.

Committing, saving and closing call handlers, so they are several steps; `phase` says
where the running method is:

    open -> notify -> commit -> idle          CommitTransaction
    idle -> event -> notify -> commit -> idle Save and Close of a changed project
                       |
                       +-> open | abort       an add-on failed

In `notify` the add-on is told of one object after the other and may write
(`NotifyAddOn`, `Change`, `AddOnReturns`, `AddOnFails`), `TellTerritories` is the rest of
`CommitNotify` together with the second call of it, and `CommitEnds` commits the Core and
sets the status. A write is one whole method with its nested transaction (`Change`), a
method that fails after it has written (`ChangeFails`), or a method under the preference
`MGAPREF_NO_NESTED_TX` (`ChangeNotNested`).

Choices: a handler reads and writes, but begins, commits and aborts no transaction; one
add-on hears all events, and one territory holds every object; `Close` in an open
transaction is `AbortTransaction` followed by `Close`; a queue is a set, since nothing
depends on the order of the objects in it. `Habits` names what clients, the add-on
and the disk do besides the usual; each run says which of these it allows.

| habit | what happens |
|---|---|
| `nonested` | the preference `MGAPREF_NO_NESTED_TX` is set |
| `latewrites` | the add-on writes when it hears `GLOBALEVENT_COMMIT_TRANSACTION` |
| `autosave` | the project is saved under another name and keeps its own |
| `undoespast` | the client undoes what is in the file already |
| `addonfails`, `savefails`, `closefails` | the add-on, saving or closing returns a failure |
| `putsguid` | the client sets the GUID by hand |
| `carrieson` | the client commits although a method said `E_MGA_MUST_ABORT` |
| `upgrades` | `Open` brings the project to another paradigm |

### CoreBinFile

`known` is the table `objects`; an object has one value, one pointer and the collection
`backing` of those that point to it. A value is `lazy` while it is an offset into the file
that `file_buffer` maps (`mapped`), and `lost` if that map went away first. `CreateProject`,
`OpenProject` (with `LoadProject`), `CreateObject`, `ReadObject`, `PutValue`, `PutPointer`,
`DeleteObject`, `CommitTransaction`, `AbortTransaction`, `SaveProject` and `CloseProject`
are the methods of the class and what they call: a commit erases the deleted objects, an
abort the created ones, and nothing else is taken back. A save is one step per call
that can fail (`SaveStep`): the copy of a file to be kept, opening the stream, writing it, releasing the
map, renaming, mapping again. Any of them may fail, and `Crash` may come between any two;
`disk` and `tmp` are the files, complete or `Torn`. What a file may hold by what callers
were told is in `kept`, which no action of the code reads.

### MgaDerive

`fco` maps the objects to their attributes: `parent`, `derived` (the base), `master` and
`referred` of a reference, `relid`, `lastrelid` (`ATTRID_RELID`, `ATTRID_LASTRELID`), and
whether it is an instance. Ids are handed out in order. `DeriveTree` copies a tree below
its base (`ObjTreeDerive`), `ObjTreeReconnect` leads the references inside of it to the
counterparts, `ReDeriveNewObj` repeats for every model derived from the container what was
put into it, `DeriveMoved` what was moved inside of it, `PutReferred` and `ToCheck` what a
new target does to the heirs of a reference. `Finish` runs the checks of `docheck` over what
was touched; if they fail the method is rolled back. `CreateModel`, `CreateReference`,
`DeriveFCO`, `MoveFCO`, `DeleteObject`, `Refer` (`put_Referred`) and `RefRevertToBase` are
the methods of the interface. Preferences and the operations mask are at their defaults
(0x0026662A; `MGAPREF_FREEINSTANCEREFS` is off). `ClientDerives` and `ClientMoves` say what clients
do; the code has no such checks. They leave out deriving what has something derived from its parts, and
the moves that lead references astray in the ways listed below. `AnyClient` lifts both, for experiments.

### MgaSinks

`alladdons` and `allterrs` are the lists, newest first. A sink that no client refers to
(`dropped`) is destroyed with the last reference of the project, of an object's interface
(`holders`) or of a loop. `calls` are the notifications that run, innermost first: which
loop, where its iterator is (`next`), whose handler runs, what `popterr` will undo. `activeterr` is a
reference as well: `pushterr` releases the territory that was active before, which matters when an add-on that
failed has left the reserve territory there. A round of a
loop up to the call of a handler is a step, so is all a handler does in between (creating,
destroying, releasing sinks, setting a property, which is a notification of its own), and so
is its return. `agenda` is what the method that ends the transaction has left to announce.
`Considerate` handlers destroy nothing a loop of the code cannot bear; `MaxDepth` bounds
notifications inside of one another.

### CoreXmlFile

The root and every model are a `File` each, with the parent of the model, the target of its one
reference and `lastrelid`, which changes with every child (`ATTRID_LASTRELID`; the line of
`put_AttributeValue` that would ignore it is switched off by `0&&`). `repository` is the newest revision of
each, `owner` has its lock; `disk[u]` is the user's working copy, `stale[u]` says which files of it are
not the newest, `memory[u]` are the objects. `listed` are the protect lists, `pending` what the
open transaction will add to the user's own; an entry knows who has signed in since it was
made (`later`), which is all the code does with its time.

    closed -> opening -> open -> writing -> locked -> open      GetLatestVersion, SignIn, Write,
                          |        |                            CommitTransaction, OnCommited
                          |        +-> open                     CommitFails: locks refused, abort
                          +-> saving -> open                    SaveProject, WriteXMLFile

`Write` is all that one transaction stores (`CreateModel`, `MoveModel`, `DeleteModel`, `Refer`, `Undo`); an object
on somebody else's list is not moved or deleted. `CommitTransaction` locks the files of all
`Modified` objects that are read-only, which the server does for files that nobody has locked
and of which the copy is the newest. `WriteXMLFile` writes, commits and unlocks one file. A
`Crash` loses the memory and leaves the locks. `Habits` are, as in `MgaProject`, what users do besides the usual:

| habit | what happens |
|---|---|
| `meanwhile` | somebody opens the project while another user has changes that are not saved |
| `midsave` | somebody opens it while another user is saving |
| `slow` | others do something between the first write of a transaction and its commit |
| `longsessions` | sessions last longer than `m_purgeDelayFactor` |
| `undoespast` | somebody undoes what is saved already |
| `diesinsave` | a client ends in the middle of a save |

The usual is that users open the project when everybody has saved, and then change it
together. The time between looking at the lists and having the locks is seconds, and the code
has nothing against any of these habits; what each of them breaks is below.

## What is checked

Runs that pass:

| run | instance | shows |
|---|---|---|
| `core_invariants` | 2 objects with 2 and 1 attributes, 2 values, 2 undo steps, 2 nested levels, 1 failure; 890,000 states | types; list and counter agree; the list is bounded; each ring has exactly the values levels and steps account for; loaded exactly if locked; dirty exactly if registered |
| `core_refines_undo` | 2 attributes of one object, 3 nested levels, undo sizes 0 to 2; 73,000 states | the Core implements `CoreUndo`; the storage holds the committed document |
| `core_objects` | root and 2 objects with a pointer each, 2 undo steps; 146,000 states | no pointer to a deleted object, what undo needs is stored, nothing else stays |
| `core_objects_any_client` | the same with 1 undo step, 2 nested levels, a refused deletion and careless clients; 285,000 states | lock counts are what the rings call for; a commit looks only at loaded pointers; complete collections are complete |
| `core_binfile` | root and 2 objects, 2 files, 2 saves, 4 changes, 1 failure or crash; 666,000 states | no failure or crash costs the document; completed files load; values, collections and ids stay right |
| `mga_project` | 1 object, 2 undo steps, 2 GUIDs, 2 writes of the add-on in a commit; 784,000 states | a changed project says so; equal GUIDs mean equal files; commit, save and close return |
| `mga_notify` | 2 objects, an add-on that writes and fails, copies saved, saves that fail, GUIDs set by hand; 2,000,000 states | add-on and territories know every change; masks and queues agree |
| `mga_derive` | 2 models, 1 reference, 6 objects with a reference counting as two, 2 derivations; 65,000 states | derived models mirror their bases; relative ids tell what came along; instances are closed; copying ends; inherited references agree and follow what was derived along; deletion leaves nothing behind |
| `mga_sinks` | 2 add-ons, 3 territories, one notification at a time; 250,000 states | every loop stays on its list and comes to each sink that stays, once |
| `xml_team` | 2 users, 3 models, 4 sessions, 2 changes, no habits; 122,000 states | users save only what they have locked, in its newest revision; every pointer in the files leads somewhere |

Runs that show where the code does not do what it says (each is a finding in
`PROJECT.json`):

| run | what happens |
|---|---|
| `core_abort_after_failure` | a commit that fails half-way, then an abort: the storage keeps the half, because `CoreBinFile` records no old values |
| `xml_purged_too_early` | with `meanwhile`: a list entry is purged when everybody has signed in after the change, though one of them fetched the files before it was saved; the target of a saved reference is deleted |

Some properties hold only without certain habits; giving a run the habit shows why:

- `StatusTellsChange` with `undoespast`: saving sets the count of changes to zero but keeps the
  undo list, so that undoing a saved change leaves the project "unchanged", and closing GME loses the undo without
  asking. This contradicts "bit 2 set: project has changed" (`Mga.idl`).
- `StatusTellsChange` with `autosave`: the GUID that saving a copy writes is a step for
  undo that is not counted, so that one undo brings the count of changes to zero. The
  transaction of `upgrades` is not counted either, nor the GUID step of a save that fails
  (`savefails`), nor what the add-on writes when it hears of the commit (`latewrites`).
- `StatusTellsChange` and `AddOnSeesAll` with `nonested` and two objects: what the add-on
  changes while it is told of another object is left for the second round, for which
  `CommitTransaction` empties `changedobjs` but leaves the objects' `changemask`; they are
  never put into the queue again.
- `GuidTellsContent` with `putsguid`: an abort after `put_GUID` leaves `guidstat` at MANUAL,
  and the next change is saved under the old GUID.
- `GuidTellsContent` with `addonfails`: when the add-on fails in a save, the transaction that
  wrote the new GUID is aborted and the save goes on, so that changed content is saved under
  the old GUID. It fails with each habit with which the status is wrong, too.
- `StatusTellsChange` with `carrieson`: a transaction of mode `TRANSACTION_NON_NESTED` that must be
  aborted is committed, since `CommitTransaction` does not look at `must_abort`, and what the
  method that failed has written is counted as no change.
- `OpenProject2` of an open project fails, but the undo size it was given takes effect. The
  assertion in `BeginFinalTr` that the list is not longer than that then fails for a
  reader, which is why `UndoListBounded` is checked for one size.

- `PointersResolve` with any habit of `CoreXmlFile`. `slow`: two users look at the lists before either
  has published, and one refers to what the other deletes. `midsave`: who opens then sees half of
  what is saved, takes a pointer to a file that is not there yet for NULL, and saves that. `diesinsave`: the other half is never
  saved. `longsessions`: entries go after that time whoever has seen them. `undoespast` (with 4 changes): undoing
  a saved deletion brings a model back whose parent another user has deleted since. `ChangesAreLocked` then
  fails as well, as a pointer that leads nowhere is read as NULL; `TypeOK` and `OwnersAreCurrent` hold
  with all habits at once (2 models, 3 sessions, 2 changes).

Learnt while modelling, and in no run:

- Core: a `Delete` that is refused keeps its exclusive lock for the rest of the session, and
  `Delete` takes an object that is known but not loaded for one that points elsewhere; the
  clients of `CoreObjects` avoid both or count them (`MaxRefusals`).
- Binary file: writing NULL to pointers alone does not set `modified`, so that closing does
  not save (the Mga layer writes the GUID first, which does). `CloseProject` lets the
  table go whether or not its save succeeds. Saving a project that has no name yet, or was never saved under the one it has, under
  another name while it is to keep its own reports a failure though the file is written. A save that fails may leave the stream open, so that
  the next one fails as well, without harm.
- XML files: when some locks are refused the others stay, although the message says "Rollback follows."; two
  users can block each other that way. A commit to the server that fails is taken for nothing to commit
  if the unlocking after it succeeds (`commitSVN`). Entries that could not be published stay pending and go with the next
  commit. The session folder is refreshed by a path relative to the working directory, and only once in a transaction. Two users
  may move two models into each other's parts, which then hang from nothing (needs four models).
- Derivation: deriving or moving what comes from a part of a derived model into that
  model's base makes `ReDeriveNewObjs` call itself for ever, since `CheckConflict` looks for the
  outermost type only (`FromAPart` in `CopyingEnds`). A reference that has its own target
  may be led elsewhere by a move within the type, which its heirs do not follow. A relative
  id can occur twice after a move. `E_MGA_LONG_DERIVCHAIN` is never raised: after
  fifteen levels the relative id becomes negative. Moving an object into its own counterpart
  erases both.
- Derivation: when a model is moved into a type in which a reference has referred to it, the reference still leads out
  of what is derived from the type: `ObjTreeInternalize` leaves references out, though the comment on it
  names them. Such moves are not in the runs (`ClientMoves`).
- Derivation: nor are moves within a type that take along, in a counterpart, a reference that has its own target
  and something derived from it: the reference may get another target, which what is derived from it is not
  checked against (`InheritedRefsAgree` fails with two models and two derivations; with `MaxObject` 8).
- Notification: an add-on that fails in a commit is left between `pushterr` and `popterr`: the reserve territory
  stays the active one. An add-on that sets a property while it is called starts a notification in which another one
  may destroy itself; the outer loop may stand on that (`MaxDepth` is 1 in the run). A territory that destroys itself, or lets its last reference go, in its own
  `GlobalEvent` leaves the loop over the territories on an element that is gone; the
  views of GME postpone this by posting a message, and `Considerate` clients do the
  same. An add-on, once notified, hears of every later commit, since its flag is not reset.
  A notification inside of another one sets the active territory back to that of the
  transaction while the outer handler still runs.
- With `latewrites`, writes in the last event of a commit are announced to nobody and stay
  in the queues, against the assertions at the beginning of the next transaction.

### Bounds, and why they are enough

- Two objects, one of them with two attributes, are the fewest for which loading and
  unloading as a group can go wrong for one object and not for another. Two values tell a
  change from none.
- Two undo steps are needed for a list that has an undone step behind a live one, and to
  reach the limit with a step to spare; undo sizes 0 and 1 are the boundary of the limit.
  Two and three nested levels have a level that is neither the first nor the last.
- Two objects with a pointer each can be in a cycle, point to themselves and be deleted
  in either order. An object with two pointers to the same target is not in these bounds.
- In `MgaProject` the count of changes runs from -2 to 2, which passes zero in both
  directions; two GUIDs are needed for two files; with two writes in a commit the add-on
  can change an object again after it was told.
  `MaxNesting`, `MaxFailures`, `MaxRefusals`, `MaxGuid`, `MaxChanges` and `MaxCount` are
  bounds of the model only.
- In `CoreBinFile` two objects can point to each other and be written in either order; two
  names are needed for a copy that is saved while the project keeps its file; one failure or
  crash can come in any step of the first or the second save.
- In `MgaDerive` two derivations make a chain or two heirs of one type; six objects are a
  type with a part and two copies of it, or, since a reference takes the room of two, a type with
  a reference and a copy of it. A move takes a reference in a counterpart along from six objects on, since a model may be moved to where
  it is, which reconnects what is in its counterparts as any move within the type. Larger instances were run once and passed: `MaxModels`,
  `MaxReferences`, `MaxObject` and `MaxDerived` of 1, 1, 7, 2 and of 3, 0, 6, 2, of 2, 1, 8, 1 (a reference
  moved between two models of a type and of its subtype; 131,000 states), and the run's own with derived references
  that take the room of one only (152,000 states).
- In `CoreXmlFile` two users and three models have a target, a model that refers to it and one to be created or
  moved into; four sessions let both open twice, so that lists are purged and a crash is followed by a new
  session. Three users (3 sessions), and three changes with two models (308,000 states), were run once and passed.
- In `MgaSinks` two add-ons and three territories leave a list with a sink before, at and
  after the iterator, one of the territories being the reserve one.
- Values of the clients and objects that play the same part are symmetric where a run
  declares it; no run with a temporal property uses symmetry. `mga_notify` does not tell
  states apart by `files` (`VIEW`), which only `GuidTellsContent` reads; `mga_derive`
  tells relative ids apart only by whether they say "came along". Nested transactions of `CoreObjects`
  and its second undo step are in different runs: together they take too long.

### Fairness

Only `mga_project` needs any. A method of the Mga layer is a synchronous call: the
thread that is in it runs it to its end, so weak fairness of `MethodStep` is what the code
gives. Nothing is assumed of clients, who may never commit, nor of the add-on beyond the
bound on its writes: the comment in the code that the phase "terminates if it has reached
a quiescent state" depends on that too.

## What is proved

`CoreTransactionsProofs` proves for any objects, attributes, values, depth of nesting,
length of the undo list and number of storage failures:

| theorem | says |
|---|---|
| `TypeCorrect` | `Spec => []TypeOK` |
| `QueueSizes` | `Spec => []QueueSizesOK` |
| `RingsMatch` | `Spec => []RingMatchesHistory` |
| `LoadedExactlyWhenLocked` | `Spec => []LoadedIffLocked` |
| `DirtyExactlyWhenRegistered` | `Spec => []DirtyIffRegistered` |

The inductive invariant `IInv` is the conjunction of the five, none of which is
inductive alone. `TypeOK` needs the rings to be long enough, since a nested commit drops
the second value of a ring and a discarded step the last one: `RingMatchesHistory`. That
one needs the dirty flags to name the attributes of the innermost level, so that a write
adds a value exactly when the level has none (`DirtyIffRegistered`); it needs an attribute
that is not loaded to be in no level and no step, so that loading it may start a ring of
one value (`LoadedIffLocked`); and it needs the empty step of the open transaction to be in
front of the list and the undone ones to be gone before a writer begins (`QueueSizesOK`).
There is a lemma per action (`BeginFinalInv`, `PutInv`, `CommitNestedInv`, `UndoInv`, ...),
put together in `StepInv`. The lemmas of `Occurrences` count in how many sets of a sequence
an attribute occurs when the sequence grows, is cut or is turned; they carry the argument
that the ring turns with the list. The assumptions are those named in `CoreTransactions`:
attributes have an owner, the default undo size is between 1 and 99, the bounds are
numbers.

`CoreUndoProofs` proves, for any objects, attributes, values, depth of nesting and length of the
undo list; the first three as long as no call of the storage fails (`MaxFailures = 0`), the others whatever fails:

| theorem | says |
|---|---|
| `Refinement` | `Spec => ImplementsUndo`: rings, levels and list implement the documents of `CoreUndo` |
| `StorageStaysCommitted` | `Spec => []StorageIsCommitted` |
| `AbortBringsBack` | `Spec => AbortRestores`, the action property of the run `core_abort_after_failure` |
| `UndoListStaysBounded` | `Spec => []UndoListBounded`, if every size a client asks for means the same number of steps |
| `UndoListHasALimit` | the list has at most as many steps as the largest size asked for, and a reader's |

The levels of the open transaction and the steps of the list are one history, youngest first;
`Doc(k)` is the document before the k youngest of its elements: the value of an attribute is found in its
ring behind as many values as these elements name it. What `CoreUndo` calls `saved` and `past` are such
documents, `future` are those before the undone steps, read from the other end of the ring (`Ahead`).
`HistoryFacts` and `MapInv` say that they have the right types and lengths. The lemmas about single changes of
a ring and its history (`OverwrittenDocs`, `MergedDocs`, `ShortenedDocs`, `TurnedDocs`, ...) say which
documents stay what they were; one lemma per action (`BeginOuterRefines` ... `CloseRefines`) maps it to an
action of `CoreUndo` or to no change, and `StepRefines` puts them together. Undo and redo share
`TurnedLists`. The invariants used are `IInv` of `CoreTransactionsProofs` and two more:
`StorageIsCommitted`, since what is loaded comes from the storage, and `ReadersWriteNothing`, since a
read-only transaction enters its empty step and `CoreUndo` has none. With a storage that fails, the refinement
does not hold, as `core_abort_after_failure` shows. `UndoListStaysBounded` assumes of the sizes that
the ones in `1..99` are the default: with two sizes the property fails, which `UndoListHasALimit` replaces.

`CoreObjectsProofs` proves, for any number of objects, pointers, levels and steps, and all but the last two for clients of any kind:

| theorem | says |
|---|---|
| `TypeCorrect` | `Spec => []TypeOK`: no lock count is taken below zero (proved only; no run lists it) |
| `CountsAlwaysMatch` | `Spec => []CountsMatchRings`: the counts are what all rings together call for |
| `FinalItemsAlwaysLoaded` | `Spec => []FinalItemsLoaded`: a commit looks at nothing that is not in memory |
| `RingTargetsAlwaysStored` | `Spec => []RingTargetsStored`: what undo, redo or an abort can bring back exists |
| `NoGarbageEver` | `Spec => []NoGarbage`: an object without pointers stays in the storage only while something locks it |
| `UpToDateAlwaysComplete` | `Spec => []UpToDateMeansComplete`: a collection that says it is complete has all that points to its owner |
| `DocumentsAreSound` | `Careful => Spec => [](IInv /\ PastInv /\ SoundInv)`: whatever aborting, undoing or redoing can come to has no dangling pointer |
| `NothingDangles` | `Careful => Spec => []NoDangling`, from the one before |

The counts are numbers of places in rings, over all pointers there are. What makes them provable is that every operation takes
values out of rings or puts them in at one place of each: `CutPlaces` says that the places in the old rings are
those in the new ones and those in what was cut out, for all rings at once, by a bijection between the
places. `CountsAfterLoss` draws from it that what `RemoveValueTry` gives back is what the counts
lose, whether a ring keeps its lock or not (abort, nested commit, discarding); a turned ring (undo, redo) is cut and joined
elsewhere (`SameCounts`); and a write is a chain of three such cuts: the value that is overwritten goes, the first value of a
ring that has only this one begins to count, and the new value comes (`PutAimed`). `IInv` adds to that how many values a ring
has (`RingsOK`: one for each level and each step that names it, and the current one), and why an object that takes part in the commit
without a lock of this transaction is in memory: a step of the undo list, which cannot be discarded before the commit,
has one of its pointers, or a deletion of it was refused (`LocksOK`). `UsedOK` says that nothing refers to an id that
`CreateObject` may give out. Beside those of the module they assume that there are
finitely many objects and pointers (`FiniteAssumption`), without which there is nothing to count.

`RingTargetsAlwaysStored`, `NoGarbageEver` and `UpToDateAlwaysComplete` are about the storage, of which `IInv` says nothing. None of them is inductive: what a ring may
return to is an object that the storage must not lose, the storage loses an object when its counts are zero and its
pointers are empty, and whether they are empty is read from rings or from the storage. `PastInvariance` proves what ties
these together, `PastInv`, on top of `IInv`. A ring has first one value for each open level that wrote
it (`OpenWrites`), then those that are older than the transaction (`PastOf`), of which the first is the one in
the storage (`StorageAgrees`). What has left the storage points nowhere there, and while it is in memory, or its
id has never been given out, nothing there points to it (`GoneOK`). This is what a write needs: the target it
overwrites enters a ring and is locked; if it had left the storage, locking it would have to load it, and the step would
not be possible, or it would be in memory, and then it is not what the storage points to. Nothing older than the
transaction knows what it has created (`CreatedOK`), so that an abort may take it from the storage.
A collection that is up to date misses nothing that is not in memory (`UpToDateOK`), since unloading an object clears the
flag of the collection it was in (`SettleUnloads`). And an object without pointers in the storage is named by a step of the
undo list, was refused a deletion or was created in this transaction (`GarbageOK`); with no transaction open, being named by a
step is having a place in a ring (`NowReturnable`), and that is being locked (`EmptyIsUnheld`, from the counts). Steps
that only load, write or end a nested level leave alone what is older than the transaction (`AgedKeeps`,
`InsideOK`); a commit makes the current values older than the next one (`CommitFinalPast`), undo and redo
turn rings whose members stay (`TurnPast`), and what a discarded step deletes has no place in any ring left
(`DiscardPast`).

`NoDangling` needs more than that, since what is read now was written at different times: an abort, an undo
or a redo brings back the older values of many rings at once, and nothing in the storage says that these fit
together. `SoundInv` says it of all documents the project can come to. `AtLevel(i)` are the pointers when the i innermost levels have
been aborted, `AfterUndo(n)` when n steps have been undone, and `AfterRedo(n)` when the steps behind the n-th have been
redone; each reads a ring behind as many values as levels and steps in front name it (`Newer`, `CountUpTo`). A document is `Sound` if
every pointer in it leads to NULL, the root, or an object that has a pointer in the same document. A step makes at most one
new document, the current one, and the client has to see to it that this one is sound: a careful one writes a pointer
only to an object that is not empty, and empties an object when nothing leads to it (`PutPointerSound`,
`DeleteSound`). All other documents are old ones that are counted from elsewhere: beginning a level repeats
the current one, committing a nested level skips one (`CommitNestedSound`), the final commit turns levels
into a step, undo and redo move the border between what can be undone and redone (`UndoSound`, `RedoSound`).
`RedoReads` says that while something can be redone the open levels are empty, so that one ring never holds both.
`SoundDoesNotDangle` ends the argument: what has a pointer is in the storage, by `PastInv`.
The hypothesis `Careful = TRUE` is needed: a client that is not careful can write a pointer to a deleted object.

`CoreBinFileProofs` proves all invariants of `CoreBinFile`, for any values, names, number of
objects, saves, changes and failures:

| theorem | says |
|---|---|
| `TypeCorrect` | `Spec => []TypeOK` |
| `DocumentSurvives` | `Spec => []FilesAsPromised` |
| `SavedFilesLoad` | `Spec => []FilesLoadable` |
| `ValuesSurvive` | `Spec => []ValuesReadable` |
| `CollectionsAgree` | `Spec => []CollectionsMirrorPointers` |
| `IdsAreFree` | `Spec => []NewIdsAreFree` |

Its `IInv` is `TypeOK` with `TableInv` (collections and pointers agree, ids are below the
highest), `LazyInv` (a value that is not read yet belongs to a file that is mapped, and to an
object that file has) and `SaveInv` (where a save is, what its stream has open and what the
files may hold go together). The argument: the table does not change while a save runs, so
that what the temporary file holds when it is renamed is the document the caller
had when the save began; an object that is left out has no pointers, and nothing points to one, so
what is written loads; and the map is let go only after every lazy value has been read or
found in the file that is mapped next. The assumptions are those of the module.

`MgaProjectProofs` proves, for any number of objects, undo steps, GUIDs and writes of the add-on:

| theorem | says | habits the clients must not have |
|---|---|---|
| `TypeCorrect` | `Spec => []TypeOK` | |
| `MasksAgree` | `Spec => []MaskedMeansQueued` | `nonested`, `latewrites`, `carrieson` |
| `AddOnMissesNothing`, `TerritoriesMissNothing` | `Spec => []AddOnSeesAll`, `Spec => []TerritoriesSeeAll` | the same |
| `StatusIsTrue` | `Spec => []StatusTellsChange` | these, and `undoespast`, `autosave`, `savefails`, `upgrades` |
| `GuidsAreTrue` | `Spec => []GuidTellsContent` | these, and `putsguid`, `addonfails` |

The invariants are added in this order. `NotifyInv`: no change waits in `temporalobjs` between methods, a mask
goes with its queue (`QueueInv`), a transaction in which a method failed for good is not committed
(`HoldInv`), and what the add-on or the territory does not know yet of an object is marked
(`SightInv`). `StatusInv`: the file's document is as many steps back in the undo list as `transactioncount`
says (`CountInv`), and what is written is counted (`TouchInv`). `FileInv`: a document that
is going to be saved under a new GUID has one that no file has (`FilesInv`), a document that was not saved has the
GUID of the file, and the status says that it is to get a new one (`GuidInv`), and no save goes on after a failure (`FailInv`).
The hypotheses are needed: with one object, one habit and the bounds of `mga_project`, TLC finds
`StatusTellsChange` violated by each of `latewrites`, `carrieson`, `undoespast`, `autosave`, `savefails` and `upgrades`
(`nonested` needs two objects), and `GuidTellsContent` by these, `putsguid` and `addonfails`. The
habits of `mga_notify` are within the hypotheses of the theorems about its properties; `mga_project` allows
`nonested` with one object, for which its two invariants are only checked.

`MgaSinksProofs` proves, for any number of add-ons and territories:

| theorem | says |
|---|---|
| `TypeCorrect` | `Spec => []TypeOK`, for any handlers and any depth |
| `IteratorsStay` | `Spec => []WalksStandOnMembers`, for `Considerate` handlers and `MaxDepth = 1` |
| `NobodyLeftOut` | `Spec => []EachToldOnce`, under the same conditions |

A list without repetitions is an order of its members (`Before`), and taking members out keeps it
(`WithoutKeeps`). `TypeInv` has to say that the reserve territory belongs to no client, so that only the
last add-on takes it away, and that an agenda ends with its end. `HeldInv` says that what no client refers to is held by the
project, an interface or a call, so that a round that releases one of these destroys no more
than that one, and that the active territory is the one the running call made active (`ActiveInv`). `WalkInv` says where an
iterator is: what was there when the loop began and is not reached yet comes at or after it, what has been
reached or is new comes before it (`StandsIn`); the loop over the holders of an object has no order (`StandsAmong`).
The two hypotheses are what the comments in `GlobalNotify` expect of handlers; without them the code
goes wrong in the ways listed above.

`CoreXmlFileProofs` proves, for any number of users, models, sessions and changes:

| theorem | says | habits |
|---|---|---|
| `TypeCorrect` | `Spec => []TypeOK` | any |
| `LocksAreCurrent` | `Spec => []OwnersAreCurrent`: who has a file locked has its newest revision | any |
| `NoLostUpdate` | `Spec => NothingOverwritten`: a step that replaces a file in the repository is one of a user who has that revision | any |
| `NoPointerIsLost` | `Spec => []PointersResolve`: every parent and target in the files is there | none |
| `NoChangeIsSkipped` | `Spec => []ChangesAreLocked`: what differs from the copy on disk is locked or new | none |

`CopyInv` says that a file that somebody has locked is not stale in his copy, and that what is not
stale in a copy is the newest revision: only the owner publishes, publishing makes the file stale for everybody else, and the server
gives no lock for a stale one. `TypeInv` adds that a running transaction has the document to return to. That
every change keeps the types rests on lemmas about views (`IntoIsView`, `ReadIsView`, ...), and on a least
free number for a new model (`LeastNumber`).

The last two are about several users at once: each locks only the files he changes, and a pointer from one file to
another is not protected by the lock of either. `XmlInv` is the inductive invariant, proved for `Habits = {}`. Its parts are `TypeInv` and `CopyInv`, and:

- `Quiet`: one user writes at a time; who opens finds a repository in which nothing is about to change.
- `Files`: a file that is not in the repository is in one user's memory at most.
- `Views`: what a user has in memory, and what he can go back to, is consistent, and differs from his copies only in what he has
  locked. `lastrelid` is what makes that work: who adds a child changes the parent's `lastrelid`, so that
  whoever deletes the parent needs the same lock (`Sound`).
- `Announced`: what a user has referred to since the last save is on his protect list for every other user who is
  there, so that nobody deletes it.
- `Consistent(Final)`: the files as they will be when those who are saving have finished have no pointer
  that leads nowhere. While nobody saves, that is the repository (`FinalIsRepository`): `PointersResolve`.
- `Guarded`: if a user does not know yet of a pointer, he cannot get the lock to delete what it leads to, as his
  copy is stale or another has the lock, or it is on a list.

The hypothesis is that users do nothing besides the usual; with each habit TLC finds `PointersResolve` violated, as
described above. `MarkerAssumption` says that the values that stand for nothing are not also a file or a view.

### Only model-checked

- `MgaDerive`: copies, moves and reconnections are recursive functions over trees, and what
  they compute for every tree takes an induction over data.
- `StatusTellsChange` and `GuidTellsContent` with `nonested` and one object.
- Liveness (`MethodsReturn`) and anything with ENABLED stays with TLC for good, as TLAPS does not prove it here.

## Not modelled

- In `CoreBinFile`: loading files of older formats, and the kinds of
  attributes, which are one value and one pointer there.
- In `CoreXmlFile`: connections, derivation (which lock more files and list more objects by the same
  means) and folders, hashed directories, partial loading and its cache, bulk commits, a server or a network that
  fails, a user who goes on without signing in, and parsing.
- The lock value that several Cores share in a storage: planned (`CoreLock`); the models
  have one client, to which a lock is always granted.
- A storage that fails while a step is discarded: `CoreTransactions` leaves it out, because
  the loops that discard do not end then; planned (`CoreDiscard`).
- In the Mga layer: creating a project, checks deferred to the commit, a commit of the
  Core that fails (the Mga layer then keeps its transaction), clients and components that are
  registered with a project, the handlers for writing (`rwhandler`), and the source control calls.
- Of models and derivation: sets, connections and their roles, `CopyFCOs`, attaching to and
  detaching from an archetype, folders inside of folders, libraries and their refresh.
- Meta projects (immutable once open), parser, dumper, constraint manager, checks, user
  interface, decorators, SDK, paradigms and tools: clients or data, without a protocol of
  their own.

## Plan

1. `CoreUndo`, `CoreTransactions` (+ `Props`, `Proofs`): transactions and undo. *Done.*
2. `CoreObjects`: pointers, collections, deletion of objects and its deferral. *Done.*
3. `MgaProject`: transactions of clients, notification, status, save and close. *Done.*
4. `CoreBinFile` (+ `Props`, `Proofs`): the storage's transactions, saving through a
   temporary file, crashes between the steps. *Done.*
5. `MgaDerive` (+ `Props`): deletion, moving and derivation in the Mga layer. *Done for models
   and references;* sets, connections and `CopyFCOs` are left.
6. `MgaSinks` (+ `Props`): add-ons and territories under notification. *Done.*
7. `CoreXmlFile` (+ `Props`): users that share files under source control. *Done for models and references.*
8. Proofs: the refinement of `CoreUndo` and `StorageIsCommitted` (`CoreUndoProofs`), the lock counts,
   the storage and the collections of `CoreObjects`, the invariants of
   `MgaProject`, `MgaSinks` and `CoreXmlFile`. *Done*, but for `MgaDerive`.
9. `CoreDiscard`: liveness of the loops that discard steps.
10. `CoreLock`: lock values of several clients at their limits.
