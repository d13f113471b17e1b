----------------------------- MODULE CoreBinFile -----------------------------
(***************************************************************************)
(* CCoreBinFile (GME/Core/CoreBinFile.cpp): the storage of a project in    *)
(* one binary file, its table of objects, its transactions, and saving     *)
(* step by step, with the failures of the disk and crashes of the process. *)
(*                                                                         *)
(* An object has one value, which is read lazily from the file that is     *)
(* mapped into memory, and one pointer with the collection it leads to.    *)
(* Object 0 is the root, the others are of one kind and have the ids       *)
(* 1..MaxObjId.  Files are of the current format; bringing old ones to it  *)
(* is left out.                                                            *)
(*                                                                         *)
(* The storage is used by CCoreProject only, and is thrown away with it.   *)
(* The guards that speak of the Core say what CoreObjects shows of it: it  *)
(* reads an object before it writes to it, stores values only in a commit, *)
(* leaves no pointer to an object without pointers, and deletes an object  *)
(* only when it has no pointers and nothing points to it.                  *)
(***************************************************************************)
EXTENDS Integers

CONSTANTS
  Value,       \* what an attribute can hold
  Blank,       \* its value in a new object
  Name,        \* names of files
  None,        \* no object, no file
  Absent,      \* a file that is not there
  Torn,        \* a file that is not complete
  MaxObjId,    \* bound: ids of objects
  MaxFaults,   \* bound: failures of the disk
  MaxWrites,   \* bound: changes of the table
  MaxSaves     \* bound: saves that are started

ASSUME ValuesAssumption == Blank \in Value
ASSUME NamesAssumption == None \notin Name /\ "." \notin Name /\ None # "."
ASSUME BoundsAssumption == MaxObjId \in Nat \ {0} /\ MaxFaults \in Nat /\ MaxWrites \in Nat /\ MaxSaves \in Nat
ASSUME NoneAssumption == None \notin Nat

Root == 0
Id == 0..MaxObjId

BinObject == [value : Value, pointer : Id \cup {None}]
Documents == UNION {[S -> BinObject] : S \in SUBSET Id}

ASSUME ContentsAssumption == Absent \notin Documents /\ Torn \notin Documents /\ Absent # Torn

VARIABLES
  known,             \* the ids in objects
  value, pointer,    \* the attributes of each object
  backing,           \* for each object the collection of those that point to it
  lazy,              \* objects whose value is still in the mapped file
  lost,              \* objects whose value was in a file that is mapped no more
  maxobjid,
  created_objects, deleted_objects,
  intrans,
  storing,           \* the commit of the Core has stored something
  modified,
  filename,          \* None: closed, ".": has no name yet
  mapped,            \* the file that file_buffer maps
  ofs,               \* the file the output stream has open: <<name, temporary>>
  phase,             \* where SaveProject is, or "idle"
  saving,            \* its locals and arguments
  disk, tmp,         \* the file of each name and its temporary file
  kept,              \* what each file may hold by what callers have been told
  faults, writes, saves    \* failures, changes and saves so far

table == <<known, value, pointer, backing, lazy, lost, maxobjid>>
tx == <<created_objects, deleted_objects, intrans, storing, modified>>
stream == <<mapped, ofs>>
save == <<phase, saving>>
files == <<disk, tmp, kept>>
bounds == <<faults, writes, saves>>
vars == <<table, tx, filename, stream, save, files, bounds>>

Contents == Documents \cup {Absent, Torn}

NotSaving == [orig |-> None, keep |-> FALSE, closing |-> FALSE, temporary |-> FALSE]

IsOpened == filename # None
Idle == phase = "idle"

\* The document as clients know it: an object without pointers is deleted.
Live == {o \in known \ deleted_objects : o = Root \/ pointer[o] # None}
Document == [o \in Live |-> [value |-> value[o], pointer |-> pointer[o]]]

EmptyTable ==
  /\ known' = {}
  /\ value' = [o \in Id |-> Blank] /\ pointer' = [o \in Id |-> None]
  /\ backing' = [o \in Id |-> {}]
  /\ lazy' = {} /\ lost' = {} /\ maxobjid' = 0

\* mutant: the list of created objects outlives the transaction
KeepsCreated ==
  UNCHANGED created_objects /\ deleted_objects' = {} /\ intrans' = FALSE /\ storing' = FALSE

NoTransaction == created_objects' = {} /\ deleted_objects' = {} /\ intrans' = FALSE /\ storing' = FALSE

\* The storage is gone with all it has in memory, stream and map included.
Vanish ==
  /\ EmptyTable /\ NoTransaction
  /\ modified' = FALSE /\ filename' = None
  /\ mapped' = None /\ ofs' = None
  /\ phase' = "idle" /\ saving' = NotSaving

Init ==
  /\ known = {}
  /\ value = [o \in Id |-> Blank] /\ pointer = [o \in Id |-> None]
  /\ backing = [o \in Id |-> {}]
  /\ lazy = {} /\ lost = {} /\ maxobjid = 0
  /\ created_objects = {} /\ deleted_objects = {} /\ intrans = FALSE /\ storing = FALSE
  /\ modified = FALSE /\ filename = None
  /\ mapped = None /\ ofs = None
  /\ phase = "idle" /\ saving = NotSaving
  /\ disk = [n \in Name |-> Absent] /\ tmp = [n \in Name |-> Absent]
  /\ kept = [n \in Name |-> {Absent}]
  /\ faults = 0 /\ writes = 0 /\ saves = 0

-----------------------------------------------------------------------------
(* Opening *)

CreateProject(n) ==
  /\ ~IsOpened
  /\ known' = {Root} /\ filename' = n
  /\ UNCHANGED <<value, pointer, backing, lazy, lost, maxobjid, tx, stream, save, files, bounds>>

\* mutant: the ids of the file are not taken into account
CountNothing(d, m) == m = 0

\* maxobjids: m is the largest id in the file.
CountIds(d, m) == m \in DOMAIN d /\ \A o \in DOMAIN d : o <= m

\* The pointers of a file are resolved when all objects are known; one that
\* leads nowhere is E_BINFILE.
Loadable(d) == d \in Documents /\ \A o \in DOMAIN d : d[o].pointer \in DOMAIN d \cup {None}

\* OpenProject, LoadProject; a file that cannot be loaded leaves the storage
\* closed.
OpenProject(n) ==
  /\ ~IsOpened /\ Loadable(disk[n])
  /\ LET d == disk[n]
     IN  /\ known' = DOMAIN d
         /\ value' = [o \in Id |-> IF o \in DOMAIN d THEN d[o].value ELSE Blank]
         /\ pointer' = [o \in Id |-> IF o \in DOMAIN d THEN d[o].pointer ELSE None]
         /\ backing' = [o \in Id |-> {p \in DOMAIN d : d[p].pointer = o}]
         /\ lazy' = DOMAIN d
         /\ \E m \in Id : CountIds(d, m) /\ maxobjid' = m
  /\ filename' = n /\ mapped' = n
  /\ UNCHANGED <<lost, tx, ofs, save, files, bounds>>

-----------------------------------------------------------------------------
(* Transactions of the storage *)

BeginTransaction ==
  /\ IsOpened /\ Idle /\ ~intrans
  /\ intrans' = TRUE
  /\ UNCHANGED <<table, created_objects, deleted_objects, storing, modified, filename, stream,
                 save, files, bounds>>

Change == writes < MaxWrites /\ writes' = writes + 1 /\ UNCHANGED <<faults, saves>>

\* get_AttributeValue of every attribute: the Core loads an object as a whole.
ReadObject(o) ==
  /\ intrans /\ o \in lazy
  /\ lazy' = lazy \ {o}
  /\ UNCHANGED <<known, value, pointer, backing, lost, maxobjid, tx, filename, stream, save,
                 files, bounds>>

CreateObject ==
  /\ Change
  /\ intrans /\ ~storing /\ maxobjid < MaxObjId
  /\ LET o == maxobjid + 1
     IN  /\ maxobjid' = o
         /\ known' = known \cup {o}
         /\ created_objects' = created_objects \cup {o}
  /\ modified' = TRUE
  /\ UNCHANGED <<value, pointer, backing, lazy, lost, deleted_objects, intrans, storing, filename,
                 stream, save, files>>

\* What the Core may write to.
Writable(o) == intrans /\ o \in known \ (deleted_objects \cup lazy)

PutValue(o, v) ==
  /\ Change
  /\ Writable(o) /\ value[o] # v
  /\ value' = [value EXCEPT ![o] = v]
  /\ storing' = TRUE /\ modified' = TRUE
  /\ UNCHANGED <<known, pointer, backing, lazy, lost, maxobjid, created_objects, deleted_objects,
                 intrans, filename, stream, save, files>>

\* mutant: the object stays in the collection it leaves
AddOnly(o, t) ==
  [b \in Id |-> IF b = t THEN backing[b] \cup {o} ELSE backing[b]]

\* The object leaves the collection of its old target and enters the new one.
Repoint(o, t) ==
  [b \in Id |-> IF b = t THEN backing[b] \cup {o} ELSE backing[b] \ {o}]

\* BinAttr<VALTYPE_POINTER>::Set; setting to NULL does not count as a
\* modification.
PutPointer(o, t) ==
  /\ Change
  /\ Writable(o) /\ o # Root /\ pointer[o] # t
  /\ t \in (known \ deleted_objects) \cup {None}
  /\ pointer' = [pointer EXCEPT ![o] = t]
  /\ backing' = Repoint(o, t)
  /\ storing' = TRUE /\ modified' = (modified \/ t # None)
  /\ UNCHANGED <<known, value, lazy, lost, maxobjid, created_objects, deleted_objects, intrans,
                 filename, stream, save, files>>

DeleteObject(o) ==
  /\ Change
  /\ Writable(o) /\ o # Root /\ pointer[o] = None /\ backing[o] = {}
  /\ deleted_objects' = deleted_objects \cup {o}
  /\ storing' = TRUE /\ modified' = TRUE
  /\ UNCHANGED <<table, created_objects, intrans, filename, stream, save, files>>

Erase(S) ==
  /\ known' = known \ S
  /\ value' = [o \in Id |-> IF o \in S THEN Blank ELSE value[o]]
  /\ lazy' = lazy \ S
  /\ UNCHANGED <<pointer, backing, lost, maxobjid>>

CommitTransaction ==
  /\ intrans
  /\ \A o \in known : pointer[o] # None => pointer[o] \in Live
  /\ Erase(deleted_objects)
  /\ NoTransaction
  /\ UNCHANGED <<modified, filename, stream, save, files, bounds>>

AbortTransaction ==
  /\ intrans /\ ~storing
  /\ Erase(created_objects)
  /\ NoTransaction
  /\ UNCHANGED <<modified, filename, stream, save, files, bounds>>

-----------------------------------------------------------------------------
(* Saving *)

OwnName == saving.orig = filename

Fault == faults < MaxFaults /\ faults' = faults + 1 /\ UNCHANGED <<writes, saves>>

\* The caller hears of a failure: the storage goes on under its old name, or,
\* when the project was being closed, is gone.
SaveFails(lazy_, ofs_, mapped_) ==
  IF saving.closing
    THEN Vanish
    ELSE /\ lazy' = lazy_ /\ ofs' = ofs_ /\ mapped' = mapped_
         /\ filename' = saving.orig
         /\ phase' = "idle" /\ saving' = NotSaving
         /\ UNCHANGED <<known, value, pointer, backing, lost, maxobjid, tx>>

\* Until it is known how a save ends, the file holds the old or the new
\* document; a file that is not the project's own may be lost as well.
Promise(n) ==
  IF n = filename /\ disk[n] # Absent THEN {disk[n], Document} ELSE {disk[n], Torn, Document}

\* mutant: the project's own file is overwritten in place
UseTemporaryNever(n) == FALSE

UseTemporary(n) == n = filename /\ disk[n] # Absent

\* SaveProject(n, keepoldname), and the one of CloseProject.
StartSave(n, keep, closing) ==
  /\ IsOpened /\ Idle /\ ~intrans
  /\ saves < MaxSaves /\ saves' = saves + 1
  /\ saving' = [orig |-> filename, keep |-> keep, closing |-> closing,
                temporary |-> UseTemporary(n)]
  /\ filename' = n
  /\ phase' = IF UseTemporary(n) THEN "copy" ELSE "open"
  /\ kept' = [kept EXCEPT ![n] = Promise(n)]
  /\ UNCHANGED <<table, tx, stream, disk, tmp, faults, writes>>

SaveProject(n, keep) == n \in Name /\ StartSave(n, keep, FALSE)

\* The temporary file becomes a copy of the old one, of which the beginning
\* is enough, as it is there for its attributes.
CopyFile ==
  /\ phase = "copy"
  /\ tmp' = [tmp EXCEPT ![filename] = Torn]
  /\ \/ /\ phase' = "open"
        /\ UNCHANGED <<table, tx, filename, stream, saving, disk, kept, bounds>>
     \/ /\ Fault /\ SaveFails(lazy, ofs, mapped)
        /\ UNCHANGED <<disk, kept>>

\* What the output stream leads to.
PutOut(c) ==
  IF saving.temporary
    THEN tmp' = [tmp EXCEPT ![filename] = c] /\ disk' = disk
    ELSE disk' = [disk EXCEPT ![filename] = c] /\ tmp' = tmp

\* A stream that a save before has left open cannot be opened; it is closed.
OpenStream ==
  /\ phase = "open"
  /\ \/ /\ ofs = None
        /\ ofs' = <<filename, saving.temporary>>
        /\ PutOut(Torn)
        /\ phase' = "write"
        /\ UNCHANGED <<table, tx, filename, mapped, saving, kept, bounds>>
     \/ /\ \/ ofs = None /\ Fault
           \/ ofs # None /\ UNCHANGED bounds
        /\ SaveFails(lazy, None, mapped)
        /\ UNCHANGED files

\* mutant: a pointer to the root counts as empty
PointsNowhere(o) == o \in deleted_objects \/ pointer[o] \in {None, Root}

HasEmptyPointers(o) == o \in deleted_objects \/ pointer[o] = None

Written == {o \in known : o = Root \/ ~HasEmptyPointers(o)}

\* mutant: values are copied from the old file and stay lazy
CopyLazily == lazy

\* Writing a value reads it, "the file is going away".
LazyAfterWrite == lazy \ Written

\* The loop over the objects and the end of the stream.  A stream that has
\* failed is left open if that is found out before it is closed.
WriteObjects ==
  /\ phase = "write"
  /\ \/ /\ PutOut([o \in Written |-> [value |-> value[o], pointer |-> pointer[o]]])
        /\ lazy' = LazyAfterWrite
        /\ ofs' = None /\ phase' = "unmap"
        /\ UNCHANGED <<known, value, pointer, backing, lost, maxobjid, tx, filename, mapped,
                       saving, kept, bounds>>
     \/ /\ Fault
        /\ \E left \in {ofs, None} : SaveFails(LazyAfterWrite, left, mapped)
        /\ UNCHANGED files

\* The old map is released.
Unmap ==
  /\ phase = "unmap"
  /\ mapped' = None
  /\ lost' = lost \cup lazy /\ lazy' = {}
  /\ phase' = IF OwnName THEN "rename" ELSE "map"
  /\ UNCHANGED <<known, value, pointer, backing, maxobjid, tx, filename, ofs, saving, files,
                 bounds>>

\* MoveFileEx: replaces the file at once, unless it is in use.
RenameFile ==
  /\ phase = "rename"
  /\ \/ /\ mapped # filename
        /\ IF saving.temporary
             THEN /\ disk' = [disk EXCEPT ![filename] = tmp[filename]]
                  /\ tmp' = [tmp EXCEPT ![filename] = Absent]
             ELSE UNCHANGED <<disk, tmp>>
        /\ phase' = "map"
        /\ UNCHANGED <<table, tx, filename, stream, saving, kept, bounds>>
     \/ /\ Fault /\ SaveFails(lazy, ofs, mapped)
        /\ UNCHANGED files

\* What the project reads its values from when it has been saved.
NewMap == IF saving.keep THEN saving.orig ELSE filename

\* membuf::open maps a file that is there.  A project that has no name yet, or
\* was never saved under the name that it keeps, has none.
CanMap == NewMap # "." /\ disk[NewMap] # Absent

\* The file is mapped again, and the save has succeeded.  One that is not
\* complete may be empty, and then cannot be mapped.
MapFile ==
  /\ phase = "map"
  /\ \/ /\ CanMap
        /\ kept' = [kept EXCEPT ![filename] = {Document}]
        /\ IF saving.closing
             THEN Vanish
             ELSE /\ mapped' = NewMap
                  /\ filename' = NewMap
                  /\ phase' = "idle" /\ saving' = NotSaving
                  /\ UNCHANGED <<table, tx, ofs>>
        /\ UNCHANGED <<disk, tmp, bounds>>
     \/ /\ \/ CanMap /\ Fault
           \/ ~(CanMap /\ disk[NewMap] # Torn) /\ UNCHANGED bounds
        /\ SaveFails(lazy, ofs, mapped)
        /\ UNCHANGED files

-----------------------------------------------------------------------------
(* Closing, crashing *)

\* The Core has let go of the storage before it closes it.
CloseProject(abort) ==
  /\ IsOpened /\ Idle /\ ~intrans
  /\ IF ~abort /\ modified /\ filename # "."
       THEN StartSave(filename, TRUE, TRUE)
       ELSE Vanish /\ UNCHANGED <<files, bounds>>

\* The process ends: what a write or a copy has left is on the disk.
Crash ==
  /\ IsOpened
  /\ Vanish
  /\ UNCHANGED <<files, bounds>>

SaveStep == CopyFile \/ OpenStream \/ WriteObjects \/ Unmap \/ RenameFile \/ MapFile

Next ==
  \/ \E n \in Name \cup {"."} : CreateProject(n)
  \/ \E n \in Name : OpenProject(n)
  \/ BeginTransaction
  \/ CreateObject
  \/ \E o \in Id :
       \/ ReadObject(o)
       \/ DeleteObject(o)
       \/ \E v \in Value : PutValue(o, v)
       \/ \E t \in Id \cup {None} : PutPointer(o, t)
  \/ CommitTransaction
  \/ AbortTransaction
  \/ \E n \in Name, keep \in BOOLEAN : SaveProject(n, keep)
  \/ SaveStep
  \/ \E abort \in BOOLEAN : CloseProject(abort)
  \/ Crash

Spec == Init /\ [][Next]_vars
=============================================================================
