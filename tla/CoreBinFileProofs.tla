-------------------------- MODULE CoreBinFileProofs --------------------------
(***************************************************************************)
(* The invariants of CoreBinFile, for any values, names and numbers of     *)
(* objects, failures, changes and saves.                                   *)
(*                                                                         *)
(* A save keeps its promise because the document does not change while it  *)
(* goes on (SaveInv), and the map may be released because every value that *)
(* is still in the file belongs to an object that the save has written     *)
(* (LazyInv).  Both rest on what the transactions leave behind: pointers   *)
(* lead to objects that are themselves written (TableInv).                 *)
(***************************************************************************)
EXTENDS CoreBinFileProps, TLAPS

\* What can be loaded, and has been left by a save.
Saved(d) == Loadable(d) /\ \A o \in DOMAIN d : o = Root \/ d[o].pointer # None

\* A closed storage is empty; created and deleted objects have no pointers;
\* outside of a transaction no pointer leads to what a save leaves out.
TableInv ==
  /\ CollectionsMirrorPointers
  /\ NewIdsAreFree
  /\ Root \notin created_objects \cup deleted_objects
  /\ \A o \in deleted_objects : pointer[o] = None
  /\ ~storing => /\ deleted_objects = {}
                 /\ \A o \in created_objects : pointer[o] = None
                 /\ \A o \in known : pointer[o] # None => pointer[o] \in Live
  /\ ~intrans => ~storing /\ created_objects = {}
  /\ ~IsOpened => known = {} /\ ~intrans

\* Values that have not been read belong to objects that a save writes.
LazyInv ==
  /\ ValuesReadable
  /\ lazy \subseteq Live
  /\ phase \in {"unmap", "rename", "map"} => lazy = {}

\* Where the document that is being saved has got to.
SaveInv ==
  /\ FilesAsPromised
  /\ \A n \in Name : disk[n] \in Documents => Saved(disk[n])
  /\ phase # "idle" => /\ ~intrans /\ filename \in Name
                       /\ saving.orig # None /\ (saving.temporary => OwnName)
                       /\ Document \in kept[filename]
                       /\ ~saving.temporary => Torn \in kept[filename]
  /\ phase \in {"unmap", "rename"} =>
       IF saving.temporary THEN tmp[filename] = Document ELSE disk[filename] = Document
  /\ phase = "map" => disk[filename] = Document

IInv == TypeOK /\ TableInv /\ LazyInv /\ SaveInv

-----------------------------------------------------------------------------
(* Documents *)

LEMMA NoneIsNoId == None \notin Id
BY NoneAssumption, BoundsAssumption DEF Id

LEMMA DocumentFacts ==
  ASSUME TypeOK
  PROVE  /\ Live \in SUBSET Id
         /\ Document \in [Live -> BinObject]
         /\ Document \in Documents
<1>1. Live \in SUBSET Id
  BY DEF TypeOK, Live
<1>2. \A o \in Live : value[o] \in Value /\ pointer[o] \in Id \cup {None}
  BY <1>1 DEF TypeOK
<1>3. Document \in [Live -> BinObject]
  BY <1>2 DEF Document, BinObject
<1> QED BY <1>1, <1>3 DEF Documents

LEMMA WrittenIsLive ==
  ASSUME TableInv
  PROVE  /\ Written = Live
         /\ [o \in Written |-> [value |-> value[o], pointer |-> pointer[o]]] = Document
<1>1. Written = Live
  BY DEF TableInv, Written, HasEmptyPointers, Live
<1> QED BY <1>1 DEF Document

LEMMA DocumentSaved ==
  ASSUME TypeOK, TableInv, ~storing
  PROVE  Saved(Document)
<1>1. DOMAIN Document = Live /\ Document \in Documents
  BY DocumentFacts DEF Document
<1>2. ASSUME NEW o \in Live
      PROVE  /\ Document[o].pointer = pointer[o]
             /\ pointer[o] \in Live \cup {None}
             /\ o = Root \/ pointer[o] # None
  BY <1>2 DEF TableInv, Live, Document
<1> QED BY <1>1, <1>2 DEF Saved, Loadable

LEMMA DocumentUnchanged ==
  ASSUME known' = known, value' = value, pointer' = pointer, deleted_objects' = deleted_objects
  PROVE  Live' = Live /\ Document' = Document
BY DEF Live, Document

-----------------------------------------------------------------------------
(* Types *)

\* TypeOK in three parts: the table, its transaction, and the rest.
TableOK ==
  /\ known \in SUBSET Id
  /\ value \in [Id -> Value] /\ pointer \in [Id -> Id \cup {None}]
  /\ backing \in [Id -> SUBSET Id]
  /\ lazy \in SUBSET known /\ lost \in SUBSET Id /\ maxobjid \in Id

TransactionOK ==
  /\ created_objects \in SUBSET known /\ deleted_objects \in SUBSET known
  /\ intrans \in BOOLEAN /\ storing \in BOOLEAN /\ modified \in BOOLEAN

RestOK ==
  /\ filename \in Name \cup {".", None}
  /\ mapped \in Name \cup {None}
  /\ ofs \in (Name \X BOOLEAN) \cup {None}
  /\ phase \in {"idle", "copy", "open", "write", "unmap", "rename", "map"}
  /\ saving \in [orig : Name \cup {".", None}, keep : BOOLEAN, closing : BOOLEAN,
                 temporary : BOOLEAN]
  /\ disk \in [Name -> Contents] /\ tmp \in [Name -> Contents]
  /\ kept \in [Name -> SUBSET Contents]
  /\ faults \in 0..MaxFaults /\ writes \in 0..MaxWrites /\ saves \in 0..MaxSaves

LEMMA TypeParts == TypeOK <=> TableOK /\ TransactionOK /\ RestOK
BY DEF TypeOK, TableOK, TransactionOK, RestOK

LEMMA VanishType ==
  ASSUME Vanish
  PROVE  /\ known' = {} /\ value' \in [Id -> Value] /\ pointer' \in [Id -> Id \cup {None}]
         /\ backing' \in [Id -> SUBSET Id] /\ lazy' = {} /\ lost' = {} /\ maxobjid' \in Id
         /\ created_objects' = {} /\ deleted_objects' = {}
         /\ intrans' = FALSE /\ storing' = FALSE /\ modified' = FALSE
         /\ filename' = None /\ mapped' = None /\ ofs' = None
         /\ phase' = "idle" /\ saving' = NotSaving
<1>1. Blank \in Value
  BY ValuesAssumption
<1>2. 0 \in Id
  BY BoundsAssumption DEF Id
<1> QED BY <1>1, <1>2 DEF Vanish, EmptyTable, NoTransaction

\* The values of saving.
Arguments == [orig : Name \cup {".", None}, keep : BOOLEAN, closing : BOOLEAN, temporary : BOOLEAN]

LEMMA NotSavingType == NotSaving \in Arguments
BY DEF NotSaving, Arguments

LEMMA FaultType ==
  ASSUME TypeOK, Fault \/ UNCHANGED bounds
  PROVE  faults' \in 0..MaxFaults /\ writes' \in 0..MaxWrites /\ saves' \in 0..MaxSaves
<1>1. CASE Fault
  BY <1>1, BoundsAssumption DEF Fault, TypeOK
<1>2. CASE UNCHANGED bounds
  BY <1>2 DEF bounds, TypeOK
<1> QED BY <1>1, <1>2

\* A step that fails leaves the project open under its old name, or nothing.
LEMMA SaveFailsType ==
  ASSUME TypeOK, NEW lz \in SUBSET lazy, NEW o \in (Name \X BOOLEAN) \cup {None},
         SaveFails(lz, o, mapped), Fault \/ UNCHANGED bounds,
         disk' = disk, tmp' \in [Name -> Contents], kept' = kept
  PROVE  TypeOK'
<1>1. faults' \in 0..MaxFaults /\ writes' \in 0..MaxWrites /\ saves' \in 0..MaxSaves
  BY FaultType
<1>2. disk' \in [Name -> Contents] /\ kept' \in [Name -> SUBSET Contents]
  BY DEF TypeOK
<1>3. CASE saving.closing
  <2>1. Vanish
    BY <1>3 DEF SaveFails
  <2> QED BY <2>1, <1>1, <1>2, NotSavingType, VanishType DEF TypeOK, Arguments
<1>4. CASE ~saving.closing
  <2>1. lazy' = lz /\ ofs' = o /\ mapped' = mapped /\ filename' = saving.orig /\ phase' = "idle"
        /\ saving' = NotSaving /\ UNCHANGED <<known, value, pointer, backing, lost, maxobjid, tx>>
    BY <1>4 DEF SaveFails
  <2>2. saving.orig \in Name \cup {".", None}
    BY DEF TypeOK
  <2>3. lazy' \in SUBSET known'
    BY <2>1 DEF TypeOK
  <2> QED BY <1>1, <1>2, <2>1, <2>2, <2>3, NotSavingType DEF TypeOK, tx, Arguments
<1> QED BY <1>3, <1>4

LEMMA VanishTypeOK ==
  ASSUME TypeOK, Vanish, UNCHANGED <<disk, tmp>>, kept' \in [Name -> SUBSET Contents],
         UNCHANGED bounds
  PROVE  TypeOK'
<1>1. NotSaving \in [orig : Name \cup {".", None}, keep : BOOLEAN, closing : BOOLEAN,
                     temporary : BOOLEAN]
  BY DEF NotSaving
<1> QED BY <1>1, VanishType DEF TypeOK, bounds

LEMMA StartSaveType ==
  ASSUME TypeOK, NEW n \in Name, NEW keep \in BOOLEAN, NEW closing \in BOOLEAN,
         StartSave(n, keep, closing)
  PROVE  TypeOK'
<1>1. Promise(n) \in SUBSET Contents
  BY DocumentFacts DEF TypeOK, Promise, Contents
<1>2. kept' \in [Name -> SUBSET Contents]
  BY <1>1 DEF StartSave, TypeOK
<1>3. saving' \in [orig : Name \cup {".", None}, keep : BOOLEAN, closing : BOOLEAN,
                   temporary : BOOLEAN]
  BY DEF StartSave, TypeOK, UseTemporary
<1>4. phase' \in {"idle", "copy", "open", "write", "unmap", "rename", "map"}
  BY DEF StartSave
<1>5. saves' \in 0..MaxSaves
  BY BoundsAssumption DEF StartSave, TypeOK
<1> QED BY <1>2, <1>3, <1>4, <1>5 DEF StartSave, TypeOK, table, tx, stream

LEMMA SaveStepType ==
  ASSUME TypeOK, phase # "idle" => filename \in Name, TableInv, SaveStep
  PROVE  TypeOK'
<1>1. CASE CopyFile
  <2>1. tmp' \in [Name -> Contents]
    BY <1>1 DEF CopyFile, TypeOK, Contents
  <2>2. lazy \in SUBSET lazy /\ ofs \in (Name \X BOOLEAN) \cup {None}
    BY DEF TypeOK
  <2>3. CASE Fault /\ SaveFails(lazy, ofs, mapped) /\ UNCHANGED <<disk, kept>>
    BY <2>1, <2>2, <2>3, SaveFailsType
  <2>4. CASE phase' = "open" /\ UNCHANGED <<table, tx, filename, stream, saving, disk, kept, bounds>>
    BY <2>1, <2>4 DEF TypeOK, table, tx, stream, bounds
  <2> QED BY <1>1, <2>3, <2>4 DEF CopyFile
<1>2. CASE OpenStream
  <2>1. CASE SaveFails(lazy, None, mapped) /\ UNCHANGED files /\ (Fault \/ UNCHANGED bounds)
    BY <2>1, SaveFailsType DEF files, TypeOK
  <2>2. CASE /\ ofs' = <<filename, saving.temporary>> /\ PutOut(Torn) /\ phase' = "write"
             /\ UNCHANGED <<table, tx, filename, mapped, saving, kept, bounds>>
    <3>1. disk' \in [Name -> Contents] /\ tmp' \in [Name -> Contents]
      BY <2>2 DEF PutOut, TypeOK, Contents
    <3>2. ofs' \in (Name \X BOOLEAN) \cup {None}
      BY <1>2, <2>2 DEF TypeOK, OpenStream
    <3> QED BY <2>2, <3>1, <3>2 DEF TypeOK, table, tx, bounds
  <2> QED BY <1>2, <2>1, <2>2 DEF OpenStream
<1>3. CASE WriteObjects
  <2>1. LazyAfterWrite \in SUBSET lazy
    BY DEF LazyAfterWrite
  <2>2. CASE Fault /\ (\E left \in {ofs, None} : SaveFails(LazyAfterWrite, left, mapped)) /\ UNCHANGED files
    <3>1. PICK left \in {ofs, None} : SaveFails(LazyAfterWrite, left, mapped)
      BY <2>2
    <3>2. left \in (Name \X BOOLEAN) \cup {None}
      BY DEF TypeOK
    <3> QED BY <2>1, <2>2, <3>1, <3>2, SaveFailsType DEF files, TypeOK
  <2>3. CASE /\ PutOut([o \in Written |-> [value |-> value[o], pointer |-> pointer[o]]])
             /\ lazy' = LazyAfterWrite /\ ofs' = None /\ phase' = "unmap"
             /\ UNCHANGED <<known, value, pointer, backing, lost, maxobjid, tx, filename, mapped,
                            saving, kept, bounds>>
    <3>1. PutOut(Document)
      BY <2>3, WrittenIsLive
    <3>2. Document \in Contents
      BY DocumentFacts DEF Contents
    <3>3. disk' \in [Name -> Contents] /\ tmp' \in [Name -> Contents]
      BY <3>1, <3>2 DEF PutOut, TypeOK
    <3> QED BY <2>1, <2>3, <3>3 DEF TypeOK, tx, bounds
  <2> QED BY <1>3, <2>2, <2>3 DEF WriteObjects
<1>4. CASE Unmap
  BY <1>4 DEF Unmap, TypeOK, tx, files, bounds
<1>5. CASE RenameFile
  <2>1. CASE Fault /\ SaveFails(lazy, ofs, mapped) /\ UNCHANGED files
    BY <2>1, SaveFailsType DEF TypeOK, files
  <2>2. CASE /\ IF saving.temporary
                  THEN /\ disk' = [disk EXCEPT ![filename] = tmp[filename]]
                       /\ tmp' = [tmp EXCEPT ![filename] = Absent]
                  ELSE UNCHANGED <<disk, tmp>>
             /\ phase' = "map"
             /\ UNCHANGED <<table, tx, filename, stream, saving, kept, bounds>>
    <3>1. filename \in Name
      BY <1>5 DEF RenameFile
    <3>2. disk' \in [Name -> Contents] /\ tmp' \in [Name -> Contents]
      BY <2>2, <3>1 DEF TypeOK, Contents
    <3> QED BY <2>2, <3>2 DEF TypeOK, table, tx, stream, bounds
  <2> QED BY <1>5, <2>1, <2>2 DEF RenameFile
<1>6. CASE MapFile
  <2> USE DEF CanMap
  <2>1. CASE SaveFails(lazy, ofs, mapped) /\ UNCHANGED files /\ (Fault \/ UNCHANGED bounds)
    BY <2>1, SaveFailsType DEF TypeOK, files
  <2>2. CASE /\ NewMap # "."
             /\ kept' = [kept EXCEPT ![filename] = {Document}]
             /\ IF saving.closing
                  THEN Vanish
                  ELSE /\ mapped' = NewMap /\ filename' = NewMap
                       /\ phase' = "idle" /\ saving' = NotSaving
                       /\ UNCHANGED <<table, tx, ofs>>
             /\ UNCHANGED <<disk, tmp, bounds>>
    <3>1. kept' \in [Name -> SUBSET Contents]
      BY <2>2, DocumentFacts DEF TypeOK, Contents
    <3>2. CASE saving.closing
      BY <2>2, <3>1, <3>2, VanishTypeOK
    <3>3. CASE ~saving.closing
      <4>1. NewMap \in Name \cup {None}
        BY <2>2 DEF NewMap, TypeOK
      <4>2. NotSaving \in [orig : Name \cup {".", None}, keep : BOOLEAN, closing : BOOLEAN,
                           temporary : BOOLEAN]
        BY DEF NotSaving
      <4> QED BY <2>2, <3>1, <3>3, <4>1, <4>2 DEF TypeOK, table, tx, bounds
    <3> QED BY <3>2, <3>3
  <2> QED BY <1>6, <2>1, <2>2 DEF MapFile
<1> QED BY <1>1, <1>2, <1>3, <1>4, <1>5, <1>6 DEF SaveStep

LEMMA OpeningType ==
  ASSUME TypeOK, TableInv,
         \/ \E n \in Name \cup {"."} : CreateProject(n)
         \/ \E n \in Name : OpenProject(n)
  PROVE  TypeOK'
<1>1. Root \in Id
  BY BoundsAssumption DEF Id, Root
<1>2. ~IsOpened => known = {} /\ lazy = {} /\ created_objects = {} /\ deleted_objects = {}
  BY DEF TableInv, TypeOK
<1>3. ASSUME NEW n \in Name \cup {"."}, CreateProject(n)
      PROVE  TypeOK'
  BY <1>1, <1>2, <1>3 DEF CreateProject, TypeOK, tx, stream, save, files, bounds
<1>4. ASSUME NEW n \in Name, OpenProject(n)
      PROVE  TypeOK'
  <2> DEFINE d == disk[n]
  <2>1. PICK S \in SUBSET Id : d \in [S -> BinObject]
    BY <1>4 DEF OpenProject, Loadable, Documents
  <2>2. DOMAIN d = S /\ \A o \in S : d[o].value \in Value /\ d[o].pointer \in Id \cup {None}
    BY <2>1 DEF BinObject
  <2>3. /\ value' = [o \in Id |-> IF o \in S THEN d[o].value ELSE Blank]
        /\ pointer' = [o \in Id |-> IF o \in S THEN d[o].pointer ELSE None]
        /\ backing' = [o \in Id |-> {p \in S : d[p].pointer = o}]
        /\ known' = S /\ lazy' = S /\ maxobjid' \in Id
        /\ filename' = n /\ mapped' = n
    BY <1>4, <2>2 DEF OpenProject
  <2> HIDE DEF d
  <2>4. value' \in [Id -> Value] /\ pointer' \in [Id -> Id \cup {None}]
    BY <2>2, <2>3, ValuesAssumption
  <2>5. backing' \in [Id -> SUBSET Id]
    BY <2>1, <2>3
  <2> QED BY <1>2, <1>4, <2>3, <2>4, <2>5 DEF OpenProject, TypeOK, tx, save, files, bounds
<1> QED BY <1>3, <1>4

LEMMA ChangeType ==
  ASSUME TypeOK, Change
  PROVE  faults' \in 0..MaxFaults /\ writes' \in 0..MaxWrites /\ saves' \in 0..MaxSaves
BY BoundsAssumption DEF Change, TypeOK

\* The steps of a transaction.
TransactionStep ==
  \/ BeginTransaction
  \/ CreateObject
  \/ \E o \in Id :
       \/ ReadObject(o)
       \/ DeleteObject(o)
       \/ \E v \in Value : PutValue(o, v)
       \/ \E t \in Id \cup {None} : PutPointer(o, t)
  \/ CommitTransaction
  \/ AbortTransaction

LEMMA TransactionType ==
  ASSUME TypeOK, TransactionStep
  PROVE  TypeOK'
<1>1. CASE BeginTransaction
  BY <1>1 DEF BeginTransaction, TypeOK, table, stream, save, files, bounds
<1>2. CASE CreateObject
  <2>1. maxobjid + 1 \in Id
    BY <1>2, BoundsAssumption DEF CreateObject, TypeOK, Id
  <2> QED BY <1>2, <2>1, ChangeType DEF CreateObject, TypeOK, stream, save, files
<1>3. ASSUME NEW o \in Id, ReadObject(o)
      PROVE  TypeOK'
  BY <1>3 DEF ReadObject, TypeOK, tx, stream, save, files, bounds
<1>4. ASSUME NEW o \in Id, DeleteObject(o)
      PROVE  TypeOK'
  BY <1>4, ChangeType DEF DeleteObject, Writable, TypeOK, table, stream, save, files
<1>5. ASSUME NEW o \in Id, NEW v \in Value, PutValue(o, v)
      PROVE  TypeOK'
  BY <1>5, ChangeType DEF PutValue, TypeOK, stream, save, files
<1>6. ASSUME NEW o \in Id, NEW t \in Id \cup {None}, PutPointer(o, t)
      PROVE  TypeOK'
  <2>1. pointer' \in [Id -> Id \cup {None}]
    BY <1>6 DEF PutPointer, TypeOK
  <2>2. backing' \in [Id -> SUBSET Id]
    BY <1>6 DEF PutPointer, Repoint, TypeOK
  <2>3. modified' \in BOOLEAN /\ storing' = TRUE
    BY <1>6 DEF PutPointer, TypeOK
  <2>4. faults' \in 0..MaxFaults /\ writes' \in 0..MaxWrites /\ saves' \in 0..MaxSaves
    BY <1>6, ChangeType DEF PutPointer
  <2> QED BY <1>6, <2>1, <2>2, <2>3, <2>4 DEF PutPointer, TypeOK, stream, save, files
<1>7. ASSUME NEW S \in SUBSET known, Erase(S), NoTransaction,
             UNCHANGED <<modified, filename, stream, save, files, bounds>>
      PROVE  TypeOK'
  <2>1. value' \in [Id -> Value]
    BY <1>7, ValuesAssumption DEF Erase, TypeOK
  <2>2. known' \in SUBSET Id /\ lazy' \in SUBSET known'
    BY <1>7 DEF Erase, TypeOK
  <2>3. /\ pointer' \in [Id -> Id \cup {None}] /\ backing' \in [Id -> SUBSET Id]
        /\ lost' \in SUBSET Id /\ maxobjid' \in Id
    BY <1>7 DEF Erase, TypeOK
  <2>4. created_objects' = {} /\ deleted_objects' = {} /\ intrans' = FALSE /\ storing' = FALSE
    BY <1>7 DEF NoTransaction
  <2>5. RestOK' /\ modified' \in BOOLEAN
    BY <1>7, TypeParts DEF RestOK, TransactionOK, stream, save, files, bounds
  <2>6. TableOK' /\ TransactionOK'
    BY <2>1, <2>2, <2>3, <2>4, <2>5 DEF TableOK, TransactionOK
  <2> QED BY <2>5, <2>6 DEF TypeOK, TableOK, TransactionOK, RestOK
<1>8. CASE CommitTransaction
  BY <1>7, <1>8 DEF CommitTransaction, TypeOK
<1>9. CASE AbortTransaction
  BY <1>7, <1>9 DEF AbortTransaction, TypeOK
<1> QED BY <1>1, <1>2, <1>3, <1>4, <1>5, <1>6, <1>8, <1>9 DEF TransactionStep

\* What starts a save, or ends the session.
ClosingStep ==
  \/ \E n \in Name, keep \in BOOLEAN : SaveProject(n, keep)
  \/ \E abort \in BOOLEAN : CloseProject(abort)
  \/ Crash

LEMMA ClosingType ==
  ASSUME TypeOK, ClosingStep
  PROVE  TypeOK'
<1>1. ASSUME NEW n \in Name, NEW keep \in BOOLEAN, SaveProject(n, keep)
      PROVE  TypeOK'
  BY <1>1, StartSaveType DEF SaveProject
<1>2. ASSUME Vanish, UNCHANGED <<files, bounds>>
      PROVE  TypeOK'
  <2>1. kept' \in [Name -> SUBSET Contents]
    BY <1>2 DEF files, TypeOK
  <2> QED BY <1>2, <2>1, VanishTypeOK DEF files
<1>3. ASSUME NEW abort \in BOOLEAN, CloseProject(abort)
      PROVE  TypeOK'
  <2>1. CASE filename # "." /\ StartSave(filename, TRUE, TRUE)
    <3>1. filename \in Name
      BY <1>3, <2>1 DEF CloseProject, IsOpened, TypeOK
    <3> QED BY <2>1, <3>1, StartSaveType
  <2> QED BY <1>2, <1>3, <2>1 DEF CloseProject
<1>4. CASE Crash
  BY <1>2, <1>4 DEF Crash
<1> QED BY <1>1, <1>3, <1>4 DEF ClosingStep

LEMMA StepCases ==
  ASSUME Next
  PROVE  \/ \E n \in Name \cup {"."} : CreateProject(n)
         \/ \E n \in Name : OpenProject(n)
         \/ TransactionStep
         \/ SaveStep
         \/ ClosingStep
BY DEF Next, TransactionStep, ClosingStep

-----------------------------------------------------------------------------
(* The table *)

\* What does not touch the table and its transaction.
SameTable ==
  UNCHANGED <<known, value, pointer, backing, maxobjid, created_objects, deleted_objects, intrans,
              storing>>

LEMMA VanishTable ==
  ASSUME Vanish
  PROVE  TableInv' /\ LazyInv'
<1>1. /\ known' = {} /\ lazy' = {} /\ lost' = {} /\ created_objects' = {} /\ deleted_objects' = {}
      /\ pointer' = [o \in Id |-> None] /\ backing' = [o \in Id |-> {}]
      /\ ~intrans' /\ ~storing' /\ filename' = None
  BY DEF Vanish, EmptyTable, NoTransaction
<1>2. CollectionsMirrorPointers'
  BY <1>1, NoneAssumption DEF CollectionsMirrorPointers, Id
<1>3. TableInv'
  BY <1>1, <1>2 DEF TableInv, NewIdsAreFree
<1> QED BY <1>1, <1>3 DEF LazyInv, ValuesReadable

LEMMA SameTableInv ==
  ASSUME TableInv, SameTable, filename' # None
  PROVE  TableInv'
<1>1. Live' = Live
  BY DocumentUnchanged DEF SameTable
<1>2. /\ known' = known /\ pointer' = pointer /\ backing' = backing /\ maxobjid' = maxobjid
      /\ created_objects' = created_objects /\ deleted_objects' = deleted_objects
      /\ intrans' = intrans /\ storing' = storing
  BY DEF SameTable
<1> QED BY <1>1, <1>2 DEF TableInv, CollectionsMirrorPointers, NewIdsAreFree, IsOpened

LEMMA SaveFailsSame ==
  ASSUME saving.orig # None, NEW lz, NEW o, SaveFails(lz, o, mapped)
  PROVE  Vanish \/ (SameTable /\ filename' # None)
BY DEF SaveFails, SameTable, tx

\* A save leaves the table and the transaction alone.
LEMMA SaveStepSame ==
  ASSUME SaveInv, phase # "idle", SaveStep
  PROVE  Vanish \/ (SameTable /\ filename' # None)
<1>1. saving.orig # None /\ filename # None
  BY NamesAssumption DEF SaveInv
<1>2. CASE CopyFile
  BY <1>1, <1>2, SaveFailsSame DEF CopyFile, SameTable, table, tx
<1>3. CASE OpenStream
  BY <1>1, <1>3, SaveFailsSame DEF OpenStream, SameTable, table, tx
<1>4. CASE WriteObjects
  <2>1. CASE \E left \in {ofs, None} : SaveFails(LazyAfterWrite, left, mapped)
    BY <1>1, <2>1, SaveFailsSame
  <2> QED BY <1>1, <1>4, <2>1 DEF WriteObjects, SameTable, tx
<1>5. CASE Unmap
  BY <1>1, <1>5 DEF Unmap, SameTable, tx
<1>6. CASE RenameFile
  BY <1>1, <1>6, SaveFailsSame DEF RenameFile, SameTable, table, tx
<1>7. CASE MapFile
  <2>1. NewMap # None
    BY <1>1 DEF NewMap
  <2> QED BY <1>1, <1>7, <2>1, SaveFailsSame DEF MapFile, SameTable, table, tx
<1> QED BY <1>2, <1>3, <1>4, <1>5, <1>6, <1>7 DEF SaveStep

LEMMA ClosingSame ==
  ASSUME TypeOK, ClosingStep
  PROVE  Vanish \/ (SameTable /\ filename' # None)
<1>1. ASSUME NEW n \in Name \cup {filename}, filename # None, NEW keep, NEW closing, StartSave(n, keep, closing)
      PROVE  SameTable /\ filename' # None
  BY <1>1, NamesAssumption DEF StartSave, SameTable, table, tx
<1>2. CASE \E n \in Name, keep \in BOOLEAN : SaveProject(n, keep)
  BY <1>1, <1>2 DEF SaveProject, StartSave, IsOpened
<1>3. CASE \E abort \in BOOLEAN : CloseProject(abort)
  BY <1>1, <1>3 DEF CloseProject, IsOpened
<1> QED BY <1>2, <1>3 DEF ClosingStep, Crash

LEMMA CreateProjectTable ==
  ASSUME TypeOK, TableInv, NEW n \in Name \cup {"."}, CreateProject(n)
  PROVE  TableInv' /\ lazy' = {}
<1>1. /\ known = {} /\ ~intrans /\ ~storing /\ lazy = {}
      /\ created_objects = {} /\ deleted_objects = {}
  BY DEF CreateProject, TableInv, TypeOK
<1>2. \A o \in Id : pointer[o] = None
  BY <1>1 DEF TableInv, CollectionsMirrorPointers
<1>3. /\ known' = {Root} /\ filename' # None
      /\ pointer' = pointer /\ backing' = backing /\ maxobjid' = maxobjid /\ lazy' = {}
      /\ created_objects' = {} /\ deleted_objects' = {} /\ ~intrans' /\ ~storing'
  BY <1>1, NamesAssumption DEF CreateProject, tx
<1>4. CollectionsMirrorPointers'
  BY <1>2, <1>3 DEF TableInv, CollectionsMirrorPointers
<1>5. NewIdsAreFree'
  BY <1>3 DEF NewIdsAreFree, TypeOK, Id, Root
<1>6. \A o \in known' : pointer'[o] = None
  BY <1>2, <1>3, BoundsAssumption DEF Id, Root
<1> QED BY <1>3, <1>4, <1>5, <1>6 DEF TableInv, IsOpened

LEMMA OpenProjectTable ==
  ASSUME TypeOK, TableInv, SaveInv, NEW n \in Name, OpenProject(n)
  PROVE  TableInv' /\ lazy' \subseteq Live'
<1> DEFINE d == disk[n]
<1>1. PICK S \in SUBSET Id : d \in [S -> BinObject]
  BY DEF OpenProject, Loadable, Documents
<1>2. \A o \in S : d[o].pointer \in S \cup {None} /\ (o = Root \/ d[o].pointer # None)
  <2>1. d \in Documents /\ Loadable(d)
    BY DEF OpenProject, Loadable
  <2>2. Saved(d)
    BY <2>1 DEF SaveInv
  <2> QED BY <1>1, <2>1, <2>2 DEF Loadable, Saved
<1>3. /\ pointer' = [o \in Id |-> IF o \in S THEN d[o].pointer ELSE None]
      /\ backing' = [o \in Id |-> {p \in S : d[p].pointer = o}]
      /\ known' = S /\ lazy' = S /\ filename' = n
      /\ \A o \in S : o <= maxobjid'
  BY <1>1 DEF OpenProject, CountIds
<1>4. created_objects' = {} /\ deleted_objects' = {} /\ ~intrans' /\ ~storing'
  BY DEF OpenProject, TableInv, TypeOK, tx
<1> HIDE DEF d
<1>5. Live' = S
  BY <1>1, <1>2, <1>3, <1>4 DEF Live
<1>6. CollectionsMirrorPointers'
  <2>1. ASSUME NEW o \in Id
        PROVE  backing'[o] = {p \in Id : pointer'[p] = o}
    BY <1>1, <1>3, NoneIsNoId
  <2>2. \A o \in Id : pointer'[o] # None => o \in known' /\ pointer'[o] \in known'
    BY <1>2, <1>3
  <2> QED BY <2>1, <2>2 DEF CollectionsMirrorPointers
<1>7. NewIdsAreFree'
  BY <1>3 DEF NewIdsAreFree
<1>8. \A o \in known' : pointer'[o] # None => pointer'[o] \in Live'
  BY <1>1, <1>2, <1>3, <1>5
<1> QED BY <1>3, <1>4, <1>5, <1>6, <1>7, <1>8, NamesAssumption DEF TableInv, IsOpened

LEMMA OpenWhileInTransaction ==
  ASSUME TableInv, intrans
  PROVE  filename # None
BY DEF TableInv, IsOpened

LEMMA CreateObjectTable ==
  ASSUME TypeOK, TableInv, CreateObject
  PROVE  TableInv' /\ Live \subseteq Live'
<1> DEFINE o == maxobjid + 1
<1>1. o \in Id /\ o # Root /\ o \notin known /\ maxobjid \in Nat
  BY BoundsAssumption DEF CreateObject, TypeOK, TableInv, NewIdsAreFree, Id, Root
<1>2. pointer[o] = None
  BY <1>1 DEF TableInv, CollectionsMirrorPointers
<1>3. /\ known' = known \cup {o} /\ created_objects' = created_objects \cup {o} /\ maxobjid' = o
      /\ pointer' = pointer /\ backing' = backing /\ deleted_objects' = deleted_objects
      /\ intrans' /\ intrans /\ ~storing' /\ ~storing /\ filename' # None
  BY OpenWhileInTransaction DEF CreateObject, TypeOK
<1> HIDE DEF o
<1>4. Live \subseteq Live'
  BY <1>3 DEF Live
<1>5. CollectionsMirrorPointers'
  BY <1>3 DEF TableInv, CollectionsMirrorPointers
<1>6. NewIdsAreFree'
  <2>1. ASSUME NEW p \in known
        PROVE  p <= o
    BY <1>1, <2>1 DEF TypeOK, TableInv, NewIdsAreFree, Id, o
  <2> QED BY <1>1, <1>3, <2>1 DEF NewIdsAreFree, Id
<1>7. \A p \in created_objects' : pointer'[p] = None
  BY <1>2, <1>3 DEF TableInv
<1>8. \A p \in known' : pointer'[p] # None => pointer'[p] \in Live'
  BY <1>2, <1>3, <1>4 DEF TableInv
<1> QED BY <1>1, <1>3, <1>4, <1>5, <1>6, <1>7, <1>8 DEF TableInv, IsOpened

LEMMA PutPointerTable ==
  ASSUME TypeOK, TableInv, NEW o \in Id, NEW t \in Id \cup {None}, PutPointer(o, t)
  PROVE  TableInv' /\ Live \ {o} \subseteq Live'
<1>1. /\ pointer' = [pointer EXCEPT ![o] = t]
      /\ backing' = [b \in Id |-> IF b = t THEN backing[b] \cup {o} ELSE backing[b] \ {o}]
      /\ known' = known /\ maxobjid' = maxobjid
      /\ created_objects' = created_objects /\ deleted_objects' = deleted_objects
      /\ intrans' /\ storing' /\ filename' # None
  BY OpenWhileInTransaction DEF PutPointer, Writable, Repoint
<1>2. o \in known \ deleted_objects /\ t \in known \cup {None}
  BY DEF PutPointer, Writable
<1>3. \A p \in Id : pointer'[p] = IF p = o THEN t ELSE pointer[p]
  BY <1>1 DEF TypeOK
<1>4. CollectionsMirrorPointers'
  <2>1. ASSUME NEW b \in Id
        PROVE  backing'[b] = {p \in Id : pointer'[p] = b}
    BY <1>1, <1>3 DEF TableInv, CollectionsMirrorPointers
  <2>2. \A p \in Id : pointer'[p] # None => p \in known' /\ pointer'[p] \in known'
    BY <1>1, <1>2, <1>3 DEF TableInv, CollectionsMirrorPointers
  <2> QED BY <2>1, <2>2 DEF CollectionsMirrorPointers
<1>5. Live \ {o} \subseteq Live'
  BY <1>1, <1>3 DEF Live, TypeOK
<1>6. NewIdsAreFree'
  BY <1>1 DEF TableInv, NewIdsAreFree
<1>7. \A p \in deleted_objects' : pointer'[p] = None
  BY <1>1, <1>2, <1>3 DEF TableInv, TypeOK
<1> QED BY <1>1, <1>4, <1>5, <1>6, <1>7 DEF TableInv, IsOpened

LEMMA CommitTable ==
  ASSUME TypeOK, TableInv, CommitTransaction
  PROVE  TableInv' /\ Live' = Live
<1>1. /\ known' = known \ deleted_objects /\ pointer' = pointer /\ backing' = backing
      /\ maxobjid' = maxobjid /\ created_objects' = {} /\ deleted_objects' = {}
      /\ ~intrans' /\ ~storing' /\ filename' # None
  BY OpenWhileInTransaction DEF CommitTransaction, Erase, NoTransaction
<1>2. Live' = Live
  BY <1>1 DEF Live
<1>3. \A o \in known' : pointer'[o] # None => pointer'[o] \in Live'
  BY <1>1, <1>2 DEF CommitTransaction
<1>4. CollectionsMirrorPointers'
  <2>1. ASSUME NEW o \in Id, pointer[o] # None
        PROVE  o \in known' /\ pointer[o] \in known'
    <3>1. o \in known
      BY <2>1 DEF TableInv, CollectionsMirrorPointers
    <3> QED BY <1>1, <2>1, <3>1 DEF TableInv, CommitTransaction, Live
  <2> QED BY <1>1, <2>1 DEF TableInv, CollectionsMirrorPointers
<1>5. NewIdsAreFree'
  BY <1>1 DEF TableInv, NewIdsAreFree
<1> QED BY <1>1, <1>2, <1>3, <1>4, <1>5 DEF TableInv, IsOpened

LEMMA AbortTable ==
  ASSUME TypeOK, TableInv, AbortTransaction
  PROVE  TableInv' /\ Live \ created_objects \subseteq Live'
<1>1. /\ known' = known \ created_objects /\ pointer' = pointer /\ backing' = backing
      /\ maxobjid' = maxobjid /\ created_objects' = {} /\ deleted_objects' = {}
      /\ ~intrans' /\ ~storing' /\ filename' # None /\ ~storing
  BY OpenWhileInTransaction DEF AbortTransaction, Erase, NoTransaction
<1>2. Live \ created_objects \subseteq Live'
  BY <1>1 DEF Live
<1>3. Live \cap created_objects = {}
  BY <1>1 DEF TableInv, Live
<1>4. \A o \in known : pointer[o] # None => o \in known' /\ pointer[o] \in Live \ created_objects
  BY <1>1, <1>3 DEF TableInv
<1>5. CollectionsMirrorPointers'
  <2>1. ASSUME NEW o \in Id, pointer[o] # None
        PROVE  o \in known' /\ pointer[o] \in known'
    <3>1. o \in known
      BY <2>1 DEF TableInv, CollectionsMirrorPointers
    <3> QED BY <1>1, <1>4, <2>1, <3>1 DEF Live
  <2> QED BY <1>1, <2>1 DEF TableInv, CollectionsMirrorPointers
<1>6. NewIdsAreFree'
  BY <1>1 DEF TableInv, NewIdsAreFree
<1>7. \A o \in known' : pointer'[o] # None => pointer'[o] \in Live'
  BY <1>1, <1>2, <1>4
<1> QED BY <1>1, <1>2, <1>5, <1>6, <1>7 DEF TableInv, IsOpened

LEMMA TransactionTable ==
  ASSUME TypeOK, TableInv, TransactionStep
  PROVE  TableInv'
<1>1. CASE BeginTransaction
  <2>1. Live' = Live
    BY <1>1, DocumentUnchanged DEF BeginTransaction, table
  <2> QED BY <1>1, <2>1 DEF BeginTransaction, table, TableInv, CollectionsMirrorPointers,
                            NewIdsAreFree, IsOpened
<1>2. CASE CreateObject
  BY <1>2, CreateObjectTable
<1>3. ASSUME NEW o \in Id, ReadObject(o)
      PROVE  TableInv'
  <2>1. SameTable /\ filename' # None
    BY <1>3, OpenWhileInTransaction DEF ReadObject, SameTable, tx
  <2> QED BY <2>1, SameTableInv
<1>4. ASSUME NEW o \in Id, DeleteObject(o)
      PROVE  TableInv'
  <2>1. /\ known' = known /\ pointer' = pointer /\ backing' = backing /\ maxobjid' = maxobjid
        /\ created_objects' = created_objects /\ deleted_objects' = deleted_objects \cup {o}
        /\ intrans' /\ storing' /\ filename' # None /\ o # Root /\ pointer[o] = None
    BY <1>4, OpenWhileInTransaction DEF DeleteObject, Writable, table
  <2>2. CollectionsMirrorPointers' /\ NewIdsAreFree'
    BY <2>1 DEF TableInv, CollectionsMirrorPointers, NewIdsAreFree
  <2> QED BY <2>1, <2>2 DEF TableInv, IsOpened
<1>5. ASSUME NEW o \in Id, NEW v \in Value, PutValue(o, v)
      PROVE  TableInv'
  <2>1. /\ known' = known /\ pointer' = pointer /\ backing' = backing /\ maxobjid' = maxobjid
        /\ created_objects' = created_objects /\ deleted_objects' = deleted_objects
        /\ intrans' /\ storing' /\ filename' # None
    BY <1>5, OpenWhileInTransaction DEF PutValue, Writable
  <2> QED BY <2>1 DEF TableInv, IsOpened, CollectionsMirrorPointers, NewIdsAreFree
<1>6. ASSUME NEW o \in Id, NEW t \in Id \cup {None}, PutPointer(o, t)
      PROVE  TableInv'
  BY <1>6, PutPointerTable
<1>7. CASE CommitTransaction
  BY <1>7, CommitTable
<1>8. CASE AbortTransaction
  BY <1>8, AbortTable
<1> QED BY <1>1, <1>2, <1>3, <1>4, <1>5, <1>6, <1>7, <1>8 DEF TransactionStep

-----------------------------------------------------------------------------
(* Lazy values *)

\* No transaction and no opening goes on while a project is saved.
LEMMA IdleUnlessSaving ==
  ASSUME SaveInv, intrans \/ ~IsOpened
  PROVE  phase = "idle"
BY NamesAssumption DEF SaveInv, IsOpened

LEMMA TransactionLazy ==
  ASSUME TypeOK, TableInv, LazyInv, SaveInv, TransactionStep
  PROVE  /\ LazyInv' /\ phase' = "idle" /\ phase = "idle"
         /\ UNCHANGED files
<1>1. phase = "idle" /\ phase' = "idle" /\ mapped' = mapped /\ lost' = lost /\ UNCHANGED files
  BY IdleUnlessSaving DEF TransactionStep, BeginTransaction, CreateObject, ReadObject, DeleteObject,
     PutValue, PutPointer, CommitTransaction, AbortTransaction, Erase, Writable, Idle, stream, save,
     table
<1>2. SUFFICES lazy' \subseteq lazy /\ lazy' \subseteq Live'
  BY <1>1 DEF LazyInv, ValuesReadable
<1>3. lazy \subseteq Live
  BY DEF LazyInv
<1>4. CASE BeginTransaction
  BY <1>3, <1>4, DocumentUnchanged DEF BeginTransaction, table
<1>5. CASE CreateObject
  BY <1>3, <1>5, CreateObjectTable DEF CreateObject
<1>6. ASSUME NEW o \in Id, ReadObject(o)
      PROVE  lazy' \subseteq lazy /\ lazy' \subseteq Live'
  BY <1>3, <1>6, DocumentUnchanged DEF ReadObject, tx
<1>7. ASSUME NEW o \in Id, DeleteObject(o)
      PROVE  lazy' \subseteq lazy /\ lazy' \subseteq Live'
  BY <1>3, <1>7 DEF DeleteObject, Writable, Live, table
<1>8. ASSUME NEW o \in Id, NEW v \in Value, PutValue(o, v)
      PROVE  lazy' \subseteq lazy /\ lazy' \subseteq Live'
  BY <1>3, <1>8 DEF PutValue, Live
<1>9. ASSUME NEW o \in Id, NEW t \in Id \cup {None}, PutPointer(o, t)
      PROVE  lazy' \subseteq lazy /\ lazy' \subseteq Live'
  BY <1>3, <1>9, PutPointerTable DEF PutPointer, Writable
<1>10. CASE CommitTransaction
  BY <1>3, <1>10, CommitTable DEF CommitTransaction, Erase
<1>11. CASE AbortTransaction
  BY <1>3, <1>11, AbortTable DEF AbortTransaction, Erase
<1> QED BY <1>4, <1>5, <1>6, <1>7, <1>8, <1>9, <1>10, <1>11 DEF TransactionStep

LEMMA OpeningLazy ==
  ASSUME TypeOK, TableInv, LazyInv, SaveInv,
         \/ \E n \in Name \cup {"."} : CreateProject(n)
         \/ \E n \in Name : OpenProject(n)
  PROVE  TableInv' /\ LazyInv' /\ phase = "idle" /\ phase' = "idle" /\ UNCHANGED files
<1>1. phase = "idle" /\ phase' = "idle" /\ lost' = lost /\ UNCHANGED files
  BY IdleUnlessSaving DEF CreateProject, OpenProject, save
<1>2. ASSUME NEW n \in Name \cup {"."}, CreateProject(n)
      PROVE  TableInv' /\ LazyInv'
  BY <1>1, <1>2, CreateProjectTable DEF LazyInv, ValuesReadable
<1>3. ASSUME NEW n \in Name, OpenProject(n)
      PROVE  TableInv' /\ LazyInv'
  <2>1. TableInv' /\ lazy' \subseteq Live'
    BY <1>3, OpenProjectTable
  <2>2. mapped' # None
    BY <1>3, NamesAssumption DEF OpenProject
  <2> QED BY <1>1, <2>1, <2>2 DEF LazyInv, ValuesReadable
<1> QED BY <1>1, <1>2, <1>3

\* What goes on while a project is being saved.
LEMMA SaveStepLazy ==
  ASSUME TypeOK, TableInv, LazyInv, SaveInv, phase # "idle", SaveStep
  PROVE  LazyInv'
<1>1. CASE Vanish
  BY <1>1, VanishTable
<1>2. CASE SameTable /\ ~Vanish
  <2>1. Live' = Live
    BY <1>2, DocumentUnchanged DEF SameTable
  <2>2. ASSUME NEW lz \in SUBSET lazy, NEW o, SaveFails(lz, o, mapped)
        PROVE  LazyInv'
    BY <1>2, <2>1, <2>2 DEF SaveFails, LazyInv, ValuesReadable
  <2>3. CASE CopyFile
    BY <2>1, <2>2, <2>3 DEF CopyFile, LazyInv, ValuesReadable, table, stream
  <2>4. CASE OpenStream
    BY <2>1, <2>2, <2>4 DEF OpenStream, LazyInv, ValuesReadable, table
  <2>5. CASE WriteObjects
    <3>1. LazyAfterWrite = {}
      BY WrittenIsLive DEF LazyInv, LazyAfterWrite
    <3>2. CASE \E left \in {ofs, None} : SaveFails(LazyAfterWrite, left, mapped)
      BY <2>2, <3>1, <3>2
    <3>3. CASE lazy' = LazyAfterWrite /\ lost' = lost
      BY <3>1, <3>3 DEF LazyInv, ValuesReadable
    <3> QED BY <2>5, <3>2, <3>3 DEF WriteObjects
  <2>6. CASE Unmap
    BY <2>6 DEF Unmap, LazyInv, ValuesReadable
  <2>7. CASE RenameFile
    BY <2>1, <2>2, <2>7 DEF RenameFile, LazyInv, ValuesReadable, table
  <2>8. CASE MapFile
    BY <1>2, <2>1, <2>2, <2>8 DEF MapFile, LazyInv, ValuesReadable, table
  <2> QED BY <2>3, <2>4, <2>5, <2>6, <2>7, <2>8 DEF SaveStep
<1> QED BY <1>1, <1>2, SaveStepSame

LEMMA ClosingLazy ==
  ASSUME TypeOK, TableInv, LazyInv, SaveInv, ClosingStep
  PROVE  LazyInv'
<1>1. CASE Vanish
  BY <1>1, VanishTable
<1>2. ASSUME NEW n, NEW keep, NEW closing, StartSave(n, keep, closing)
      PROVE  LazyInv'
  <2>1. Live' = Live
    BY <1>2, DocumentUnchanged DEF StartSave, table, tx
  <2> QED BY <1>2, <2>1 DEF StartSave, LazyInv, ValuesReadable, table, stream
<1> QED BY <1>1, <1>2 DEF ClosingStep, Crash, CloseProject, SaveProject

-----------------------------------------------------------------------------
(* Files *)

\* Steps that leave the files alone and end or do without a save.
LEMMA FilesLeft ==
  ASSUME SaveInv, disk' = disk, kept' = kept, phase' = "idle"
  PROVE  SaveInv'
BY DEF SaveInv, FilesAsPromised

LEMMA StartSaveFiles ==
  ASSUME TypeOK, SaveInv, NEW n \in Name, NEW keep, NEW closing, StartSave(n, keep, closing)
  PROVE  SaveInv'
<1>1. /\ disk' = disk /\ tmp' = tmp /\ kept' = [kept EXCEPT ![n] = Promise(n)]
      /\ filename' = n /\ phase' \in {"copy", "open"} /\ ~intrans'
      /\ saving'.orig = filename /\ saving'.temporary = UseTemporary(n) /\ filename # None
  BY DEF StartSave, IsOpened, tx
<1>2. Document' = Document
  BY DocumentUnchanged DEF StartSave, table, tx
<1>3. /\ disk[n] \in Promise(n) /\ Document \in Promise(n)
      /\ ~UseTemporary(n) => Torn \in Promise(n)
  BY DEF Promise, UseTemporary
<1>4. \A m \in Name : kept'[m] = IF m = n THEN Promise(n) ELSE kept[m]
  BY <1>1 DEF TypeOK
<1>5. FilesAsPromised'
  BY <1>1, <1>3, <1>4 DEF SaveInv, FilesAsPromised
<1>6. OwnName' \/ ~saving'.temporary
  BY <1>1 DEF OwnName, UseTemporary
<1> QED BY <1>1, <1>2, <1>3, <1>4, <1>5, <1>6 DEF SaveInv

LEMMA ClosingFiles ==
  ASSUME TypeOK, SaveInv, ClosingStep
  PROVE  SaveInv'
<1>1. CASE \E n \in Name, keep \in BOOLEAN : SaveProject(n, keep)
  BY <1>1, StartSaveFiles DEF SaveProject
<1>2. CASE Vanish /\ UNCHANGED files
  BY <1>2, FilesLeft DEF Vanish, files
<1>3. ASSUME NEW abort \in BOOLEAN, CloseProject(abort)
      PROVE  SaveInv'
  <2>1. CASE filename # "." /\ StartSave(filename, TRUE, TRUE)
    <3>1. filename \in Name
      BY <1>3, <2>1 DEF CloseProject, IsOpened, TypeOK
    <3> QED BY <2>1, <3>1, StartSaveFiles
  <2> QED BY <1>2, <1>3, <2>1 DEF CloseProject
<1> QED BY <1>1, <1>2, <1>3 DEF ClosingStep, Crash

\* Where a save that goes on has got to; its locals and the document stay.
LEMMA SaveGoesOn ==
  ASSUME TypeOK, SaveInv, phase # "idle", UNCHANGED <<saving, filename, kept>>, Document' = Document,
         intrans' = intrans,
         \A n \in Name : disk'[n] = disk[n] \/ (n = filename /\ disk'[n] \in kept[n]
                                               /\ (disk'[n] \in Documents => Saved(disk'[n]))),
         phase' \in {"unmap", "rename"} =>
           IF saving.temporary THEN tmp'[filename] = Document ELSE disk'[filename] = Document,
         phase' = "map" => disk'[filename] = Document
  PROVE  SaveInv'
<1>1. FilesAsPromised' /\ \A n \in Name : disk'[n] \in Documents => Saved(disk'[n])
  BY DEF SaveInv, FilesAsPromised
<1>2. /\ ~intrans' /\ filename' \in Name /\ saving'.orig # None
      /\ saving'.temporary => OwnName'
      /\ Document' \in kept'[filename']
      /\ ~saving'.temporary => Torn \in kept'[filename']
  BY DEF SaveInv, OwnName
<1> QED BY <1>1, <1>2 DEF SaveInv

LEMMA SaveStepFiles ==
  ASSUME TypeOK, TableInv, LazyInv, SaveInv, phase # "idle", SaveStep
  PROVE  SaveInv'
<1>1. ASSUME NEW lz, NEW o, SaveFails(lz, o, mapped), disk' = disk, kept' = kept
      PROVE  SaveInv'
  BY <1>1, FilesLeft DEF SaveFails, Vanish
<1>2. SUFFICES ASSUME phase' # "idle"
               PROVE  SaveInv'
  <2>1. CASE phase' = "idle" /\ disk' = disk /\ kept' = kept
    BY <2>1, FilesLeft
  <2>2. CASE MapFile /\ phase' = "idle" /\ kept' = [kept EXCEPT ![filename] = {Document}] /\ disk' = disk
    <3>1. phase = "map" /\ disk[filename] = Document
      BY <2>2 DEF MapFile, SaveInv
    <3>2. FilesAsPromised'
      BY <2>2, <3>1 DEF SaveInv, FilesAsPromised, TypeOK
    <3> QED BY <2>2, <3>2 DEF SaveInv
  <2> QED BY <2>1, <2>2 DEF SaveStep, CopyFile, OpenStream, WriteObjects, Unmap, RenameFile, MapFile, files
<1>3. ~Vanish /\ (\A lz, o : ~SaveFails(lz, o, mapped))
  BY <1>2 DEF Vanish, SaveFails
<1>4. Document' = Document /\ intrans' = intrans
  BY <1>3, SaveStepSame, DocumentUnchanged DEF SameTable
<1>5. filename \in Name /\ Document \in kept[filename] /\ (~saving.temporary => Torn \in kept[filename])
  BY DEF SaveInv
<1>6. /\ \A n \in Name : disk[n] = disk[n]
      /\ Torn \notin Documents
  BY ContentsAssumption
<1>7. CASE CopyFile
  BY <1>3, <1>4, <1>7, SaveGoesOn DEF CopyFile
<1>8. CASE OpenStream
  <2>1. PutOut(Torn) /\ UNCHANGED <<saving, filename, kept>> /\ phase' = "write"
    BY <1>3, <1>8 DEF OpenStream
  <2>2. \A n \in Name : disk'[n] = disk[n] \/ (n = filename /\ disk'[n] = Torn /\ ~saving.temporary)
    BY <2>1 DEF PutOut, TypeOK
  <2> QED BY <1>4, <1>5, <1>6, <2>1, <2>2, SaveGoesOn
<1>9. CASE WriteObjects
  <2>1. PutOut(Document) /\ UNCHANGED <<saving, filename, kept>> /\ phase' = "unmap"
    BY <1>3, <1>9, WrittenIsLive DEF WriteObjects
  <2>2. Saved(Document)
    BY DocumentSaved DEF TableInv, SaveInv
  <2>3. \A n \in Name : disk'[n] = disk[n] \/ (n = filename /\ disk'[n] = Document)
    BY <2>1 DEF PutOut, TypeOK
  <2>4. IF saving.temporary THEN tmp'[filename] = Document ELSE disk'[filename] = Document
    BY <1>5, <2>1 DEF PutOut, TypeOK
  <2> QED BY <1>4, <1>5, <2>1, <2>2, <2>3, <2>4, SaveGoesOn
<1>10. CASE Unmap
  <2>1. UNCHANGED <<saving, filename, kept, disk, tmp>> /\ phase = "unmap"
        /\ phase' = IF OwnName THEN "rename" ELSE "map"
    BY <1>10 DEF Unmap, files
  <2>2. phase' = "map" => disk'[filename] = Document
    BY <2>1 DEF SaveInv
  <2>3. IF saving.temporary THEN tmp'[filename] = Document ELSE disk'[filename] = Document
    BY <2>1 DEF SaveInv
  <2> QED BY <1>4, <2>1, <2>2, <2>3, SaveGoesOn
<1>11. CASE RenameFile
  <2>1. UNCHANGED <<saving, filename, kept>> /\ phase = "rename" /\ phase' = "map"
        /\ IF saving.temporary THEN disk' = [disk EXCEPT ![filename] = tmp[filename]] ELSE disk' = disk
    BY <1>3, <1>11 DEF RenameFile
  <2>2. disk'[filename] = Document /\ \A n \in Name : n # filename => disk'[n] = disk[n]
    BY <1>5, <2>1 DEF SaveInv, TypeOK
  <2>3. Saved(Document)
    BY DocumentSaved DEF TableInv, SaveInv
  <2> QED BY <1>4, <1>5, <2>1, <2>2, <2>3, SaveGoesOn
<1>12. CASE MapFile
  BY <1>2, <1>3, <1>12 DEF MapFile
<1> QED BY <1>7, <1>8, <1>9, <1>10, <1>11, <1>12 DEF SaveStep

-----------------------------------------------------------------------------
(* The invariant *)

LEMMA IInvInit == Init => IInv
<1> SUFFICES ASSUME Init PROVE IInv
  OBVIOUS
<1>1. Root \in Id /\ 0 \in Id /\ Blank \in Value /\ NotSaving \in Arguments
  BY BoundsAssumption, ValuesAssumption, NotSavingType DEF Id, Root
<1>2. 0 \in 0..MaxFaults /\ 0 \in 0..MaxWrites /\ 0 \in 0..MaxSaves
  BY BoundsAssumption
<1>3. TypeOK
  BY <1>1, <1>2 DEF Init, TypeOK, Contents, Arguments
<1>4. TableInv
  BY NoneIsNoId DEF Init, TableInv, CollectionsMirrorPointers, NewIdsAreFree, IsOpened
<1>5. LazyInv
  BY DEF Init, LazyInv, ValuesReadable
<1>6. SaveInv
  BY ContentsAssumption DEF Init, SaveInv, FilesAsPromised
<1> QED BY <1>3, <1>4, <1>5, <1>6 DEF IInv

LEMMA IInvNext == IInv /\ [Next]_vars => IInv'
<1> SUFFICES ASSUME TypeOK, TableInv, LazyInv, SaveInv, [Next]_vars
             PROVE  TypeOK' /\ TableInv' /\ LazyInv' /\ SaveInv'
  BY DEF IInv
<1>1. CASE \/ \E n \in Name \cup {"."} : CreateProject(n)
           \/ \E n \in Name : OpenProject(n)
  <2>1. TypeOK'
    BY <1>1, OpeningType
  <2>2. TableInv' /\ LazyInv' /\ phase' = "idle" /\ UNCHANGED files
    BY <1>1, OpeningLazy
  <2> QED BY <2>1, <2>2, FilesLeft DEF files
<1>2. CASE TransactionStep
  <2>1. TypeOK' /\ TableInv'
    BY <1>2, TransactionType, TransactionTable
  <2>2. LazyInv' /\ phase' = "idle" /\ UNCHANGED files
    BY <1>2, TransactionLazy
  <2> QED BY <2>1, <2>2, FilesLeft DEF files
<1>3. CASE SaveStep
  <2>1. phase # "idle" /\ filename \in Name
    BY <1>3 DEF SaveStep, CopyFile, OpenStream, WriteObjects, Unmap, RenameFile, MapFile, SaveInv
  <2>2. TypeOK'
    BY <1>3, <2>1, SaveStepType
  <2>3. TableInv'
    BY <1>3, <2>1, SaveStepSame, SameTableInv, VanishTable
  <2> QED BY <1>3, <2>1, <2>2, <2>3, SaveStepLazy, SaveStepFiles
<1>4. CASE ClosingStep
  <2>1. TableInv'
    BY <1>4, ClosingSame, SameTableInv, VanishTable
  <2> QED BY <1>4, <2>1, ClosingType, ClosingLazy, ClosingFiles
<1>5. CASE UNCHANGED vars
  <2>1. SameTable /\ Live' = Live /\ Document' = Document
    BY <1>5, DocumentUnchanged DEF vars, table, tx, SameTable
  <2>2. TypeOK'
    BY <1>5 DEF vars, table, tx, stream, save, files, bounds, TypeOK
  <2>3. TableInv'
    BY <1>5, <2>1 DEF vars, table, tx, TableInv, CollectionsMirrorPointers, NewIdsAreFree, IsOpened
  <2>4. LazyInv'
    BY <1>5, <2>1 DEF vars, table, stream, save, LazyInv, ValuesReadable
  <2>5. SaveInv'
    BY <1>5, <2>1 DEF vars, tx, save, files, SaveInv, FilesAsPromised, OwnName
  <2> QED BY <2>2, <2>3, <2>4, <2>5
<1> QED BY <1>1, <1>2, <1>3, <1>4, <1>5, StepCases

LEMMA Invariant == Spec => []IInv
<1> QED BY IInvInit, IInvNext, PTL DEF Spec

\* The type invariant of the binary file (CCoreBinFile), for any number of
\* objects, files, failures, changes and saves.
THEOREM TypeCorrect == Spec => []TypeOK
<1>1. IInv => TypeOK
  BY DEF IInv
<1> QED BY <1>1, Invariant, PTL

\* Whatever fails and whenever the process ends, the file of the project holds
\* the document that was saved last or the one that was being saved, whole
\* (SaveProject, CloseProject).
THEOREM DocumentSurvives == Spec => []FilesAsPromised
<1>1. IInv => FilesAsPromised
  BY DEF IInv, SaveInv
<1> QED BY <1>1, Invariant, PTL

\* A file that a save has completed can be loaded (LoadProject), although
\* objects with empty pointers are left out of it (HasEmptyPointers).
THEOREM SavedFilesLoad == Spec => []FilesLoadable
<1>1. IInv => FilesLoadable
  BY DEF IInv, SaveInv, Saved, FilesLoadable
<1> QED BY <1>1, Invariant, PTL

\* No value is left in a file that is mapped no more when SaveProject lets go
\* of file_buffer.
THEOREM ValuesSurvive == Spec => []ValuesReadable
<1>1. IInv => ValuesReadable
  BY DEF IInv, LazyInv
<1> QED BY <1>1, Invariant, PTL

\* Collections and pointers say the same, and neither leads to an object that
\* was erased (CommitTransaction, AbortTransaction).
THEOREM CollectionsAgree == Spec => []CollectionsMirrorPointers
<1>1. IInv => CollectionsMirrorPointers
  BY DEF IInv, TableInv
<1> QED BY <1>1, Invariant, PTL

\* The id that CreateObject takes is never in use, also after a load.
THEOREM IdsAreFree == Spec => []NewIdsAreFree
<1>1. IInv => NewIdsAreFree
  BY DEF IInv, TableInv
<1> QED BY <1>1, Invariant, PTL
=============================================================================
