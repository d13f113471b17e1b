-------------------------- MODULE CoreBinFileProps --------------------------
(***************************************************************************)
(* What the binary file guarantees: no failure and no crash costs the      *)
(* document, and what is in memory never depends on a file that is gone.   *)
(***************************************************************************)
EXTENDS CoreBinFile

\* The type of every variable of CoreBinFile.
TypeOK ==
  /\ known \in SUBSET Id
  /\ value \in [Id -> Value] /\ pointer \in [Id -> Id \cup {None}]
  /\ backing \in [Id -> SUBSET Id]
  /\ lazy \in SUBSET known /\ lost \in SUBSET Id /\ maxobjid \in Id
  /\ created_objects \in SUBSET known /\ deleted_objects \in SUBSET known
  /\ intrans \in BOOLEAN /\ storing \in BOOLEAN /\ modified \in BOOLEAN
  /\ filename \in Name \cup {".", None}
  /\ mapped \in Name \cup {None}
  /\ ofs \in (Name \X BOOLEAN) \cup {None}
  /\ phase \in {"idle", "copy", "open", "write", "unmap", "rename", "map"}
  /\ saving \in [orig : Name \cup {".", None}, keep : BOOLEAN, closing : BOOLEAN,
                 temporary : BOOLEAN]
  /\ disk \in [Name -> Contents] /\ tmp \in [Name -> Contents]
  /\ kept \in [Name -> SUBSET Contents]
  /\ faults \in 0..MaxFaults /\ writes \in 0..MaxWrites /\ saves \in 0..MaxSaves

\* After any failure or crash, in any step of a save, the file of the project
\* holds the whole document that was saved last or the whole document that
\* was being saved; after a save that succeeded it holds what clients saw
\* (SaveProject, CloseProject).
FilesAsPromised == \A n \in Name : disk[n] \in kept[n]

\* LoadProject never refuses a file that a save has completed, with E_BINFILE
\* because a pointer leads to an object that HasEmptyPointers left out.
FilesLoadable == \A n \in Name : disk[n] \in Documents => Loadable(disk[n])

\* No value in the table points into a map that has been released
\* (file_buffer.~membuf): it has been read, or the file is still mapped.
ValuesReadable == lost = {} /\ (lazy # {} => mapped # None)

\* A collection lists exactly the objects whose pointer leads to it, and no
\* pointer or collection holds an iterator of an erased object.
CollectionsMirrorPointers ==
  /\ \A o \in Id : backing[o] = {p \in Id : pointer[p] = o}
  /\ \A o \in Id : pointer[o] # None => o \in known /\ pointer[o] \in known

\* The id of a new object is not in the table (ASSERT(t.second) in
\* CreateObject), though the table is filled from a file that leaves
\* deleted objects out.
NewIdsAreFree == \A o \in known : o <= maxobjid
=============================================================================
