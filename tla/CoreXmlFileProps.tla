-------------------------- MODULE CoreXmlFileProps --------------------------
(***************************************************************************)
(* What the users of a project in XML files rely on.                       *)
(***************************************************************************)
EXTENDS CoreXmlFile

\* Every variable has its type, and entries wait for nothing but the end of
\* the commit that made them.
TypeOK ==
  /\ repository \in View /\ owner \in [File -> User \cup {None}]
  /\ listed \in [User -> SUBSET Entry] /\ signed \in SUBSET User
  /\ disk \in [User -> View] /\ memory \in [User -> View] /\ stale \in [User -> SUBSET File]
  /\ \A u \in User : before[u] \in View \cup {None}
  /\ phase \in [User -> {"closed", "opening", "open", "writing", "locked", "saving"}]
  /\ \A u \in User : pending[u] \in SUBSET Entry /\ (pending[u] # {} => phase[u] \in {"writing", "locked"})
  /\ sessions \in 0..MaxSessions /\ changes \in 0..MaxChanges

\* "file exists, is read-only, [...] it also means there was no change"
\* (writeXMLFile): what differs in memory from the copy on disk is in a file
\* that its user has locked, or that is not there yet.
ChangesAreLocked ==
  \A u \in User, f \in File :
    phase[u] \in {"open", "locked", "saving"} /\ ReadOnly(u, f) => memory[u][f] = disk[u][f]

\* Who has the lock of a file has its newest revision: no commit undoes what
\* somebody else has committed.
OwnersAreCurrent ==
  \A u \in User, f \in File : owner[f] = u => f \notin stale[u]

\* "ASSERT( still_unresolved == 0)" (resolvePointers): while nobody is in the
\* middle of a save, every pointer in the files leads to an object in the
\* files, whoever has deleted, moved and referred to what at the same time.
PointersResolve ==
  (\A u \in User : phase[u] # "saving") =>
    \A m \in Models(repository) :
      /\ Live(repository, repository[m].parent)
      /\ repository[m].referred # None => Live(repository, repository[m].referred)
=============================================================================
