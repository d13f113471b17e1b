--------------------------- MODULE MgaProjectProps ---------------------------
(***************************************************************************)
(* What the Mga layer owes its clients: the status of the project is true, *)
(* nobody misses a change, and nothing of one transaction is left over for *)
(* the next.                                                               *)
(***************************************************************************)
EXTENDS MgaProject, FiniteSets

\* The type of every variable of MgaProject.
TypeOK ==
  /\ doc \in Document /\ disk \in Document /\ files \in SUBSET Document
  /\ saved \in Seq([doc : Document, readonly : BOOLEAN])
  /\ past \in Seq(Document) /\ future \in Seq(Document) /\ limit \in Nat
  /\ touched \in BOOLEAN /\ must_abort \in BOOLEAN /\ notifyqueueprocessed \in BOOLEAN
  /\ opened \in {CLOSED, UNCHANGED_, CHANGED, CLOSEERROR}
  /\ transactioncount \in -MaxCount..MaxCount
  /\ guidstat \in {"CLEAN", "DIRTY", "PENDING", "MANUAL"}
  /\ pendingguid \in 0..MaxGuid /\ guids \in 0..MaxGuid
  /\ mode \in {"none", "GENERAL", "READ_ONLY", "NON_NESTED"}
  /\ phase \in {"idle", "open", "event", "notify", "commit", "abort"}
  /\ purpose \in {"client", "save", "autosave", "close"}
  /\ notifying \in Object \cup {None} /\ failed \in BOOLEAN /\ changes \in 0..MaxChanges
  /\ \A S \in {temporalobjs, changedobjs, notifyobjs, temporalmask, changemask, notifymask} :
       S \subseteq Object
  /\ seen \in [Object -> Value] /\ shown \in [Object -> Value]

Content(d) == [a \in Attr \ {Guid} |-> d[a]]

-----------------------------------------------------------------------------
(* The status of the project *)

\* "bit 2 set: project has changed" (Interfaces/Mga.idl:452): between
\* transactions the project says so whenever the document is not the one in
\* its file.  GME closes a project that does not say so without saving it.
StatusTellsChange ==
  Idle /\ Content(doc) # Content(disk) => opened = CHANGED

\* "this project guid changes every time the project is modified"
\* (Mga/MgaLibRefr.h:851): two files with the same GUID are the same.
GuidTellsContent ==
  \A f, g \in files : f[Guid] = g[Guid] => f = g

-----------------------------------------------------------------------------
(* Notification *)

\* Between transactions the add-on knows the state of every object: it has
\* been told after each object's last change, and of what it wrote itself.
AddOnSeesAll == Idle => seen = Objects(doc)

\* So do the territories, which are told once, after the add-ons.
TerritoriesSeeAll == Idle => shown = Objects(doc)

\* An object with a change mask is in the queue the mask stands for.  One
\* that is not is never put there again, since the mask says it is there.
MaskedMeansQueued ==
  /\ changemask \subseteq changedobjs
  /\ notifymask \subseteq notifyobjs
  /\ temporalmask \subseteq temporalobjs

\* A commit, save or close ends as long as the add-on stops changing things
\* ("this phase terminates if it has reached a quiescent state").
MethodsReturn == phase \notin {"idle", "open"} ~> phase \in {"idle", "open"}
=============================================================================
