----------------------------- MODULE MgaProject -----------------------------
(***************************************************************************)
(* CMgaProject (GME/Mga/MgaProject.cpp): the transactions clients see, the *)
(* two rounds of notification in a commit, undo and redo, saving, closing, *)
(* whether the project counts as changed and when it gets a new GUID; and  *)
(* the change masks of an object (GME/Mga/MgaFCO.cpp).                     *)
(*                                                                         *)
(* The Core is what CoreUndo says it is: its variables are the document,   *)
(* the open transaction and the steps of undo and redo.                    *)
(*                                                                         *)
(* One add-on hears of every event and may write; one territory with a     *)
(* handler contains every object.  A callback is called while a method     *)
(* runs: Commit, Save and Close are several steps, and phase says where    *)
(* the running method is.  A handler reads and writes; it does not begin,  *)
(* commit or abort transactions.                                           *)
(***************************************************************************)
EXTENDS Integers, Sequences

CONSTANTS
  Object,       \* FCOs
  Properties,   \* the attributes of the root but its GUID, as one
  Guid,         \* the GUID of the project
  None,         \* no object
  MaxUndoStep,  \* the limit given to the Core
  MaxGuid,      \* bound: GUIDs there are
  MaxChanges,   \* bound: writes of the add-on in one commit
  MaxCount,     \* bound: transactioncount and its negation
  Habits        \* what clients, the add-on and the disk do

AllHabits == {"nonested", "latewrites", "autosave", "undoespast", "addonfails",
              "putsguid", "carrieson", "savefails", "closefails", "upgrades"}

ASSUME NamesAssumption ==
  /\ Properties # Guid /\ {Properties, Guid} \cap Object = {} /\ None \notin Object
ASSUME BoundsAssumption ==
  /\ MaxUndoStep \in Nat \ {0} /\ MaxGuid \in Nat \ {0} /\ MaxChanges \in Nat /\ MaxCount \in Nat
ASSUME HabitsAssumption == Habits \subseteq AllHabits

Attr == Object \cup {Properties, Guid}
Value == 0..MaxGuid
Document == [Attr -> Value]

\* openmodes
CLOSED == 0
UNCHANGED_ == 1
CHANGED == 2
CLOSEERROR == 4

VARIABLES
  doc, saved, past, future, limit,           \* the Core, see CoreUndo
  touched,              \* the open transaction has written something
  opened, transactioncount, notifyqueueprocessed,
  guidstat,             \* guidmodes
  pendingguid,          \* the GUID get_GUID has promised
  guids,                \* GUIDs given out so far
  mode,                 \* of the open transaction; "none" if baseterr is NULL
  must_abort,
  phase,                \* "idle", "open" or where the running method is
  purpose,              \* the method that runs: "client", "save", ...
  notifying,            \* the object the add-on is being told about
  failed,               \* the add-on has failed in this commit
  changes,              \* what the add-on has written in this commit
  temporalobjs, changedobjs, notifyobjs,     \* the queues
  temporalmask, changemask, notifymask,      \* objects whose mask is not 0
  seen,                 \* each object as the add-on knows it
  shown,                \* each object as the territory knows it
  disk,                 \* the document in the project file
  files                 \* every document that has been saved to a file

core == <<doc, saved, past, future, limit>>
status == <<opened, transactioncount, guidstat, pendingguid, guids>>
tx == <<touched, notifyqueueprocessed, mode, must_abort, phase, purpose>>
round == <<notifying, failed, changes>>
queues == <<temporalobjs, changedobjs, notifyobjs, temporalmask, changemask, notifymask>>
views == <<seen, shown>>
disks == <<disk, files>>
vars == <<core, status, tx, round, queues, views, disks>>

Core == INSTANCE CoreUndo

IsOpen == opened \notin {CLOSED, CLOSEERROR}
Idle == phase = "idle" /\ IsOpen

Objects(d) == [o \in Object |-> d[o]]

NewMode(m) == /\ mode' = m /\ must_abort' = FALSE /\ notifyqueueprocessed' = FALSE /\ touched' = FALSE
NewRound == notifying' = None /\ failed' = FALSE /\ changes' = 0

\* BeginTransaction drops what it finds in the queues; masks it does not touch.
DropQueues ==
  /\ temporalobjs' = {} /\ changedobjs' = {} /\ notifyobjs' = {}
  /\ UNCHANGED <<temporalmask, changemask, notifymask>>

\* mutant: the territories are left out
ReadAllButTerritories(d) == seen' = Objects(d) /\ shown' = shown

\* GlobalNotify of an undo, redo, abort or open: everybody reads everything
\* again.
ReadAll(d) == seen' = Objects(d) /\ shown' = Objects(d)

Init ==
  /\ doc \in {d \in Document : d[Guid] = 0 /\ \A a \in Attr : d[a] <= 1}
  /\ saved = <<>> /\ past = <<>> /\ future = <<>> /\ limit = MaxUndoStep
  /\ opened = CLOSED /\ transactioncount = 0 /\ guidstat = "CLEAN"
  /\ pendingguid = 0 /\ guids = 0
  /\ mode = "none" /\ must_abort = FALSE /\ notifyqueueprocessed = FALSE /\ touched = FALSE
  /\ phase = "idle" /\ purpose = "client"
  /\ notifying = None /\ failed = FALSE /\ changes = 0
  /\ temporalobjs = {} /\ changedobjs = {} /\ notifyobjs = {}
  /\ temporalmask = {} /\ changemask = {} /\ notifymask = {}
  /\ seen = Objects(doc) /\ shown = Objects(doc)
  /\ disk = doc /\ files = {doc}

-----------------------------------------------------------------------------
(* Opening *)

\* Open.  A project of an older paradigm is written to in a transaction that
\* nobody is told of and that can be undone.
Open(upgrade) ==
  LET new == [disk EXCEPT ![Properties] = 1 - @]
  IN  /\ phase = "idle" /\ opened = CLOSED
      /\ upgrade => "upgrades" \in Habits
      /\ doc' = IF upgrade THEN new ELSE disk
      /\ past' = IF upgrade THEN <<disk>> ELSE <<>>
      /\ opened' = IF upgrade THEN CHANGED ELSE UNCHANGED_
      /\ guidstat' = IF upgrade THEN "DIRTY" ELSE "CLEAN"
      /\ NewMode("none")
      /\ ReadAll(disk)
      /\ temporalobjs' = {} /\ changedobjs' = {} /\ notifyobjs' = {}
      /\ temporalmask' = {} /\ changemask' = {} /\ notifymask' = {}
      /\ UNCHANGED <<saved, future, limit, transactioncount, pendingguid, guids,
                     phase, purpose, round, disks>>

-----------------------------------------------------------------------------
(* Transactions of a client *)

BeginTransaction(m) ==
  /\ Idle /\ transactioncount < MaxCount
  /\ Core!BeginOuter(m = "READ_ONLY")
  /\ NewMode(m)
  /\ DropQueues
  /\ phase' = "open" /\ purpose' = "client"
  /\ UNCHANGED <<status, round, views, disks>>

\* The objects in the queue temporalobjs move to the two others, unless a
\* mask says that they are there already (objrecordchange).
RecordChanges(objs, marked) ==
  /\ changedobjs' = changedobjs \cup (objs \ changemask)
  /\ changemask' = changemask \cup (objs \cap marked)
  /\ notifyobjs' = notifyobjs \cup (objs \ notifymask)
  /\ notifymask' = notifymask \cup (objs \cap marked)
  /\ temporalobjs' = {}
  /\ temporalmask' = marked \ objs

\* Who may write: a client in its transaction, the add-on while it is told
\* of an object or of a save or close, and, if it has the habit, while it is
\* told that the transaction is committed.
MayWrite ==
  /\ mode \in {"GENERAL", "NON_NESTED"}
  /\ \/ phase = "open"
     \/ changes < MaxChanges /\ \/ phase = "notify" /\ notifying # None
                                \/ phase = "event"
                                \/ phase = "commit" /\ "latewrites" \in Habits

CountChange ==
  changes' = IF phase = "open" THEN changes ELSE changes + 1

\* beginnested: after a failure a transaction that is not nested is over
MayNest == ~(mode = "NON_NESTED" /\ must_abort)

\* A method that writes to one object, in a nested transaction (commitnested)
Change(o, v) ==
  /\ MayWrite /\ MayNest
  /\ Core!Write(o, v)
  /\ touched' = TRUE
  /\ RecordChanges(temporalobjs \cup {o}, temporalmask \cup {o})
  /\ CountChange
  /\ UNCHANGED <<status, notifyqueueprocessed, mode, must_abort, phase, purpose,
                 notifying, failed, views, disks>>

\* With MGAPREF_NO_NESTED_TX most methods have no nested transaction, and
\* their changes wait in temporalobjs (SelfMark).
ChangeNotNested(o, v) ==
  /\ "nonested" \in Habits
  /\ MayWrite
  /\ Core!Write(o, v)
  /\ touched' = TRUE
  /\ temporalobjs' = temporalobjs \cup ({o} \ temporalmask)
  /\ temporalmask' = temporalmask \cup {o}
  /\ CountChange
  /\ UNCHANGED <<status, notifyqueueprocessed, mode, must_abort, phase, purpose, notifying,
                 failed, changedobjs, notifyobjs, changemask, notifymask, views, disks>>

\* A method that fails after it has written (abortnested).  Only a nested
\* transaction takes back what it wrote.
ChangeFails(o, v) ==
  /\ MayWrite /\ MayNest
  /\ "nonested" \notin Habits
  /\ IF mode = "NON_NESTED"
       THEN Core!Write(o, v) /\ touched' = TRUE
       ELSE UNCHANGED <<core, touched>>
  /\ must_abort' = TRUE
  /\ temporalmask' = temporalmask \ temporalobjs
  /\ temporalobjs' = {}
  /\ CountChange
  /\ UNCHANGED <<status, notifyqueueprocessed, mode, phase, purpose, notifying, failed,
                 changedobjs, notifyobjs, changemask, notifymask, views, disks>>

\* put_Name, put_Author, put_Comment, put_Version
PutProperty(v) ==
  /\ phase = "open" /\ MayWrite /\ MayNest
  /\ Core!Write(Properties, v)
  /\ touched' = TRUE
  /\ notifyqueueprocessed' = TRUE
  /\ RecordChanges(temporalobjs, temporalmask)
  /\ UNCHANGED <<status, mode, must_abort, phase, purpose, round, views, disks>>

PutGuid ==
  /\ "putsguid" \in Habits
  /\ phase = "open" /\ MayWrite /\ MayNest
  /\ guids < MaxGuid
  /\ guids' = guids + 1
  /\ Core!Write(Guid, guids')
  /\ touched' = TRUE
  /\ guidstat' = "MANUAL"
  /\ notifyqueueprocessed' = TRUE
  /\ RecordChanges(temporalobjs, temporalmask)
  /\ UNCHANGED <<opened, transactioncount, pendingguid, mode, must_abort, phase, purpose,
                 round, views, disks>>

\* get_GUID makes up the new GUID the project is going to have
GetGuid ==
  /\ IsOpen /\ phase \in {"idle", "open"}
  /\ guidstat = "DIRTY" /\ guids < MaxGuid
  /\ guids' = guids + 1
  /\ pendingguid' = guids'
  /\ guidstat' = "PENDING"
  /\ UNCHANGED <<core, opened, transactioncount, tx, round, queues, views, disks>>

\* mutant: the masks are left as they are
ForgetQueuesOnly == DropQueues

\* The queues are emptied and the masks of what is in them are cleared.
ForgetChanges ==
  /\ temporalobjs' = {} /\ changedobjs' = {} /\ notifyobjs' = {}
  /\ temporalmask' = temporalmask \ temporalobjs
  /\ changemask' = changemask \ changedobjs
  /\ notifymask' = notifymask \ notifyobjs

\* The read-only transaction in which the abort is announced leaves its mark
\* on must_abort and notifyqueueprocessed.
AbortTransaction ==
  /\ phase = "open"
  /\ Core!Abort
  /\ NewMode("none")
  /\ NewRound
  /\ ForgetChanges
  /\ ReadAll(saved[1].doc)
  /\ phase' = "idle" /\ purpose' = "client"
  /\ UNCHANGED <<status, disks>>

-----------------------------------------------------------------------------
(* Committing, with its two rounds of notification *)

\* CommitTransaction of a transaction that cannot have written
CommitReadOnly ==
  /\ phase = "open" /\ mode = "READ_ONLY"
  /\ saved' = <<>>
  /\ NewMode("none")
  /\ phase' = "idle"
  /\ UNCHANGED <<doc, past, future, limit, status, purpose, round, queues, views, disks>>

StartNotify ==
  /\ NewRound
  /\ RecordChanges(temporalobjs, temporalmask)
  /\ phase' = "notify"
  /\ UNCHANGED <<core, status, touched, notifyqueueprocessed, mode, must_abort, purpose,
                 views, disks>>

CommitTransaction ==
  /\ phase = "open" /\ mode \in {"GENERAL", "NON_NESTED"}
  /\ MayNest \/ "carrieson" \in Habits
  /\ StartNotify

\* mutant: an object that is being announced stays in the queue
NotifyAgain(o) ==
  /\ phase = "notify" /\ notifying = None /\ ~failed
  /\ o \in changedobjs
  /\ changemask' = changemask \ {o}
  /\ notifyqueueprocessed' = TRUE
  /\ notifying' = o
  /\ seen' = [seen EXCEPT ![o] = doc[o]]
  /\ UNCHANGED <<core, status, touched, mode, must_abort, phase, purpose, failed, changes,
                 temporalobjs, changedobjs, notifyobjs, temporalmask, notifymask, shown, disks>>

\* mutant: the mask of the object is not cleared
NotifyKeepsMask(o) ==
  /\ phase = "notify" /\ notifying = None /\ ~failed
  /\ o \in changedobjs
  /\ changedobjs' = changedobjs \ {o}
  /\ notifyqueueprocessed' = TRUE
  /\ notifying' = o
  /\ seen' = [seen EXCEPT ![o] = doc[o]]
  /\ UNCHANGED <<core, status, touched, mode, must_abort, phase, purpose, failed, changes,
                 temporalobjs, notifyobjs, temporalmask, changemask, notifymask, shown, disks>>

\* objrwnotify calls the add-on
NotifyAddOn(o) ==
  /\ phase = "notify" /\ notifying = None /\ ~failed
  /\ o \in changedobjs
  /\ changedobjs' = changedobjs \ {o}
  /\ changemask' = changemask \ {o}
  /\ notifyqueueprocessed' = TRUE
  /\ notifying' = o
  /\ seen' = [seen EXCEPT ![o] = doc[o]]
  /\ UNCHANGED <<core, status, touched, mode, must_abort, phase, purpose, failed, changes,
                 temporalobjs, notifyobjs, temporalmask, notifymask, shown, disks>>

\* What has changed of the object in the meantime and was not nested is not
\* told again.
AddOnReturns ==
  /\ notifying # None
  /\ MayNest \/ "carrieson" \in Habits
  /\ temporalmask' = temporalmask \ {notifying}
  /\ notifying' = None
  /\ UNCHANGED <<core, status, tx, failed, changes, temporalobjs, changedobjs, notifyobjs,
                 changemask, notifymask, views, disks>>

AddOnFails ==
  /\ "addonfails" \in Habits \/ ~MayNest
  /\ notifying # None
  /\ notifying' = None
  /\ failed' = TRUE
  /\ UNCHANGED <<core, status, tx, changes, queues, views, disks>>

\* The second round of notification is left out if the first has failed,
\* unless there are changes that have not been recorded by then.
RoundIsLeftOut == failed /\ temporalobjs = {}

Late == temporalobjs \cap temporalmask

\* The objects territories are told about
Told == IF RoundIsLeftOut THEN {} ELSE (notifyobjs \cap notifymask) \cup Late

\* The rest of CommitNotify tells the territories.  If changes are waiting
\* then, CommitTransaction tells the territories of these too; the queue of
\* the add-on is thrown away, but the masks are not cleared.
TellTerritories ==
  /\ phase = "notify" /\ notifying = None
  /\ failed \/ changedobjs = {}
  /\ shown' = [o \in Object |-> IF o \in Told THEN doc[o] ELSE shown[o]]
  /\ notifymask' = notifymask \ Told
  /\ notifyobjs' = IF RoundIsLeftOut THEN notifyobjs ELSE {}
  /\ changedobjs' = IF temporalobjs = {} THEN changedobjs ELSE {}
  /\ changemask' = changemask \cup Late
  /\ temporalobjs' = {}
  /\ temporalmask' = temporalmask \ temporalobjs
  /\ phase' = IF ~failed THEN "commit" ELSE IF purpose = "client" THEN "open" ELSE "abort"
  /\ UNCHANGED <<core, status, touched, notifyqueueprocessed, mode, must_abort, purpose,
                 round, seen, disks>>

-----------------------------------------------------------------------------
(* The end of a commit, of Save and of Close *)

\* mutant: the project keeps the GUID it has
StatusKeepsGuid ==
  IF notifyqueueprocessed
    THEN [opened |-> CHANGED, count |-> transactioncount + 1,
          guidstat |-> IF guidstat = "MANUAL" THEN "CLEAN" ELSE guidstat]
    ELSE [opened |-> opened, count |-> transactioncount, guidstat |-> guidstat]

StatusAfterCommit ==
  IF notifyqueueprocessed
    THEN [opened |-> CHANGED, count |-> transactioncount + 1,
          guidstat |-> IF guidstat = "MANUAL" THEN "CLEAN" ELSE "DIRTY"]
    ELSE [opened |-> opened, count |-> transactioncount, guidstat |-> guidstat]

StatusNow == [opened |-> opened, count |-> transactioncount, guidstat |-> guidstat]

SetStatus(s) ==
  opened' = s.opened /\ transactioncount' = s.count /\ guidstat' = s.guidstat

NotStored(s) == SetStatus(s) /\ UNCHANGED disks

\* SaveProject of the Core, and what Save makes of its success
SaveFile(d, s) ==
  /\ SetStatus([s EXCEPT !.opened = UNCHANGED_, !.count = 0])
  /\ disk' = d
  /\ files' = files \cup {d}

\* Save under another name while the old one is kept
SaveCopy(d, s) ==
  /\ SetStatus(s)
  /\ files' = files \cup {d}
  /\ UNCHANGED disk

\* CloseProject of the Core saves whatever the project looks like to Mga.
CloseFile(d, abort) ==
  /\ disk' = IF abort THEN disk ELSE d
  /\ files' = files \cup {disk'}
  /\ SetStatus([opened |-> CLOSED, count |-> 0, guidstat |-> "CLEAN"])

CloseError(s) == SetStatus([s EXCEPT !.opened = CLOSEERROR]) /\ UNCHANGED disks

StoreFor(why, d, s) ==
  \/ why = "client" /\ NotStored(s)
  \/ why = "save" /\ SaveFile(d, s)
  \/ why = "autosave" /\ SaveCopy(d, s)
  \/ why \in {"save", "autosave"} /\ "savefails" \in Habits /\ NotStored(s)
  \/ why = "close" /\ CloseFile(d, FALSE)
  \/ why = "close" /\ "closefails" \in Habits /\ CloseError(s)

Stored(d, s) == StoreFor(purpose, d, s)

\* The Core commits; a step for undo is recorded if anything was written.
CoreCommits ==
  /\ saved' = <<>>
  /\ past' = IF purpose = "close" THEN <<>>
             ELSE IF touched THEN <<saved[1].doc>> \o past ELSE past
  /\ future' = IF purpose = "close" THEN <<>> ELSE future
  /\ UNCHANGED <<doc, limit>>

CommitEnds ==
  /\ phase = "commit"
  /\ CoreCommits
  /\ Stored(doc, StatusAfterCommit)
  /\ NewMode("none")
  /\ NewRound
  /\ phase' = "idle" /\ purpose' = "client"
  /\ UNCHANGED <<pendingguid, guids, queues, views>>

\* Save and Close abort their transaction if the add-on fails, and go on.
AbortAndGoOn ==
  /\ phase = "abort"
  /\ doc' = saved[1].doc
  /\ saved' = <<>>
  /\ past' = IF purpose = "close" THEN <<>> ELSE past
  /\ future' = IF purpose = "close" THEN <<>> ELSE future
  /\ Stored(saved[1].doc, StatusNow)
  /\ ForgetChanges
  /\ ReadAll(saved[1].doc)
  /\ NewMode("none")
  /\ NewRound
  /\ phase' = "idle" /\ purpose' = "client"
  /\ UNCHANGED <<limit, pendingguid, guids>>

-----------------------------------------------------------------------------
(* Save and Close *)

\* FixupGUID in the transaction of Save or Close: a GUID that has changed is
\* made up, unless it has been promised, and written.
FixupGuid(d) ==
  \/ /\ guidstat = "DIRTY" /\ guids < MaxGuid
     /\ guids' = guids + 1
     /\ pendingguid' = guids'
     /\ doc' = [d EXCEPT ![Guid] = guids'] /\ touched' = TRUE /\ guidstat' = "CLEAN"
  \/ /\ guidstat = "PENDING"
     /\ doc' = [d EXCEPT ![Guid] = pendingguid] /\ touched' = TRUE /\ guidstat' = "CLEAN"
     /\ UNCHANGED <<guids, pendingguid>>
  \/ /\ guidstat \in {"CLEAN", "MANUAL"}
     /\ doc' = d /\ touched' = FALSE
     /\ UNCHANGED <<guids, pendingguid, guidstat>>

\* The transaction in which a changed project is saved or closed
StartStoring(why) ==
  /\ Idle /\ opened >= CHANGED /\ transactioncount < MaxCount
  /\ saved' = <<[doc |-> doc, readonly |-> FALSE]>>
  /\ future' = <<>>
  /\ past' = SubSeq(past, 1, Core!Shortest(Len(past), limit - 1))
  /\ FixupGuid(doc)
  /\ mode' = "GENERAL" /\ must_abort' = FALSE /\ notifyqueueprocessed' = FALSE
  /\ DropQueues
  /\ phase' = "event" /\ purpose' = why
  /\ UNCHANGED <<limit, opened, transactioncount, round, views, disks>>

\* The handlers have heard of the save or close.
CommitStoring == phase = "event" /\ StartNotify

Save(why) ==
  \/ StartStoring(why)
  \/ /\ Idle /\ opened < CHANGED
     /\ StoreFor(why, doc, StatusNow)
     /\ UNCHANGED <<core, pendingguid, guids, tx, round, queues, views>>

\* A project that is closed without change, or whose changes are given up,
\* has a read-only transaction only.
Close(abort) ==
  \/ ~abort /\ StartStoring("close")
  \/ /\ Idle /\ (abort \/ opened < CHANGED)
     /\ \/ CloseFile(doc, abort)
        \/ "closefails" \in Habits /\ ~abort /\ CloseError(StatusNow)
     /\ past' = <<>> /\ future' = <<>>
     /\ DropQueues
     /\ UNCHANGED <<doc, saved, limit, pendingguid, guids, tx, round, views>>

\* After a close that failed the Core has no storage to begin with.
CloseAgain == opened = CLOSEERROR /\ phase = "idle" /\ UNCHANGED vars

-----------------------------------------------------------------------------
(* Undo and Redo *)

\* mutant: the last change but one counts as the last
UndoForgetsOne ==
  IF transactioncount <= 2
    THEN [opened |-> UNCHANGED_, count |-> 0, guidstat |-> "CLEAN"]
    ELSE [StatusNow EXCEPT !.count = @ - 1]

StatusAfterUndo ==
  IF transactioncount = 1
    THEN [opened |-> UNCHANGED_, count |-> 0, guidstat |-> "CLEAN"]
    ELSE [StatusNow EXCEPT !.count = @ - 1]

Undo ==
  /\ Idle
  /\ "undoespast" \in Habits \/ transactioncount > 0
  /\ transactioncount > -MaxCount
  /\ Core!Undo
  /\ SetStatus(StatusAfterUndo)
  /\ ReadAll(past[1])
  /\ NewMode("none")
  /\ DropQueues
  /\ UNCHANGED <<pendingguid, guids, phase, purpose, round, disks>>

Redo ==
  /\ Idle
  /\ transactioncount < MaxCount
  /\ Core!Redo
  /\ SetStatus([opened |-> CHANGED, count |-> transactioncount + 1, guidstat |-> "DIRTY"])
  /\ ReadAll(future[1])
  /\ NewMode("none")
  /\ DropQueues
  /\ UNCHANGED <<pendingguid, guids, phase, purpose, round, disks>>

FlushUndoQueue ==
  /\ Idle
  /\ Core!FlushUndo
  /\ UNCHANGED <<status, tx, round, queues, views, disks>>

-----------------------------------------------------------------------------
ClientStep ==
  \/ \E upgrade \in BOOLEAN : Open(upgrade)
  \/ \E m \in {"GENERAL", "READ_ONLY", "NON_NESTED"} : BeginTransaction(m)
  \/ CommitReadOnly
  \/ CommitTransaction
  \/ AbortTransaction
  \/ \E v \in {0, 1} : PutProperty(v)
  \/ PutGuid
  \/ GetGuid
  \/ Save("save")
  \/ "autosave" \in Habits /\ Save("autosave")
  \/ \E abort \in BOOLEAN : Close(abort)
  \/ CloseAgain
  \/ Undo
  \/ Redo
  \/ FlushUndoQueue

\* Writes of a client and of the add-on
Write ==
  \E o \in Object, v \in {0, 1} : Change(o, v) \/ ChangeNotNested(o, v) \/ ChangeFails(o, v)

\* A method that runs goes on by itself.
MethodStep ==
  \/ \E o \in Object : NotifyAddOn(o)
  \/ AddOnReturns
  \/ AddOnFails
  \/ TellTerritories
  \/ CommitEnds
  \/ AbortAndGoOn
  \/ CommitStoring

Next == ClientStep \/ Write \/ MethodStep

\* Methods are synchronous: the thread that called one runs it to its end.
Fairness == WF_vars(MethodStep)

Spec == Init /\ [][Next]_vars
FairSpec == Spec /\ Fairness
=============================================================================
