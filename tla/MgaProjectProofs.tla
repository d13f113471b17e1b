-------------------------- MODULE MgaProjectProofs --------------------------
(***************************************************************************)
(* The invariants of MgaProject, for any objects, limits and bounds.       *)
(***************************************************************************)
EXTENDS MgaProjectProps, SequenceTheorems, TLAPS

-----------------------------------------------------------------------------
(* Documents *)

\* An upgrade turns the attributes of the root from 0 to 1 or from 1 to 0.
Proper == {d \in Document : d[Properties] \in {0, 1}}

LEMMA ProperFacts ==
  ASSUME NEW d \in Proper
  PROVE  /\ d \in Document /\ DOMAIN d = Attr
         /\ [d EXCEPT ![Properties] = 1 - @] \in Proper
         /\ Objects([d EXCEPT ![Properties] = 1 - @]) = Objects(d)
         /\ Objects(d) \in [Object -> Value]
BY NamesAssumption, BoundsAssumption DEF Proper, Document, Attr, Value, Objects

LEMMA ProperWritten ==
  ASSUME NEW d \in Proper, NEW a \in Attr, NEW v \in Value, a = Properties => v \in {0, 1}
  PROVE  [d EXCEPT ![a] = v] \in Proper
BY DEF Proper, Document, Attr

-----------------------------------------------------------------------------
(* Types, and where the running method is *)

Level == [doc : Proper, readonly : BOOLEAN]

DocumentsOK ==
  /\ doc \in Proper /\ disk \in Proper /\ files \in SUBSET Proper
  /\ past \in Seq(Proper) /\ future \in Seq(Proper) /\ limit \in Nat \ {0}
  /\ IF phase = "idle" THEN saved = <<>>
     ELSE Len(saved) = 1 /\ saved \in Seq(Level)

StatusOK ==
  /\ opened \in {CLOSED, UNCHANGED_, CHANGED, CLOSEERROR}
  /\ transactioncount \in -MaxCount..MaxCount
  /\ phase # "idle" => transactioncount < MaxCount
  /\ guidstat \in {"CLEAN", "DIRTY", "PENDING", "MANUAL"}
  /\ pendingguid \in 0..MaxGuid /\ guids \in 0..MaxGuid

MethodOK ==
  /\ touched \in BOOLEAN /\ must_abort \in BOOLEAN /\ notifyqueueprocessed \in BOOLEAN
  /\ phase \in {"idle", "open", "event", "notify", "commit", "abort"}
  /\ purpose \in {"client", "save", "autosave", "close"}
  /\ mode \in IF phase = "idle" THEN {"none"}
              ELSE IF purpose # "client" THEN {"GENERAL"}
              ELSE IF phase = "open" THEN {"GENERAL", "READ_ONLY", "NON_NESTED"}
              ELSE {"GENERAL", "NON_NESTED"}
  /\ phase = "idle" \/ saved[1].readonly = (mode = "READ_ONLY")
  /\ phase \in {"idle", "open"} => purpose = "client"
  /\ phase \in {"event", "abort"} => purpose # "client"
  /\ phase # "idle" => opened \in {UNCHANGED_, CHANGED}

RoundOK ==
  /\ notifying \in Object \cup {None} /\ failed \in BOOLEAN /\ changes \in 0..MaxChanges
  /\ notifying # None => phase = "notify"

QueuesOK ==
  \A S \in {temporalobjs, changedobjs, notifyobjs, temporalmask, changemask, notifymask} :
    S \subseteq Object

ViewsOK == seen \in [Object -> Value] /\ shown \in [Object -> Value]

TypeInv == DocumentsOK /\ StatusOK /\ MethodOK /\ RoundOK /\ QueuesOK /\ ViewsOK

-----------------------------------------------------------------------------
(* Every kind of step *)

LEMMA StepCases ==
  ASSUME [Next]_vars
  PROVE  \/ \E upgrade \in BOOLEAN : Open(upgrade)
         \/ \E m \in {"GENERAL", "READ_ONLY", "NON_NESTED"} : BeginTransaction(m)
         \/ CommitReadOnly \/ CommitTransaction \/ AbortTransaction
         \/ (\E v \in {0, 1} : PutProperty(v)) \/ PutGuid \/ GetGuid
         \/ Save("save") \/ ("autosave" \in Habits /\ Save("autosave"))
         \/ (\E abort \in BOOLEAN : Close(abort))
         \/ Undo \/ Redo \/ FlushUndoQueue
         \/ \E o \in Object, v \in {0, 1} : Change(o, v) \/ ChangeNotNested(o, v) \/ ChangeFails(o, v)
         \/ (\E o \in Object : NotifyAddOn(o)) \/ AddOnReturns \/ AddOnFails
         \/ TellTerritories \/ CommitEnds \/ AbortAndGoOn \/ CommitStoring
         \/ UNCHANGED vars
BY DEF Next, ClientStep, Write, MethodStep, CloseAgain

LEMMA PrefixProper ==
  ASSUME NEW s \in Seq(Proper), NEW n \in Int
  PROVE  SubSeq(s, 1, Core!Shortest(Len(s), n)) \in Seq(Proper)
BY DEF Core!Shortest

LEMMA TailProper ==
  ASSUME NEW s \in Seq(Proper), s # <<>>
  PROVE  s[1] \in Proper /\ Tail(s) \in Seq(Proper)
OBVIOUS

LEMMA PrependProper ==
  ASSUME NEW s \in Seq(Proper), NEW d \in Proper
  PROVE  <<d>> \o s \in Seq(Proper)
OBVIOUS

LEMMA OneLevel ==
  ASSUME NEW s \in Seq(Level), Len(s) = 1
  PROVE  s[1].doc \in Proper /\ Tail(s) = <<>>
<1>1. s[1] \in Level /\ Tail(s) \in Seq(Level) /\ Len(Tail(s)) = 0
  OBVIOUS
<1>2. Tail(s) = <<>>
  BY <1>1, EmptySeq
<1> QED BY <1>1, <1>2 DEF Level

LEMMA OneRecord ==
  ASSUME NEW S, NEW r \in S
  PROVE  <<r>> \in Seq(S) /\ Len(<<r>>) = 1
OBVIOUS

LEMMA DocumentsStep ==
  ASSUME TypeInv, [Next]_vars
  PROVE  DocumentsOK'
<1>a. past \in Seq(Proper) /\ limit - 1 \in Int
  BY DEF TypeInv, DocumentsOK
<1>b. SubSeq(past, 1, Core!Shortest(Len(past), limit - 1)) \in Seq(Proper) /\ <<>> \in Seq(Proper)
  BY <1>a, PrefixProper
<1> USE DEF TypeInv, DocumentsOK, core, disks, tx
<1>1. ASSUME NEW upgrade \in BOOLEAN, Open(upgrade) PROVE DocumentsOK'
  <2>1. [disk EXCEPT ![Properties] = 1 - @] \in Proper
    BY ProperFacts
  <2>2. <<disk>> \in Seq(Proper) /\ <<>> \in Seq(Proper)
    OBVIOUS
  <2> QED BY <1>1, <2>1, <2>2 DEF Open
<1>2. ASSUME NEW m, BeginTransaction(m) PROVE DocumentsOK'
  <2>1. [doc |-> doc, readonly |-> (m = "READ_ONLY")] \in Level
    BY DEF Level
  <2>2. saved' \in Seq(Level) /\ Len(saved') = 1
    BY <1>2, <2>1, OneRecord DEF BeginTransaction, Core!BeginOuter
  <2> QED BY <1>2, <1>b, <2>2 DEF BeginTransaction, Core!BeginOuter
<1>3. ASSUME CommitReadOnly \/ GetGuid \/ UNCHANGED vars \/ AddOnReturns \/ AddOnFails
      PROVE  DocumentsOK'
  BY <1>3 DEF CommitReadOnly, GetGuid, vars, AddOnReturns, AddOnFails
<1>4. ASSUME CommitTransaction \/ CommitStoring \/ TellTerritories \/ \E o \in Object : NotifyAddOn(o)
      PROVE  DocumentsOK'
  BY <1>4 DEF CommitTransaction, CommitStoring, StartNotify, TellTerritories, NotifyAddOn, MethodOK
<1>5. ASSUME AbortTransaction PROVE DocumentsOK'
  BY <1>5, OneLevel DEF AbortTransaction, Core!Abort, NewMode, MethodOK
<1>6. ASSUME NEW a \in Attr, NEW v \in Value, a = Properties => v \in {0, 1},
             Core!Write(a, v), UNCHANGED <<disks, phase>>
      PROVE  DocumentsOK'
  BY <1>6, ProperWritten DEF Core!Write
<1>7. \A v \in {0, 1} : v \in Value
  BY BoundsAssumption DEF Value
<1>8. ASSUME NEW v \in {0, 1}, PutProperty(v) PROVE DocumentsOK'
  BY <1>8, <1>7, <1>6 DEF PutProperty, Attr
<1>9. ASSUME PutGuid PROVE DocumentsOK'
  <2>1. guids' \in Value /\ Guid # Properties /\ Guid \in Attr
    BY <1>9, NamesAssumption, BoundsAssumption DEF PutGuid, StatusOK, Value, Attr
  <2> QED BY <1>9, <2>1, <1>6 DEF PutGuid
<1>10. ASSUME NEW o \in Object, NEW v \in {0, 1}, Change(o, v) \/ ChangeNotNested(o, v) \/ ChangeFails(o, v)
       PROVE  DocumentsOK'
  <2>1. o \in Attr /\ o # Properties
    BY NamesAssumption DEF Attr
  <2> QED BY <1>10, <2>1, <1>7, <1>6 DEF Change, ChangeNotNested, ChangeFails
<1>11. ASSUME NEW why, StartStoring(why) PROVE DocumentsOK'
  <2>1. doc' \in Proper
    <3>1. Guid \in Attr /\ Guid # Properties
      BY NamesAssumption DEF Attr
    <3>2. ASSUME guidstat = "DIRTY", guids < MaxGuid, guids' = guids + 1 PROVE guids' \in Value
      BY <3>2, BoundsAssumption DEF StatusOK, Value
    <3>3. pendingguid \in Value
      BY DEF StatusOK, Value
    <3> QED BY <1>11, <3>1, <3>2, <3>3, ProperWritten DEF StartStoring, FixupGuid
  <2> QED BY <1>11, <1>b, <2>1 DEF StartStoring, Level
<1>12. ASSUME NEW why, NEW d \in Proper, NEW s, StoreFor(why, d, s)
       PROVE  disk' \in Proper /\ files' \in SUBSET Proper
  BY <1>12 DEF StoreFor, NotStored, SaveFile, SaveCopy, CloseFile, CloseError
<1>13. ASSUME NEW why, Save(why) PROVE DocumentsOK'
  BY <1>13, <1>11, <1>12 DEF Save
<1>14. ASSUME NEW abort \in BOOLEAN, Close(abort) PROVE DocumentsOK'
  <2>1. CASE StartStoring("close")
    BY <1>11, <2>1
  <2>2. CASE ~StartStoring("close")
    <3>1. <<>> \in Seq(Proper)
      OBVIOUS
    <3> QED BY <1>14, <2>2, <3>1 DEF Close, CloseFile, CloseError
  <2> QED BY <2>1, <2>2
<1>15. ASSUME Undo \/ Redo \/ FlushUndoQueue PROVE DocumentsOK'
  <2>1. CASE Undo
    BY <2>1, TailProper, PrependProper DEF Undo, Core!Undo
  <2>2. CASE Redo
    BY <2>2, TailProper, PrependProper DEF Redo, Core!Redo
  <2>3. CASE FlushUndoQueue
    <3>1. <<>> \in Seq(Proper)
      OBVIOUS
    <3> QED BY <2>3, <3>1 DEF FlushUndoQueue, Core!FlushUndo
  <2> QED BY <1>15, <2>1, <2>2, <2>3
<1>16. ASSUME CommitEnds PROVE DocumentsOK'
  <2>1. saved[1].doc \in Proper
    BY <1>16, OneLevel DEF CommitEnds
  <2> QED BY <1>16, <1>12, <2>1, PrependProper DEF CommitEnds, CoreCommits, Stored
<1>17. ASSUME AbortAndGoOn PROVE DocumentsOK'
  <2>1. saved[1].doc \in Proper
    BY <1>17, OneLevel DEF AbortAndGoOn
  <2> QED BY <1>17, <1>12, <2>1 DEF AbortAndGoOn, Stored
<1> QED
  BY StepCases, <1>1, <1>2, <1>3, <1>4, <1>5, <1>8, <1>9, <1>10, <1>13, <1>14, <1>15, <1>16, <1>17

LEMMA StatusStep ==
  ASSUME TypeInv, [Next]_vars
  PROVE  StatusOK'
<1> USE BoundsAssumption DEF TypeInv, StatusOK, status, tx, CLOSED, UNCHANGED_, CHANGED, CLOSEERROR
<1>1. ASSUME NEW upgrade \in BOOLEAN, Open(upgrade) PROVE StatusOK'
  BY <1>1 DEF Open
<1>2. ASSUME NEW m, BeginTransaction(m) PROVE StatusOK'
  BY <1>2 DEF BeginTransaction
<1>3. ASSUME CommitReadOnly \/ CommitTransaction \/ AbortTransaction \/ FlushUndoQueue \/ UNCHANGED vars
      PROVE  StatusOK'
  BY <1>3 DEF CommitReadOnly, CommitTransaction, StartNotify, AbortTransaction, FlushUndoQueue, vars
<1>4. ASSUME (\E v \in {0, 1} : PutProperty(v)) \/ PutGuid \/ GetGuid PROVE StatusOK'
  BY <1>4 DEF PutProperty, PutGuid, GetGuid
<1>5. ASSUME NEW o, NEW v, Change(o, v) \/ ChangeNotNested(o, v) \/ ChangeFails(o, v) PROVE StatusOK'
  BY <1>5 DEF Change, ChangeNotNested, ChangeFails
<1>6. ASSUME NEW why, StartStoring(why) PROVE StatusOK'
  BY <1>6 DEF StartStoring, FixupGuid
<1>7. ASSUME NEW why, NEW d, NEW s,
             s.opened \in {CLOSED, UNCHANGED_, CHANGED, CLOSEERROR},
             s.count \in -MaxCount..MaxCount,
             s.guidstat \in {"CLEAN", "DIRTY", "PENDING", "MANUAL"},
             s = [opened |-> s.opened, count |-> s.count, guidstat |-> s.guidstat],
             StoreFor(why, d, s)
      PROVE  /\ opened' \in {CLOSED, UNCHANGED_, CHANGED, CLOSEERROR}
             /\ transactioncount' \in -MaxCount..MaxCount
             /\ guidstat' \in {"CLEAN", "DIRTY", "PENDING", "MANUAL"}
  BY <1>7 DEF StoreFor, NotStored, SaveFile, SaveCopy, CloseFile, CloseError, SetStatus
<1>8. ASSUME NEW why, Save(why) PROVE StatusOK'
  BY <1>8, <1>6, <1>7 DEF Save, StatusNow, Idle
<1>9. ASSUME NEW abort \in BOOLEAN, Close(abort) PROVE StatusOK'
  BY <1>9, <1>6 DEF Close, CloseFile, CloseError, SetStatus, StatusNow, Idle
<1>10. ASSUME Undo \/ Redo PROVE StatusOK'
  BY <1>10 DEF Undo, Redo, SetStatus, StatusAfterUndo, StatusNow, Idle
<1>11. ASSUME (\E o \in Object : NotifyAddOn(o)) \/ AddOnReturns \/ AddOnFails \/ TellTerritories \/ CommitStoring
       PROVE  StatusOK'
  BY <1>11 DEF NotifyAddOn, AddOnReturns, AddOnFails, TellTerritories, CommitStoring, StartNotify
<1>12. ASSUME CommitEnds PROVE StatusOK'
  BY <1>12, <1>7 DEF CommitEnds, Stored, StatusAfterCommit
<1>13. ASSUME AbortAndGoOn PROVE StatusOK'
  BY <1>13, <1>7 DEF AbortAndGoOn, Stored, StatusNow
<1> QED
  BY StepCases, <1>1, <1>2, <1>3, <1>4, <1>5, <1>8, <1>9, <1>10, <1>11, <1>12, <1>13

LEMMA MethodStepOK ==
  ASSUME TypeInv, [Next]_vars
  PROVE  MethodOK'
<1> USE DEF TypeInv, MethodOK, status, tx, CLOSED, UNCHANGED_, CHANGED, CLOSEERROR
<1>1. ASSUME NEW upgrade \in BOOLEAN, Open(upgrade) PROVE MethodOK'
  BY <1>1 DEF Open, NewMode
<1>2. ASSUME NEW m \in {"GENERAL", "READ_ONLY", "NON_NESTED"}, BeginTransaction(m) PROVE MethodOK'
  <2>1. opened \in {UNCHANGED_, CHANGED} /\ opened' = opened
    BY <1>2 DEF BeginTransaction, Idle, IsOpen, StatusOK
  <2>2. saved'[1].readonly = (m = "READ_ONLY")
    BY <1>2 DEF BeginTransaction, Core!BeginOuter
  <2> QED BY <1>2, <2>1, <2>2 DEF BeginTransaction, NewMode
<1>3. ASSUME CommitReadOnly \/ AbortTransaction PROVE MethodOK'
  BY <1>3 DEF CommitReadOnly, AbortTransaction, NewMode
<1>4. ASSUME CommitTransaction \/ CommitStoring \/ TellTerritories \/ \E o \in Object : NotifyAddOn(o)
      PROVE  MethodOK'
  <2>1. CASE CommitTransaction
    BY <2>1 DEF CommitTransaction, StartNotify, core
  <2>2. CASE CommitStoring
    BY <2>2 DEF CommitStoring, StartNotify, core
  <2>3. CASE TellTerritories
    BY <2>3 DEF TellTerritories, core
  <2>4. CASE \E o \in Object : NotifyAddOn(o)
    BY <2>4 DEF NotifyAddOn, core
  <2> QED BY <1>4, <2>1, <2>2, <2>3, <2>4
<1>5. ASSUME AddOnReturns \/ AddOnFails \/ GetGuid \/ FlushUndoQueue \/ UNCHANGED vars PROVE MethodOK'
  BY <1>5 DEF AddOnReturns, AddOnFails, GetGuid, FlushUndoQueue, Core!FlushUndo, vars, core
<1>6. ASSUME (\E v \in {0, 1} : PutProperty(v)) \/ PutGuid PROVE MethodOK'
  BY <1>6 DEF PutProperty, PutGuid, Core!Write
<1>7. ASSUME NEW o, NEW v, Change(o, v) \/ ChangeNotNested(o, v) \/ ChangeFails(o, v) PROVE MethodOK'
  <2>1. CASE Change(o, v)
    BY <2>1 DEF Change, Core!Write, core
  <2>2. CASE ChangeNotNested(o, v)
    BY <2>2 DEF ChangeNotNested, Core!Write, core
  <2>3. CASE ChangeFails(o, v)
    BY <2>3 DEF ChangeFails, Core!Write, core
  <2> QED BY <1>7, <2>1, <2>2, <2>3
<1>8. ASSUME NEW why \in {"save", "autosave", "close"}, StartStoring(why) PROVE MethodOK'
  <2>1. opened \in {UNCHANGED_, CHANGED} /\ opened' = opened
    BY <1>8 DEF StartStoring, Idle, IsOpen, StatusOK
  <2>2. saved'[1].readonly = FALSE /\ touched' \in BOOLEAN
    BY <1>8 DEF StartStoring, FixupGuid
  <2> QED BY <1>8, <2>1, <2>2 DEF StartStoring
<1>9. ASSUME NEW why \in {"save", "autosave"}, Save(why) PROVE MethodOK'
  BY <1>9, <1>8 DEF Save, Idle
<1>10. ASSUME NEW abort \in BOOLEAN, Close(abort) PROVE MethodOK'
  BY <1>10, <1>8 DEF Close, Idle
<1>11. ASSUME Undo \/ Redo PROVE MethodOK'
  BY <1>11 DEF Undo, Redo, NewMode, Idle
<1>12. ASSUME CommitEnds \/ AbortAndGoOn PROVE MethodOK'
  BY <1>12 DEF CommitEnds, AbortAndGoOn, NewMode
<1> QED
  BY StepCases, <1>1, <1>2, <1>3, <1>4, <1>5, <1>6, <1>7, <1>9, <1>10, <1>11, <1>12

LEMMA RoundStep ==
  ASSUME TypeInv, [Next]_vars
  PROVE  RoundOK'
<1> USE BoundsAssumption DEF TypeInv, RoundOK, round, tx, NewRound
<1>1. ASSUME \/ \E upgrade \in BOOLEAN : Open(upgrade)
             \/ \E m \in {"GENERAL", "READ_ONLY", "NON_NESTED"} : BeginTransaction(m)
             \/ Undo \/ Redo \/ FlushUndoQueue \/ CommitReadOnly \/ GetGuid \/ UNCHANGED vars
      PROVE  RoundOK'
  BY <1>1 DEF Open, BeginTransaction, Undo, Redo, FlushUndoQueue, CommitReadOnly, GetGuid, Idle, vars
<1>2. ASSUME CommitTransaction \/ CommitStoring \/ AbortTransaction \/ CommitEnds \/ AbortAndGoOn
      PROVE  RoundOK'
  <2>1. NewRound
    BY <1>2 DEF CommitTransaction, CommitStoring, StartNotify, AbortTransaction, CommitEnds, AbortAndGoOn
  <2>2. changes' \in 0..MaxChanges
    BY <2>1
  <2>3. failed' \in BOOLEAN
    BY <2>1
  <2>4. notifying' \in Object \cup {None} /\ (notifying' # None => phase' = "notify")
    BY <2>1
  <2> QED BY <2>2, <2>3, <2>4
<1>3. ASSUME (\E v \in {0, 1} : PutProperty(v)) \/ PutGuid PROVE RoundOK'
  BY <1>3 DEF PutProperty, PutGuid
<1>4. ASSUME NEW o, NEW v, Change(o, v) \/ ChangeNotNested(o, v) \/ ChangeFails(o, v) PROVE RoundOK'
  BY <1>4 DEF Change, ChangeNotNested, ChangeFails, MayWrite, CountChange
<1>5. ASSUME NEW why, Save(why) PROVE RoundOK'
  BY <1>5 DEF Save, StartStoring, Idle
<1>6. ASSUME NEW abort \in BOOLEAN, Close(abort) PROVE RoundOK'
  BY <1>6 DEF Close, StartStoring, Idle
<1>7. ASSUME (\E o \in Object : NotifyAddOn(o)) \/ AddOnReturns \/ AddOnFails \/ TellTerritories
      PROVE  RoundOK'
  BY <1>7 DEF NotifyAddOn, AddOnReturns, AddOnFails, TellTerritories
<1> QED
  BY StepCases, <1>1, <1>2, <1>3, <1>4, <1>5, <1>6, <1>7

LEMMA QueuesStep ==
  ASSUME TypeInv, [Next]_vars
  PROVE  QueuesOK'
<1> USE DEF TypeInv, QueuesOK, queues
<1>1. ASSUME \/ \E upgrade \in BOOLEAN : Open(upgrade)
             \/ \E m \in {"GENERAL", "READ_ONLY", "NON_NESTED"} : BeginTransaction(m)
             \/ Undo \/ Redo \/ FlushUndoQueue \/ CommitReadOnly \/ GetGuid \/ UNCHANGED vars
      PROVE  QueuesOK'
  BY <1>1 DEF Open, BeginTransaction, Undo, Redo, FlushUndoQueue, CommitReadOnly, GetGuid, DropQueues, vars
<1>2. ASSUME CommitTransaction \/ CommitStoring PROVE QueuesOK'
  BY <1>2 DEF CommitTransaction, CommitStoring, StartNotify, RecordChanges
<1>3. ASSUME AbortTransaction \/ CommitEnds \/ AbortAndGoOn PROVE QueuesOK'
  BY <1>3 DEF AbortTransaction, CommitEnds, AbortAndGoOn, ForgetChanges
<1>4. ASSUME (\E v \in {0, 1} : PutProperty(v)) \/ PutGuid PROVE QueuesOK'
  BY <1>4 DEF PutProperty, PutGuid, RecordChanges
<1>5. ASSUME NEW o \in Object, NEW v, Change(o, v) \/ ChangeNotNested(o, v) \/ ChangeFails(o, v)
      PROVE  QueuesOK'
  BY <1>5 DEF Change, ChangeNotNested, ChangeFails, RecordChanges
<1>6. ASSUME NEW why, Save(why) PROVE QueuesOK'
  BY <1>6 DEF Save, StartStoring, DropQueues
<1>7. ASSUME NEW abort \in BOOLEAN, Close(abort) PROVE QueuesOK'
  BY <1>7 DEF Close, StartStoring, DropQueues
<1>8. ASSUME (\E o \in Object : NotifyAddOn(o)) \/ AddOnReturns \/ AddOnFails \/ TellTerritories
      PROVE  QueuesOK'
  BY <1>8 DEF NotifyAddOn, AddOnReturns, AddOnFails, TellTerritories, Late
<1> QED
  BY StepCases, <1>1, <1>2, <1>3, <1>4, <1>5, <1>6, <1>7, <1>8

LEMMA ViewsStep ==
  ASSUME TypeInv, [Next]_vars
  PROVE  ViewsOK'
<1>1. \A d \in Proper : ReadAll(d) => ViewsOK'
  BY ProperFacts DEF ReadAll, ViewsOK
<1>2. \A o \in Object : doc[o] \in Value
  BY ProperFacts DEF TypeInv, DocumentsOK, Objects
<1>3. ASSUME NEW upgrade \in BOOLEAN, Open(upgrade) PROVE ViewsOK'
  BY <1>3, <1>1 DEF Open, TypeInv, DocumentsOK
<1>4. ASSUME AbortTransaction \/ AbortAndGoOn PROVE ViewsOK'
  <2>1. saved[1].doc \in Proper
    BY <1>4, OneLevel DEF AbortTransaction, AbortAndGoOn, TypeInv, DocumentsOK
  <2> QED BY <1>4, <2>1, <1>1 DEF AbortTransaction, AbortAndGoOn
<1>5. ASSUME Undo \/ Redo PROVE ViewsOK'
  <2>1. CASE Undo
    BY <2>1, <1>1, TailProper DEF Undo, Core!Undo, TypeInv, DocumentsOK
  <2>2. CASE Redo
    BY <2>2, <1>1, TailProper DEF Redo, Core!Redo, TypeInv, DocumentsOK
  <2> QED BY <1>5, <2>1, <2>2
<1>6. ASSUME NEW o \in Object, NotifyAddOn(o) PROVE ViewsOK'
  BY <1>6, <1>2 DEF NotifyAddOn, TypeInv, ViewsOK
<1>7. ASSUME TellTerritories PROVE ViewsOK'
  BY <1>7, <1>2 DEF TellTerritories, TypeInv, ViewsOK
<1>8. ASSUME UNCHANGED views PROVE ViewsOK'
  BY <1>8 DEF views, TypeInv, ViewsOK
<1>9. ASSUME \/ \E m \in {"GENERAL", "READ_ONLY", "NON_NESTED"} : BeginTransaction(m)
             \/ CommitReadOnly \/ CommitTransaction \/ CommitEnds \/ CommitStoring \/ FlushUndoQueue
             \/ (\E v \in {0, 1} : PutProperty(v)) \/ PutGuid \/ GetGuid \/ AddOnReturns \/ AddOnFails
             \/ Save("save") \/ Save("autosave") \/ (\E abort \in BOOLEAN : Close(abort))
             \/ (\E o \in Object, v \in {0, 1} : Change(o, v) \/ ChangeNotNested(o, v) \/ ChangeFails(o, v))
             \/ UNCHANGED vars
      PROVE  UNCHANGED views
  BY <1>9 DEF BeginTransaction, CommitReadOnly, CommitTransaction, CommitEnds, CommitStoring, StartNotify,
       FlushUndoQueue, PutProperty, PutGuid, GetGuid, AddOnReturns, AddOnFails, Save, StartStoring, Close,
       Change, ChangeNotNested, ChangeFails, vars
<1> QED
  BY StepCases, <1>3, <1>4, <1>5, <1>6, <1>7, <1>8, <1>9

LEMMA TypeStep ==
  TypeInv /\ [Next]_vars => TypeInv'
BY DocumentsStep, StatusStep, MethodStepOK, RoundStep, QueuesStep, ViewsStep DEF TypeInv

LEMMA TypeInit ==
  Init => TypeInv
<1> SUFFICES ASSUME Init PROVE TypeInv
  OBVIOUS
<1>1. doc \in Proper /\ disk \in Proper /\ files \in SUBSET Proper
  <2>1. \A a \in Attr : doc[a] \in Value /\ doc[a] <= 1
    BY DEF Init, Document
  <2>2. doc[Properties] \in {0, 1}
    BY <2>1, BoundsAssumption DEF Attr, Value
  <2> QED BY <2>2 DEF Init, Proper
<1>2. past \in Seq(Proper) /\ future \in Seq(Proper)
  BY DEF Init
<1>3. DocumentsOK
  BY <1>1, <1>2, BoundsAssumption DEF Init, DocumentsOK
<1>4. StatusOK
  BY BoundsAssumption DEF Init, StatusOK
<1>7. RoundOK
  <2>1. changes \in 0..MaxChanges /\ notifying = None
    BY BoundsAssumption DEF Init
  <2>2. failed \in BOOLEAN
    BY DEF Init
  <2> QED BY <2>1, <2>2 DEF RoundOK
<1>6. MethodOK /\ QueuesOK
  BY DEF Init, MethodOK, QueuesOK
<1>5. ViewsOK
  BY <1>1, ProperFacts DEF Init, ViewsOK
<1> QED BY <1>3, <1>4, <1>5, <1>6, <1>7 DEF TypeInv

LEMMA TypeInvariant == Spec => []TypeInv
<1>1. Init => TypeInv
  BY TypeInit
<1>2. TypeInv /\ [Next]_vars => TypeInv'
  BY TypeStep
<1> QED BY <1>1, <1>2, PTL DEF Spec

\* Every variable of the Mga layer has its type, whatever clients, handlers
\* and the disk do.
THEOREM TypeCorrect == Spec => []TypeOK
<1>1. TypeInv => TypeOK
  <2> SUFFICES ASSUME TypeInv PROVE TypeOK
    OBVIOUS
  <2>1. \A d \in Proper : d \in Document
    BY ProperFacts
  <2>2. \A s \in Seq(Proper) : s \in Seq(Document)
    BY <2>1
  <2>3. \A l \in Level : l \in [doc : Document, readonly : BOOLEAN]
    BY <2>1 DEF Level
  <2>4. saved \in Seq([doc : Document, readonly : BOOLEAN])
    <3>1. CASE phase = "idle"
      BY <3>1 DEF TypeInv, DocumentsOK
    <3>2. CASE phase # "idle"
      BY <3>2, <2>3, SeqMonotonic DEF TypeInv, DocumentsOK
    <3> QED BY <3>1, <3>2
  <2> QED
    BY <2>1, <2>2, <2>4 DEF TypeInv, DocumentsOK, StatusOK, MethodOK, RoundOK, QueuesOK, ViewsOK, TypeOK
<1> QED BY <1>1, TypeInvariant, PTL

-----------------------------------------------------------------------------
(* Notification *)

\* Every write is nested and is announced before its transaction is over: no
\* preference is set against that, no handler writes after the rounds, and
\* who was told to abort does.
Announced == Habits \cap {"nonested", "latewrites", "carrieson"} = {}

\* Nothing waits in temporalobjs, and a mask is cleared with its queue.
QueueInv ==
  /\ temporalobjs = {} /\ temporalmask = {}
  /\ changemask \subseteq changedobjs /\ notifymask \subseteq notifyobjs
  /\ phase \in {"idle", "commit"} => changemask = {} /\ notifymask = {}
  /\ mode = "READ_ONLY" => changemask = {} /\ notifymask = {}

\* A transaction that is over for its methods is not committed.
HoldInv ==
  ~MayNest => \/ phase = "open"
              \/ phase = "notify" /\ notifying # None
              \/ phase = "notify" /\ failed

\* What the add-on or the territory does not know of an object is marked.
SightInv ==
  /\ phase = "idle" => \A o \in Object : seen[o] = doc[o] /\ shown[o] = doc[o]
  /\ phase # "idle" /\ MayNest =>
       \A o \in Object : /\ seen[o] # doc[o] => o \in changemask
                         /\ shown[o] # doc[o] => o \in notifymask

NotifyInv == TypeInv /\ QueueInv /\ HoldInv /\ SightInv

LEMMA QueueStep ==
  ASSUME Announced, NotifyInv, [Next]_vars
  PROVE  QueueInv'
<1> USE DEF NotifyInv, QueueInv, queues, tx
<1>1. ASSUME \/ \E upgrade \in BOOLEAN : Open(upgrade)
             \/ \E m \in {"GENERAL", "READ_ONLY", "NON_NESTED"} : BeginTransaction(m)
      PROVE  QueueInv'
  BY <1>1 DEF Open, BeginTransaction, DropQueues, Idle
<1>2. ASSUME Undo \/ Redo \/ FlushUndoQueue \/ CommitReadOnly \/ GetGuid \/ UNCHANGED vars
      PROVE  QueueInv'
  BY <1>2 DEF Undo, Redo, FlushUndoQueue, CommitReadOnly, GetGuid, NewMode, DropQueues, Idle, vars
<1>3. ASSUME CommitTransaction \/ CommitStoring PROVE QueueInv'
  BY <1>3 DEF CommitTransaction, CommitStoring, StartNotify, RecordChanges, TypeInv, MethodOK
<1>4. ASSUME AbortTransaction \/ AbortAndGoOn PROVE QueueInv'
  BY <1>4 DEF AbortTransaction, AbortAndGoOn, ForgetChanges
<1>5. ASSUME CommitEnds PROVE QueueInv'
  BY <1>5 DEF CommitEnds
<1>6. ASSUME (\E v \in {0, 1} : PutProperty(v)) \/ PutGuid PROVE QueueInv'
  BY <1>6 DEF PutProperty, PutGuid, MayWrite, RecordChanges
<1>7. ASSUME NEW o, NEW v, Change(o, v) \/ ChangeNotNested(o, v) \/ ChangeFails(o, v) PROVE QueueInv'
  BY <1>7 DEF Announced, Change, ChangeNotNested, ChangeFails, MayWrite, RecordChanges
<1>8. ASSUME NEW why, StartStoring(why) PROVE QueueInv'
  BY <1>8 DEF StartStoring, DropQueues, Idle
<1>9. ASSUME NEW why, Save(why) PROVE QueueInv'
  BY <1>9, <1>8 DEF Save
<1>10. ASSUME NEW abort \in BOOLEAN, Close(abort) PROVE QueueInv'
  BY <1>10, <1>8 DEF Close, DropQueues, Idle
<1>11. ASSUME NEW o, NotifyAddOn(o) PROVE QueueInv'
  BY <1>11 DEF NotifyAddOn
<1>12. ASSUME AddOnReturns \/ AddOnFails PROVE QueueInv'
  BY <1>12 DEF AddOnReturns, AddOnFails
<1>13. ASSUME TellTerritories PROVE QueueInv'
  BY <1>13 DEF TellTerritories, Told, RoundIsLeftOut, Late, TypeInv, MethodOK
<1> QED
  BY StepCases, <1>1, <1>2, <1>3, <1>4, <1>5, <1>6, <1>7, <1>9, <1>10, <1>11, <1>12, <1>13

LEMMA HoldStep ==
  ASSUME Announced, NotifyInv, [Next]_vars
  PROVE  HoldInv'
<1> USE DEF NotifyInv, HoldInv, MayNest, tx
<1>1. ASSUME NewMode("none") \/ mode' = "GENERAL" \/ must_abort' = FALSE PROVE HoldInv'
  BY <1>1 DEF NewMode
<1>2. ASSUME \/ \E upgrade \in BOOLEAN : Open(upgrade)
             \/ \E m \in {"GENERAL", "READ_ONLY", "NON_NESTED"} : BeginTransaction(m)
             \/ Undo \/ Redo \/ CommitReadOnly \/ AbortTransaction \/ AbortAndGoOn \/ CommitEnds
      PROVE  HoldInv'
  BY <1>2, <1>1 DEF Open, BeginTransaction, NewMode, Undo, Redo, CommitReadOnly, AbortTransaction,
       AbortAndGoOn, CommitEnds
<1>3. ASSUME NEW why, StartStoring(why) PROVE HoldInv'
  BY <1>3, <1>1 DEF StartStoring
<1>4. ASSUME (\E why \in {"save", "autosave"} : Save(why)) \/ (\E abort \in BOOLEAN : Close(abort))
             \/ FlushUndoQueue \/ GetGuid \/ UNCHANGED vars
      PROVE  HoldInv'
  BY <1>4, <1>3 DEF Save, Close, FlushUndoQueue, GetGuid, round, vars
<1>5. ASSUME CommitTransaction \/ CommitStoring PROVE HoldInv'
  BY <1>5 DEF Announced, CommitTransaction, CommitStoring, StartNotify, TypeInv, MethodOK
<1>6. ASSUME (\E v \in {0, 1} : PutProperty(v)) \/ PutGuid PROVE HoldInv'
  BY <1>6 DEF PutProperty, PutGuid
<1>7. ASSUME NEW o, NEW v, Change(o, v) PROVE HoldInv'
  BY <1>7 DEF Change
<1>8. ASSUME NEW o, NEW v, ChangeNotNested(o, v) \/ ChangeFails(o, v) PROVE HoldInv'
  BY <1>8 DEF Announced, ChangeNotNested, ChangeFails, MayWrite, TypeInv, MethodOK
<1>9. ASSUME NEW o \in Object, NotifyAddOn(o) PROVE HoldInv'
  BY <1>9, NamesAssumption DEF NotifyAddOn
<1>10. ASSUME AddOnReturns \/ AddOnFails PROVE HoldInv'
  BY <1>10 DEF Announced, AddOnReturns, AddOnFails, TypeInv, RoundOK
<1>11. ASSUME TellTerritories PROVE HoldInv'
  BY <1>11 DEF TellTerritories, TypeInv, MethodOK
<1> QED
  BY StepCases, <1>2, <1>4, <1>5, <1>6, <1>7, <1>8, <1>9, <1>10, <1>11

LEMMA SightStep ==
  ASSUME Announced, NotifyInv, [Next]_vars
  PROVE  SightInv'
<1>a. TypeInv /\ QueueInv /\ HoldInv /\ SightInv
  BY DEF NotifyInv
<1>b. ASSUME NEW d \in Proper, doc' = d, ReadAll(d), phase' = "idle" PROVE SightInv'
  BY <1>b DEF ReadAll, SightInv, Objects
<1>c. ASSUME UNCHANGED views, \A o \in Object : doc'[o] = doc[o],
             UNCHANGED <<changemask, notifymask>>, MayNest' => MayNest,
             (phase = "idle") <=> (phase' = "idle")
      PROVE  SightInv'
  BY <1>a, <1>c DEF views, SightInv
<1>d. \A v : \A d \in Document, x \in {Properties, Guid}, o \in Object : [d EXCEPT ![x] = v][o] = d[o]
  BY NamesAssumption DEF Document, Attr
<1>e. doc \in Proper /\ doc \in Document /\ disk \in Proper
  BY <1>a, ProperFacts DEF TypeInv, DocumentsOK
<1>1. ASSUME NEW upgrade \in BOOLEAN, Open(upgrade) PROVE SightInv'
  <2>1. phase' = "idle" /\ ReadAll(disk) /\ doc' \in {disk, [disk EXCEPT ![Properties] = 1 - @]}
    BY <1>1 DEF Open
  <2>2. Objects(doc') = Objects(disk)
    BY <2>1, <1>e, ProperFacts
  <2>3. \A o \in Object : seen'[o] = disk[o] /\ shown'[o] = disk[o] /\ doc'[o] = disk[o]
    <3> SUFFICES ASSUME NEW o \in Object PROVE seen'[o] = disk[o] /\ shown'[o] = disk[o] /\ doc'[o] = disk[o]
      OBVIOUS
    <3>1. Objects(doc')[o] = doc'[o] /\ Objects(disk)[o] = disk[o]
      BY DEF Objects
    <3> QED BY <2>1, <2>2, <3>1 DEF ReadAll
  <2> QED BY <2>1, <2>3 DEF SightInv
<1>2. ASSUME NEW m, BeginTransaction(m) PROVE SightInv'
  BY <1>2, <1>a DEF BeginTransaction, Core!BeginOuter, Idle, views, SightInv
<1>3. ASSUME CommitReadOnly PROVE SightInv'
  BY <1>3, <1>a DEF CommitReadOnly, views, queues, MayNest, QueueInv, SightInv
<1>4. ASSUME AbortTransaction \/ AbortAndGoOn PROVE SightInv'
  <2>1. saved[1].doc \in Proper
    BY <1>4, <1>a, OneLevel DEF AbortTransaction, AbortAndGoOn, TypeInv, DocumentsOK
  <2> QED BY <1>4, <2>1, <1>b DEF AbortTransaction, AbortAndGoOn, Core!Abort
<1>5. ASSUME Undo \/ Redo PROVE SightInv'
  <2>1. CASE Undo
    BY <2>1, <1>a, <1>b, TailProper DEF Undo, Core!Undo, Idle, TypeInv, DocumentsOK
  <2>2. CASE Redo
    BY <2>2, <1>a, <1>b, TailProper DEF Redo, Core!Redo, Idle, TypeInv, DocumentsOK
  <2> QED BY <1>5, <2>1, <2>2
<1>6. ASSUME CommitTransaction \/ CommitStoring PROVE SightInv'
  <2>1. changemask' = changemask /\ notifymask' = notifymask
    BY <1>6, <1>a DEF CommitTransaction, CommitStoring, StartNotify, RecordChanges, QueueInv
  <2> QED BY <1>6, <2>1, <1>c DEF CommitTransaction, CommitStoring, StartNotify, core, MayNest
<1>7. ASSUME (\E v \in {0, 1} : PutProperty(v)) \/ PutGuid PROVE SightInv'
  <2>1. changemask' = changemask /\ notifymask' = notifymask
    BY <1>7, <1>a DEF PutProperty, PutGuid, RecordChanges, QueueInv
  <2>2. \A o \in Object : doc'[o] = doc[o]
    <3>1. PICK x \in {Properties, Guid} : \E v : doc' = [doc EXCEPT ![x] = v]
      BY <1>7 DEF PutProperty, PutGuid, Core!Write
    <3> QED BY <3>1, <1>d, <1>e
  <2> QED BY <1>7, <2>1, <2>2, <1>c DEF PutProperty, PutGuid, MayNest
<1>8. ASSUME NEW o \in Object, NEW v, Change(o, v) PROVE SightInv'
  <2>1. /\ \A p \in Object : p # o => doc'[p] = doc[p]
        /\ changemask' = changemask \cup {o} /\ notifymask' = notifymask \cup {o}
    BY <1>8, <1>a, <1>e DEF Change, Core!Write, RecordChanges, QueueInv, Document
  <2>2. phase # "idle" /\ MayNest /\ phase' = phase
    BY <1>8, <1>a DEF Change, MayWrite, TypeInv, MethodOK
  <2> QED BY <1>8, <2>1, <2>2, <1>a DEF Change, views, SightInv
<1>9. ASSUME NEW o \in Object, NEW v, ChangeNotNested(o, v) \/ ChangeFails(o, v) PROVE SightInv'
  <2>1. ChangeFails(o, v) /\ phase # "idle"
    BY <1>9, <1>a DEF Announced, ChangeNotNested, ChangeFails, MayWrite, TypeInv, MethodOK
  <2>2. CASE mode = "NON_NESTED"
    BY <2>1, <2>2 DEF ChangeFails, MayNest, SightInv
  <2>3. CASE mode # "NON_NESTED"
    BY <2>1, <2>3, <1>c DEF ChangeFails, MayNest, core
  <2> QED BY <2>2, <2>3
<1>10. ASSUME NEW why, StartStoring(why) PROVE SightInv'
  <2>1. \A o \in Object : doc'[o] = doc[o]
    <3>1. doc' = doc \/ \E v : doc' = [doc EXCEPT ![Guid] = v]
      BY <1>10 DEF StartStoring, FixupGuid
    <3>2. CASE doc' = doc
      BY <3>2
    <3>3. ASSUME NEW v, doc' = [doc EXCEPT ![Guid] = v] PROVE \A o \in Object : doc'[o] = doc[o]
      BY <3>3, <1>d, <1>e, ZenonT(40)
    <3> QED BY <3>1, <3>2, <3>3
  <2> QED BY <1>10, <2>1, <1>a DEF StartStoring, Idle, views, SightInv
<1>11. ASSUME (\E why \in {"save", "autosave"} : Save(why)) \/ (\E abort \in BOOLEAN : Close(abort))
              \/ FlushUndoQueue \/ GetGuid \/ UNCHANGED vars \/ AddOnReturns \/ AddOnFails
       PROVE  SightInv'
  <2>1. ASSUME ~\E why : StartStoring(why)
        PROVE  UNCHANGED <<doc, views, changemask, notifymask, phase, mode, must_abort>>
    BY <1>11, <2>1 DEF Save, Close, FlushUndoQueue, Core!FlushUndo, GetGuid, AddOnReturns, AddOnFails, vars,
         core, tx, queues, DropQueues
  <2> QED BY <2>1, <1>10, <1>c DEF MayNest
<1>12. ASSUME NEW o \in Object, NotifyAddOn(o) PROVE SightInv'
  <2>1. seen'[o] = doc[o] /\ \A p \in Object \ {o} : seen'[p] = seen[p]
    BY <1>12, <1>a DEF NotifyAddOn, TypeInv, ViewsOK
  <2> QED BY <1>12, <2>1, <1>a DEF NotifyAddOn, core, MayNest, SightInv
<1>13. ASSUME TellTerritories PROVE SightInv'
  <2>1. changemask' = changemask /\ phase' # "idle" /\ phase # "idle" /\ UNCHANGED <<doc, seen, mode, must_abort>>
    BY <1>13, <1>a DEF TellTerritories, Late, QueueInv, core
  <2>2. \A o \in Object : o \in Told => shown'[o] = doc[o]
    BY <1>13 DEF TellTerritories
  <2>3. \A o \in Object \ Told : shown'[o] = shown[o]
    BY <1>13 DEF TellTerritories
  <2>4. notifymask' = notifymask \ Told
    BY <1>13 DEF TellTerritories
  <2> QED BY <2>1, <2>2, <2>3, <2>4, <1>a DEF MayNest, SightInv
<1>14. ASSUME CommitEnds PROVE SightInv'
  <2>1. phase = "commit" /\ MayNest /\ changemask = {} /\ notifymask = {}
    BY <1>14, <1>a DEF CommitEnds, HoldInv, QueueInv
  <2> QED BY <1>14, <2>1, <1>a DEF CommitEnds, CoreCommits, views, SightInv
<1> QED
  BY StepCases, <1>1, <1>2, <1>3, <1>4, <1>5, <1>6, <1>7, <1>8, <1>9, <1>11, <1>12, <1>13, <1>14

LEMMA NotifyInit ==
  Init => NotifyInv
<1> SUFFICES ASSUME Init PROVE NotifyInv
  OBVIOUS
<1>1. QueueInv /\ HoldInv
  BY DEF Init, QueueInv, HoldInv, MayNest
<1>2. SightInv
  BY DEF Init, SightInv, Objects
<1> QED BY <1>1, <1>2, TypeInit DEF NotifyInv

LEMMA NotifyInvariant ==
  ASSUME Announced PROVE Spec => []NotifyInv
<1>1. Init => NotifyInv
  BY NotifyInit
<1>2. NotifyInv /\ [Next]_vars => NotifyInv'
  BY TypeStep, QueueStep, HoldStep, SightStep DEF NotifyInv
<1> QED BY <1>1, <1>2, PTL DEF Spec

\* An object whose mask is set is in the queue that the mask stands for.
THEOREM MasksAgree ==
  ASSUME Announced PROVE Spec => []MaskedMeansQueued
<1>1. NotifyInv => MaskedMeansQueued
  BY DEF NotifyInv, QueueInv, MaskedMeansQueued
<1> QED BY <1>1, NotifyInvariant, PTL

\* Between transactions the add-on knows every object as it is: nothing that
\* a client, another transaction or the add-on itself has written is missed.
THEOREM AddOnMissesNothing ==
  ASSUME Announced PROVE Spec => []AddOnSeesAll
<1>1. NotifyInv => AddOnSeesAll
  BY DEF NotifyInv, SightInv, TypeInv, ViewsOK, AddOnSeesAll, Idle, Objects
<1> QED BY <1>1, NotifyInvariant, PTL

\* So do the territories, whether the first round has failed or not.
THEOREM TerritoriesMissNothing ==
  ASSUME Announced PROVE Spec => []TerritoriesSeeAll
<1>1. NotifyInv => TerritoriesSeeAll
  BY DEF NotifyInv, SightInv, TypeInv, ViewsOK, TerritoriesSeeAll, Idle, Objects
<1> QED BY <1>1, NotifyInvariant, PTL

-----------------------------------------------------------------------------
(* The status of the project *)

\* Besides, whatever is committed is counted, and nothing is undone that is
\* in the file already: no copies, no failing saves, no upgrades.
Counted == Announced /\ Habits \cap {"undoespast", "autosave", "savefails", "upgrades"} = {}

\* The document an abort would return to
Base == IF phase = "idle" THEN doc ELSE saved[1].doc

\* The document in the file is as many steps for undo away as the count says.
CountInv ==
  /\ transactioncount >= 0
  /\ opened = CLOSED => transactioncount = 0
  /\ IsOpen /\ transactioncount > 0 => opened = CHANGED
  /\ IsOpen /\ transactioncount = 0 => Content(Base) = Content(disk)
  /\ IsOpen /\ transactioncount \in 1..Len(past) => Content(past[transactioncount]) = Content(disk)

\* A transaction of a client that has written will be counted.
TouchInv ==
  /\ purpose # "autosave"
  /\ mode = "READ_ONLY" => ~touched
  /\ phase # "idle" =>
     /\ changedobjs # {} \/ notifyqueueprocessed => touched
     /\ touched /\ MayNest /\ purpose = "client" => changedobjs # {} \/ notifyqueueprocessed
     /\ phase = "commit" => changedobjs = {}
     /\ ~touched => doc = saved[1].doc

StatusInv == NotifyInv /\ CountInv /\ TouchInv

LEMMA TouchStep ==
  ASSUME Counted, StatusInv, [Next]_vars
  PROVE  TouchInv'
<1> USE DEF StatusInv, NotifyInv, TouchInv, tx, core
<1>a. TypeInv /\ QueueInv /\ HoldInv
  OBVIOUS
<1>1. ASSUME \/ \E upgrade \in BOOLEAN : Open(upgrade)
             \/ Undo \/ Redo \/ FlushUndoQueue \/ CommitReadOnly \/ AbortTransaction
             \/ CommitEnds \/ AbortAndGoOn
      PROVE  TouchInv'
  <2>1. phase' = "idle" /\ (purpose' = purpose \/ purpose' = "client")
    BY <1>1 DEF Open, Undo, Redo, FlushUndoQueue, Idle, CommitReadOnly, AbortTransaction, CommitEnds,
         AbortAndGoOn
  <2>2. mode' # "READ_ONLY"
    BY <1>1, <1>a DEF Open, Undo, Redo, FlushUndoQueue, Idle, CommitReadOnly, AbortTransaction, CommitEnds,
         AbortAndGoOn, NewMode, TypeInv, MethodOK
  <2> QED BY <2>1, <2>2
<1>2. ASSUME NEW m \in {"GENERAL", "READ_ONLY", "NON_NESTED"}, BeginTransaction(m) PROVE TouchInv'
  BY <1>2 DEF BeginTransaction, Core!BeginOuter, NewMode, DropQueues
<1>3. ASSUME CommitTransaction \/ CommitStoring PROVE TouchInv'
  <2>1. changedobjs' = changedobjs
    BY <1>3, <1>a DEF CommitTransaction, CommitStoring, StartNotify, RecordChanges, QueueInv
  <2> QED
    BY <1>3, <2>1, <1>a DEF CommitTransaction, CommitStoring, StartNotify, TypeInv, MethodOK, MayNest
<1>4. ASSUME (\E v \in {0, 1} : PutProperty(v)) \/ PutGuid PROVE TouchInv'
  BY <1>4, <1>a DEF PutProperty, PutGuid, MayWrite, TypeInv, MethodOK
<1>5. ASSUME NEW o \in Object, NEW v, Change(o, v) PROVE TouchInv'
  <2>1. changedobjs' # {} /\ touched' /\ phase' # "commit"
    BY <1>5, <1>a DEF Counted, Announced, Change, RecordChanges, QueueInv, MayWrite
  <2>2. purpose' = purpose /\ mode' # "READ_ONLY"
    BY <1>5 DEF Change, MayWrite
  <2> QED BY <2>1, <2>2
<1>6. ASSUME NEW o \in Object, NEW v, ChangeNotNested(o, v) \/ ChangeFails(o, v) PROVE TouchInv'
  <2>1. ChangeFails(o, v)
    BY <1>6 DEF Counted, Announced, ChangeNotNested
  <2>2. phase' # "commit" /\ phase # "idle"
    BY <2>1, <1>a DEF Counted, Announced, ChangeFails, MayWrite, TypeInv, MethodOK
  <2>3. CASE mode = "NON_NESTED"
    BY <2>1, <2>2, <2>3 DEF ChangeFails, MayNest
  <2>4. CASE mode # "NON_NESTED"
    BY <2>1, <2>2, <2>4 DEF ChangeFails, MayNest
  <2> QED BY <2>3, <2>4
<1>7. ASSUME NEW why \in {"save", "close"}, StartStoring(why) PROVE TouchInv'
  BY <1>7 DEF StartStoring, FixupGuid, DropQueues
<1>8. ASSUME Save("save") PROVE TouchInv'
  BY <1>8, <1>7 DEF Save, Idle
<1>9. ASSUME NEW abort \in BOOLEAN, Close(abort) PROVE TouchInv'
  BY <1>9, <1>7 DEF Close, Idle
<1>10. ASSUME NEW o \in Object, NotifyAddOn(o) PROVE TouchInv'
  BY <1>10, <1>a DEF NotifyAddOn, TypeInv, MethodOK
<1>11. ASSUME AddOnReturns \/ AddOnFails \/ GetGuid \/ UNCHANGED vars PROVE TouchInv'
  BY <1>11 DEF AddOnReturns, AddOnFails, GetGuid, queues, vars, MayNest
<1>12. ASSUME TellTerritories PROVE TouchInv'
  <2>1. changedobjs' = changedobjs
    BY <1>12, <1>a DEF TellTerritories, QueueInv
  <2> QED BY <1>12, <2>1 DEF TellTerritories, MayNest
<1> QED
  BY StepCases, <1>1, <1>2, <1>3, <1>4, <1>5, <1>6, <1>8, <1>9, <1>10, <1>11, <1>12
     DEF Counted

\* What the project file and the status look like when a commit, a save or a
\* close of a document ends
LEMMA StoredStatus ==
  ASSUME Counted, NEW why \in {"client", "save", "close"}, NEW d, NEW s, StoreFor(why, d, s)
  PROVE  \/ /\ why = "client" /\ disk' = disk /\ files' = files
            /\ opened' = s.opened /\ transactioncount' = s.count /\ guidstat' = s.guidstat
         \/ /\ why = "save" /\ disk' = d /\ files' = files \cup {d}
            /\ opened' = UNCHANGED_ /\ transactioncount' = 0 /\ guidstat' = [s EXCEPT !.opened = UNCHANGED_, !.count = 0].guidstat
         \/ /\ why = "close" /\ disk' = d /\ files' = files \cup {d}
            /\ opened' = CLOSED /\ transactioncount' = 0 /\ guidstat' = "CLEAN"
         \/ /\ why = "close" /\ disk' = disk /\ files' = files
            /\ opened' = [s EXCEPT !.opened = CLOSEERROR].opened
            /\ transactioncount' = [s EXCEPT !.opened = CLOSEERROR].count
BY DEF Counted, StoreFor, NotStored, SaveFile, CloseFile, CloseError, SetStatus, disks

LEMMA CountStep ==
  ASSUME Counted, StatusInv, [Next]_vars
  PROVE  CountInv'
<1>a. /\ TypeInv /\ HoldInv /\ CountInv /\ TouchInv
      /\ transactioncount \in Int /\ past \in Seq(Proper) /\ future \in Seq(Proper)
  BY DEF StatusInv, NotifyInv, TypeInv, StatusOK, DocumentsOK
<1>b. CLOSED # UNCHANGED_ /\ CLOSED # CHANGED /\ CLOSEERROR # CLOSED /\ CLOSEERROR # CHANGED
      /\ CLOSEERROR # UNCHANGED_ /\ UNCHANGED_ # CHANGED
  BY DEF CLOSED, UNCHANGED_, CHANGED, CLOSEERROR
<1>c. ASSUME opened' \in {CLOSED, UNCHANGED_}, transactioncount' = 0,
             opened' = UNCHANGED_ => Content(Base') = Content(disk')
      PROVE  CountInv'
  BY <1>c, <1>b DEF CountInv, IsOpen
<1>d. ASSUME opened' = CLOSEERROR, transactioncount' >= 0 PROVE CountInv'
  BY <1>d, <1>b DEF CountInv, IsOpen
<1>e. ASSUME UNCHANGED <<opened, transactioncount, disk>>,
             Content(Base') = Content(Base) \/ ~IsOpen,
             \/ past' = past \/ past' = <<>>
             \/ \E n \in Int : past' = SubSeq(past, 1, Core!Shortest(Len(past), n))
      PROVE  CountInv'
  <2>1. ASSUME transactioncount \in 1..Len(past') PROVE
          transactioncount \in 1..Len(past) /\ past'[transactioncount] = past[transactioncount]
    BY <1>e, <2>1, <1>a DEF Core!Shortest
  <2> QED BY <1>e, <2>1, <1>a DEF CountInv, IsOpen
<1>1. ASSUME NEW upgrade \in BOOLEAN, Open(upgrade) PROVE CountInv'
  <2>1. ~upgrade
    BY <1>1 DEF Open, Counted
  <2> QED BY <1>1, <2>1, <1>a, <1>b, <1>c DEF Open, CountInv, Base, disks
<1>2. ASSUME NEW m, BeginTransaction(m) PROVE CountInv'
  <2>1. Base' = Base /\ UNCHANGED <<opened, transactioncount, disk>>
    BY <1>2 DEF BeginTransaction, Idle, Core!BeginOuter, Base, status, disks
  <2>2. past' = past \/ past' = SubSeq(past, 1, Core!Shortest(Len(past), limit - 1))
    BY <1>2 DEF BeginTransaction, Core!BeginOuter
  <2> QED BY <2>1, <2>2, <1>a, <1>e DEF TypeInv, DocumentsOK
<1>3. ASSUME \/ CommitTransaction \/ CommitStoring \/ TellTerritories \/ GetGuid \/ AddOnReturns \/ AddOnFails
             \/ (\E o \in Object : NotifyAddOn(o)) \/ UNCHANGED vars
      PROVE  CountInv'
  <2>1. UNCHANGED <<doc, saved, past, opened, transactioncount, disk>>
    BY <1>3 DEF CommitTransaction, CommitStoring, StartNotify, TellTerritories, GetGuid, AddOnReturns,
         AddOnFails, NotifyAddOn, vars, core, status, disks
  <2>2. (phase' = "idle") <=> (phase = "idle")
    BY <1>3, <1>a DEF CommitTransaction, CommitStoring, StartNotify, TellTerritories, GetGuid, AddOnReturns,
         AddOnFails, NotifyAddOn, vars, tx
  <2> QED BY <2>1, <2>2, <1>e DEF Base
<1>4. ASSUME \/ \E v \in {0, 1} : PutProperty(v)
             \/ PutGuid
             \/ \E o \in Object, v \in {0, 1} : Change(o, v) \/ ChangeNotNested(o, v) \/ ChangeFails(o, v)
      PROVE  CountInv'
  <2>1. UNCHANGED <<saved, past, opened, transactioncount, disk, phase>>
    BY <1>4 DEF PutProperty, PutGuid, Change, ChangeNotNested, ChangeFails, Core!Write, core, status, disks
  <2>2. phase # "idle"
    BY <1>4, <1>a DEF PutProperty, PutGuid, Change, ChangeNotNested, ChangeFails, MayWrite, TypeInv, MethodOK
  <2> QED BY <2>1, <2>2, <1>e DEF Base
<1>5. ASSUME AbortTransaction PROVE CountInv'
  <2>1. Base' = Base /\ UNCHANGED <<past, opened, transactioncount, disk>>
    BY <1>5 DEF AbortTransaction, Core!Abort, Base, status, disks
  <2> QED BY <2>1, <1>e
<1>6. ASSUME CommitReadOnly PROVE CountInv'
  <2>1. doc = saved[1].doc
    BY <1>6, <1>a DEF CommitReadOnly, TouchInv
  <2>2. Base' = Base /\ UNCHANGED <<past, opened, transactioncount, disk>>
    BY <1>6, <2>1 DEF CommitReadOnly, Base, status, disks
  <2> QED BY <2>2, <1>e
<1>7. ASSUME NEW why, StartStoring(why) PROVE CountInv'
  <2>1. Base' = Base /\ UNCHANGED <<opened, transactioncount, disk>>
    BY <1>7 DEF StartStoring, Idle, Base, disks
  <2>2. limit - 1 \in Int /\ past' = SubSeq(past, 1, Core!Shortest(Len(past), limit - 1))
    BY <1>7, <1>a DEF StartStoring, TypeInv, DocumentsOK
  <2> QED BY <2>1, <2>2, <1>e
<1>8. ASSUME Save("save") PROVE CountInv'
  <2>1. CASE StartStoring("save")
    BY <2>1, <1>7
  <2>2. CASE ~StartStoring("save")
    <3>1. StoreFor("save", doc, StatusNow) /\ Base' = doc
      BY <1>8, <2>2 DEF Save, Idle, Base, core, tx
    <3> QED BY <3>1, <1>c, StoredStatus
  <2> QED BY <2>1, <2>2
<1>9. ASSUME NEW abort \in BOOLEAN, Close(abort) PROVE CountInv'
  <2>1. CASE StartStoring("close")
    BY <2>1, <1>7
  <2>2. CASE ~StartStoring("close")
    <3>1. \/ CloseFile(doc, abort)
          \/ CloseError(StatusNow)
      BY <1>9, <2>2 DEF Close
    <3>2. CloseFile(doc, abort) => opened' = CLOSED /\ transactioncount' = 0
      BY DEF CloseFile, SetStatus
    <3>3. CloseError(StatusNow) => opened' = CLOSEERROR /\ transactioncount' = transactioncount
      BY DEF CloseError, SetStatus, StatusNow
    <3> QED BY <3>1, <3>2, <3>3, <1>a, <1>b, <1>c, <1>d DEF CountInv
  <2> QED BY <2>1, <2>2
<1>10. ASSUME Undo PROVE CountInv'
  <2>1. /\ transactioncount > 0 /\ IsOpen /\ past # <<>> /\ phase' = "idle"
        /\ doc' = past[1] /\ past' = Tail(past) /\ disk' = disk
        /\ SetStatus(StatusAfterUndo)
    BY <1>10 DEF Undo, Core!Undo, Idle, Counted, disks
  <2>2. CASE transactioncount = 1
    <3>1. opened' = UNCHANGED_ /\ transactioncount' = 0
      BY <2>1, <2>2 DEF SetStatus, StatusAfterUndo
    <3>2. 1 \in 1..Len(past)
      BY <2>1, <1>a
    <3>3. Content(past[1]) = Content(disk)
      BY <2>1, <2>2, <3>2, <1>a DEF CountInv
    <3> QED BY <2>1, <3>1, <3>3, <1>c DEF Base
  <2>3. CASE transactioncount # 1
    <3>1. opened' = opened /\ transactioncount' = transactioncount - 1
      BY <2>1, <2>3 DEF SetStatus, StatusAfterUndo, StatusNow
    <3>2. ASSUME transactioncount' \in 1..Len(past')
          PROVE  transactioncount \in 1..Len(past) /\ past'[transactioncount'] = past[transactioncount]
      BY <2>1, <3>1, <3>2, <1>a
    <3> QED BY <2>1, <2>3, <3>1, <3>2, <1>a DEF CountInv, IsOpen
  <2> QED BY <2>2, <2>3
<1>11. ASSUME NEW d, past' = <<d>> \o past, Content(d) = Content(Base), IsOpen,
              transactioncount' = transactioncount + 1, disk' = disk, opened' = CHANGED
       PROVE  CountInv'
  <2>1. ASSUME transactioncount' \in 1..Len(past')
        PROVE  Content(past'[transactioncount']) = Content(disk)
    <3>1. CASE transactioncount = 0
      <4>1. past'[1] = d
        BY <1>11, <1>a
      <4> QED BY <3>1, <4>1, <1>11, <1>a DEF CountInv
    <3>2. CASE transactioncount # 0
      <4>1. transactioncount \in 1..Len(past) /\ past'[transactioncount + 1] = past[transactioncount]
        BY <1>11, <2>1, <3>2, <1>a DEF CountInv
      <4> QED BY <4>1, <1>11, <1>a DEF CountInv
    <3> QED BY <3>1, <3>2
  <2> QED BY <1>11, <2>1, <1>a, <1>b DEF CountInv, IsOpen
<1>12. ASSUME Redo PROVE CountInv'
  BY <1>12, <1>11 DEF Redo, Core!Redo, SetStatus, Idle, Base, disks
<1>13. ASSUME FlushUndoQueue PROVE CountInv'
  <2>1. Base' = Base /\ past' = <<>> /\ UNCHANGED <<opened, transactioncount, disk>>
    BY <1>13 DEF FlushUndoQueue, Core!FlushUndo, Idle, Base, status, disks, tx
  <2> QED BY <2>1, <1>e
<1>14. ASSUME CommitEnds PROVE CountInv'
  <2>1. /\ StoreFor(purpose, doc, StatusAfterCommit) /\ purpose \in {"client", "save", "close"}
        /\ Base' = doc /\ Base = saved[1].doc /\ IsOpen
    <3>1. StoreFor(purpose, doc, StatusAfterCommit) /\ phase = "commit" /\ phase' = "idle" /\ doc' = doc
      BY <1>14 DEF CommitEnds, CoreCommits, Stored
    <3>2. purpose \in {"client", "save", "close"} /\ IsOpen
      BY <3>1, <1>a, <1>b DEF TouchInv, TypeInv, MethodOK, IsOpen
    <3> QED BY <3>1, <3>2 DEF Base
  <2>2. CASE purpose = "client"
    <3>1. /\ disk' = disk /\ opened' = StatusAfterCommit.opened
          /\ transactioncount' = StatusAfterCommit.count
      BY <2>1, <2>2, StoredStatus
    <3>2. touched <=> notifyqueueprocessed
      BY <1>14, <2>2, <1>a DEF CommitEnds, TouchInv, HoldInv, TypeInv, MethodOK
    <3>3. CASE touched
      <4>1. past' = <<saved[1].doc>> \o past /\ opened' = CHANGED /\ transactioncount' = transactioncount + 1
        BY <1>14, <2>2, <3>1, <3>2, <3>3 DEF CommitEnds, CoreCommits, StatusAfterCommit
      <4> QED BY <2>1, <3>1, <4>1, <1>11
    <3>4. CASE ~touched
      <4>1. past' = past /\ opened' = opened /\ transactioncount' = transactioncount
        BY <1>14, <2>2, <3>1, <3>2, <3>4 DEF CommitEnds, CoreCommits, StatusAfterCommit
      <4>2. Base' = Base
        BY <1>14, <2>1, <3>4, <1>a DEF CommitEnds, TouchInv
      <4> QED BY <3>1, <4>1, <4>2, <1>e
    <3> QED BY <3>3, <3>4
  <2>3. CASE purpose = "save"
    BY <2>1, <2>3, <1>c, StoredStatus
  <2>4. CASE purpose = "close"
    <3>1. StatusAfterCommit.count >= 0 /\ [StatusAfterCommit EXCEPT !.opened = CLOSEERROR].opened = CLOSEERROR
          /\ [StatusAfterCommit EXCEPT !.opened = CLOSEERROR].count = StatusAfterCommit.count
      BY <1>a DEF StatusAfterCommit, CountInv
    <3> QED BY <2>1, <2>4, <3>1, <1>b, <1>c, <1>d, StoredStatus
  <2> QED BY <2>1, <2>2, <2>3, <2>4
<1>15. ASSUME AbortAndGoOn PROVE CountInv'
  <2>1. /\ StoreFor(purpose, saved[1].doc, StatusNow) /\ purpose \in {"save", "close"}
        /\ Base' = saved[1].doc
    <3>1. StoreFor(purpose, saved[1].doc, StatusNow) /\ phase = "abort" /\ phase' = "idle" /\ doc' = saved[1].doc
      BY <1>15 DEF AbortAndGoOn, Stored
    <3>2. purpose \in {"save", "close"}
      BY <3>1, <1>a DEF TouchInv, TypeInv, MethodOK
    <3> QED BY <3>1, <3>2 DEF Base
  <2>2. [StatusNow EXCEPT !.opened = CLOSEERROR].opened = CLOSEERROR
          /\ [StatusNow EXCEPT !.opened = CLOSEERROR].count = transactioncount
    BY DEF StatusNow
  <2> QED BY <2>1, <2>2, <1>a, <1>b, <1>c, <1>d, StoredStatus DEF CountInv
<1> QED
  BY StepCases, <1>1, <1>2, <1>3, <1>4, <1>5, <1>6, <1>8, <1>9, <1>10, <1>12, <1>13, <1>14, <1>15
     DEF Counted

LEMMA StatusInit ==
  Init => StatusInv
<1> SUFFICES ASSUME Init PROVE StatusInv
  OBVIOUS
<1>1. CountInv
  BY DEF Init, CountInv, IsOpen, CLOSED, CHANGED
<1>2. TouchInv
  BY DEF Init, TouchInv
<1> QED BY <1>1, <1>2, NotifyInit DEF StatusInv

LEMMA StatusStepOK ==
  ASSUME Counted PROVE StatusInv /\ [Next]_vars => StatusInv'
BY TypeStep, QueueStep, HoldStep, SightStep, TouchStep, CountStep DEF StatusInv, NotifyInv, Counted

LEMMA StatusInvariant ==
  ASSUME Counted PROVE Spec => []StatusInv
<1>1. Init => StatusInv
  BY StatusInit
<1>2. StatusInv /\ [Next]_vars => StatusInv'
  BY StatusStepOK
<1> QED BY <1>1, <1>2, PTL DEF Spec

\* Between transactions the project says that it has changed whenever its
\* document is not the one in the file, however often a client commits,
\* aborts, undoes, redoes, saves and flushes the list of steps.
THEOREM StatusIsTrue ==
  ASSUME Counted PROVE Spec => []StatusTellsChange
<1>1. StatusInv => StatusTellsChange
  <2> SUFFICES ASSUME StatusInv, Idle, Content(doc) # Content(disk) PROVE opened = CHANGED
    BY DEF StatusTellsChange
  <2>1. CountInv /\ IsOpen /\ Base = doc /\ transactioncount \in Int
    BY DEF StatusInv, NotifyInv, TypeInv, StatusOK, Idle, Base
  <2> QED BY <2>1 DEF CountInv
<1> QED BY <1>1, StatusInvariant, PTL

-----------------------------------------------------------------------------
(* The GUID of the project *)

\* Besides, the GUID is the project's own business, and no add-on makes a
\* save or close abort what it has begun.
Guided == Counted /\ Habits \cap {"putsguid", "addonfails"} = {}

\* No GUID is used for two files: what is going to be saved under a new name
\* has one that no file has.
FilesInv ==
  /\ disk \in files /\ pendingguid <= guids
  /\ \A f \in files : f[Guid] <= guids
  /\ guidstat = "PENDING" => \A f \in files : f[Guid] < pendingguid
  /\ phase # "idle" /\ purpose # "client" =>
       /\ future = <<>> /\ guidstat # "PENDING" /\ doc[Guid] <= guids
       /\ \A f \in files : f[Guid] < doc[Guid]

\* An add-on fails only in a transaction that is not nested and is over.
FailInv == phase # "abort" /\ (failed => purpose = "client" /\ mode = "NON_NESTED")

\* A document that has not been saved has the GUID of the file, and the
\* project is going to get another one.
GuidInv ==
  /\ opened = CLOSED => future = <<>>
  /\ IsOpen =>
     /\ purpose = "client" /\ opened = CHANGED => guidstat \in {"DIRTY", "PENDING"}
     /\ guidstat # "MANUAL"
     /\ purpose = "client" => doc[Guid] = disk[Guid]
     /\ Base[Guid] = disk[Guid]
     /\ \A i \in 1..Len(past) : i <= transactioncount => past[i][Guid] = disk[Guid]
     /\ \A i \in 1..Len(future) : future[i][Guid] = disk[Guid]

AgreeInv == \A f, g \in files : f[Guid] = g[Guid] => f = g

FileInv == StatusInv /\ FilesInv /\ FailInv /\ GuidInv /\ AgreeInv

LEMMA FailStep ==
  ASSUME Guided, FileInv, [Next]_vars
  PROVE  FailInv'
<1> USE DEF FailInv, tx, round
<1>a. FailInv /\ TypeInv /\ HoldInv
  BY DEF FileInv, StatusInv, NotifyInv
<1>1. ASSUME \/ \E upgrade \in BOOLEAN : Open(upgrade)
             \/ \E m \in {"GENERAL", "READ_ONLY", "NON_NESTED"} : BeginTransaction(m)
             \/ Undo \/ Redo \/ CommitReadOnly
      PROVE  FailInv'
  BY <1>1, <1>a DEF Open, BeginTransaction, Undo, Redo, CommitReadOnly, Idle, TypeInv, MethodOK
<1>2. ASSUME CommitTransaction \/ CommitStoring \/ AbortTransaction \/ CommitEnds \/ AbortAndGoOn
      PROVE  FailInv'
  <2>1. NewRound /\ phase' \in {"idle", "notify"}
    BY <1>2 DEF CommitTransaction, CommitStoring, StartNotify, AbortTransaction, CommitEnds, AbortAndGoOn
  <2> QED BY <2>1 DEF NewRound
<1>3. ASSUME (\E v \in {0, 1} : PutProperty(v)) \/ PutGuid \/ GetGuid \/ FlushUndoQueue \/ UNCHANGED vars
             \/ (\E o \in Object : NotifyAddOn(o)) \/ AddOnReturns \/ TellTerritories
      PROVE  FailInv'
  BY <1>3, <1>a DEF PutProperty, PutGuid, GetGuid, FlushUndoQueue, NotifyAddOn, AddOnReturns, TellTerritories, vars
<1>4. ASSUME NEW o, NEW v, Change(o, v) \/ ChangeNotNested(o, v) \/ ChangeFails(o, v) PROVE FailInv'
  BY <1>4, <1>a DEF Change, ChangeNotNested, ChangeFails
<1>5. ASSUME NEW why, StartStoring(why) PROVE FailInv'
  BY <1>5, <1>a DEF StartStoring, Idle, TypeInv, MethodOK
<1>6. ASSUME (\E why \in {"save", "autosave"} : Save(why)) \/ (\E abort \in BOOLEAN : Close(abort)) PROVE FailInv'
  BY <1>6, <1>5, <1>a DEF Save, Close
<1>7. ASSUME AddOnFails PROVE FailInv'
  BY <1>7, <1>a DEF AddOnFails, Guided, MayNest, TypeInv, MethodOK
<1> QED
  BY StepCases, <1>1, <1>2, <1>3, <1>4, <1>6, <1>7

LEMMA FilesFacts ==
  ASSUME FileInv
  PROVE  /\ transactioncount \in Int /\ guids \in Int /\ pendingguid \in Int
         /\ past \in Seq(Proper) /\ future \in Seq(Proper) /\ doc \in Proper /\ disk \in Proper
         /\ \A f \in files : f[Guid] \in Int
         /\ Guid \in Attr /\ Guid # Properties /\ Guid \notin Object
         /\ \A d, e \in Proper : Content(d) = Content(e) /\ d[Guid] = e[Guid] => d = e
<1>1. Guid \in Attr /\ Guid # Properties /\ Guid \notin Object
  BY NamesAssumption DEF Attr
<1>2. \A d \in Proper : d \in Document /\ d[Guid] \in Int
  BY <1>1, BoundsAssumption DEF Proper, Document, Value
<1>3. ASSUME NEW d \in Proper, NEW e \in Proper, Content(d) = Content(e), d[Guid] = e[Guid] PROVE d = e
  <2>1. \A a \in Attr \ {Guid} : Content(d)[a] = d[a] /\ Content(e)[a] = e[a]
    BY DEF Content
  <2> QED BY <1>2, <1>3, <2>1 DEF Document
<1>4. DocumentsOK /\ StatusOK
  BY DEF FileInv, StatusInv, NotifyInv, TypeInv
<1> QED BY <1>1, <1>2, <1>3, <1>4 DEF DocumentsOK, StatusOK

\* A project that is open and does not count as changed is the one in the file.
LEMMA UnchangedIsSaved ==
  ASSUME FileInv, Idle, opened < CHANGED
  PROVE  doc = disk /\ transactioncount = 0
<1>1. CountInv /\ GuidInv /\ IsOpen /\ Base = doc
  BY DEF FileInv, StatusInv, Idle, Base
<1>2. transactioncount = 0
  BY <1>1, FilesFacts DEF CountInv, CHANGED
<1> QED BY <1>1, <1>2, FilesFacts DEF CountInv, GuidInv

\* The step that undoing would return to the file with
LEMMA UndoneIsSaved ==
  ASSUME FileInv, IsOpen, transactioncount \in 1..Len(past)
  PROVE  past[transactioncount] = disk
<1>1. past[transactioncount][Guid] = disk[Guid] /\ Content(past[transactioncount]) = Content(disk)
  BY FilesFacts DEF FileInv, StatusInv, CountInv, GuidInv
<1> QED BY <1>1, FilesFacts

\* What the actions do to the documents and the files: a step that leaves the
\* files alone does not begin to store either, or it is one of those that are
\* looked at by themselves.
LEMMA FilesStep ==
  ASSUME Guided, FileInv, [Next]_vars
  PROVE  FilesInv' /\ AgreeInv'
<1>a. /\ FilesInv /\ FailInv /\ GuidInv /\ AgreeInv /\ TypeInv /\ TouchInv
      /\ guids \in Int /\ pendingguid \in Int /\ doc \in Proper /\ Guid \in Attr /\ Guid \notin Object
      /\ Guid # Properties /\ \A f \in files : f[Guid] \in Int
  BY FilesFacts DEF FileInv, StatusInv, NotifyInv
<1>b. ASSUME disk' = disk, files' = files, UNCHANGED <<pendingguid, guids>>,
             guidstat' = guidstat \/ guidstat' # "PENDING",
             phase' # "idle" /\ purpose' # "client" =>
               /\ phase # "idle" /\ purpose # "client"
               /\ future' = future /\ guidstat' = guidstat /\ doc'[Guid] = doc[Guid]
      PROVE  FilesInv' /\ AgreeInv'
  BY <1>a, <1>b DEF FilesInv, AgreeInv
<1>1. ASSUME \/ \E upgrade \in BOOLEAN : Open(upgrade)
             \/ \E m \in {"GENERAL", "READ_ONLY", "NON_NESTED"} : BeginTransaction(m)
             \/ FlushUndoQueue \/ CommitReadOnly \/ AbortTransaction
      PROVE  FilesInv' /\ AgreeInv'
  <2>1. /\ disk' = disk /\ files' = files /\ UNCHANGED <<pendingguid, guids>>
        /\ guidstat' = guidstat \/ guidstat' # "PENDING"
    BY <1>1 DEF Open, BeginTransaction, FlushUndoQueue, CommitReadOnly, AbortTransaction, disks, status
  <2>2. phase' = "idle" \/ purpose' = "client"
    BY <1>1 DEF Open, BeginTransaction, FlushUndoQueue, CommitReadOnly, AbortTransaction, Idle, tx
  <2> QED BY <2>1, <2>2, <1>b
<1>2. ASSUME Undo \/ Redo PROVE FilesInv' /\ AgreeInv'
  <2>1. /\ disk' = disk /\ files' = files /\ UNCHANGED <<pendingguid, guids>> /\ phase' = "idle"
    BY <1>2 DEF Undo, Redo, Idle, disks
  <2>2. guidstat' = guidstat \/ guidstat' # "PENDING"
    BY <1>2 DEF Undo, Redo, SetStatus, StatusAfterUndo, StatusNow
  <2> QED BY <2>1, <2>2, <1>b
<1>3. ASSUME \/ CommitTransaction \/ CommitStoring \/ TellTerritories \/ AddOnReturns \/ AddOnFails
             \/ (\E o \in Object : NotifyAddOn(o)) \/ UNCHANGED vars
      PROVE  FilesInv' /\ AgreeInv'
  <2>1. UNCHANGED <<disk, files, pendingguid, guids, guidstat, doc, future, purpose>>
    BY <1>3 DEF CommitTransaction, CommitStoring, StartNotify, TellTerritories, AddOnReturns, AddOnFails,
         NotifyAddOn, vars, core, status, disks, tx
  <2>2. phase' # "idle" => phase # "idle"
    BY <1>3 DEF CommitTransaction, CommitStoring, StartNotify, TellTerritories, AddOnReturns, AddOnFails,
         NotifyAddOn, vars, tx
  <2> QED BY <2>1, <2>2, <1>b
<1>4. ASSUME \/ \E v \in {0, 1} : PutProperty(v)
             \/ \E o \in Object, v \in {0, 1} : Change(o, v) \/ ChangeNotNested(o, v) \/ ChangeFails(o, v)
      PROVE  FilesInv' /\ AgreeInv'
  <2>1. UNCHANGED <<disk, files, pendingguid, guids, guidstat, future, purpose, phase>>
    BY <1>4 DEF PutProperty, Change, ChangeNotNested, ChangeFails, Core!Write, core, status, disks
  <2>2. doc' = doc \/ \E x \in Object \cup {Properties} : \E v : doc' = [doc EXCEPT ![x] = v]
    BY <1>4 DEF PutProperty, Change, ChangeNotNested, ChangeFails, Core!Write, core
  <2>3. doc'[Guid] = doc[Guid]
    BY <2>2, <1>a, ProperFacts
  <2> QED BY <2>1, <2>3, <1>b
<1>5. ~PutGuid
  BY DEF Guided, PutGuid
<1>6. ASSUME GetGuid PROVE FilesInv' /\ AgreeInv'
  <2>1. /\ UNCHANGED <<disk, files, purpose, phase>> /\ guids' = guids + 1 /\ pendingguid' = guids'
        /\ phase' = "idle" \/ purpose' = "client"
    BY <1>6, <1>a DEF GetGuid, disks, tx, TypeInv, MethodOK
  <2> QED BY <2>1, <1>a DEF FilesInv, AgreeInv
<1>7. ASSUME NEW why \in {"save", "close"}, StartStoring(why) PROVE FilesInv' /\ AgreeInv'
  <2>1. guidstat \in {"DIRTY", "PENDING"}
    <3>1. IsOpen /\ opened = CHANGED /\ purpose = "client"
      BY <1>7, <1>a DEF StartStoring, Idle, IsOpen, TypeInv, StatusOK, MethodOK, CLOSED, UNCHANGED_, CHANGED, CLOSEERROR
    <3> QED BY <3>1, <1>a DEF GuidInv
  <2>2. UNCHANGED <<disk, files>> /\ future' = <<>>
    BY <1>7 DEF StartStoring, disks
  <2>3. doc'[Guid] = pendingguid' /\ guidstat' = "CLEAN" /\ pendingguid' \in Int
    <3>1. \A v : [doc EXCEPT ![Guid] = v][Guid] = v
      BY <1>a, ProperFacts
    <3>2. \/ pendingguid' = guids + 1 /\ doc' = [doc EXCEPT ![Guid] = guids + 1] /\ guidstat' = "CLEAN"
          \/ pendingguid' = pendingguid /\ doc' = [doc EXCEPT ![Guid] = pendingguid] /\ guidstat' = "CLEAN"
      BY <1>7, <2>1 DEF StartStoring, FixupGuid
    <3>3. ASSUME NEW v \in Int, pendingguid' = v, doc' = [doc EXCEPT ![Guid] = v]
          PROVE  doc'[Guid] = pendingguid' /\ pendingguid' \in Int
      BY <3>1, <3>3
    <3>4. guids + 1 \in Int
      BY <1>a
    <3> QED BY <3>2, <3>3, <3>4, <1>a
  <2>4. pendingguid' <= guids' /\ guids <= guids' /\ guids' \in Int /\ \A f \in files : f[Guid] < pendingguid'
    BY <1>7, <2>1, <1>a DEF StartStoring, FixupGuid, FilesInv
  <2>5. FilesInv'
    BY <2>2, <2>3, <2>4, <1>a DEF FilesInv
  <2> QED BY <2>2, <2>5, <1>a DEF AgreeInv
<1>8. ASSUME Save("save") PROVE FilesInv' /\ AgreeInv'
  <2>1. CASE StartStoring("save")
    BY <2>1, <1>7
  <2>2. CASE ~StartStoring("save")
    <3>1. /\ Idle /\ opened < CHANGED /\ StoreFor("save", doc, StatusNow)
          /\ UNCHANGED <<pendingguid, guids, phase>>
      BY <1>8, <2>2 DEF Save, tx
    <3>2. disk' = doc /\ files' = files \cup {doc} /\ guidstat' = guidstat
      BY <3>1, StoredStatus DEF Guided, StatusNow
    <3>3. doc = disk
      BY <3>1, UnchangedIsSaved
    <3>4. disk' = disk /\ files' = files
      BY <3>2, <3>3, <1>a DEF FilesInv
    <3> QED BY <3>1, <3>2, <3>4, <1>b DEF Idle
  <2> QED BY <2>1, <2>2
<1>9. ASSUME NEW abort \in BOOLEAN, Close(abort) PROVE FilesInv' /\ AgreeInv'
  <2>1. CASE StartStoring("close")
    BY <2>1, <1>7
  <2>2. CASE ~StartStoring("close")
    <3>1. /\ Idle /\ (abort \/ opened < CHANGED)
          /\ CloseFile(doc, abort) \/ CloseError(StatusNow)
          /\ UNCHANGED <<pendingguid, guids, phase>>
      BY <1>9, <2>2 DEF Close, tx
    <3>2. disk' = disk /\ files' = files
      BY <3>1, <1>a, UnchangedIsSaved DEF CloseFile, CloseError, disks, FilesInv
    <3>3. guidstat' = guidstat \/ guidstat' # "PENDING"
      BY <3>1 DEF CloseFile, CloseError, SetStatus, StatusNow
    <3> QED BY <3>1, <3>2, <3>3, <1>b DEF Idle
  <2> QED BY <2>1, <2>2
<1>10. ASSUME CommitEnds PROVE FilesInv' /\ AgreeInv'
  <2>1. /\ StoreFor(purpose, doc, StatusAfterCommit) /\ purpose \in {"client", "save", "close"}
        /\ phase = "commit" /\ phase' = "idle" /\ UNCHANGED <<pendingguid, guids>>
    BY <1>10, <1>a DEF CommitEnds, Stored, TypeInv, MethodOK, TouchInv
  <2>2. StatusAfterCommit.guidstat \in {"CLEAN", "DIRTY", guidstat}
    BY DEF StatusAfterCommit
  <2>3. CASE disk' = disk /\ files' = files
    <3>1. guidstat' \in {"CLEAN", "DIRTY", guidstat} \/ purpose # "client"
      BY <2>1, <2>2, StoredStatus DEF Guided
    <3>2. guidstat' \in {"CLEAN", "DIRTY", guidstat}
      BY <2>1, <2>2 DEF StoreFor, NotStored, SaveFile, SaveCopy, CloseFile, CloseError, SetStatus, StatusAfterCommit
    <3> QED BY <2>1, <2>3, <3>2, <1>b
  <2>4. CASE disk' = doc /\ files' = files \cup {doc} /\ purpose # "client"
    <3>1. guidstat' \in {"CLEAN", "DIRTY", guidstat}
      BY <2>1, <2>2 DEF StoreFor, NotStored, SaveFile, SaveCopy, CloseFile, CloseError, SetStatus, StatusAfterCommit
    <3>2. guidstat # "PENDING" /\ doc[Guid] <= guids /\ \A f \in files : f[Guid] < doc[Guid]
      BY <2>1, <2>4, <1>a DEF FilesInv
    <3>3. FilesInv'
      BY <2>1, <2>4, <3>1, <3>2, <1>a DEF FilesInv
    <3>4. AgreeInv'
      BY <2>4, <3>2, <1>a DEF AgreeInv
    <3> QED BY <3>3, <3>4
  <2> QED BY <2>1, <2>3, <2>4, StoredStatus DEF Guided
<1>11. ~AbortAndGoOn
  BY <1>a DEF AbortAndGoOn, FailInv
<1> QED
  BY StepCases, <1>1, <1>2, <1>3, <1>4, <1>5, <1>6, <1>8, <1>9, <1>10, <1>11 DEF Guided, Counted

LEMMA GuidStep ==
  ASSUME Guided, FileInv, [Next]_vars
  PROVE  GuidInv'
<1>a. /\ FilesInv /\ FailInv /\ GuidInv /\ TypeInv /\ TouchInv /\ CountInv
      /\ transactioncount \in Int /\ past \in Seq(Proper) /\ future \in Seq(Proper) /\ doc \in Proper
      /\ Guid \in Attr /\ Guid \notin Object /\ Guid # Properties
  BY FilesFacts DEF FileInv, StatusInv, NotifyInv
<1>b. opened' = CLOSEERROR => GuidInv'
  BY DEF GuidInv, IsOpen, CLOSED, CLOSEERROR
<1>c. opened' = CLOSED /\ future' = <<>> => GuidInv'
  BY DEF GuidInv, IsOpen
<1>d. ASSUME UNCHANGED <<opened, transactioncount, disk>>,
             purpose' = "client" => doc'[Guid] = doc[Guid] /\ purpose = "client",
             Base'[Guid] = Base[Guid],
             purpose' = "client" /\ opened = CHANGED => guidstat' = guidstat \/ guidstat' \in {"DIRTY", "PENDING"},
             guidstat' = guidstat \/ guidstat' # "MANUAL",
             future' = future \/ future' = <<>>,
             \/ past' = past \/ past' = <<>>
             \/ \E n \in Int : past' = SubSeq(past, 1, Core!Shortest(Len(past), n))
      PROVE  GuidInv'
  <2>1. ASSUME NEW i \in 1..Len(past') PROVE i \in 1..Len(past) /\ past'[i] = past[i]
    BY <1>d, <1>a DEF Core!Shortest
  <2>2. ASSUME NEW i \in 1..Len(future') PROVE i \in 1..Len(future) /\ future'[i] = future[i]
    BY <1>d, <1>a
  <2>3. CASE ~IsOpen
    BY <2>3, <1>d, <1>a DEF GuidInv, IsOpen
  <2>4. CASE IsOpen
    <3>1. purpose' = "client" /\ opened' = CHANGED => guidstat' \in {"DIRTY", "PENDING"}
      BY <2>4, <1>d, <1>a DEF GuidInv
    <3>2. guidstat' # "MANUAL"
      BY <2>4, <1>d, <1>a DEF GuidInv
    <3>3. purpose' = "client" => doc'[Guid] = disk'[Guid]
      BY <2>4, <1>d, <1>a DEF GuidInv
    <3>4. Base'[Guid] = disk'[Guid]
      BY <2>4, <1>d, <1>a DEF GuidInv
    <3>5. \A i \in 1..Len(past') : i <= transactioncount' => past'[i][Guid] = disk'[Guid]
      BY <2>4, <2>1, <1>d, <1>a DEF GuidInv
    <3>6. \A i \in 1..Len(future') : future'[i][Guid] = disk'[Guid]
      BY <2>4, <2>2, <1>d, <1>a DEF GuidInv
    <3>7. opened' = CLOSED => future' = <<>>
      BY <1>d, <1>a DEF GuidInv
    <3> QED BY <3>1, <3>2, <3>3, <3>4, <3>5, <3>6, <3>7 DEF GuidInv
  <2> QED BY <2>3, <2>4
<1>1. ASSUME NEW upgrade \in BOOLEAN, Open(upgrade) PROVE GuidInv'
  <2>1. ~upgrade
    BY <1>1 DEF Open, Guided, Counted
  <2>2. doc' = disk /\ disk' = disk /\ past' = <<>> /\ future' = <<>> /\ opened' = UNCHANGED_ /\ guidstat' = "CLEAN"
        /\ phase' = "idle"
    BY <1>1, <2>1, <1>a DEF Open, GuidInv, disks
  <2> QED BY <2>2 DEF GuidInv, Base, UNCHANGED_, CHANGED
<1>2. ASSUME NEW m, BeginTransaction(m) PROVE GuidInv'
  <2>1. /\ UNCHANGED <<opened, transactioncount, disk, doc, guidstat>> /\ Base' = Base /\ purpose = "client"
        /\ future' = future \/ future' = <<>>
        /\ past' = past \/ past' = SubSeq(past, 1, Core!Shortest(Len(past), limit - 1))
    BY <1>2, <1>a DEF BeginTransaction, Idle, Core!BeginOuter, Base, status, disks, TypeInv, MethodOK
  <2>2. limit - 1 \in Int
    BY <1>a DEF TypeInv, DocumentsOK
  <2> QED BY <2>1, <2>2, <1>d
<1>3. ASSUME \/ CommitTransaction \/ CommitStoring \/ TellTerritories \/ AddOnReturns \/ AddOnFails
             \/ GetGuid \/ (\E o \in Object : NotifyAddOn(o)) \/ UNCHANGED vars
      PROVE  GuidInv'
  <2>1. UNCHANGED <<doc, saved, past, future, opened, transactioncount, disk, purpose>>
    BY <1>3 DEF CommitTransaction, CommitStoring, StartNotify, TellTerritories, GetGuid, AddOnReturns,
         AddOnFails, NotifyAddOn, vars, core, status, disks, tx
  <2>2. (phase' = "idle") <=> (phase = "idle")
    BY <1>3, <1>a DEF CommitTransaction, CommitStoring, StartNotify, TellTerritories, GetGuid, AddOnReturns,
         AddOnFails, NotifyAddOn, vars, tx
  <2>3. guidstat' = guidstat \/ guidstat' = "PENDING"
    BY <1>3 DEF CommitTransaction, CommitStoring, StartNotify, TellTerritories, GetGuid, AddOnReturns,
         AddOnFails, NotifyAddOn, vars, status
  <2> QED BY <2>1, <2>2, <2>3, <1>d DEF Base
<1>4. ASSUME \/ \E v \in {0, 1} : PutProperty(v)
             \/ \E o \in Object, v \in {0, 1} : Change(o, v) \/ ChangeNotNested(o, v) \/ ChangeFails(o, v)
      PROVE  GuidInv'
  <2>1. UNCHANGED <<saved, past, future, opened, transactioncount, disk, phase, purpose, guidstat>>
    BY <1>4 DEF PutProperty, Change, ChangeNotNested, ChangeFails, Core!Write, core, status, disks
  <2>2. phase # "idle"
    BY <1>4, <1>a DEF PutProperty, Change, ChangeNotNested, ChangeFails, MayWrite, TypeInv, MethodOK
  <2>3. doc' = doc \/ \E x \in Object \cup {Properties} : \E v : doc' = [doc EXCEPT ![x] = v]
    BY <1>4 DEF PutProperty, Change, ChangeNotNested, ChangeFails, Core!Write, core
  <2>4. doc'[Guid] = doc[Guid]
    BY <2>3, <1>a, ProperFacts
  <2> QED BY <2>1, <2>2, <2>4, <1>d DEF Base
<1>5. ASSUME CommitReadOnly \/ AbortTransaction PROVE GuidInv'
  <2>1. /\ UNCHANGED <<past, future, opened, transactioncount, disk, guidstat>> /\ phase = "open"
        /\ phase' = "idle" /\ purpose' = "client" /\ purpose = "client"
    BY <1>5, <1>a DEF CommitReadOnly, AbortTransaction, Core!Abort, status, disks, TypeInv, MethodOK
  <2>2. doc' = saved[1].doc
    BY <1>5, <1>a DEF CommitReadOnly, AbortTransaction, Core!Abort, TouchInv
  <2>3. opened \in {UNCHANGED_, CHANGED}
    BY <2>1, <1>a DEF TypeInv, MethodOK
  <2>4. doc'[Guid] = doc[Guid]
    BY <2>1, <2>2, <2>3, <1>a DEF GuidInv, Base, IsOpen, CLOSED, CLOSEERROR, UNCHANGED_, CHANGED
  <2> QED BY <2>1, <2>2, <2>4, <1>d DEF Base
<1>6. ASSUME NEW why \in {"save", "close"}, StartStoring(why) PROVE GuidInv'
  <2>1. /\ Base' = Base /\ UNCHANGED <<opened, transactioncount, disk>> /\ purpose' # "client"
        /\ guidstat' = "CLEAN" \/ guidstat' = guidstat
        /\ future' = <<>> /\ past' = SubSeq(past, 1, Core!Shortest(Len(past), limit - 1))
    BY <1>6 DEF StartStoring, FixupGuid, Idle, Base, disks
  <2>2. limit - 1 \in Int
    BY <1>a DEF TypeInv, DocumentsOK
  <2> QED BY <2>1, <2>2, <1>d
<1>7. ASSUME Save("save") PROVE GuidInv'
  <2>1. CASE StartStoring("save")
    BY <2>1, <1>6
  <2>2. CASE ~StartStoring("save")
    <3>1. /\ Idle /\ opened < CHANGED /\ StoreFor("save", doc, StatusNow)
          /\ UNCHANGED <<doc, past, future, phase>>
      BY <1>7, <2>2 DEF Save, core, tx
    <3>2. disk' = doc /\ opened' = UNCHANGED_ /\ transactioncount' = 0 /\ guidstat' = guidstat
      BY <3>1, StoredStatus DEF Guided, StatusNow
    <3>3. doc = disk
      BY <3>1, UnchangedIsSaved
    <3>4. guidstat # "MANUAL" /\ \A i \in 1..Len(future) : future[i][Guid] = disk[Guid]
      BY <3>1, <1>a DEF GuidInv, Idle
    <3>5. \A i \in 1..Len(past') : ~(i <= transactioncount')
      BY <3>2
    <3> QED BY <3>1, <3>2, <3>3, <3>4, <3>5 DEF GuidInv, Base, Idle, UNCHANGED_, CHANGED, CLOSED
  <2> QED BY <2>1, <2>2
<1>8. ASSUME NEW abort \in BOOLEAN, Close(abort) PROVE GuidInv'
  <2>1. CASE StartStoring("close")
    BY <2>1, <1>6
  <2>2. CASE ~StartStoring("close")
    <3>1. future' = <<>> /\ (CloseFile(doc, abort) \/ CloseError(StatusNow))
      BY <1>8, <2>2 DEF Close
    <3>2. opened' = CLOSED \/ opened' = CLOSEERROR
      BY <3>1 DEF CloseFile, CloseError, SetStatus, StatusNow
    <3> QED BY <3>1, <3>2, <1>b, <1>c
  <2> QED BY <2>1, <2>2
<1>9. ASSUME FlushUndoQueue PROVE GuidInv'
  <2>1. Base' = Base /\ past' = <<>> /\ future' = <<>>
        /\ UNCHANGED <<opened, transactioncount, disk, doc, guidstat, purpose>>
    BY <1>9 DEF FlushUndoQueue, Core!FlushUndo, Idle, Base, status, disks, tx
  <2> QED BY <2>1, <1>d
<1>10. ASSUME Undo PROVE GuidInv'
  <2>1. /\ IsOpen /\ opened' # CLOSED /\ purpose = "client" /\ purpose' = "client" /\ phase = "idle" /\ phase' = "idle"
        /\ disk' = disk /\ transactioncount > 0 /\ past # <<>>
        /\ doc' = past[1] /\ past' = Tail(past) /\ future' = <<doc>> \o future
    BY <1>10, <1>a DEF Undo, Core!Undo, Idle, Guided, Counted, disks, TypeInv, MethodOK, SetStatus,
         StatusAfterUndo, StatusNow, IsOpen, UNCHANGED_, CLOSED
  <2>2. /\ transactioncount' = transactioncount - 1
        /\ \/ guidstat' = "CLEAN" /\ opened' = UNCHANGED_
           \/ guidstat' = guidstat /\ opened' = opened
    BY <1>10, <1>a DEF Undo, SetStatus, StatusAfterUndo, StatusNow
  <2>3. past[1][Guid] = disk[Guid] /\ doc[Guid] = disk[Guid]
    BY <2>1, <1>a DEF GuidInv
  <2>4. ASSUME NEW i \in 1..Len(past'), i <= transactioncount' PROVE past'[i][Guid] = disk[Guid]
    <3>1. i + 1 \in 1..Len(past) /\ past'[i] = past[i + 1] /\ i + 1 <= transactioncount
      BY <2>1, <2>2, <2>4, <1>a
    <3> QED BY <3>1, <2>1, <1>a DEF GuidInv
  <2>5. ASSUME NEW i \in 1..Len(future') PROVE future'[i][Guid] = disk[Guid]
    <3>1. CASE i = 1
      BY <2>1, <2>3, <3>1, <1>a
    <3>2. CASE i # 1
      <4>1. i - 1 \in 1..Len(future) /\ future'[i] = future[i - 1]
        BY <2>1, <3>2, <1>a
      <4> QED BY <4>1, <2>1, <1>a DEF GuidInv
    <3> QED BY <3>1, <3>2
  <2>6. guidstat' # "MANUAL" /\ (opened' = CHANGED => guidstat' \in {"DIRTY", "PENDING"})
    BY <2>1, <2>2, <1>a DEF GuidInv, UNCHANGED_, CHANGED
  <2>7. Base' = doc'
    BY <2>1 DEF Base
  <2> QED BY <2>1, <2>3, <2>4, <2>5, <2>6, <2>7 DEF GuidInv
<1>11. ASSUME NEW d, d[Guid] = disk[Guid], past' = <<d>> \o past, IsOpen
       PROVE  \A i \in 1..Len(past') : i <= transactioncount + 1 => past'[i][Guid] = disk[Guid]
  <2> SUFFICES ASSUME NEW i \in 1..Len(past'), i <= transactioncount + 1 PROVE past'[i][Guid] = disk[Guid]
    OBVIOUS
  <2>1. CASE i = 1
    BY <1>11, <2>1, <1>a
  <2>2. CASE i # 1
    <3>1. i - 1 \in 1..Len(past) /\ past'[i] = past[i - 1] /\ i - 1 <= transactioncount
      BY <1>11, <2>2, <1>a
    <3> QED BY <1>11, <3>1, <1>a DEF GuidInv
  <2> QED BY <2>1, <2>2
<1>12. ASSUME Redo PROVE GuidInv'
  <2>1. /\ IsOpen /\ purpose = "client" /\ purpose' = "client" /\ phase' = "idle"
        /\ disk' = disk /\ future # <<>> /\ transactioncount' = transactioncount + 1
        /\ doc' = future[1] /\ future' = Tail(future) /\ past' = <<doc>> \o past
        /\ opened' = CHANGED /\ guidstat' = "DIRTY"
    BY <1>12, <1>a DEF Redo, Core!Redo, Idle, disks, TypeInv, MethodOK, SetStatus
  <2>2. future[1][Guid] = disk[Guid] /\ doc[Guid] = disk[Guid]
    BY <2>1, <1>a DEF GuidInv
  <2>3. \A i \in 1..Len(past') : i <= transactioncount' => past'[i][Guid] = disk[Guid]
    BY <2>1, <2>2, <1>11
  <2>4. ASSUME NEW i \in 1..Len(future') PROVE future'[i][Guid] = disk[Guid]
    <3>1. i + 1 \in 1..Len(future) /\ future'[i] = future[i + 1]
      BY <2>1, <1>a
    <3> QED BY <3>1, <2>1, <1>a DEF GuidInv
  <2>5. Base' = doc' /\ opened' # CLOSED
    BY <2>1 DEF Base, CLOSED, CHANGED
  <2> QED BY <2>1, <2>2, <2>3, <2>4, <2>5 DEF GuidInv
<1>13. ASSUME CommitEnds PROVE GuidInv'
  <2>1. /\ StoreFor(purpose, doc, StatusAfterCommit) /\ purpose \in {"client", "save", "close"}
        /\ phase = "commit" /\ phase' = "idle" /\ doc' = doc /\ purpose' = "client"
        /\ opened \in {UNCHANGED_, CHANGED}
    BY <1>13, <1>a DEF CommitEnds, CoreCommits, Stored, TypeInv, MethodOK, TouchInv
  <2>2. StatusAfterCommit.guidstat \in {"CLEAN", "DIRTY", guidstat} /\ IsOpen
    BY <2>1 DEF StatusAfterCommit, IsOpen, UNCHANGED_, CHANGED, CLOSED, CLOSEERROR
  <2>3. CASE purpose = "client"
    <3>1. /\ disk' = disk /\ opened' = StatusAfterCommit.opened /\ guidstat' = StatusAfterCommit.guidstat
          /\ transactioncount' = StatusAfterCommit.count
      BY <2>1, <2>3, StoredStatus DEF Guided
    <3>2. future' = future /\ (past' = past \/ past' = <<saved[1].doc>> \o past)
      BY <1>13, <2>3 DEF CommitEnds, CoreCommits
    <3>3. /\ opened' # CLOSED /\ guidstat' # "MANUAL"
          /\ opened' = CHANGED => guidstat' \in {"DIRTY", "PENDING"}
      BY <2>1, <2>2, <2>3, <3>1, <1>a DEF StatusAfterCommit, GuidInv, UNCHANGED_, CHANGED, CLOSED
    <3>4. doc[Guid] = disk[Guid] /\ saved[1].doc[Guid] = disk[Guid]
      BY <2>1, <2>2, <2>3, <1>a DEF GuidInv, Base
    <3>5. transactioncount' = transactioncount \/ transactioncount' = transactioncount + 1
      BY <3>1 DEF StatusAfterCommit
    <3>6. past' = past => transactioncount' = transactioncount
      <4>1. ~touched => ~notifyqueueprocessed
        BY <2>1, <1>a DEF TouchInv, TypeInv, MethodOK
      <4>2. touched => past' # past
        BY <1>13, <2>3, <1>a DEF CommitEnds, CoreCommits
      <4> QED BY <4>1, <4>2, <3>1 DEF StatusAfterCommit
    <3>7. \A i \in 1..Len(past') : i <= transactioncount' => past'[i][Guid] = disk[Guid]
      <4>1. CASE past' = past
        BY <4>1, <3>6, <2>2, <1>a DEF GuidInv
      <4>2. CASE past' = <<saved[1].doc>> \o past
        <5>1. \A i \in 1..Len(past') : i <= transactioncount + 1 => past'[i][Guid] = disk[Guid]
          BY <4>2, <3>4, <2>2, <1>11
        <5>2. Len(past') \in Nat
          BY <4>2, <2>3, <1>a
        <5> QED BY <5>1, <5>2, <3>1, <3>5, <1>a
      <4> QED BY <4>1, <4>2, <3>2
    <3>8. \A i \in 1..Len(future') : future'[i][Guid] = disk[Guid]
      BY <3>2, <2>2, <1>a DEF GuidInv
    <3> QED BY <2>1, <3>1, <3>3, <3>4, <3>7, <3>8 DEF GuidInv, Base
  <2>4. CASE purpose = "save"
    <3>1. /\ disk' = doc /\ opened' = UNCHANGED_ /\ transactioncount' = 0
          /\ guidstat' = StatusAfterCommit.guidstat
      BY <2>1, <2>4, StoredStatus DEF Guided, StatusAfterCommit
    <3>2. future' = <<>>
      BY <1>13, <2>1, <2>4, <1>a DEF CommitEnds, CoreCommits, FilesInv
    <3>3. guidstat' # "MANUAL"
      BY <2>2, <3>1, <1>a DEF GuidInv
    <3>4. \A i \in 1..Len(past') : ~(i <= transactioncount')
      BY <3>1
    <3> QED BY <2>1, <3>1, <3>2, <3>3, <3>4 DEF GuidInv, Base, UNCHANGED_, CHANGED
  <2>5. CASE purpose = "close"
    <3>1. future' = <<>>
      BY <1>13, <2>5 DEF CommitEnds, CoreCommits
    <3>2. opened' = CLOSED \/ opened' = CLOSEERROR
      BY <2>1, <2>5 DEF StoreFor, CloseFile, CloseError, SetStatus, StatusAfterCommit
    <3> QED BY <3>1, <3>2, <1>b, <1>c
  <2> QED BY <2>1, <2>3, <2>4, <2>5
<1>14. ~AbortAndGoOn /\ ~PutGuid
  BY <1>a DEF AbortAndGoOn, FailInv, Guided, PutGuid
<1> QED
  BY StepCases, <1>1, <1>2, <1>3, <1>4, <1>5, <1>7, <1>8, <1>9, <1>10, <1>12, <1>13, <1>14
     DEF Guided, Counted

LEMMA FileInit ==
  Init => FileInv
<1> SUFFICES ASSUME Init PROVE FileInv
  OBVIOUS
<1>1. doc[Guid] = 0 /\ disk = doc /\ files = {doc} /\ pendingguid = 0 /\ guids = 0
  BY DEF Init
<1>2. FilesInv
  BY <1>1 DEF Init, FilesInv
<1>3. FailInv
  BY DEF Init, FailInv
<1>4. GuidInv
  BY <1>1 DEF Init, GuidInv, IsOpen
<1>5. AgreeInv
  BY <1>1 DEF AgreeInv
<1> QED BY <1>2, <1>3, <1>4, <1>5, StatusInit DEF FileInv

LEMMA FileInvariant ==
  ASSUME Guided PROVE Spec => []FileInv
<1>1. Init => FileInv
  BY FileInit
<1>2. FileInv /\ [Next]_vars => FileInv'
  BY StatusStepOK, FailStep, FilesStep, GuidStep DEF FileInv, Guided
<1> QED BY <1>1, <1>2, PTL DEF Spec

\* Two files with the same GUID are the same document, for any number of
\* saves between any number of changes, undos and redos.
THEOREM GuidsAreTrue ==
  ASSUME Guided PROVE Spec => []GuidTellsContent
<1>1. FileInv => GuidTellsContent
  BY DEF FileInv, AgreeInv, GuidTellsContent
<1> QED BY <1>1, FileInvariant, PTL
=============================================================================
