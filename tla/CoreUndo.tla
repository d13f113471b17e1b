------------------------------ MODULE CoreUndo ------------------------------
(***************************************************************************)
(* What the Core promises its clients about transactions and undo, with    *)
(* nothing of how it is done: a document, a stack of documents to return   *)
(* to when a transaction is aborted, the documents that can be brought     *)
(* back by undo and the ones that can be brought back by redo.             *)
(*                                                                         *)
(* CCoreProject keeps none of these documents.  CoreTransactions is the    *)
(* representation it does keep (one ring of values per attribute and a     *)
(* list of touched attributes per step) and is checked to implement this   *)
(* module.                                                                 *)
(***************************************************************************)
EXTENDS Integers, Sequences

CONSTANTS
  Attr,       \* the attributes of the document
  Value       \* what an attribute can hold

Document == [Attr -> Value]

VARIABLES
  doc,        \* the document a client reads now
  saved,      \* one record per open transaction, innermost first
  past,       \* documents undo returns to, most recent first
  future,     \* documents redo returns to, next redo first
  limit       \* how many steps are kept for undo

vars == <<doc, saved, past, future, limit>>

SavedLevel == [doc : Document, readonly : BOOLEAN]

InTransaction == saved # <<>>
Writing == InTransaction /\ ~saved[1].readonly

Shortest(m, n) == IF m <= n THEN m ELSE n

Init ==
  /\ doc \in Document
  /\ saved = <<>>
  /\ past = <<>>
  /\ future = <<>>
  /\ limit \in Nat \ {0}

\* A writer that begins gives up the redo steps and the oldest undo steps.
BeginOuter(readonly) ==
  /\ ~InTransaction
  /\ saved' = <<[doc |-> doc, readonly |-> readonly]>>
  /\ IF readonly
       THEN UNCHANGED <<past, future>>
       ELSE /\ future' = <<>>
            /\ past' = SubSeq(past, 1, Shortest(Len(past), limit - 1))
  /\ UNCHANGED <<doc, limit>>

\* Inside a read-only transaction only read-only ones can be opened.
BeginNested(readonly) ==
  /\ InTransaction
  /\ saved[1].readonly => readonly
  /\ saved' = <<[doc |-> doc, readonly |-> readonly]>> \o saved
  /\ UNCHANGED <<doc, past, future, limit>>

Write(a, v) ==
  /\ Writing
  /\ doc' = [doc EXCEPT ![a] = v]
  /\ UNCHANGED <<saved, past, future, limit>>

CommitNested ==
  /\ Len(saved) >= 2
  /\ saved' = Tail(saved)
  /\ UNCHANGED <<doc, past, future, limit>>

\* A step for undo is recorded whenever the document has changed.
CommitOuter ==
  /\ Len(saved) = 1
  /\ saved' = <<>>
  /\ \/ past' = <<saved[1].doc>> \o past
     \/ doc = saved[1].doc /\ UNCHANGED past
  /\ UNCHANGED <<doc, future, limit>>

Abort ==
  /\ InTransaction
  /\ doc' = saved[1].doc
  /\ saved' = Tail(saved)
  /\ UNCHANGED <<past, future, limit>>

Undo ==
  /\ ~InTransaction
  /\ past # <<>>
  /\ doc' = past[1]
  /\ past' = Tail(past)
  /\ future' = <<doc>> \o future
  /\ UNCHANGED <<saved, limit>>

Redo ==
  /\ ~InTransaction
  /\ future # <<>>
  /\ doc' = future[1]
  /\ future' = Tail(future)
  /\ past' = <<doc>> \o past
  /\ UNCHANGED <<saved, limit>>

FlushUndo ==
  /\ ~InTransaction
  /\ past' = <<>>
  /\ future' = <<>>
  /\ UNCHANGED <<doc, saved, limit>>

FlushRedo ==
  /\ ~InTransaction
  /\ future' = <<>>
  /\ UNCHANGED <<doc, saved, past, limit>>

\* Closing aborts whatever is open and forgets every step.
Close ==
  /\ doc' = IF InTransaction THEN saved[Len(saved)].doc ELSE doc
  /\ saved' = <<>>
  /\ past' = <<>>
  /\ future' = <<>>
  /\ UNCHANGED limit

SetLimit ==
  /\ limit' \in Nat \ {0}
  /\ UNCHANGED <<doc, saved, past, future>>

Next ==
  \/ \E readonly \in BOOLEAN : BeginOuter(readonly) \/ BeginNested(readonly)
  \/ \E a \in Attr, v \in Value : Write(a, v)
  \/ CommitNested
  \/ CommitOuter
  \/ Abort
  \/ Undo
  \/ Redo
  \/ FlushUndo
  \/ FlushRedo
  \/ Close
  \/ SetLimit

Spec == Init /\ [][Next]_vars
=============================================================================
