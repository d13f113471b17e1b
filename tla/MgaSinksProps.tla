---------------------------- MODULE MgaSinksProps ----------------------------
(***************************************************************************)
(* What add-ons, territories and their clients rely on while they are      *)
(* notified.                                                               *)
(***************************************************************************)
EXTENDS MgaSinks

Events == {"object", "ready", "commit", "abort", "properties"}

Call == [event : Events, phase : {"addons", "territories"}, next : Sink \cup {End},
         running : Sink \cup {None}, terr : Territory \cup {None},
         start : SUBSET Sink, reached : SUBSET Sink]

\* The type of every variable of MgaSinks.  There is a reserve territory as
\* long as there are add-ons, which GlobalNotify dereferences without a check.
TypeOK ==
  /\ Range(alladdons) \subseteq AddOn /\ Range(allterrs) \subseteq Territory
  /\ IsInjective(alladdons) /\ IsInjective(allterrs)
  /\ handled \subseteq Range(allterrs) /\ holders \subseteq Territory
  /\ dropped \cup notified \subseteq Range(alladdons) \cup Range(allterrs)
  /\ {baseterr, activeterr} \subseteq Territory \cup {None}
  /\ IF alladdons = <<>> THEN reserveterr = None ELSE reserveterr \in Range(allterrs)
  /\ Range(calls) \subseteq Call /\ Len(calls) <= MaxDepth
  /\ Range(agenda) \subseteq Events \cup {"end"}

\* "The addon may Destroy() itself or release a reference while being
\* notified" (MgaProject.cpp, GlobalNotify): the iterator of every loop is at
\* a member of the list it goes over or at its end, whatever is destroyed.
WalksStandOnMembers == \A i \in DOMAIN calls : calls[i].next \in Walked(calls[i]) \cup {End}

\* Every loop comes once, and not again, to each sink that is there from its
\* beginning to its end ("other addons are expected to remain in the list").
EachToldOnce ==
  \A i \in DOMAIN calls :
    LET call == calls[i]
    IN  /\ call.next \notin call.reached
        /\ call.next = End => (call.start \cap Walked(call)) \subseteq call.reached
=============================================================================
