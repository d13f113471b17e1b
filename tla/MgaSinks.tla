------------------------------ MODULE MgaSinks ------------------------------
(***************************************************************************)
(* Add-ons and territories while CMgaProject notifies them                 *)
(* (GME/Mga/MgaProject.cpp, MgaTerritory.cpp, MgaFCO.cpp): both are kept   *)
(* in std::lists without references, and the loops that call their         *)
(* handlers go over these lists with iterators while a handler may create  *)
(* and destroy sinks, release the last reference to one, or set a property *)
(* of the project, which is a notification of its own.                     *)
(*                                                                         *)
(* A step is one round of a loop up to the call of a handler, one thing    *)
(* that a handler or a client does, or the return of a handler.  All event *)
(* masks are the default ones.  One object stands for those that change;   *)
(* handlers for writing (rwhandler) and the older PreNotify are left out.  *)
(***************************************************************************)
EXTENDS Integers, Sequences, FiniteSets, Functions

CONSTANTS
  AddOn, Territory,  \* bounds: the sinks that may be there at a time
  None,              \* no sink
  End,               \* the end of a list
  MaxDepth,          \* bound: notifications inside of one another
  Considerate,       \* whether handlers leave the loops alone, see Spares
  Failures           \* whether add-ons fail

ASSUME SinksAssumption ==
  AddOn \cap Territory = {} /\ None \notin AddOn \cup Territory /\ End \notin AddOn \cup Territory
ASSUME BoundsAssumption == MaxDepth \in Nat \ {0} /\ Considerate \in BOOLEAN /\ Failures \in BOOLEAN

Sink == AddOn \cup Territory

VARIABLES
  alladdons, allterrs,   \* the lists, newest first
  handled,               \* territories with a handler
  dropped,               \* sinks that no client has a reference to
  notified,              \* their flags of this name
  holders,               \* territories with an interface of the object (pubfcos)
  reserveterr, baseterr, activeterr,
  calls,                 \* the notifications that run, innermost first
  agenda                 \* what the method that ends the transaction has to do

lists == <<alladdons, allterrs, handled, dropped, reserveterr>>
vars == <<lists, notified, holders, baseterr, activeterr, calls, agenda>>

Init ==
  /\ alladdons = <<>> /\ allterrs = <<>> /\ handled = {} /\ dropped = {}
  /\ notified = {} /\ holders = {}
  /\ reserveterr = None /\ baseterr = None /\ activeterr = None
  /\ calls = <<>> /\ agenda = <<>>

-----------------------------------------------------------------------------
(* Iterators *)

First(list) == IF list = <<>> THEN End ELSE Head(list)

After(list, s) ==
  LET n == CHOOSE i \in DOMAIN list : list[i] = s
  IN  IF n = Len(list) THEN End ELSE list[n + 1]

\* The list without the elements in S: the k-th one is where k are kept.
Without(list, S) ==
  LET kept == {i \in DOMAIN list : list[i] \notin S}
      place(k) == CHOOSE i \in kept : Cardinality({j \in kept : j <= i}) = k
  IN  [k \in 1..Cardinality(kept) |-> list[place(k)]]

Frame == Head(calls)
Running == IF calls = <<>> THEN None ELSE Frame.running
InCall(call) == <<call>> \o Tail(calls)

\* The collection a loop goes over.
Walked(call) ==
  IF call.phase = "addons" THEN Range(alladdons)
  ELSE IF call.event = "object" THEN holders ELSE Range(allterrs)

-----------------------------------------------------------------------------
(* What is destroyed *)

\* What has a reference to a sink besides its clients, when the reserve
\* territory, the active one, the interfaces and the calls are these.
Held(s, reserve, active, interfaces, called) ==
  \/ s \in {reserve, baseterr, active} \cup interfaces
  \/ \E i \in DOMAIN called :
       called[i].running = s /\ (s \in AddOn \/ called[i].event = "object")

\* mutant: any add-on takes the reserve territory with it
AnyReserve(S) == IF S \cap AddOn # {} THEN None ELSE reserveterr

\* The reserve territory goes with the last add-on.
Reserve(S) == IF Without(alladdons, S) = <<>> THEN None ELSE reserveterr

\* The sinks that are destroyed when those in S are, and the clients have no
\* reference to those in orphans: a sink without references destroys itself.
Gone(S, orphans, active, interfaces, called) ==
  LET G == S \cup {a \in orphans \cap AddOn : ~Held(a, None, active, interfaces, called)}
  IN  G \cup {t \in orphans \ AddOn : ~Held(t, Reserve(G), active, interfaces, called)}

\* They leave the lists; told are the sinks that are marked as notified, which
\* for those that have gone already means nothing.
Erase(G, orphans, told) ==
  /\ alladdons' = Without(alladdons, G) /\ allterrs' = Without(allterrs, G)
  /\ handled' = handled \ G /\ dropped' = orphans \ G
  /\ notified' = told \cap (Range(alladdons') \cup Range(allterrs'))
  /\ reserveterr' = Reserve(G)

\* A sink that nothing knows of any more can be another one next time.
Free(s) ==
  /\ s \notin Range(alladdons) \cup Range(allterrs) \cup holders
  /\ s \notin {reserveterr, baseterr, activeterr}
  /\ \A i \in DOMAIN calls :
       s \notin {calls[i].next, calls[i].running, calls[i].terr} \cup calls[i].start

-----------------------------------------------------------------------------
(* What clients and handlers do *)

\* Clients act while no method runs, and handlers while they are called.
MayAct == Running # None \/ (calls = <<>> /\ agenda = <<>>)

\* While add-ons are called a considerate handler destroys no add-on but its
\* own, and while all territories are called none that is being called.
Spares(s) ==
  Considerate => \A i \in DOMAIN calls :
    /\ calls[i].phase = "addons" /\ s \in AddOn => s = Running
    /\ calls[i].event # "object" => s \notin {calls[i].running} \cap Territory

\* CreateTerritory
CreateTerritory(t, handler) ==
  /\ MayAct /\ Free(t)
  /\ allterrs' = <<t>> \o allterrs
  /\ handled' = IF handler THEN handled \cup {t} ELSE handled
  /\ UNCHANGED <<alladdons, dropped, notified, reserveterr, holders, baseterr, activeterr,
                 calls, agenda>>

\* CreateAddOn; the first one comes with the reserve territory r.
CreateAddOn(a, r) ==
  /\ MayAct /\ Free(a)
  /\ alladdons' = <<a>> \o alladdons
  /\ \/ reserveterr = r /\ UNCHANGED <<allterrs, dropped, reserveterr>>
     \/ /\ reserveterr = None /\ Free(r)
        /\ allterrs' = <<r>> \o allterrs
        /\ dropped' = dropped \cup {r} /\ reserveterr' = r
  /\ UNCHANGED <<handled, notified, holders, baseterr, activeterr, calls, agenda>>

\* CMgaAddOn::Destroy, CMgaTerritory::Destroy
Destroy(s) ==
  /\ MayAct /\ s \in (Range(alladdons) \cup Range(allterrs)) \ dropped /\ Spares(s)
  /\ Erase(Gone({s}, dropped, activeterr, holders, calls), dropped, notified)
  /\ UNCHANGED <<holders, baseterr, activeterr, calls, agenda>>

\* The last reference of a client is released.
Drop(s) ==
  /\ MayAct /\ s \in (Range(alladdons) \cup Range(allterrs)) \ dropped /\ Spares(s)
  /\ LET orphans == dropped \cup {s}
     IN  Erase(Gone({}, orphans, activeterr, holders, calls), orphans, notified)
  /\ UNCHANGED <<holders, baseterr, activeterr, calls, agenda>>

\* OpenObj: the territory gets an interface of the object.
OpenObject(t) ==
  /\ MayAct /\ baseterr # None /\ t \in Range(allterrs) \ (dropped \cup holders)
  /\ holders' = holders \cup {t}
  /\ UNCHANGED <<lists, notified, baseterr, activeterr, calls, agenda>>

\* The interface is released; considerate handlers release only their own
\* while the holders are called.
CloseObject(t) ==
  /\ MayAct /\ t \in holders /\ (t \in dropped => Spares(t))
  /\ Considerate => \A i \in DOMAIN calls :
       calls[i].phase = "territories" /\ calls[i].event = "object" => t = Running
  /\ holders' = holders \ {t}
  /\ Erase(Gone({}, dropped, activeterr, holders', calls), dropped, notified)
  /\ UNCHANGED <<baseterr, activeterr, calls, agenda>>

-----------------------------------------------------------------------------
(* Transactions *)

BeginTransaction(t) ==
  /\ calls = <<>> /\ agenda = <<>> /\ baseterr = None
  /\ t \in Range(allterrs) \ dropped
  /\ baseterr' = t /\ activeterr' = t
  /\ UNCHANGED <<lists, notified, holders, calls, agenda>>

\* CommitTransaction announces the objects that have changed, that this was
\* all, and the commit; nothing if it was for reading only.
CommitTransaction(changed, write) ==
  /\ calls = <<>> /\ agenda = <<>> /\ baseterr # None
  /\ agenda' = (IF changed /\ write THEN <<"object">> ELSE <<>>)
               \o (IF write THEN <<"ready", "commit">> ELSE <<>>) \o <<"end">>
  /\ UNCHANGED <<lists, notified, holders, baseterr, activeterr, calls>>

\* AbortTransaction announces the abort in a transaction of its own, in a new
\* territory.
AbortTransaction(t) ==
  /\ calls = <<>> /\ agenda = <<>> /\ baseterr # None /\ Free(t)
  /\ baseterr' = t /\ activeterr' = t
  /\ LET G == {s \in dropped : s \notin holders \cup {reserveterr}}
     IN  /\ allterrs' = <<t>> \o Without(allterrs, G)
         /\ handled' = handled \ G /\ notified' = notified \ G
         /\ dropped' = (dropped \ G) \cup {t}
  /\ agenda' = <<"abort", "end">>
  /\ UNCHANGED <<alladdons, reserveterr, holders, calls>>

EndTransaction ==
  /\ calls = <<>> /\ agenda = <<"end">>
  /\ baseterr' = None /\ activeterr' = None /\ agenda' = <<>>
  /\ LET G == {s \in dropped : s \notin holders \cup {reserveterr}}
     IN  Erase(G, dropped, notified)
  /\ UNCHANGED <<holders, calls>>

-----------------------------------------------------------------------------
(* GlobalNotify, and objrwnotify followed by objnotify for the object *)

\* The loop over the add-ons begins, with pushterr if there are any, which
\* releases the territory that was active before.
Notify(event) ==
  /\ calls' = <<[event |-> event, phase |-> "addons", next |-> First(alladdons),
                 running |-> None, terr |-> IF alladdons = <<>> THEN None ELSE reserveterr,
                 start |-> Range(alladdons), reached |-> {}]>> \o calls
  /\ activeterr' = IF alladdons = <<>> THEN activeterr ELSE reserveterr
  /\ Erase(Gone({}, dropped, activeterr', holders, calls'), dropped, notified)
  /\ UNCHANGED <<holders, baseterr>>

Announce ==
  /\ calls = <<>> /\ agenda \notin {<<>>, <<"end">>}
  /\ Notify(Head(agenda)) /\ agenda' = Tail(agenda)

\* put_Author and the like, from a client or a handler.
PutProperty ==
  /\ MayAct /\ baseterr # None
  /\ calls # <<>> => Frame.event # "abort"
  /\ Len(calls) < MaxDepth
  /\ Notify("properties") /\ UNCHANGED agenda

\* The iterator moves on, to what the list has in the end.
Passed(list) == [Frame EXCEPT !.next = After(list, @), !.reached = @ \cup {Frame.next}]

InLoop(phase) ==
  /\ calls # <<>> /\ Frame.phase = phase /\ Frame.running = None
  /\ Frame.next \in Walked(Frame)

\* mutant: the iterator stays at the add-on that is called
Standing(call) == [call EXCEPT !.next = Frame.next]

\* The iterator is moved on before the add-on is called.
Called(call) == call

\* An add-on is called, but not at the end if it has not been notified.
CallAddOn ==
  /\ InLoop("addons")
  /\ LET call == Passed(alladdons)
     IN  calls' = InCall(IF Frame.event = "ready" /\ Frame.next \notin notified THEN call
                         ELSE Called([call EXCEPT !.running = Frame.next]))
  /\ UNCHANGED <<lists, notified, holders, baseterr, activeterr, agenda>>

AddOnReturns ==
  /\ Running \in AddOn
  /\ calls' = InCall([Frame EXCEPT !.running = None])
  /\ Erase(Gone({}, dropped, activeterr, holders, calls'), dropped,
            IF Frame.event = "object" THEN notified \cup {Running} ELSE notified)
  /\ UNCHANGED <<holders, baseterr, activeterr, agenda>>

\* An add-on that fails when it is told of an object ends CommitTransaction,
\* without popterr.
AddOnFails ==
  /\ Failures /\ Len(calls) = 1 /\ Frame.event = "object" /\ Running \in AddOn
  /\ calls' = <<>> /\ agenda' = <<>>
  /\ Erase(Gone({}, dropped, activeterr, holders, <<>>), dropped, notified)
  /\ UNCHANGED <<holders, baseterr, activeterr>>

\* Where a loop over the holders of the object may stand next.
NextHolder(S) == IF S = {} THEN {End} ELSE S

\* popterr after the add-ons, and the loop over the territories.
AddOnsDone ==
  /\ calls # <<>> /\ Frame.phase = "addons" /\ Frame.next = End /\ Frame.running = None
  /\ activeterr' = IF Frame.terr = None THEN activeterr ELSE baseterr
  /\ LET G == Gone({}, dropped, activeterr', holders, calls)
         terrs == Without(allterrs, G)
         object == Frame.event = "object"
     IN  /\ \E n \in IF object THEN NextHolder(holders) ELSE {First(terrs)} :
              calls' = InCall([Frame EXCEPT !.phase = "territories", !.next = n, !.terr = None,
                                            !.start = IF object THEN holders ELSE Range(terrs),
                                            !.reached = {}])
         /\ Erase(G, dropped, notified)
  /\ UNCHANGED <<holders, baseterr, agenda>>

CallTerritory ==
  /\ InLoop("territories") /\ Frame.event # "object"
  /\ LET t == Frame.next
         skip == Frame.event = "ready" /\ t \notin notified
     IN  /\ \/ /\ skip \/ t \notin handled
               /\ calls' = InCall(Passed(allterrs)) /\ UNCHANGED activeterr
            \/ /\ ~skip /\ t \in handled
               /\ calls' = InCall([Frame EXCEPT !.running = t, !.terr = t])
               /\ activeterr' = t
         /\ Erase(Gone({}, dropped, activeterr', holders, calls'), dropped,
                  IF skip THEN notified ELSE notified \ {t})
  /\ UNCHANGED <<holders, baseterr, agenda>>

\* The iterator is moved on after the handler has returned; one that is no
\* longer in the list cannot be.
TerritoryReturns ==
  /\ Running \in Territory /\ Frame.event # "object"
  /\ activeterr' = baseterr
  /\ LET left == [Frame EXCEPT !.running = None, !.terr = None]
         G == Gone({}, dropped, baseterr, holders, InCall(left))
         terrs == Without(allterrs, G)
     IN  /\ calls' = InCall(IF Running \in Range(terrs)
                              THEN [Passed(terrs) EXCEPT !.running = None, !.terr = None] ELSE left)
         /\ Erase(G, dropped, notified)
  /\ UNCHANGED <<holders, baseterr, agenda>>

CallHolder ==
  /\ InLoop("territories") /\ Frame.event = "object"
  /\ LET t == Frame.next
         reached == Frame.reached \cup {t}
         terr == IF t \in handled THEN t ELSE None
     IN  /\ \E n \in NextHolder((holders \cap Frame.start) \ reached) :
              calls' = InCall([Frame EXCEPT !.next = n, !.reached = reached,
                                            !.running = terr, !.terr = terr])
         /\ activeterr' = IF terr = None THEN activeterr ELSE t
  /\ Erase(Gone({}, dropped, activeterr', holders, calls'), dropped, notified)
  /\ UNCHANGED <<holders, baseterr, agenda>>

HolderReturns ==
  /\ Running \in Territory /\ Frame.event = "object"
  /\ activeterr' = baseterr
  /\ calls' = InCall([Frame EXCEPT !.running = None, !.terr = None])
  /\ Erase(Gone({}, dropped, baseterr, holders, calls'), dropped, notified \cup {Running})
  /\ UNCHANGED <<holders, baseterr, agenda>>

Notified ==
  /\ calls # <<>> /\ Frame.phase = "territories" /\ Frame.next = End /\ Frame.running = None
  /\ calls' = Tail(calls)
  /\ UNCHANGED <<lists, notified, holders, baseterr, activeterr, agenda>>

-----------------------------------------------------------------------------

Next ==
  \/ \E t \in Territory :
       \/ \E handler \in BOOLEAN : CreateTerritory(t, handler)
       \/ \E a \in AddOn : CreateAddOn(a, t)
       \/ OpenObject(t) \/ CloseObject(t)
       \/ BeginTransaction(t) \/ AbortTransaction(t)
  \/ \E s \in Sink : Destroy(s) \/ Drop(s)
  \/ \E changed, write \in BOOLEAN : CommitTransaction(changed, write)
  \/ Announce \/ PutProperty \/ EndTransaction
  \/ CallAddOn \/ AddOnReturns \/ AddOnFails \/ AddOnsDone
  \/ CallTerritory \/ TerritoryReturns \/ CallHolder \/ HolderReturns \/ Notified

Spec == Init /\ [][Next]_vars
=============================================================================
