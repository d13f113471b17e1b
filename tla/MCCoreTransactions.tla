------------------------- MODULE MCCoreTransactions -------------------------
(***************************************************************************)
(* Two objects, one with two attributes, so that attributes share a lock   *)
(* and are loaded and unloaded together, and one with a single attribute.  *)
(***************************************************************************)
EXTENDS CoreTransactionsProps, TLC

CONSTANTS o1, o2, a, b, c, v0, v1

MCObject == {o1, o2}
MCAttr == {a, b, c}
MCOwner == [x \in MCAttr |-> IF x = c THEN o2 ELSE o1]
MCValue == {v0, v1}

\* The smaller instance: two attributes of one object
MCTwoAttr == {a, b}
MCTwoOwner == [x \in MCTwoAttr |-> o1]

ValueSymmetry == Permutations(MCValue)
=============================================================================
