---------------------------- MODULE MCCoreObjects ----------------------------
(***************************************************************************)
(* The root and two objects with one pointer each, which can point to      *)
(* themselves, to each other and to the root.                              *)
(***************************************************************************)
EXTENDS CoreObjectsProps, TLC

CONSTANTS root, x, y, p, null

MCObject == {root, x, y}

ObjectSymmetry == Permutations({x, y})
=============================================================================
