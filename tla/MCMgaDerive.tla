---------------------------- MODULE MCMgaDerive ----------------------------
(***************************************************************************)
(* Relative ids are not told apart but for what they say of the object, so *)
(* that they can be as many as there are in the code.                      *)
(***************************************************************************)
EXTENDS MgaDeriveProps

CONSTANTS none, failed

WithoutIds ==
  <<created, [o \in FCOs(fco) |->
     <<fco[o].kind, fco[o].parent, fco[o].derived, fco[o].master, fco[o].referred,
       fco[o].relid >= RelIdSpace, fco[o].instance>>]>>
=============================================================================
