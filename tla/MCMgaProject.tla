---------------------------- MODULE MCMgaProject ----------------------------
(***************************************************************************)
(* Small projects: the FCOs are one or two model values.                   *)
(***************************************************************************)
EXTENDS MgaProjectProps, TLC

CONSTANTS a, b

OneObject == {a}
TwoObjects == {a, b}
ObjectSymmetry == Permutations({a, b})

\* No action reads files; a property that does not either needs no difference
\* between states that differ there only.
WithoutFiles == <<core, status, tx, round, queues, views, disk>>
=============================================================================
