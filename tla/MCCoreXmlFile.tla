--------------------------- MODULE MCCoreXmlFile ---------------------------
(***************************************************************************)
(* Small instances of CoreXmlFile for TLC.                                 *)
(***************************************************************************)
EXTENDS CoreXmlFileProps, TLC

\* Users play the same part.
Symmetry == Permutations(User)
=============================================================================
