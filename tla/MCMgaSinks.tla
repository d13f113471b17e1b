------------------------------ MODULE MCMgaSinks ------------------------------
(***************************************************************************)
(* Small instances of MgaSinks for TLC.                                    *)
(***************************************************************************)
EXTENDS MgaSinksProps, TLC

\* Add-ons play the same part, and so do territories.
Symmetry == Permutations(AddOn) \cup Permutations(Territory)
=============================================================================
