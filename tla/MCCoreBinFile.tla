---------------------------- MODULE MCCoreBinFile ----------------------------
(***************************************************************************)
(* Two files, the root and two objects.                                    *)
(***************************************************************************)
EXTENDS CoreBinFileProps, TLC

CONSTANTS none, absent, torn, a, b

MCValue == 0..1
MCName == {a, b}

NameSymmetry == Permutations(MCName)
=============================================================================
