------------------------- MODULE MCIntegrityWindow -------------------------
(***************************************************************************)
(* Small instances of IntegrityWindow.                                     *)
(***************************************************************************)
EXTENDS IntegrityWindow, TLC

MintSymmetry == Permutations(Mints)
=============================================================================
