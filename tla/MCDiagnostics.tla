--------------------------- MODULE MCDiagnostics ---------------------------
(***************************************************************************)
(* Small instances of Diagnostics.                                         *)
(***************************************************************************)
EXTENDS Diagnostics, TLC

ScopeSymmetry == Permutations(Scopes)
=============================================================================
