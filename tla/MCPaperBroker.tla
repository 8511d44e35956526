---------------------------- MODULE MCPaperBroker ----------------------------
(* Small instances of PaperBroker.                                         *)
EXTENDS PaperBroker, TLC

MintSymmetry == Permutations(Mints)
=============================================================================
