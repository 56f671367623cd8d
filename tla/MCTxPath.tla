------------------------------ MODULE MCTxPath ------------------------------
(* Small instances of TxPath for TLC.                                      *)
EXTENDS TxPath, TLC

MCSymmetry == Permutations(Netifs)
=============================================================================
