----------------------------- MODULE MCHifRing -----------------------------
(* Small instances of HifRing for TLC.                                     *)
EXTENDS HifRing, TLC

CONSTANTS b1, b2, b3, b4, b5

MCSymmetry == Permutations(Bufs)
=============================================================================
