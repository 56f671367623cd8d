------------------------------ MODULE MCHifIrq ------------------------------
(* Small instances of HifIrq for TLC.                                      *)
EXTENDS HifIrq, TLC

MCSymmetry == Permutations(Cpus)
=============================================================================
