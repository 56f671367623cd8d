---------------------------- MODULE MCTmuCredit ----------------------------
(* Small instances of TmuCredit for TLC.                                   *)
EXTENDS TmuCredit
=============================================================================
