------------------------------- MODULE MCHwTs -------------------------------
(* Small instances of HwTs for TLC.                                        *)
EXTENDS HwTs
=============================================================================
