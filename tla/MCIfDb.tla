------------------------------- MODULE MCIfDb -------------------------------
(* Small instances of IfDb for TLC.                                        *)
EXTENDS IfDb

CONSTANTS h1, h2, t1, t2, c1, c2, i1, i2

\* Threads of one slave driver, which is named by its host interface, HIF1.
MCSlaveOf == [t \in Threads |-> 7]
=============================================================================
