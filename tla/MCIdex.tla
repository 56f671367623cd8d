------------------------------- MODULE MCIdex -------------------------------
(* Small instances of Idex for TLC.                                        *)
EXTENDS Idex, TLC

CONSTANTS IfLock, GetStats, c1, c2

\* IfLock is answered without payload, GetStats with one word.
MCRespLen == (IfLock :> 0) @@ (GetStats :> 1)
\* A caller compiled against an older reply of GetStats.
MCShortRoom == (IfLock :> 0) @@ (GetStats :> 0)
MCQuota == (c1 :> 2) @@ (c2 :> 1)
=============================================================================
