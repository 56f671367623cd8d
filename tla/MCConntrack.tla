----------------------------- MODULE MCConntrack -----------------------------
(***************************************************************************)
(* Two connections that share the reply direction (the client translates   *)
(* addresses), all with the same hash.                                     *)
(***************************************************************************)
EXTENDS Conntrack

CONSTANTS a, b, r

MCPairs == {<<a, r>>}
MCBucket == [t \in Tuples |-> 0]
=============================================================================
