------------------------------ MODULE MCL2Bridge ------------------------------
(***************************************************************************)
(* Three hash slots: VLANs 2, 5 and 8 share one.  Clients put interfaces   *)
(* into VLAN 5, which also has the static entries.                         *)
(***************************************************************************)
EXTENDS L2Bridge

MCKeyVlan == [k \in Keys |-> 5]
MCIfsOf == [v \in Vlans |-> IF v = 5 THEN Ifs ELSE {}]
=============================================================================
